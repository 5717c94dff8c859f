-------------------------- MODULE MCBlockingClient --------------------------
(***************************************************************************)
(* Instances of BlockingClient for TLC.                                    *)
(***************************************************************************)
EXTENDS BlockingClient, TLC

CONSTANTS u1, u2
=============================================================================
