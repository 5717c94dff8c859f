--------------------------- MODULE MCTwistedClient ---------------------------
(***************************************************************************)
(* Instances of TwistedClient for TLC.                                     *)
(***************************************************************************)
EXTENDS TwistedClient, TLC

CONSTANTS x, y
=============================================================================
