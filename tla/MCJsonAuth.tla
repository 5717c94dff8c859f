----------------------------- MODULE MCJsonAuth -----------------------------
(***************************************************************************)
(* Instances of JsonAuth for TLC.                                          *)
(***************************************************************************)
EXTENDS JsonAuth, TLC
=============================================================================
