--------------------------- MODULE MCLegacyClient ----------------------------
(***************************************************************************)
(* Instances of LegacyClient for TLC.                                      *)
(***************************************************************************)
EXTENDS LegacyClient, TLC

CONSTANTS x, k1, k2, k3
=============================================================================
