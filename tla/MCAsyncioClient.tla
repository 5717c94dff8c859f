--------------------------- MODULE MCAsyncioClient ---------------------------
(***************************************************************************)
(* Instances of AsyncioClient for TLC.                                     *)
(***************************************************************************)
EXTENDS AsyncioClient, TLC

CONSTANTS x, y
=============================================================================
