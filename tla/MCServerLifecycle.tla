-------------------------- MODULE MCServerLifecycle --------------------------
(***************************************************************************)
(* Instances of ServerLifecycle for TLC.                                   *)
(***************************************************************************)
EXTENDS ServerLifecycle, TLC

CONSTANTS c1, c2, u, v, w

TheStack     == <<"json", "sqlite", "mongo", "env">>
TheEndpoints == <<"tls", "tcp", "tls">>

\* w is known to the last only, behind an authenticator that answers later.
TheUsers == "json" :> {u} @@ "sqlite" :> {u, v} @@ "mongo" :> {} @@ "env" :> {w}
=============================================================================
