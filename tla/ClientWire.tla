------------------------------ MODULE ClientWire ------------------------------
(***************************************************************************)
(* What a client writes on a connection, and what the broker makes of it.  *)
(* Sequences of requests; the asyncio and the Twisted client extend this   *)
(* module.                                                                 *)
(***************************************************************************)
EXTENDS Naturals, Sequences, FiniteSets

CONSTANT Chans

Auth == [op |-> "AUTH"]
Request(op, ch) == [op |-> op, chan |-> ch]

Requests == {Auth} \cup [op : {"SUBSCRIBE", "UNSUBSCRIBE", "PUBLISH"}, chan : Chans]

\* The orders in which a set may be enumerated.
Orders(S) == {s \in [1 .. Cardinality(S) -> S] : \A x \in S : \E i \in DOMAIN s : s[i] = x}

\* A bug: what was subscribed to before the connection was ready is left out.
ResubscribedNever(order) == << >>

Resubscribed(order) == [i \in DOMAIN order |-> Request("SUBSCRIBE", order[i])]

\* The broker's lists for a connection that has sent AUTH, after request m.
Serving(channels, m) == CASE m.op = "SUBSCRIBE"   -> channels \cup {m.chan}
                          [] m.op = "UNSUBSCRIBE" -> channels \ {m.chan}
                          [] OTHER                -> channels

\* What a proper client may say to a broker that serves these channels: AUTH first
\* and once, SUBSCRIBE and UNSUBSCRIBE only when they change something.
Proper(authed, channels, m) ==
  /\ authed <=> m # Auth
  /\ m.op = "SUBSCRIBE"   => m.chan \notin channels
  /\ m.op = "UNSUBSCRIBE" => m.chan \in channels

\* The broker takes nothing before AUTH.
MayFollow(authed, q) == authed \/ (q # << >> /\ Head(q) = Auth)

\* The requests of q about a channel.
About(q, ch) == {i \in DOMAIN q : q[i] \in {Request("SUBSCRIBE", ch), Request("UNSUBSCRIBE", ch)}}

\* What the broker will serve once it has taken q: for each channel, what the
\* last request about it says.
WillServe(authed, channels, q) ==
  IF ~MayFollow(authed, q) THEN {}
  ELSE {ch \in Chans : IF About(q, ch) = {} THEN ch \in channels
                       ELSE \E i \in About(q, ch) : /\ \A j \in About(q, ch) : j <= i
                                                    /\ q[i].op = "SUBSCRIBE"}
=============================================================================
