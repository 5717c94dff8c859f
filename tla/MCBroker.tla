------------------------------ MODULE MCBroker -------------------------------
(***************************************************************************)
(* Instances of Broker for TLC.  A peer is a small automaton: the families *)
(* below differ in how well behaved it is.  A budget of messages bounds it. *)
(* alice is checked synchronously, bob asynchronously.                     *)
(***************************************************************************)
EXTENDS Broker, TLC

CONSTANTS c1, c2, c3, alice, bob, x, y, Budget, MaxChunk

Symmetry == Permutations(Conns)

Auth(i, g)     == [op |-> "AUTH", ident |-> i, good |-> g]
On(op, i, ch)  == [op |-> op, ident |-> i, chan |-> ch]
Full           == [pub |-> Chans, sub |-> Chans]
PublishOnly    == [pub |-> Chans, sub |-> {}]

\* The authenticator grants everything; or it changes its mind between lookups.
AllRights == [i \in Idents |-> {Full}]
Changes   == [i \in Idents |-> IF i = alice THEN {Full, None} ELSE {Full, PublishOnly}]

\* The chunks of at most MaxChunk messages along a relation of moves
\* [from, msg, to].
Chunked(moves) ==
  LET step[n \in 1 .. MaxChunk] ==
        IF n = 1
        THEN {[from |-> m.from, chunk |-> <<m.msg>>, to |-> m.to] : m \in moves}
        ELSE {[from |-> p[1].from, chunk |-> Append(p[1].chunk, p[2].msg), to |-> p[2].to] :
                p \in {q \in step[n - 1] \X moves : q[1].to = q[2].from}}
  IN UNION {step[n] : n \in 1 .. MaxChunk}

\* A peer in state [me, subs, n]: whom it logged in as last, what it has
\* subscribed to, and its budget.
Peers    == [me : Idents \cup {None}, subs : SUBSET Chans, n : 0 .. Budget]
NewPeer  == {[me |-> None, subs |-> {}, n |-> Budget]}
Spenders == {p \in Peers : p.n > 0}
Spend(p, m) == [from |-> p, msg |-> m, to |-> [p EXCEPT !.n = @ - 1]]

LogsIn(p)       == {[from |-> p, msg |-> Auth(i, TRUE), to |-> [p EXCEPT !.me = i, !.n = @ - 1]] : i \in Idents}
Subscribes(p)   == {[from |-> p, msg |-> On("SUBSCRIBE", p.me, ch),
                     to |-> [p EXCEPT !.subs = @ \cup {ch}, !.n = @ - 1]] : ch \in Chans \ p.subs}
Unsubscribes(p) == {[from |-> p, msg |-> On("UNSUBSCRIBE", p.me, ch),
                     to |-> [p EXCEPT !.subs = @ \ {ch}, !.n = @ - 1]] : ch \in p.subs}
Publishes(p)    == {Spend(p, On("PUBLISH", p.me, ch)) : ch \in Chans}

\* Any message in any order.  The peer keeps no account of what it did.
AnyMsgs == {Auth(bob, TRUE), [op |-> "INFO"], [op |-> "UNKNOWN"], On("PUBLISH", bob, x), On("SUBSCRIBE", bob, x), On("UNSUBSCRIBE", bob, x)}
AnySends == Chunked({Spend(p, m) : p \in {q \in Spenders : q.me = None /\ q.subs = {}}, m \in AnyMsgs})

\* The same for duplicates of SUBSCRIBE alone.
RepeatMsgs == {Auth(alice, TRUE), On("PUBLISH", alice, x), On("SUBSCRIBE", alice, x), On("UNSUBSCRIBE", alice, x)}
RepeatSends == Chunked({Spend(p, m) : p \in {q \in Spenders : q.me = None /\ q.subs = {}}, m \in RepeatMsgs})

\* It never subscribes twice to a channel, but may log in again and
\* unsubscribe from what it is not subscribed to.
OnceSends == Chunked(UNION {
  LogsIn(p) \cup IF p.me = None THEN {} ELSE
    Subscribes(p) \cup Publishes(p) \cup Unsubscribes(p)
      \cup {Spend(p, On("UNSUBSCRIBE", p.me, x))} : p \in Spenders})

\* A proper client: it logs in first and once, and then does only what it is
\* entitled to.
ProperSends == Chunked(UNION {
  IF p.me = None THEN LogsIn(p)
  ELSE Subscribes(p) \cup Unsubscribes(p) \cup Publishes(p) : p \in Spenders})

\* The assumptions of the theorems about peers that behave hold of these.
PeersAssumption ==
  /\ Sends \in {OnceSends, ProperSends} =>
       NeverTwice([p \in ClientStates |-> p.subs]) /\ OnlyRequests
  /\ Sends = ProperSends =>
       /\ ProperPeers([p \in ClientStates |-> [me |-> p.me, subs |-> p.subs]])
       /\ Answers = AllRights => Entitled([i \in Idents |-> Full])
ASSUME PeersAssumption
=============================================================================
