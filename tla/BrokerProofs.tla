---------------------------- MODULE BrokerProofs -----------------------------
(***************************************************************************)
(* The safety of Broker, for any number of connections, identities and     *)
(* channels and any authenticator.                                         *)
(*                                                                         *)
(* The first half holds for any peers.  TypeOK is inductive by itself; for *)
(* the rest BrokerInv adds Untouched to the properties themselves: before  *)
(* connection_made nothing refers to a connection.                         *)
(*                                                                         *)
(* The second half is about what the broker promises to peers that behave, *)
(* and says how far they must.  A view gives the account of a peer in each *)
(* of its states.  The proofs carry the account of a peer before the       *)
(* messages the broker has buffered, which are a path from it to the       *)
(* account the peer keeps now.                                             *)
(***************************************************************************)
EXTENDS Broker, FiniteSetTheorems, TLAPS

-----------------------------------------------------------------------------
(* Types: one lemma per building block and per action, the transport's      *)
(* operators first.                                                         *)

(* The transport's operators stay within Links. *)
LEMMA LinkOps ==
  ASSUME NEW l \in Links
  PROVE  /\ Checked(l) \in Links /\ Aborted(l) \in Links /\ Closed(l) \in Links
         /\ ReadingPaused(l) \in Links /\ ReadingResumed(l) \in Links
         /\ Limited(l) \in Links
         /\ [l EXCEPT !.state = "open"] \in Links
         /\ [l EXCEPT !.state = "lost"] \in Links
         /\ \A n \in 1 .. l.out : Drained(l, n) \in Links
<1>1. Checked(l) \in Links
  BY DEF Links, Checked
<1>2. Aborted(l) \in Links
  BY DEF Links, Aborted, Writable
<1>3. Closed(l) \in Links
  BY DEF Links, Closed
<1>4. ReadingPaused(l) \in Links /\ ReadingResumed(l) \in Links
  BY DEF Links, ReadingPaused, ReadingResumed
<1>5. Limited(l) \in Links
  BY DEF Links, Limited, Checked
<1>6. [l EXCEPT !.state = "open"] \in Links /\ [l EXCEPT !.state = "lost"] \in Links
  BY DEF Links
<1>7. ASSUME NEW n \in 1 .. l.out PROVE Drained(l, n) \in Links
  <2>1. l.out \in Nat /\ l.out - n \in Nat
    BY DEF Links
  <2> QED  BY <2>1 DEF Links, Drained
<1> QED  BY <1>1, <1>2, <1>3, <1>4, <1>5, <1>6, <1>7

LEMMA WrittenType ==
  ASSUME NEW l \in Links, NEW k
  PROVE  Written(l, k) \in Links
<1>1. [l EXCEPT !.out = @ + 1] \in Links /\ [l EXCEPT !.out = 1] \in Links
  BY DEF Links
<1>2. /\ Checked([l EXCEPT !.out = @ + 1]) \in Links
      /\ Checked([l EXCEPT !.out = 1]) \in Links
      /\ Aborted(l) \in Links
  BY <1>1, LinkOps
<1> QED  BY <1>2 DEF Written

(* The transport tells its Connection of pauses: the timer stays in its type. *)
LEMMA FlowControlType ==
  ASSUME TypeOK, FlowControl
  PROVE  timer' \in [Conns -> {"none", "armed", "fired"}]
BY DEF TypeOK, FlowControl

LEMMA RejectType ==
  ASSUME TypeOK, NEW c \in Conns, NEW k, Reject(c, k)
  PROVE  link' \in [Conns -> Links]
<1>1. link[c] \in Links
  BY DEF TypeOK
<1>2. Closed(Written(link[c], k)) \in Links
  BY <1>1, WrittenType, LinkOps
<1> QED  BY <1>2 DEF TypeOK, Reject

(* What TypeOK says of the server's state. *)
ServerType ==
  /\ hasServer \in [Conns -> BOOLEAN]
  /\ connections \in SUBSET Conns
  /\ active \in [Conns -> SUBSET Chans]
  /\ subscriptions \in [Chans -> [Conns -> Nat]]
  /\ clientConnections \in Int
  /\ subscriptionsGauge \in Gauges

LEMMA CardType ==
  ASSUME NEW S \in SUBSET Conns
  PROVE  IsFiniteSet(S) /\ Cardinality(S) \in Nat
BY BrokerAssumption, FS_Subset, FS_CardinalityType

LEMMA RemovedType ==
  ASSUME NEW n \in Nat
  PROVE  Removed(n) \in Nat
BY DEF Removed

LEMMA ConnectionLostType ==
  ASSUME TypeOK, NEW L \in SUBSET Conns, ConnectionLost(L)
  PROVE  ServerType'
<1>1. Cardinality(L) \in Nat
  BY CardType
<1>2. clientConnections' \in Int /\ connections' \in SUBSET Conns
  BY <1>1 DEF TypeOK, ConnectionLost
<1>3. hasServer' \in [Conns -> BOOLEAN] /\ active' \in [Conns -> SUBSET Chans]
  BY DEF TypeOK, ConnectionLost
<1>4. subscriptions' \in [Chans -> [Conns -> Nat]]
  <2>1. \A ch \in Chans, c \in Conns :
          subscriptions[ch][c] \in Nat /\ Removed(subscriptions[ch][c]) \in Nat
    BY RemovedType DEF TypeOK
  <2> QED  BY <2>1 DEF ConnectionLost
<1>5. subscriptionsGauge' \in Gauges
  <2> DEFINE S(i, ch) == {c \in Conns : Delisted(L, c, ch) /\ ak[c] = i}
  <2>1. \A i \in Idents, ch \in Chans :
          Cardinality(S(i, ch)) \in Nat
    BY CardType
  <2>2. \A i \in Idents, ch \in Chans : subscriptionsGauge[i][ch] \in Int
    BY DEF TypeOK, Gauges
  <2>3. \A i \in Idents, ch \in Chans :
          subscriptionsGauge[i][ch] - Cardinality(S(i, ch)) \in Int
    BY <2>1, <2>2
  <2>4. subscriptionsGauge' = [i \in Idents |-> [ch \in Chans |->
          subscriptionsGauge[i][ch] - Cardinality(S(i, ch))]]
    BY DEF ConnectionLost
  <2> HIDE DEF S
  <2> QED  BY <2>3, <2>4 DEF Gauges
<1> QED  BY <1>2, <1>3, <1>4, <1>5 DEF ServerType

LEMMA LosesConnectionType ==
  ASSUME TypeOK, NEW c \in Conns, LosesConnection(c)
  PROVE  ServerType'
<1>1. CASE hasServer[c]
  BY <1>1, ConnectionLostType, {c} \in SUBSET Conns DEF LosesConnection
<1>2. CASE ~hasServer[c]
  BY <1>2 DEF LosesConnection, serverVars, ServerType, TypeOK
<1> QED  BY <1>1, <1>2

LEMMA RaiseType ==
  ASSUME TypeOK, NEW c \in Conns, NEW l \in Links, Raise(c, l)
  PROVE  link' \in [Conns -> Links] /\ loop' \in Frames \cup {None}
<1>1. Aborted(l) \in Links
  BY LinkOps
<1> QED  BY <1>1 DEF TypeOK, Raise

LEMMA EndLoopType ==
  ASSUME TypeOK, NEW c \in Conns, NEW l \in Links, EndLoop(c, l), loop # None
  PROVE  link' \in [Conns -> Links] /\ loop' \in Frames \cup {None}
<1>1. ReadingResumed(l) \in Links
  BY LinkOps
<1>2. link' \in [Conns -> Links]
  BY <1>1 DEF TypeOK, EndLoop
<1>3. loop \in Frames
  BY DEF TypeOK
<1>4. CASE loop.depth = 0
  BY <1>2, <1>4 DEF EndLoop
<1>5. CASE loop.depth # 0
  <2>1. loop.depth - 1 \in Nat
    BY <1>3, <1>5 DEF Frames
  <2>2. [loop EXCEPT !.depth = @ - 1] \in Frames
    BY <1>3, <2>1 DEF Frames
  <2> QED  BY <1>2, <1>5, <2>2 DEF EndLoop
<1> QED  BY <1>2, <1>4, <1>5

(* A handler consumes one message of the buffer. *)
LEMMA TakesType ==
  ASSUME TypeOK, NEW c \in Conns, NEW m, NEW ops, Takes(c, m, ops)
  PROVE  /\ m \in Msgs /\ m.op \in ops /\ buf' \in [Conns -> Seq(Msgs)]
         /\ loop # None /\ loop \in Frames /\ loop.conn = c
<1>1. buf[c] \in Seq(Msgs) /\ buf[c] # << >>
  BY DEF TypeOK, Takes, Handling
<1>2. Head(buf[c]) \in Msgs /\ Tail(buf[c]) \in Seq(Msgs)
  BY <1>1
<1> QED  BY <1>2 DEF TypeOK, Takes, Handling

LEMMA AppendType ==
  ASSUME NEW S, NEW s \in Seq(S), NEW e \in S
  PROVE  Append(s, e) \in Seq(S)
OBVIOUS

LEMMA UnchangedServer ==
  ASSUME TypeOK, UNCHANGED serverVars
  PROVE  ServerType'
BY DEF TypeOK, ServerType, serverVars

LEMMA EnvironmentType ==
  ASSUME TypeOK, NEW c \in Conns, Environment(c)
  PROVE  TypeOK'
<1>0. link[c] \in Links
  BY DEF TypeOK
<1>1. CASE Connect(c)
  <2>1. PICK k \in Kernel :
          link' = [link EXCEPT ![c] = Written([@ EXCEPT !.state = "open"], k)]
    BY <1>1 DEF Connect
  <2>2. Written([link[c] EXCEPT !.state = "open"], k) \in Links
    BY <1>0, LinkOps, WrittenType
  <2>3. link' \in [Conns -> Links]
    BY <2>1, <2>2 DEF TypeOK
  <2>4. connections' \in SUBSET Conns /\ clientConnections' \in Int
    BY <1>1 DEF TypeOK, Connect
  <2>5. timer' \in [Conns -> {"none", "armed", "fired"}]
    BY <1>1, FlowControlType DEF Connect
  <2> QED  BY <1>1, <2>3, <2>4, <2>5 DEF TypeOK, Connect, connVars, ghostVars
<1>2. CASE DataReceived(c)
  <2>1. PICK s \in Sends : /\ client' = [client EXCEPT ![c] = s.to]
                           /\ buf' = [buf EXCEPT ![c] = @ \o s.chunk]
    BY <1>2 DEF DataReceived
  <2>2. s.to \in ClientStates /\ s.chunk \in Seq(Msgs)
    BY BrokerAssumption
  <2>3. client' \in [Conns -> ClientStates] /\ buf' \in [Conns -> Seq(Msgs)]
    BY <2>1, <2>2 DEF TypeOK
  <2>4. loop' \in Frames
    BY <1>2 DEF DataReceived, Frames
  <2> QED
    BY <1>2, <2>3, <2>4 DEF TypeOK, DataReceived, connVars, serverVars, ghostVars
<1>3. CASE Eof(c)
  <2>1. Closed(link[c]) \in Links
    BY <1>0, LinkOps
  <2> QED  BY <1>3, <2>1, FlowControlType DEF TypeOK, Eof, connVars, serverVars, ghostVars
<1>4. CASE Reset(c)
  <2>1. Aborted(link[c]) \in Links
    BY <1>0, LinkOps
  <2> QED  BY <1>4, <2>1, FlowControlType DEF TypeOK, Reset, connVars, serverVars, ghostVars
<1>5. CASE Drain(c)
  <2>1. PICK n \in 1 .. link[c].out :
          LET l == Drained(link[c], n) IN
          IF l.state = "closing" /\ l.out = 0
          THEN /\ link' = [link EXCEPT ![c] = [l EXCEPT !.state = "lost"]]
               /\ LosesConnection(c)
          ELSE /\ link' = [link EXCEPT ![c] = l]
               /\ UNCHANGED serverVars
    BY <1>5 DEF Drain
  <2>2. Drained(link[c], n) \in Links
    BY <1>0, LinkOps
  <2>3. [Drained(link[c], n) EXCEPT !.state = "lost"] \in Links
    BY <2>2, LinkOps
  <2>4. link' \in [Conns -> Links]
    BY <2>1, <2>2, <2>3 DEF TypeOK
  <2>5. ServerType'
    BY <2>1, LosesConnectionType, UnchangedServer
  <2> QED
    BY <1>5, <2>4, <2>5, FlowControlType DEF TypeOK, ServerType, Drain, connVars, ghostVars
<1> QED  BY <1>1, <1>2, <1>3, <1>4, <1>5 DEF Environment

LEMMA LostType ==
  ASSUME TypeOK, NEW c \in Conns, Lost(c)
  PROVE  TypeOK'
<1>1. link[c] \in Links
  BY DEF TypeOK
<1>2. [link[c] EXCEPT !.state = "lost"] \in Links
  BY <1>1, LinkOps
<1>3. link' \in [Conns -> Links]
  BY <1>2 DEF TypeOK, Lost
<1>4. ServerType'
  BY LosesConnectionType DEF Lost
<1> QED
  BY <1>3, <1>4, FlowControlType DEF TypeOK, ServerType, Lost, connVars, ghostVars

LEMMA DeadlineExpiresType ==
  ASSUME TypeOK, NEW c \in Conns, DeadlineExpires(c)
  PROVE  TypeOK'
<1>1. link' \in [Conns -> Links]
  BY RejectType DEF DeadlineExpires
<1> QED  BY <1>1 DEF TypeOK, DeadlineExpires, connVars, serverVars, ghostVars

LEMMA TasksType ==
  ASSUME TypeOK, NEW c \in Conns, NEW m \in AuthMsgs
  PROVE  /\ [tasks EXCEPT ![c][m] = @ + 1] \in [Conns -> [AuthMsgs -> Nat]]
         /\ tasks[c][m] > 0 =>
              [tasks EXCEPT ![c][m] = @ - 1] \in [Conns -> [AuthMsgs -> Nat]]
<1>1. tasks[c][m] \in Nat
  BY DEF TypeOK
<1>2. tasks[c][m] + 1 \in Nat /\ (tasks[c][m] > 0 => tasks[c][m] - 1 \in Nat)
  BY <1>1
<1> QED  BY <1>2 DEF TypeOK

LEMMA AcceptType ==
  ASSUME TypeOK, NEW c \in Conns, NEW m \in AuthMsgs, NEW row \in Answers[m.ident],
         NEW f \in Frames, Accept(c, m, row, f)
  PROVE  /\ link' \in [Conns -> Links] /\ loop' \in Frames \cup {None}
         /\ ak' \in [Conns -> Idents \cup {None}]
         /\ pubchans' \in [Conns -> SUBSET Chans]
         /\ subchans' \in [Conns -> SUBSET Chans]
<1>1. m.ident \in Idents
  BY DEF AuthMsgs
<1>2. row \in Rows
  BY <1>1, BrokerAssumption DEF Accept
<1>3. row.pub \in SUBSET Chans /\ row.sub \in SUBSET Chans
  BY <1>2 DEF Rows
<1>4. link[c] \in Links /\ Limited(link[c]) \in Links
  BY LinkOps DEF TypeOK
<1> QED  BY <1>1, <1>3, <1>4 DEF TypeOK, Accept

LEMMA RefuseType ==
  ASSUME TypeOK, NEW c \in Conns, NEW m, NEW row, Refuse(c, m, row)
  PROVE  /\ link' \in [Conns -> Links] /\ loop' \in Frames \cup {None}
         /\ ak' \in [Conns -> Idents \cup {None}]
         /\ pubchans' \in [Conns -> SUBSET Chans]
         /\ subchans' \in [Conns -> SUBSET Chans]
<1>1. link' \in [Conns -> Links]
  BY RejectType DEF Refuse
<1> QED  BY <1>1 DEF TypeOK, Refuse, connVars

LEMMA AuthResultType ==
  ASSUME TypeOK, NEW c \in Conns, AuthResult(c)
  PROVE  TypeOK'
<1> DEFINE F == [conn |-> c, via |-> "task", depth |-> 1]
<1>1. PICK m \in AuthMsgs :
        /\ tasks[c][m] > 0
        /\ tasks' = [tasks EXCEPT ![c][m] = @ - 1]
        /\ \E row \in Answers[m.ident] : Accept(c, m, row, F) \/ Refuse(c, m, row)
  BY DEF AuthResult
<1>2. F \in Frames
  BY DEF Frames
<1>3. tasks' \in [Conns -> [AuthMsgs -> Nat]]
  BY <1>1, TasksType
<1>4. /\ link' \in [Conns -> Links] /\ loop' \in Frames \cup {None}
      /\ ak' \in [Conns -> Idents \cup {None}]
      /\ pubchans' \in [Conns -> SUBSET Chans]
      /\ subchans' \in [Conns -> SUBSET Chans]
  <2> HIDE DEF F
  <2> QED  BY <1>1, <1>2, AcceptType, RefuseType
<1> QED
  BY <1>3, <1>4, FlowControlType DEF TypeOK, AuthResult, serverVars, ghostVars

LEMMA AuthErrorType ==
  ASSUME TypeOK, NEW c \in Conns, AuthError(c)
  PROVE  TypeOK'
<1>1. tasks' \in [Conns -> [AuthMsgs -> Nat]]
  BY TasksType DEF AuthError
<1>2. link' \in [Conns -> Links]
  BY RejectType DEF AuthError
<1> QED
  BY <1>1, <1>2, FlowControlType DEF TypeOK, AuthError, connVars, serverVars, ghostVars

LEMMA UndecodableType ==
  ASSUME TypeOK, NEW c \in Conns, Undecodable(c)
  PROVE  TypeOK'
<1>1. link[c] \in Links /\ Closed(link[c]) \in Links
  BY LinkOps DEF TypeOK
<1>2. link' \in [Conns -> Links] /\ loop' \in Frames \cup {None}
  BY <1>1, EndLoopType DEF Undecodable, Handling
<1> QED
  BY <1>2, FlowControlType DEF TypeOK, Undecodable, connVars, serverVars, ghostVars

LEMMA NotAuthFirstType ==
  ASSUME TypeOK, NEW c \in Conns, NotAuthFirst(c)
  PROVE  TypeOK'
<1>1. buf' \in [Conns -> Seq(Msgs)]
  BY TakesType DEF NotAuthFirst
<1>2. link' \in [Conns -> Links]
  BY RejectType DEF NotAuthFirst
<1> QED
  BY <1>1, <1>2, FlowControlType DEF TypeOK, NotAuthFirst, connVars, serverVars, ghostVars

LEMMA OnAuthSyncType ==
  ASSUME TypeOK, NEW c \in Conns, OnAuthSync(c)
  PROVE  TypeOK'
<1> DEFINE F == [loop EXCEPT !.depth = @ + 1]
<1>1. PICK m \in AuthMsgs :
        /\ Takes(c, m, {"AUTH"})
        /\ \E row \in Answers[m.ident] : Accept(c, m, row, F) \/ Refuse(c, m, row)
  BY DEF OnAuthSync
<1>2. buf' \in [Conns -> Seq(Msgs)] /\ loop \in Frames
  BY <1>1, TakesType
<1>3. F \in Frames
  <2>1. loop.depth + 1 \in Nat
    BY <1>2 DEF Frames
  <2> QED  BY <1>2, <2>1 DEF Frames
<1>4. /\ link' \in [Conns -> Links] /\ loop' \in Frames \cup {None}
      /\ ak' \in [Conns -> Idents \cup {None}]
      /\ pubchans' \in [Conns -> SUBSET Chans]
      /\ subchans' \in [Conns -> SUBSET Chans]
  <2> HIDE DEF F
  <2> QED  BY <1>1, <1>3, AcceptType, RefuseType
<1> QED
  BY <1>2, <1>4, FlowControlType DEF TypeOK, OnAuthSync, serverVars, ghostVars

LEMMA OnAuthAsyncType ==
  ASSUME TypeOK, NEW c \in Conns, OnAuthAsync(c)
  PROVE  TypeOK'
<1>1. PICK m \in AuthMsgs :
        Takes(c, m, {"AUTH"}) /\ tasks' = [tasks EXCEPT ![c][m] = @ + 1]
  BY DEF OnAuthAsync
<1>2. buf' \in [Conns -> Seq(Msgs)] /\ loop # None
  BY <1>1, TakesType
<1>3. tasks' \in [Conns -> [AuthMsgs -> Nat]]
  BY <1>1, TasksType
<1>4. link[c] \in Links /\ ReadingPaused(link[c]) \in Links
  BY LinkOps DEF TypeOK
<1>5. link' \in [Conns -> Links] /\ loop' \in Frames \cup {None}
  BY <1>2, <1>4, EndLoopType DEF OnAuthAsync
<1> QED
  BY <1>2, <1>3, <1>5, FlowControlType
     DEF TypeOK, OnAuthAsync, connVars, serverVars, ghostVars

LEMMA PublishRefusedType ==
  ASSUME TypeOK, NEW c \in Conns, PublishRefused(c)
  PROVE  TypeOK'
<1>1. buf' \in [Conns -> Seq(Msgs)]
  BY TakesType DEF PublishRefused
<1>2. link' \in [Conns -> Links]
  BY RejectType DEF PublishRefused
<1> QED
  BY <1>1, <1>2, FlowControlType DEF TypeOK, PublishRefused, connVars, serverVars, ghostVars

(* Server.publish sends to the open connections among `done` and takes the *)
(* closing ones among them down.                                           *)
Walk(c, m, done, how) ==
  LET served == done \cap Live(m.chan)
      lnk == [d \in Conns |-> IF d \in served THEN Written(link[d], how[d])
                              ELSE link[d]]
  IN /\ inbox' = [d \in Conns |->
                    IF d \in served
                    THEN Append(inbox[d], [ident |-> ak[c], chan |-> m.chan])
                    ELSE inbox[d]]
     /\ ConnectionLost(done \cap Gone(m.chan))
     /\ IF Stale(m.chan) = {}
        THEN link' = lnk /\ UNCHANGED loop
        ELSE /\ link' = [lnk EXCEPT ![c] = IF loop.via = "data"
                                           THEN Aborted(@) ELSE @]
             /\ loop' = None

LEMMA PublishWalks ==
  ASSUME NEW c \in Conns, Publish(c)
  PROVE  \E m \in ChanMsgs, done \in SUBSET Conns, how \in [Conns -> Kernel] :
           /\ Takes(c, m, {"PUBLISH"})
           /\ ak[c] # None /\ m.ident = ak[c] /\ m.chan \in pubchans[c]
           /\ published' = published + 1
           /\ Walk(c, m, done, how)
<1>1. PICK m \in ChanMsgs :
        /\ Takes(c, m, {"PUBLISH"})
        /\ ak[c] # None /\ m.ident = ak[c] /\ m.chan \in pubchans[c]
        /\ published' = published + 1
        /\ \E done \in Walks(m.chan), how \in [Conns -> Kernel] : Walk(c, m, done, how)
  BY DEF Publish, Walk
<1>2. Walks(m.chan) \subseteq SUBSET Conns
  BY DEF Walks, Listed, Live, Gone
<1> QED  BY <1>1, <1>2

LEMMA PublishType ==
  ASSUME TypeOK, NEW c \in Conns, Publish(c)
  PROVE  TypeOK'
<1>1. PICK m \in ChanMsgs, done \in SUBSET Conns, how \in [Conns -> Kernel] :
        /\ Takes(c, m, {"PUBLISH"}) /\ m.ident = ak[c]
        /\ published' = published + 1
        /\ Walk(c, m, done, how)
  BY PublishWalks
<1> DEFINE served == done \cap Live(m.chan)
           lnk == [d \in Conns |-> IF d \in served THEN Written(link[d], how[d])
                                   ELSE link[d]]
<1>2. buf' \in [Conns -> Seq(Msgs)] /\ loop \in Frames
  BY <1>1, TakesType
<1>3. ServerType'
  BY <1>1, ConnectionLostType DEF Walk
<1>4. lnk \in [Conns -> Links]
  <2>1. \A d \in Conns : link[d] \in Links /\ Written(link[d], how[d]) \in Links
    BY WrittenType DEF TypeOK
  <2> QED  BY <2>1
<1>5. link' \in [Conns -> Links] /\ loop' \in Frames \cup {None}
  <2> HIDE DEF lnk
  <2>1. lnk[c] \in Links /\ Aborted(lnk[c]) \in Links
    BY <1>4, LinkOps
  <2>2. \/ link' = lnk /\ loop' = loop
        \/ link' = [lnk EXCEPT ![c] = Aborted(@)] /\ loop' = None
        \/ link' = lnk /\ loop' = None
    <3>1. \/ link' = lnk /\ loop' = loop
          \/ /\ link' = [lnk EXCEPT ![c] = IF loop.via = "data"
                                           THEN Aborted(@) ELSE @]
             /\ loop' = None
      BY <1>1 DEF lnk, served, Walk
    <3>2. [lnk EXCEPT ![c] = @] = lnk
      BY <1>4
    <3> QED  BY <3>1, <3>2
  <2> QED  BY <1>2, <1>4, <2>1, <2>2
<1>6. inbox' \in [Conns -> Seq([ident : Idents, chan : Chans])]
  <2>1. [ident |-> ak[c], chan |-> m.chan] \in [ident : Idents, chan : Chans]
    BY <1>1 DEF ChanMsgs
  <2>2. \A d \in Conns : inbox[d] \in Seq([ident : Idents, chan : Chans])
    BY DEF TypeOK
  <2>3. \A d \in Conns : Append(inbox[d], [ident |-> ak[c], chan |-> m.chan])
                           \in Seq([ident : Idents, chan : Chans])
    BY <2>1, <2>2, AppendType
  <2> QED  BY <1>1, <2>2, <2>3 DEF Walk
<1>7. published' \in Nat
  BY <1>1 DEF TypeOK
<1>8. timer' \in [Conns -> {"none", "armed", "fired"}]
  BY FlowControlType DEF Publish
<1>9. UNCHANGED <<tasks, client, connVars, granted>>
  BY DEF Publish
<1> QED
  BY <1>2, <1>3, <1>5, <1>6, <1>7, <1>8, <1>9 DEF TypeOK, ServerType, connVars

LEMMA SubscribeType ==
  ASSUME TypeOK, NEW c \in Conns, Subscribe(c)
  PROVE  TypeOK'
<1>1. PICK m \in ChanMsgs :
        /\ Takes(c, m, {"SUBSCRIBE"})
        /\ Enlist(c, m.chan)
        /\ IF m.chan \in subchans[c]
           THEN /\ granted' = [granted EXCEPT ![c] = @ \cup {m.chan}]
                /\ UNCHANGED link
           ELSE SubscribeRefused(c) /\ UNCHANGED granted
  BY DEF Subscribe
<1>2. buf' \in [Conns -> Seq(Msgs)]
  BY <1>1, TakesType
<1>3. ak[c] \in Idents /\ m.chan \in Chans
  BY DEF Subscribe, TypeOK, ChanMsgs
<1>4. link' \in [Conns -> Links]
  BY <1>1, RejectType DEF SubscribeRefused, TypeOK
<1>5. granted' \in [Conns -> SUBSET Chans]
  <2>1. granted[c] \cup {m.chan} \in SUBSET Chans
    BY <1>3 DEF TypeOK
  <2> QED  BY <1>1, <2>1 DEF TypeOK
<1>6. ServerType'
  <2>1. subscriptionsGauge' \in Gauges
    <3>1. subscriptionsGauge[ak[c]][m.chan] + 1 \in Int
      BY <1>3 DEF TypeOK, Gauges
    <3> QED  BY <1>1, <1>3, <3>1 DEF TypeOK, Gauges, Enlist
  <2>2. subscriptions' \in [Chans -> [Conns -> Nat]]
    <3>1. subscriptions[m.chan][c] + 1 \in Nat
      BY <1>3 DEF TypeOK
    <3> QED  BY <1>1, <1>3, <3>1 DEF TypeOK, Enlist
  <2>3. active' \in [Conns -> SUBSET Chans]
    BY <1>1, <1>3 DEF TypeOK, Enlist
  <2> QED  BY <1>1, <2>1, <2>2, <2>3 DEF TypeOK, ServerType, Enlist
<1> QED
  BY <1>2, <1>4, <1>5, <1>6, FlowControlType DEF TypeOK, ServerType, Subscribe, connVars

LEMMA UnsubscribeType ==
  ASSUME TypeOK, NEW c \in Conns, Unsubscribe(c)
  PROVE  TypeOK'
<1>1. PICK m \in ChanMsgs : Takes(c, m, {"UNSUBSCRIBE"}) /\ Delist(c, m.chan)
  BY DEF Unsubscribe
<1>2. buf' \in [Conns -> Seq(Msgs)]
  BY <1>1, TakesType
<1>3. ak[c] \in Idents /\ m.chan \in Chans
  BY DEF Unsubscribe, TypeOK, ChanMsgs
<1>4. ServerType'
  <2>1. subscriptionsGauge' \in Gauges
    <3>1. subscriptionsGauge[ak[c]][m.chan] - 1 \in Int
      BY <1>3 DEF TypeOK, Gauges
    <3> QED  BY <1>1, <1>3, <3>1 DEF TypeOK, Gauges, Delist
  <2>2. subscriptions' \in [Chans -> [Conns -> Nat]]
    <3>1. subscriptions[m.chan][c] \in Nat
      BY <1>3 DEF TypeOK
    <3>2. Removed(subscriptions[m.chan][c]) \in Nat
      BY <3>1, RemovedType
    <3> QED  BY <1>1, <1>3, <3>2 DEF TypeOK, Delist
  <2>3. active' \in [Conns -> SUBSET Chans]
    BY <1>1, <1>3 DEF TypeOK, Delist
  <2> QED  BY <1>1, <2>1, <2>2, <2>3 DEF TypeOK, ServerType, Delist
<1> QED
  BY <1>2, <1>4 DEF TypeOK, ServerType, Unsubscribe, connVars, ghostVars

LEMMA ServerIsNoneType ==
  ASSUME TypeOK, NEW c \in Conns, ServerIsNone(c)
  PROVE  TypeOK'
<1>1. PICK m : \E ops : Takes(c, m, ops)
  BY DEF ServerIsNone
<1>2. buf' \in [Conns -> Seq(Msgs)]
  BY <1>1, TakesType
<1>3. \E l \in Links : Raise(c, l)
  <2>1. link[c] \in Links
    BY DEF TypeOK
  <2>2. \A k \in Kernel : Closed(Written(link[c], k)) \in Links
    BY <2>1, WrittenType, LinkOps
  <2>3. \/ Raise(c, link[c])
        \/ \E k \in Kernel : Raise(c, Closed(Written(link[c], k)))
    BY DEF ServerIsNone
  <2> QED  BY <2>1, <2>2, <2>3
<1>4. link' \in [Conns -> Links] /\ loop' \in Frames \cup {None}
  BY <1>3, RaiseType
<1> QED
  BY <1>2, <1>4, FlowControlType DEF TypeOK, ServerIsNone, connVars, serverVars, ghostVars

LEMMA NotImplementedType ==
  ASSUME TypeOK, NEW c \in Conns, NotImplemented(c)
  PROVE  TypeOK'
<1>1. buf' \in [Conns -> Seq(Msgs)]
  BY TakesType DEF NotImplemented
<1>2. link[c] \in Links
  BY DEF TypeOK
<1>3. link' \in [Conns -> Links] /\ loop' \in Frames \cup {None}
  BY <1>2, RaiseType DEF NotImplemented
<1> QED
  BY <1>1, <1>3, FlowControlType DEF TypeOK, NotImplemented, connVars, serverVars, ghostVars

LEMMA BufferEmptyType ==
  ASSUME TypeOK, NEW c \in Conns, BufferEmpty(c)
  PROVE  TypeOK'
<1>1. link[c] \in Links
  BY DEF TypeOK
<1>2. link' \in [Conns -> Links] /\ loop' \in Frames \cup {None}
  BY <1>1, EndLoopType DEF BufferEmpty
<1> QED
  BY <1>2, FlowControlType DEF TypeOK, BufferEmpty, connVars, serverVars, ghostVars

LEMMA InitType == Init => TypeOK
<1> SUFFICES ASSUME Init PROVE TypeOK
  OBVIOUS
<1>1. NewLink \in Links
  BY TransportAssumption DEF NewLink, Links
<1>2. << >> \in Seq(Msgs) /\ << >> \in Seq([ident : Idents, chan : Chans])
  OBVIOUS
<1>3. client \in [Conns -> ClientStates]
  BY BrokerAssumption DEF Init
<1> QED  BY <1>1, <1>2, <1>3 DEF Init, TypeOK, Gauges

LEMMA NextType ==
  ASSUME TypeOK, [Next]_vars
  PROVE  TypeOK'
<1>1. CASE UNCHANGED vars
  BY <1>1 DEF TypeOK, vars, connVars, serverVars, ghostVars
<1>2. ASSUME NEW c \in Conns, HandleMessage(c)
      PROVE  TypeOK'
  BY <1>2, UndecodableType, NotAuthFirstType, OnAuthSyncType, OnAuthAsyncType,
     PublishRefusedType, PublishType, SubscribeType, UnsubscribeType,
     ServerIsNoneType, NotImplementedType DEF HandleMessage
<1> QED
  BY <1>1, <1>2, EnvironmentType, LostType, DeadlineExpiresType, AuthResultType,
     AuthErrorType, BufferEmptyType DEF Next

(* The broker's state keeps its type: in particular no list of the server   *)
(* ever holds a negative number of entries and every process_pending() on    *)
(* the stack belongs to a connection.                                        *)
THEOREM TypeCorrect == Spec => []TypeOK
<1>1. Init => TypeOK
  BY InitType
<1>2. TypeOK /\ [Next]_vars => TypeOK'
  BY NextType
<1> QED  BY <1>1, <1>2, PTL DEF Spec
-----------------------------------------------------------------------------
(* Safety *)

Untouched ==
  /\ loop # None => link[loop.conn].state # "new"
  /\ \A c \in Conns : link[c].state = "new" =>
       /\ \A m \in AuthMsgs : tasks[c][m] = 0
       /\ \A ch \in Chans : subscriptions[ch][c] = 0
       /\ ~link[c].wpaused /\ timer[c] = "none"

(* k is what the transport l may become without a call of connection_made   *)
(* or connection_lost.                                                      *)
Later(l, k) ==
  /\ k.state = "open" => l.state = "open"
  /\ k.state = "new" <=> l.state = "new"
  /\ k.state = "lost" <=> l.state = "lost"

LEMMA LinkLater ==
  ASSUME NEW l \in Links, NEW k
  PROVE  /\ Later(l, Aborted(l)) /\ Later(l, Closed(l)) /\ Later(l, Limited(l))
         /\ Later(l, ReadingPaused(l)) /\ Later(l, ReadingResumed(l))
         /\ Later(l, Written(l, k)) /\ Later(l, Closed(Written(l, k)))
         /\ \A n \in 1 .. l.out : Later(l, Drained(l, n))
<1>1. Later(l, Aborted(l))
  BY DEF Links, Later, Aborted, Writable
<1>2. \A j \in Links : Later(j, Closed(j))
  BY DEF Links, Later, Closed
<1>3. \A j \in Links : Checked(j).state = j.state
  BY DEF Links, Checked
<1>4. Later(l, Limited(l))
  <2>1. [l EXCEPT !.high = AuthHigh] \in Links
    BY DEF Links
  <2> QED  BY <1>3, <2>1 DEF Links, Later, Limited
<1>5. Later(l, ReadingPaused(l)) /\ Later(l, ReadingResumed(l))
  BY DEF Links, Later, ReadingPaused, ReadingResumed
<1>6. Later(l, Written(l, k))
  <2>1. [l EXCEPT !.out = @ + 1] \in Links /\ [l EXCEPT !.out = 1] \in Links
    BY DEF Links
  <2>2. /\ Later(l, Checked([l EXCEPT !.out = @ + 1]))
        /\ Later(l, Checked([l EXCEPT !.out = 1]))
        /\ Later(l, l)
    BY <1>3, <2>1 DEF Links, Later
  <2> QED  BY <1>1, <2>2 DEF Written
<1>7. Later(l, Closed(Written(l, k)))
  <2>1. Written(l, k) \in Links
    BY WrittenType
  <2> QED  BY <1>2, <1>6, <2>1 DEF Later
<1>8. \A n \in 1 .. l.out : Later(l, Drained(l, n))
  BY DEF Links, Later, Drained
<1> QED  BY <1>1, <1>2, <1>4, <1>5, <1>6, <1>7, <1>8

(* The steps that leave the server alone and touch one transport only. *)
Quiet(c) ==
  \/ DataReceived(c) \/ Eof(c) \/ Reset(c)
  \/ DeadlineExpires(c) \/ AuthResult(c) \/ AuthError(c)
  \/ Undecodable(c) \/ NotAuthFirst(c) \/ OnAuthSync(c) \/ OnAuthAsync(c)
  \/ PublishRefused(c) \/ ServerIsNone(c) \/ NotImplemented(c) \/ BufferEmpty(c)

LEMMA RejectLater ==
  ASSUME TypeOK, NEW c \in Conns, NEW k, Reject(c, k)
  PROVE  \E l : /\ link' = [link EXCEPT ![c] = l] /\ Later(link[c], l)
                /\ l.state # "open"
<1>1. link[c] \in Links /\ Written(link[c], k) \in Links
  BY WrittenType DEF TypeOK
<1>2. Closed(Written(link[c], k)).state # "open"
  BY <1>1 DEF Closed, Links
<1>3. link' = [link EXCEPT ![c] = Closed(Written(link[c], k))]
  BY DEF Reject
<1> QED  BY <1>1, <1>2, <1>3, LinkLater

(* A step of one transport: c's, to a later state. *)
Moves(c) == \E l : link' = [link EXCEPT ![c] = l] /\ Later(link[c], l)

LEMMA EndLoopMoves ==
  ASSUME TypeOK, NEW c \in Conns, NEW l \in Links, Later(link[c], l), EndLoop(c, l),
         loop # None, loop.conn = c
  PROVE  Moves(c) /\ (loop' # None => loop'.conn = c)
<1>1. Later(link[c], ReadingResumed(l))
  BY LinkLater DEF Later
<1>2. Moves(c)
  BY <1>1 DEF EndLoop, Moves
<1>3. loop \in Frames
  BY DEF TypeOK
<1> QED  BY <1>2, <1>3 DEF EndLoop, Frames

LEMMA RaiseMoves ==
  ASSUME TypeOK, NEW c \in Conns, NEW l \in Links, Later(link[c], l), Raise(c, l)
  PROVE  Moves(c) /\ loop' = None
<1>1. Later(link[c], Aborted(l))
  BY LinkLater DEF Later
<1> QED  BY <1>1 DEF Raise, Moves

LEMMA AcceptMoves ==
  ASSUME TypeOK, NEW c \in Conns, NEW m, NEW row, NEW f, f.conn = c,
         Accept(c, m, row, f)
  PROVE  Moves(c) /\ loop'.conn = c
<1>1. Later(link[c], Limited(link[c]))
  BY LinkLater DEF TypeOK
<1> QED  BY <1>1 DEF Accept, Moves

LEMMA RefuseMoves ==
  ASSUME TypeOK, NEW c \in Conns, NEW m, NEW row, Refuse(c, m, row)
  PROVE  Moves(c) /\ loop' = loop
BY RejectLater DEF Refuse, Moves

(* Taking a message means that this connection's process_pending() runs.   *)
LEMMA HandlerRuns ==
  ASSUME Untouched, NEW c \in Conns, Handling(c)
  PROVE  loop # None /\ loop.conn = c /\ link[c].state # "new"
BY DEF Handling, Untouched

(* What a quiet step of c leaves alone. *)
LEMMA QuietFrame ==
  ASSUME TypeOK, NEW c \in Conns, Quiet(c)
  PROVE  /\ UNCHANGED serverVars /\ UNCHANGED ghostVars
         /\ \A d \in Conns : d # c => tasks'[d] = tasks[d]
         /\ FlowControl \/ UNCHANGED <<link, timer>> \/ DeadlineExpires(c)
<1>1. CASE DataReceived(c) \/ Eof(c) \/ Reset(c) \/ DeadlineExpires(c)
  BY <1>1 DEF DataReceived, Eof, Reset, DeadlineExpires, ghostVars
<1>2. CASE AuthResult(c) \/ AuthError(c)
  BY <1>2 DEF AuthResult, AuthError, ghostVars, TypeOK
<1>3. CASE Undecodable(c) \/ NotAuthFirst(c) \/ OnAuthSync(c) \/ PublishRefused(c)
  BY <1>3 DEF Undecodable, NotAuthFirst, OnAuthSync, PublishRefused, ghostVars
<1>4. CASE OnAuthAsync(c)
  BY <1>4 DEF OnAuthAsync, ghostVars, TypeOK
<1>5. CASE ServerIsNone(c) \/ NotImplemented(c) \/ BufferEmpty(c)
  BY <1>5 DEF ServerIsNone, NotImplemented, BufferEmpty, ghostVars
<1> QED  BY <1>1, <1>2, <1>3, <1>4, <1>5 DEF Quiet

(* What a quiet step of c does to c's transport and to the loop. *)
LEMMA QuietMoves ==
  ASSUME TypeOK, Untouched, NEW c \in Conns, Quiet(c)
  PROVE  /\ link[c].state # "new"
         /\ Moves(c)
         /\ loop' # None => loop'.conn = c
<1>0. link[c] \in Links /\ Later(link[c], link[c])
  BY DEF TypeOK, Later
<1>a. ASSUME UNCHANGED link PROVE Moves(c)
  BY <1>0, <1>a DEF Moves, TypeOK
<1>b. ASSUME Handling(c) PROVE loop # None /\ loop.conn = c /\ link[c].state # "new"
  BY <1>b, HandlerRuns
<1>c. ASSUME NEW k, Reject(c, k) PROVE Moves(c)
  BY <1>c, RejectLater DEF Moves
<1>1. CASE DataReceived(c)
  BY <1>1, <1>a DEF DataReceived, Open
<1>2. CASE Eof(c)
  BY <1>2, <1>0, LinkLater DEF Eof, Open, Idle, Moves
<1>3. CASE Reset(c)
  BY <1>3, <1>0, LinkLater DEF Reset, Writable, Idle, Moves
<1>4. CASE DeadlineExpires(c)
  BY <1>4, <1>c DEF DeadlineExpires, Untouched, Idle
<1>5. CASE AuthResult(c)
  <2> DEFINE F == [conn |-> c, via |-> "task", depth |-> 1]
  <2>1. PICK m \in AuthMsgs :
          /\ tasks[c][m] > 0
          /\ \E row \in Answers[m.ident] : Accept(c, m, row, F) \/ Refuse(c, m, row)
    BY <1>5 DEF AuthResult
  <2>2. link[c].state # "new"
    BY <2>1 DEF Untouched
  <2>3. F.conn = c
    OBVIOUS
  <2> HIDE DEF F
  <2> QED  BY <1>5, <2>1, <2>2, <2>3, AcceptMoves, RefuseMoves DEF AuthResult, Idle
<1>6. CASE AuthError(c)
  BY <1>6, <1>c DEF AuthError, Untouched, Idle
<1>7. CASE Undecodable(c)
  BY <1>7, <1>0, <1>b, LinkLater, LinkOps, EndLoopMoves DEF Undecodable
<1>8. CASE NotAuthFirst(c)
  BY <1>8, <1>b, <1>c DEF NotAuthFirst, Takes
<1>9. CASE OnAuthSync(c)
  <2> DEFINE F == [loop EXCEPT !.depth = @ + 1]
  <2>1. PICK m \in AuthMsgs :
          /\ Handling(c)
          /\ \E row \in Answers[m.ident] : Accept(c, m, row, F) \/ Refuse(c, m, row)
    BY <1>9 DEF OnAuthSync, Takes
  <2>2. loop # None /\ loop.conn = c /\ link[c].state # "new"
    BY <2>1, <1>b
  <2>3. F.conn = c
    BY <2>2 DEF TypeOK, Frames
  <2> HIDE DEF F
  <2> QED  BY <2>1, <2>2, <2>3, AcceptMoves, RefuseMoves
<1>10. CASE OnAuthAsync(c)
  BY <1>10, <1>0, <1>b, LinkLater, LinkOps, EndLoopMoves DEF OnAuthAsync, Takes
<1>11. CASE PublishRefused(c)
  BY <1>11, <1>b, <1>c DEF PublishRefused, Takes
<1>12. CASE ServerIsNone(c)
  <2>1. Handling(c)
    BY <1>12 DEF ServerIsNone, Takes
  <2>2. \A k : Later(link[c], Closed(Written(link[c], k)))
                 /\ Closed(Written(link[c], k)) \in Links
    BY <1>0, LinkLater, WrittenType, LinkOps
  <2>3. \/ Raise(c, link[c])
        \/ \E k \in Kernel : Raise(c, Closed(Written(link[c], k)))
    BY <1>12 DEF ServerIsNone
  <2> QED  BY <1>0, <1>b, <2>1, <2>2, <2>3, RaiseMoves
<1>13. CASE NotImplemented(c)
  BY <1>13, <1>0, <1>b, RaiseMoves DEF NotImplemented, Takes
<1>14. CASE BufferEmpty(c)
  BY <1>14, <1>0, EndLoopMoves DEF BufferEmpty, Untouched
<1> QED
  BY <1>1, <1>2, <1>3, <1>4, <1>5, <1>6, <1>7, <1>8, <1>9, <1>10, <1>11, <1>12,
     <1>13, <1>14 DEF Quiet

(* Server.publish changes transports of open subscribers and of the         *)
(* publisher, whose handler is running.                                     *)
LEMMA PublishMoves ==
  ASSUME TypeOK, Untouched, NEW c \in Conns, Publish(c)
  PROVE  /\ \A d \in Conns : /\ Later(link[d], link'[d])
                             /\ link[d].state = "new" => link'[d] = link[d]
         /\ \E ch \in Chans, done \in SUBSET Conns : ConnectionLost(done \cap Gone(ch))
         /\ loop' # None => loop' = loop
         /\ UNCHANGED <<tasks, granted>>
<1>1. PICK m \in ChanMsgs, done \in SUBSET Conns, how \in [Conns -> Kernel] :
        Takes(c, m, {"PUBLISH"}) /\ Walk(c, m, done, how)
  BY PublishWalks
<1> DEFINE served == done \cap Live(m.chan)
           lnk == [d \in Conns |-> IF d \in served THEN Written(link[d], how[d])
                                   ELSE link[d]]
<1>2. link[c].state # "new"
  BY <1>1, HandlerRuns DEF Takes
<1>3. \A d \in Conns : /\ lnk[d] \in Links /\ Later(link[d], lnk[d])
                       /\ link[d].state = "new" => lnk[d] = link[d]
  <2> TAKE d \in Conns
  <2>1. link[d] \in Links /\ Later(link[d], link[d])
    BY DEF TypeOK, Later
  <2>2. Written(link[d], how[d]) \in Links /\ Later(link[d], Written(link[d], how[d]))
    BY <2>1, WrittenType, LinkLater
  <2>3. d \in served => link[d].state = "open"
    BY DEF Live, Open
  <2> QED  BY <2>1, <2>2, <2>3
<1>4. \A d \in Conns : \/ link'[d] = lnk[d]
                       \/ d = c /\ link'[d] = Aborted(lnk[d])
  <2>1. \/ link' = lnk
        \/ link' = [lnk EXCEPT ![c] = IF loop.via = "data" THEN Aborted(@) ELSE @]
    BY <1>1 DEF Walk, served, lnk
  <2>2. lnk = [d \in Conns |-> lnk[d]]
    OBVIOUS
  <2> HIDE DEF lnk
  <2> QED  BY <2>1, <2>2
<1>5. \A d \in Conns : Later(lnk[d], Aborted(lnk[d]))
  BY <1>3, LinkLater
<1>6. \A d \in Conns : /\ Later(link[d], link'[d])
                       /\ link[d].state = "new" => link'[d] = link[d]
  <2> HIDE DEF lnk
  <2> QED  BY <1>2, <1>3, <1>4, <1>5 DEF Later
<1>7. m.chan \in Chans
  BY DEF ChanMsgs
<1> QED  BY <1>1, <1>6, <1>7 DEF Walk, Publish

LEMMA SubscribeMoves ==
  ASSUME TypeOK, Untouched, NEW c \in Conns, Subscribe(c)
  PROVE  /\ Moves(c) /\ link[c].state # "new" /\ hasServer[c]
         /\ \E ch \in Chans : /\ Enlist(c, ch)
                              /\ \/ granted' = [granted EXCEPT ![c] = @ \cup {ch}]
                                 \/ link'[c].state # "open" /\ granted' = granted
         /\ UNCHANGED <<tasks, loop>>
<1>1. PICK m \in ChanMsgs :
        /\ Takes(c, m, {"SUBSCRIBE"})
        /\ Enlist(c, m.chan)
        /\ IF m.chan \in subchans[c]
           THEN /\ granted' = [granted EXCEPT ![c] = @ \cup {m.chan}]
                /\ UNCHANGED link
           ELSE SubscribeRefused(c) /\ UNCHANGED granted
  BY DEF Subscribe
<1>2. link[c].state # "new" /\ m.chan \in Chans
  BY <1>1, HandlerRuns DEF Takes, ChanMsgs
<1>3. CASE m.chan \in subchans[c]
  <2>1. link' = [link EXCEPT ![c] = link[c]] /\ Later(link[c], link[c])
    BY <1>1, <1>3 DEF TypeOK, Later
  <2> QED  BY <1>1, <1>2, <1>3, <2>1 DEF Moves, Subscribe
<1>4. CASE m.chan \notin subchans[c]
  <2>1. PICK l : /\ link' = [link EXCEPT ![c] = l] /\ Later(link[c], l)
                 /\ l.state # "open"
    BY <1>1, <1>4, RejectLater DEF SubscribeRefused
  <2>2. link'[c].state # "open"
    BY <2>1 DEF TypeOK
  <2> QED  BY <1>1, <1>2, <1>4, <2>1, <2>2 DEF Moves, Subscribe
<1> QED  BY <1>3, <1>4

LEMMA UnsubscribeMoves ==
  ASSUME Untouched, NEW c \in Conns, Unsubscribe(c)
  PROVE  /\ UNCHANGED <<link, timer, tasks, loop>> /\ UNCHANGED ghostVars
         /\ link[c].state # "new" /\ hasServer[c]
         /\ \E ch \in Chans : Delist(c, ch)
<1>1. \E m \in ChanMsgs : Handling(c) /\ Delist(c, m.chan) /\ m.chan \in Chans
  BY DEF Unsubscribe, Takes, ChanMsgs
<1> QED  BY <1>1, HandlerRuns DEF Unsubscribe

(* The transport calls connection_lost. *)
LEMMA LosesMoves ==
  ASSUME TypeOK, NEW c \in Conns, Drain(c) \/ Lost(c)
  PROVE  /\ \E l : /\ link' = [link EXCEPT ![c] = l]
                   /\ link[c].state # "new" /\ l.state # "new"
                   /\ l.state = "open" => link[c].state = "open"
                   /\ \/ /\ (l.state = "lost" <=> link[c].state = "lost")
                         /\ UNCHANGED serverVars
                      \/ /\ link[c].state # "open" /\ l.state = "lost"
                         /\ LosesConnection(c)
         /\ UNCHANGED <<tasks, loop>> /\ UNCHANGED ghostVars /\ FlowControl
<1>0. link[c] \in Links
  BY DEF TypeOK
<1>1. CASE Drain(c)
  <2>1. PICK n \in 1 .. link[c].out :
          LET l == Drained(link[c], n) IN
          IF l.state = "closing" /\ l.out = 0
          THEN /\ link' = [link EXCEPT ![c] = [l EXCEPT !.state = "lost"]]
               /\ LosesConnection(c)
          ELSE /\ link' = [link EXCEPT ![c] = l]
               /\ UNCHANGED serverVars
    BY <1>1 DEF Drain
  <2>2. Drained(link[c], n).state = link[c].state /\ Drained(link[c], n) \in Links
    <3>1. Drained(link[c], n) \in Links
      BY <1>0, LinkOps
    <3> QED  BY <1>0, <3>1 DEF Drained, Links
  <2>3. link[c].state \in {"open", "closing"}
    BY <1>1 DEF Drain, Writable
  <2>4. [Drained(link[c], n) EXCEPT !.state = "lost"].state = "lost"
    BY <2>2 DEF Links
  <2> QED  BY <1>1, <2>1, <2>2, <2>3, <2>4 DEF Drain
<1>2. CASE Lost(c)
  <2>1. [link[c] EXCEPT !.state = "lost"].state = "lost"
    BY <1>0 DEF Links
  <2> QED  BY <1>2, <2>1 DEF Lost
<1> QED  BY <1>1, <1>2

LEMMA ConnectMoves ==
  ASSUME TypeOK, NEW c \in Conns, Connect(c)
  PROVE  /\ \E l : /\ link' = [link EXCEPT ![c] = l]
                   /\ l.state \notin {"new", "lost"}
         /\ link[c].state = "new" /\ loop = None
         /\ connections' = connections \cup {c}
         /\ clientConnections' = clientConnections + 1
         /\ UNCHANGED <<tasks, loop, hasServer, active, subscriptions>>
         /\ UNCHANGED ghostVars /\ FlowControl
<1>1. PICK k \in Kernel :
        link' = [link EXCEPT ![c] = Written([@ EXCEPT !.state = "open"], k)]
  BY DEF Connect
<1> DEFINE o == [link[c] EXCEPT !.state = "open"]
<1>2. o \in Links /\ o.state = "open"
  <2>1. link[c] \in Links
    BY DEF TypeOK
  <2> QED  BY <2>1, LinkOps DEF Links
<1>3. Later(o, Written(o, k))
  BY <1>2, LinkLater
<1>4. Written(o, k).state \notin {"new", "lost"}
  BY <1>2, <1>3 DEF Later
<1> QED  BY <1>1, <1>4 DEF Connect, Idle

LEMMA FlowControlSame ==
  ASSUME TypeOK, FlowControl, NEW d \in Conns, link'[d] = link[d]
  PROVE  timer'[d] = timer[d]
BY DEF FlowControl

LEMMA ConnectionLostUntouched ==
  ASSUME TypeOK, NEW L, ConnectionLost(L), NEW d \in Conns,
         \A ch \in Chans : subscriptions[ch][d] = 0
  PROVE  \A ch \in Chans : subscriptions'[ch][d] = 0
BY DEF ConnectionLost, Removed

LEMMA UntouchedBy ==
  ASSUME Untouched,
         loop' # None => link'[loop'.conn].state # "new",
         \A d \in Conns : link'[d].state = "new" =>
           /\ link'[d] = link[d] /\ tasks'[d] = tasks[d] /\ timer'[d] = timer[d]
           /\ \A ch \in Chans : subscriptions[ch][d] = 0 => subscriptions'[ch][d] = 0
  PROVE  Untouched'
BY DEF Untouched

LEMMA EnlistOthers ==
  ASSUME TypeOK, NEW c \in Conns, NEW ch \in Chans, Enlist(c, ch) \/ Delist(c, ch)
  PROVE  \A d \in Conns, x \in Chans : d # c => subscriptions'[x][d] = subscriptions[x][d]
<1>1. \E n : subscriptions' = [subscriptions EXCEPT ![ch][c] = n]
  BY DEF Enlist, Delist
<1> QED  BY <1>1 DEF TypeOK

LEMMA UntouchedStep ==
  ASSUME TypeOK, Untouched, [Next]_vars
  PROVE  Untouched'
<1>1. CASE UNCHANGED vars
  BY <1>1 DEF Untouched, vars, serverVars
<1> SUFFICES ASSUME NEW c \in Conns,
                    \/ Connect(c) \/ Quiet(c) \/ Drain(c) \/ Lost(c)
                    \/ Publish(c) \/ Subscribe(c) \/ Unsubscribe(c)
             PROVE  Untouched'
  BY <1>1 DEF Next, Environment, HandleMessage, Quiet
<1>0. loop # None => loop.conn \in Conns /\ link[loop.conn].state # "new"
  BY DEF TypeOK, Frames, Untouched
<1>2. CASE Quiet(c)
  <2>1. PICK l : link' = [link EXCEPT ![c] = l] /\ Later(link[c], l)
    BY <1>2, QuietMoves DEF Moves
  <2>2. link[c].state # "new" /\ link'[c].state # "new"
    BY <1>2, <2>1, QuietMoves DEF TypeOK, Later
  <2>3. \A d \in Conns : d # c => /\ link'[d] = link[d] /\ tasks'[d] = tasks[d]
                                  /\ timer'[d] = timer[d]
    <3>1. \A d \in Conns : d # c => link'[d] = link[d]
      BY <2>1 DEF TypeOK
    <3>2. DeadlineExpires(c) => \A d \in Conns : d # c => timer'[d] = timer[d]
      BY DEF DeadlineExpires, TypeOK
    <3> QED  BY <1>2, <3>1, <3>2, QuietFrame, FlowControlSame
  <2>4. UNCHANGED subscriptions /\ (loop' # None => loop'.conn = c)
    BY <1>2, QuietFrame, QuietMoves DEF serverVars
  <2> QED  BY <2>2, <2>3, <2>4, UntouchedBy
<1>3. CASE Connect(c)
  <2>1. PICK l : link' = [link EXCEPT ![c] = l] /\ l.state # "new"
    BY <1>3, ConnectMoves
  <2>2. link'[c].state # "new" /\ \A d \in Conns : d # c => link'[d] = link[d]
    BY <2>1 DEF TypeOK
  <2>3. \A d \in Conns : d # c => timer'[d] = timer[d]
    BY <1>3, <2>2, ConnectMoves, FlowControlSame
  <2> QED  BY <1>3, <2>2, <2>3, ConnectMoves, UntouchedBy
<1>4. CASE Drain(c) \/ Lost(c)
  <2>1. PICK l : /\ link' = [link EXCEPT ![c] = l]
                 /\ link[c].state # "new" /\ l.state # "new"
                 /\ UNCHANGED serverVars \/ LosesConnection(c)
    BY <1>4, LosesMoves
  <2>2. /\ link'[c].state # "new" /\ link[c].state # "new"
        /\ \A d \in Conns : d # c => link'[d] = link[d]
    BY <2>1 DEF TypeOK
  <2>3. \A d \in Conns : d # c => timer'[d] = timer[d]
    BY <1>4, <2>2, LosesMoves, FlowControlSame
  <2>4. UNCHANGED subscriptions \/ ConnectionLost({c})
    BY <2>1 DEF LosesConnection, serverVars
  <2>5. \A d \in Conns : link'[d].state = "new" => \A ch \in Chans : subscriptions'[ch][d] = 0
    BY <2>2, <2>4, ConnectionLostUntouched DEF Untouched
  <2>6. UNCHANGED <<tasks, loop>>
    BY <1>4, LosesMoves
  <2> QED  BY <1>0, <2>2, <2>3, <2>5, <2>6, UntouchedBy
<1>5. CASE Publish(c)
  <2>1. \A d \in Conns : /\ link[d].state = "new" <=> link'[d].state = "new"
                         /\ link[d].state = "new" => /\ link'[d] = link[d]
                                                     /\ timer'[d] = timer[d]
    BY <1>5, PublishMoves, FlowControlSame DEF Later, Publish
  <2>2. \E L : ConnectionLost(L)
    BY <1>5, PublishMoves
  <2>3. \A d \in Conns : link'[d].state = "new" => \A ch \in Chans : subscriptions'[ch][d] = 0
    BY <2>1, <2>2, ConnectionLostUntouched DEF Untouched
  <2>4. UNCHANGED tasks /\ (loop' # None => loop' = loop)
    BY <1>5, PublishMoves
  <2> QED  BY <1>0, <2>1, <2>3, <2>4, UntouchedBy
<1>6. CASE Subscribe(c)
  <2>1. PICK l : link' = [link EXCEPT ![c] = l] /\ Later(link[c], l)
    BY <1>6, SubscribeMoves DEF Moves
  <2>2. /\ link'[c].state # "new" /\ link[c].state # "new"
        /\ \A d \in Conns : d # c => link'[d] = link[d]
    BY <1>6, <2>1, SubscribeMoves DEF TypeOK, Later
  <2>3. \A d \in Conns : d # c => timer'[d] = timer[d]
    BY <1>6, <2>2, FlowControlSame DEF Subscribe
  <2>4. \A d \in Conns, ch \in Chans : d # c => subscriptions'[ch][d] = subscriptions[ch][d]
    BY <1>6, SubscribeMoves, EnlistOthers
  <2>5. UNCHANGED <<tasks, loop>>
    BY <1>6, SubscribeMoves
  <2> QED  BY <1>0, <2>2, <2>3, <2>4, <2>5, UntouchedBy
<1>7. CASE Unsubscribe(c)
  <2>1. \A d \in Conns, ch \in Chans : d # c => subscriptions'[ch][d] = subscriptions[ch][d]
    BY <1>7, UnsubscribeMoves, EnlistOthers
  <2>2. UNCHANGED <<link, timer, tasks, loop>> /\ link[c].state # "new"
    BY <1>7, UnsubscribeMoves
  <2> QED  BY <1>0, <2>1, <2>2, UntouchedBy
<1> QED  BY <1>2, <1>3, <1>4, <1>5, <1>6, <1>7
-----------------------------------------------------------------------------
(* Attachment: the ways in which a step of c, other than connection_made,   *)
(* may change transports and the server's state.                            *)
LinksGoOn ==
  \A d \in Conns : /\ link'[d].state = "open" => link[d].state = "open"
                   /\ link'[d].state = "new" <=> link[d].state = "new"
                   /\ link'[d].state = "lost" => link[d].state = "lost" \/ ~hasServer'[d]

TakesDown(L) ==
  /\ L \in SUBSET connections
  /\ \A d \in L : link[d].state # "open" /\ hasServer[d]
  /\ ConnectionLost(L)

ServerStep(c) ==
  \/ UNCHANGED serverVars
  \/ \E L : TakesDown(L)
  \/ hasServer[c] /\ \E ch \in Chans : Enlist(c, ch) \/ Delist(c, ch)

LEMMA MovesGoOn ==
  ASSUME TypeOK, NEW c \in Conns, Moves(c)
  PROVE  \A d \in Conns : Later(link[d], link'[d])
BY DEF TypeOK, Moves, Later

LEMMA Shape ==
  ASSUME TypeOK, Untouched, AttachedExactly, NEW c \in Conns,
         \/ Quiet(c) \/ Drain(c) \/ Lost(c)
         \/ Publish(c) \/ Subscribe(c) \/ Unsubscribe(c)
  PROVE  LinksGoOn /\ ServerStep(c)
<1>1. CASE Quiet(c)
  BY <1>1, QuietMoves, QuietFrame, MovesGoOn DEF LinksGoOn, ServerStep, Later
<1>2. CASE Drain(c) \/ Lost(c)
  <2>1. PICK l : /\ link' = [link EXCEPT ![c] = l]
                 /\ link[c].state # "new" /\ l.state # "new"
                 /\ l.state = "open" => link[c].state = "open"
                 /\ \/ (l.state = "lost" <=> link[c].state = "lost") /\ UNCHANGED serverVars
                    \/ /\ link[c].state # "open" /\ l.state = "lost"
                       /\ LosesConnection(c)
    BY <1>2, LosesMoves
  <2>2. /\ link'[c] = l
        /\ \A d \in Conns : d # c => link'[d] = link[d]
    BY <2>1 DEF TypeOK
  <2>3. CASE UNCHANGED serverVars /\ (l.state = "lost" <=> link[c].state = "lost")
    BY <2>1, <2>2, <2>3 DEF LinksGoOn, ServerStep
  <2>4. CASE link[c].state # "open" /\ LosesConnection(c) /\ hasServer[c]
    <3>1. ConnectionLost({c})
      BY <2>4 DEF LosesConnection
    <3>2. TakesDown({c})
      BY <2>1, <2>4, <3>1 DEF TakesDown, AttachedExactly
    <3>3. ~hasServer'[c]
      BY <3>1 DEF ConnectionLost
    <3> QED  BY <2>1, <2>2, <3>2, <3>3 DEF LinksGoOn, ServerStep
  <2>5. CASE link[c].state # "open" /\ LosesConnection(c) /\ ~hasServer[c]
    <3>1. UNCHANGED serverVars
      BY <2>5 DEF LosesConnection
    <3>2. ~hasServer'[c]
      BY <2>5, <3>1 DEF serverVars
    <3> QED  BY <2>1, <2>2, <3>1, <3>2 DEF LinksGoOn, ServerStep
  <2> QED  BY <2>1, <2>3, <2>4, <2>5
<1>3. CASE Publish(c)
  <2>1. PICK ch \in Chans, done \in SUBSET Conns : ConnectionLost(done \cap Gone(ch))
    BY <1>3, PublishMoves
  <2>2. \A d \in Gone(ch) : /\ d \in Conns /\ hasServer[d]
                            /\ link[d].state # "open" /\ subscriptions[ch][d] > 0
    BY DEF Gone, Listed, Open
  <2>3. \A d \in Gone(ch) : link[d].state # "new"
    BY <2>2 DEF Untouched
  <2>4. TakesDown(done \cap Gone(ch))
    BY <2>1, <2>2, <2>3 DEF TakesDown, AttachedExactly
  <2> QED  BY <1>3, <2>4, PublishMoves DEF LinksGoOn, ServerStep, Later
<1>4. CASE Subscribe(c)
  BY <1>4, SubscribeMoves, MovesGoOn DEF LinksGoOn, ServerStep, Later
<1>5. CASE Unsubscribe(c)
  BY <1>5, UnsubscribeMoves DEF LinksGoOn, ServerStep
<1> QED  BY <1>1, <1>2, <1>3, <1>4, <1>5

LEMMA AttachedStep ==
  ASSUME TypeOK, Untouched, AttachedExactly, [Next]_vars
  PROVE  AttachedExactly'
<1>1. CASE UNCHANGED vars
  BY <1>1 DEF AttachedExactly, vars, serverVars
<1>2. ASSUME NEW c \in Conns, Connect(c)
      PROVE  AttachedExactly'
  <2>1. PICK l : link' = [link EXCEPT ![c] = l] /\ l.state \notin {"new", "lost"}
    BY <1>2, ConnectMoves
  <2>2. /\ link'[c].state \notin {"new", "lost"} /\ link[c].state = "new"
        /\ \A d \in Conns : d # c => link'[d] = link[d]
    BY <1>2, <2>1, ConnectMoves DEF TypeOK
  <2>3. connections' = connections \cup {c} /\ UNCHANGED <<hasServer, active>>
    BY <1>2, ConnectMoves
  <2> QED  BY <2>2, <2>3 DEF AttachedExactly
<1>3. ASSUME NEW c \in Conns, LinksGoOn, ServerStep(c)
      PROVE  AttachedExactly'
  <2>1. CASE UNCHANGED serverVars
    BY <1>3, <2>1 DEF AttachedExactly, LinksGoOn, serverVars
  <2>2. ASSUME NEW L, TakesDown(L) PROVE AttachedExactly'
    <3>1. \A d \in Conns : /\ hasServer'[d] <=> hasServer[d] /\ d \notin L
                           /\ active'[d] = IF d \in L THEN {} ELSE active[d]
                           /\ d \in connections' <=> d \in connections /\ d \notin L
      BY <2>2 DEF TakesDown, ConnectionLost, TypeOK
    <3>2. \A d \in L : link[d].state \notin {"new", "open"}
      BY <2>2 DEF TakesDown, AttachedExactly, TypeOK
    <3> QED  BY <1>3, <3>1, <3>2 DEF AttachedExactly, LinksGoOn
  <2>3. ASSUME hasServer[c], NEW ch \in Chans, Enlist(c, ch) \/ Delist(c, ch)
        PROVE  AttachedExactly'
    <3>1. UNCHANGED <<hasServer, connections>>
          /\ \A d \in Conns : d # c => active'[d] = active[d]
      BY <2>3 DEF Enlist, Delist, TypeOK
    <3> QED  BY <1>3, <2>3, <3>1 DEF AttachedExactly, LinksGoOn
  <2> QED  BY <1>3, <2>1, <2>2, <2>3 DEF ServerStep
<1> QED
  BY <1>1, <1>2, <1>3, Shape DEF Next, Environment, HandleMessage, Quiet

LEMMA CountStep ==
  ASSUME TypeOK, Untouched, AttachedExactly, ConnectionCount, [Next]_vars
  PROVE  ConnectionCount'
<1>0. IsFiniteSet(connections) /\ Cardinality(connections) \in Nat
  BY CardType DEF TypeOK
<1>1. CASE UNCHANGED vars
  BY <1>1 DEF ConnectionCount, vars, serverVars
<1>2. ASSUME NEW c \in Conns, Connect(c)
      PROVE  ConnectionCount'
  <2>1. c \notin connections
    BY <1>2, ConnectMoves DEF AttachedExactly
  <2>2. Cardinality(connections \cup {c}) = Cardinality(connections) + 1
    BY <1>0, <2>1, FS_AddElement
  <2> QED  BY <1>2, <2>2, ConnectMoves DEF ConnectionCount
<1>3. ASSUME NEW c \in Conns, ServerStep(c)
      PROVE  ConnectionCount'
  <2>1. CASE UNCHANGED <<connections, clientConnections>>
    BY <2>1 DEF ConnectionCount
  <2>2. ASSUME NEW L, TakesDown(L) PROVE ConnectionCount'
    <3>1. connections \cap L = L
      BY <2>2 DEF TakesDown
    <3>2. Cardinality(connections \ L) = Cardinality(connections) - Cardinality(L)
      BY <1>0, <3>1, FS_Difference
    <3> QED  BY <2>2, <3>2 DEF TakesDown, ConnectionLost, ConnectionCount
  <2> QED  BY <1>3, <2>1, <2>2 DEF ServerStep, Enlist, Delist, serverVars
<1> QED
  BY <1>1, <1>2, <1>3, Shape DEF Next, Environment, HandleMessage, Quiet
-----------------------------------------------------------------------------
(* Rights *)

LEMMA GrantedStep ==
  ASSUME TypeOK, Untouched, AttachedExactly, OpenListedWasGranted, [Next]_vars
  PROVE  OpenListedWasGranted'
<1> DEFINE Granted == \A ch \in Chans, d \in Conns :
                        subscriptions[ch][d] > 0 /\ link[d].state = "open"
                          => ch \in granted[d]
<1>0. (OpenListedWasGranted <=> Granted) /\ (OpenListedWasGranted' <=> Granted')
  BY DEF OpenListedWasGranted, Live, Listed, Open
<1> SUFFICES Granted'
  BY <1>0
<1>1. CASE UNCHANGED vars
  BY <1>0, <1>1 DEF vars, serverVars, ghostVars
<1>2. ASSUME NEW c \in Conns, Connect(c) PROVE Granted'
  <2>0. PICK l : link' = [link EXCEPT ![c] = l]
    BY <1>2, ConnectMoves
  <2>1. \A d \in Conns : d # c => link'[d] = link[d]
    BY <2>0 DEF TypeOK
  <2>2. \A ch \in Chans : subscriptions[ch][c] = 0
    BY <1>2, ConnectMoves DEF Untouched
  <2> QED  BY <1>0, <1>2, <2>1, <2>2, ConnectMoves DEF ghostVars
<1>3. ASSUME NEW c \in Conns, LinksGoOn, UNCHANGED granted,
             \A ch \in Chans, d \in Conns :
               subscriptions'[ch][d] > 0 => subscriptions[ch][d] > 0
      PROVE  Granted'
  BY <1>0, <1>3 DEF LinksGoOn
<1>4. ASSUME NEW L, ConnectionLost(L)
      PROVE  \A ch \in Chans, d \in Conns :
               subscriptions'[ch][d] > 0 => subscriptions[ch][d] > 0
  BY <1>4 DEF ConnectionLost, Removed, TypeOK
<1>5. ASSUME NEW c \in Conns, Quiet(c) \/ Drain(c) \/ Lost(c) \/ Publish(c)
      PROVE  Granted'
  <2>1. LinksGoOn
    BY <1>5, Shape
  <2>2. UNCHANGED granted
    BY <1>5, QuietFrame, LosesMoves, PublishMoves DEF ghostVars
  <2>3. UNCHANGED serverVars \/ \E L : ConnectionLost(L)
    BY <1>5, QuietFrame, LosesMoves, PublishMoves DEF LosesConnection
  <2> QED  BY <1>3, <1>4, <2>1, <2>2, <2>3 DEF serverVars
<1>6. ASSUME NEW c \in Conns, Unsubscribe(c) PROVE Granted'
  <2>1. LinksGoOn /\ UNCHANGED granted
    BY <1>6, Shape, UnsubscribeMoves DEF ghostVars
  <2>2. PICK ch \in Chans : Delist(c, ch)
    BY <1>6, UnsubscribeMoves
  <2>3. \A x \in Chans, d \in Conns :
          \/ subscriptions'[x][d] = subscriptions[x][d]
          \/ x = ch /\ d = c /\ subscriptions'[x][d] = Removed(subscriptions[x][d])
    BY <2>2 DEF Delist, TypeOK
  <2>4. \A x \in Chans, d \in Conns :
          subscriptions'[x][d] > 0 => subscriptions[x][d] > 0
    BY <2>3 DEF Removed
  <2> QED  BY <1>3, <2>1, <2>4
<1>7. ASSUME NEW c \in Conns, Subscribe(c) PROVE Granted'
  <2>1. LinksGoOn
    BY <1>7, Shape
  <2>2. PICK ch \in Chans : /\ Enlist(c, ch)
                            /\ \/ granted' = [granted EXCEPT ![c] = @ \cup {ch}]
                               \/ link'[c].state # "open" /\ granted' = granted
    BY <1>7, SubscribeMoves
  <2>3. \A x \in Chans, d \in Conns :
          \/ subscriptions'[x][d] = subscriptions[x][d]
          \/ x = ch /\ d = c
    BY <2>2 DEF Enlist, TypeOK
  <2>4. \A d \in Conns : granted[d] \subseteq granted'[d]
    BY <2>2 DEF TypeOK
  <2>5. link'[c].state = "open" => ch \in granted'[c]
    BY <2>2 DEF TypeOK
  <2> QED  BY <1>0, <2>1, <2>3, <2>4, <2>5 DEF LinksGoOn
<1> QED
  BY <1>1, <1>2, <1>5, <1>6, <1>7 DEF Next, Environment, HandleMessage, Quiet

LEMMA DeliveryStep ==
  ASSUME TypeOK, OpenListedWasGranted, Untouched, [Next]_vars, NEW d \in Conns,
         inbox'[d] # inbox[d]
  PROVE  LET m == inbox'[d][Len(inbox'[d])] IN
         /\ Open(d) /\ m.chan \in granted[d]
         /\ ak[loop.conn] = m.ident /\ m.chan \in pubchans[loop.conn]
<1>1. inbox' # inbox
  OBVIOUS
<1>2. PICK c \in Conns : Publish(c)
  BY <1>1, QuietFrame, ConnectMoves, LosesMoves, UnsubscribeMoves
     DEF Next, Environment, HandleMessage, Quiet, vars, ghostVars, Subscribe
<1>3. PICK m \in ChanMsgs, done \in SUBSET Conns, how \in [Conns -> Kernel] :
        /\ Takes(c, m, {"PUBLISH"})
        /\ m.ident = ak[c] /\ m.chan \in pubchans[c]
        /\ Walk(c, m, done, how)
  BY <1>2, PublishWalks
<1> DEFINE copy == [ident |-> ak[c], chan |-> m.chan]
<1>4. d \in Live(m.chan) /\ inbox'[d] = Append(inbox[d], copy)
  BY <1>3 DEF Walk
<1>5. inbox'[d][Len(inbox'[d])] = copy
  <2>1. inbox[d] \in Seq([ident : Idents, chan : Chans])
    BY DEF TypeOK
  <2> QED  BY <1>4, <2>1
<1>6. loop.conn = c /\ m.chan \in Chans
  BY <1>3 DEF Takes, Handling, ChanMsgs
<1> QED  BY <1>3, <1>4, <1>5, <1>6 DEF OpenListedWasGranted, Live
-----------------------------------------------------------------------------
(* Backpressure *)

LEMMA DeadlineFlow ==
  ASSUME TypeOK, Untouched, DeadlineGuardsBackpressure, FlowControl,
         \A d \in Conns : link'[d].state = "open" => link[d].state \in {"new", "open"}
  PROVE  DeadlineGuardsBackpressure'
BY DEF DeadlineGuardsBackpressure, Open, FlowControl, Untouched, TypeOK

LEMMA DeadlineStep ==
  ASSUME TypeOK, Untouched, AttachedExactly, DeadlineGuardsBackpressure, [Next]_vars
  PROVE  DeadlineGuardsBackpressure'
<1>1. CASE UNCHANGED <<link, timer>>
  BY <1>1 DEF DeadlineGuardsBackpressure, Open
<1>2. ASSUME NEW c \in Conns, Connect(c) PROVE DeadlineGuardsBackpressure'
  <2>1. \A d \in Conns : link'[d].state = "open" => link[d].state \in {"new", "open"}
    BY <1>2, ConnectMoves DEF TypeOK
  <2> QED  BY <1>2, <2>1, ConnectMoves, DeadlineFlow
<1>3. ASSUME NEW c \in Conns, DeadlineExpires(c) PROVE DeadlineGuardsBackpressure'
  <2>1. PICK k : Reject(c, k)
    BY <1>3 DEF DeadlineExpires
  <2>2. PICK l : link' = [link EXCEPT ![c] = l] /\ l.state # "open"
    BY <2>1, RejectLater
  <2>3. link'[c].state # "open" /\ timer'[c] = "fired"
    BY <1>3, <2>2 DEF DeadlineExpires, TypeOK
  <2>4. \A d \in Conns : d # c => link'[d] = link[d] /\ timer'[d] = timer[d]
    BY <1>3, <2>2 DEF DeadlineExpires, TypeOK
  <2> QED  BY <2>3, <2>4 DEF DeadlineGuardsBackpressure, Open
<1>4. ASSUME NEW c \in Conns, FlowControl,
             \/ Quiet(c) \/ Drain(c) \/ Lost(c) \/ Publish(c) \/ Subscribe(c)
      PROVE  DeadlineGuardsBackpressure'
  BY <1>4, Shape, DeadlineFlow DEF LinksGoOn
<1>5. ASSUME NEW c \in Conns, Drain(c) \/ Lost(c) \/ Publish(c) \/ Subscribe(c)
      PROVE  FlowControl
  BY <1>5 DEF Drain, Lost, Publish, Subscribe
<1>6. ASSUME NEW c \in Conns, Unsubscribe(c) PROVE UNCHANGED <<link, timer>>
  BY <1>6, UnsubscribeMoves
<1> QED
  BY <1>1, <1>2, <1>3, <1>4, <1>5, <1>6, QuietFrame
     DEF Next, Environment, HandleMessage, Quiet, vars
-----------------------------------------------------------------------------
BrokerInv ==
  /\ TypeOK /\ Untouched /\ AttachedExactly /\ ConnectionCount
  /\ OpenListedWasGranted /\ DeadlineGuardsBackpressure

LEMMA InvInit == Init => BrokerInv
<1> SUFFICES ASSUME Init PROVE BrokerInv
  OBVIOUS
<1>1. TypeOK
  BY InitType
<1>2. Untouched /\ AttachedExactly /\ OpenListedWasGranted /\ DeadlineGuardsBackpressure
  BY DEF Init, NewLink, Untouched, AttachedExactly, OpenListedWasGranted, Live, Listed,
         DeadlineGuardsBackpressure, Open
<1>3. ConnectionCount
  BY FS_EmptySet DEF Init, ConnectionCount
<1> QED  BY <1>1, <1>2, <1>3 DEF BrokerInv

LEMMA InvStep == BrokerInv /\ [Next]_vars => BrokerInv'
BY NextType, UntouchedStep, AttachedStep, CountStep, GrantedStep, DeadlineStep
   DEF BrokerInv

LEMMA InvAlways == Spec => []BrokerInv
BY InvInit, InvStep, PTL DEF Spec

(* A connection is attached to the server from connection_made to the first *)
(* of the two events that take it down, and never again afterwards.         *)
THEOREM Attached == Spec => []AttachedExactly
<1>1. BrokerInv => AttachedExactly
  BY DEF BrokerInv
<1> QED  BY <1>1, InvAlways, PTL

(* CLIENT_CONNECTIONS is exact, however connections are taken down.         *)
THEOREM Counted == Spec => []ConnectionCount
<1>1. BrokerInv => ConnectionCount
  BY DEF BrokerInv
<1> QED  BY <1>1, InvAlways, PTL

(* Nobody is listed with an open transport without a granted SUBSCRIBE.     *)
THEOREM ListedWasGranted == Spec => []OpenListedWasGranted
<1>1. BrokerInv => OpenListedWasGranted
  BY DEF BrokerInv
<1> QED  BY <1>1, InvAlways, PTL

(* The deadline timer sleeps exactly while an open connection is paused.    *)
THEOREM DeadlineGuards == Spec => []DeadlineGuardsBackpressure
<1>1. BrokerInv => DeadlineGuardsBackpressure
  BY DEF BrokerInv
<1> QED  BY <1>1, InvAlways, PTL

(* Every copy handed over is one its publisher had the right to publish,    *)
(* under its own identity, and its receiver the right to read.              *)
THEOREM Authorised == Spec => DeliveryAuthorised
<1> DEFINE A == \A d \in Conns : inbox'[d] # inbox[d] =>
                  LET m == inbox'[d][Len(inbox'[d])] IN
                  /\ Open(d) /\ m.chan \in granted[d]
                  /\ ak[loop.conn] = m.ident /\ m.chan \in pubchans[loop.conn]
<1>1. BrokerInv /\ [Next]_vars => A
  BY DeliveryStep DEF BrokerInv
<1> HIDE DEF A
<1>2. Spec => [][A]_vars
  BY <1>1, InvAlways, PTL DEF Spec
<1> QED  BY <1>2 DEF DeliveryAuthorised, A

-----------------------------------------------------------------------------
(* Peers that behave: moves of a peer along what it sends. *)

LEMMA PathEmpty ==
  ASSUME NEW R, NEW V, NEW s \in V
  PROVE  Path(R, V, s, << >>, s)
<1> DEFINE v == [i \in 0 .. 0 |-> s]
<1>1. Len(<< >>) = 0
  OBVIOUS
<1>2. v \in [0 .. 0 -> V] /\ v[0] = s
  OBVIOUS
<1>3. \A i \in 1 .. 0 : FALSE
  OBVIOUS
<1> HIDE DEF v
<1> QED  BY <1>1, <1>2, <1>3 DEF Path

LEMMA PathStep ==
  ASSUME NEW R, NEW V, NEW M, NEW q \in Seq(M), q # << >>, NEW s, NEW t,
         Path(R, V, s, q, t)
  PROVE  \E w \in V : /\ [from |-> s, msg |-> Head(q), to |-> w] \in R
                      /\ Path(R, V, w, Tail(q), t)
<1> DEFINE n == Len(q)
<1>1. PICK v \in [0 .. n -> V] :
        /\ v[0] = s /\ v[n] = t
        /\ \A i \in 1 .. n : [from |-> v[i - 1], msg |-> q[i], to |-> v[i]] \in R
  BY DEF Path
<1>2. n \in Nat /\ n # 0 /\ Len(Tail(q)) = n - 1 /\ Head(q) = q[1]
      /\ \A i \in 1 .. n - 1 : Tail(q)[i] = q[i + 1]
  OBVIOUS
<1> DEFINE w == [i \in 0 .. n - 1 |-> v[i + 1]]
<1> HIDE DEF n
<1>3. w \in [0 .. n - 1 -> V] /\ w[0] = v[1] /\ w[n - 1] = t /\ v[1] \in V
  BY <1>1, <1>2
<1>4. ASSUME NEW i \in 1 .. n - 1
      PROVE  [from |-> w[i - 1], msg |-> Tail(q)[i], to |-> w[i]] \in R
  <2>1. i + 1 \in 1 .. n /\ (i + 1) - 1 = i /\ w[i - 1] = v[i] /\ w[i] = v[i + 1]
    BY <1>2
  <2>2. [from |-> v[(i + 1) - 1], msg |-> q[i + 1], to |-> v[i + 1]] \in R
    BY <1>1, <2>1
  <2> HIDE DEF w
  <2> QED  BY <1>2, <2>1, <2>2
<1>5. [from |-> s, msg |-> Head(q), to |-> v[1]] \in R
  <2>1. 1 \in 1 .. n /\ 1 - 1 = 0
    BY <1>2
  <2> QED  BY <1>1, <1>2, <2>1
<1> HIDE DEF w
<1>6. Path(R, V, v[1], Tail(q), t)
  BY <1>2, <1>3, <1>4 DEF Path
<1> QED  BY <1>3, <1>5, <1>6

LEMMA PathJoins ==
  ASSUME NEW R, NEW V, NEW M, NEW q \in Seq(M), NEW r \in Seq(M), NEW s, NEW t, NEW u,
         Path(R, V, s, q, t), Path(R, V, t, r, u)
  PROVE  Path(R, V, s, q \o r, u)
<1> DEFINE n == Len(q)
           k == Len(r)
<1>1. PICK v \in [0 .. n -> V] :
        /\ v[0] = s /\ v[n] = t
        /\ \A i \in 1 .. n : [from |-> v[i - 1], msg |-> q[i], to |-> v[i]] \in R
  BY DEF Path
<1>2. PICK w \in [0 .. k -> V] :
        /\ w[0] = t /\ w[k] = u
        /\ \A i \in 1 .. k : [from |-> w[i - 1], msg |-> r[i], to |-> w[i]] \in R
  BY DEF Path
<1>3. /\ n \in Nat /\ k \in Nat /\ Len(q \o r) = n + k
      /\ \A i \in 1 .. n + k : (q \o r)[i] = IF i <= n THEN q[i] ELSE r[i - n]
  OBVIOUS
<1> DEFINE z == [i \in 0 .. n + k |-> IF i <= n THEN v[i] ELSE w[i - n]]
<1> HIDE DEF n, k
<1>4. z \in [0 .. n + k -> V] /\ z[0] = s
  <2>1. \A i \in 0 .. n + k : IF i <= n THEN i \in 0 .. n ELSE i - n \in 0 .. k
    BY <1>3
  <2>2. \A i \in 0 .. n + k : (IF i <= n THEN v[i] ELSE w[i - n]) \in V
    BY <2>1
  <2> QED  BY <1>1, <1>3, <2>2
<1>5. z[n + k] = u
  <2>1. CASE k = 0
    BY <1>1, <1>2, <1>3, <2>1
  <2>2. CASE k # 0
    BY <1>2, <1>3, <2>2
  <2> QED  BY <2>1, <2>2
<1>6. ASSUME NEW i \in 1 .. n + k
      PROVE  [from |-> z[i - 1], msg |-> (q \o r)[i], to |-> z[i]] \in R
  <2>1. CASE i <= n
    <3>1. i \in 1 .. n /\ z[i] = v[i] /\ z[i - 1] = v[i - 1] /\ (q \o r)[i] = q[i]
      BY <1>3, <2>1
    <3> HIDE DEF z
    <3> QED  BY <1>1, <3>1
  <2>2. CASE ~(i <= n)
    <3>1. /\ i - n \in 1 .. k /\ z[i] = w[i - n] /\ (q \o r)[i] = r[i - n]
      BY <1>3, <2>2
    <3>2. z[i - 1] = w[(i - n) - 1]
      <4>1. CASE i = n + 1
        <5>1. i - 1 = n /\ (i - n) - 1 = 0 /\ z[n] = v[n]
          BY <1>3, <4>1
        <5> HIDE DEF z
        <5> QED  BY <1>1, <1>2, <5>1
      <4>2. CASE i # n + 1
        <5>1. i - 1 \in 0 .. n + k /\ ~(i - 1 <= n) /\ (i - 1) - n = (i - n) - 1
          BY <1>3, <2>2, <4>2
        <5> QED  BY <5>1
      <4> QED  BY <4>1, <4>2
    <3> HIDE DEF z
    <3>3. [from |-> w[(i - n) - 1], msg |-> r[i - n], to |-> w[i - n]] \in R
      BY <1>2, <3>1
    <3> QED  BY <3>1, <3>2, <3>3
  <2> QED  BY <2>1, <2>2
<1> HIDE DEF z
<1> QED  BY <1>3, <1>4, <1>5, <1>6 DEF Path
-----------------------------------------------------------------------------
(* What a step of c takes from c's buffer, or adds to it. *)
Steps(c) ==
  \/ Connect(c) \/ Quiet(c) \/ Drain(c) \/ Lost(c)
  \/ Publish(c) \/ Subscribe(c) \/ Unsubscribe(c)

LEMMA NextSteps ==
  ASSUME [Next]_vars
  PROVE  UNCHANGED vars \/ \E c \in Conns : Steps(c)
BY DEF Next, Environment, HandleMessage, Quiet, Steps

\* The message c takes, which is not an UNSUBSCRIBE that takes effect.
Idly(c) == Head(buf[c]).op = "UNSUBSCRIBE" => ak[c] = None \/ ~hasServer[c]

TakesOne(c) ==
  buf[c] # << >> /\ buf' = [buf EXCEPT ![c] = Tail(@)] /\ UNCHANGED client

LEMMA QuietTakes ==
  ASSUME NEW c \in Conns, Quiet(c)
  PROVE  \/ DataReceived(c)
         \/ UNCHANGED <<buf, client>>
         \/ TakesOne(c) /\ Idly(c)
<1>1. CASE DataReceived(c) \/ Eof(c) \/ Reset(c) \/ DeadlineExpires(c)
  BY <1>1 DEF Eof, Reset, DeadlineExpires
<1>2. CASE AuthResult(c) \/ AuthError(c) \/ Undecodable(c) \/ BufferEmpty(c)
  BY <1>2 DEF AuthResult, AuthError, Undecodable, BufferEmpty
<1>3. CASE NotAuthFirst(c)
  BY <1>3 DEF NotAuthFirst, Takes, Handling, TakesOne, Idly
<1>4. CASE OnAuthSync(c) \/ OnAuthAsync(c)
  BY <1>4 DEF OnAuthSync, OnAuthAsync, Takes, Handling, TakesOne, Idly
<1>5. CASE PublishRefused(c)
  BY <1>5 DEF PublishRefused, Takes, Handling, TakesOne, Idly
<1>6. CASE ServerIsNone(c)
  BY <1>6 DEF ServerIsNone, Takes, Handling, TakesOne, Idly
<1>7. CASE NotImplemented(c)
  BY <1>7 DEF NotImplemented, Takes, Handling, TakesOne, Idly
<1> QED  BY <1>1, <1>2, <1>3, <1>4, <1>5, <1>6, <1>7 DEF Quiet

\* Only c may be logged in by a step of c, and nobody is logged out.
LEMMA LogsIn ==
  ASSUME TypeOK, NEW c \in Conns, Steps(c), NEW d \in Conns
  PROVE  /\ d # c => ak'[d] = ak[d]
         /\ ak'[d] = None => ak[d] = None
         /\ ak' = ak \/ OnAuthSync(c) \/ AuthResult(c)
<1>1. CASE UNCHANGED ak
  BY <1>1
<1>2. ASSUME NEW m \in AuthMsgs, NEW row, NEW f, Accept(c, m, row, f)
      PROVE  /\ d # c => ak'[d] = ak[d]
             /\ ak'[d] = None => ak[d] = None
  <2>1. m.ident # None
    BY BrokerAssumption DEF AuthMsgs
  <2> QED  BY <1>2, <2>1 DEF Accept, TypeOK
<1>3. ASSUME NEW m, NEW row, Refuse(c, m, row)
      PROVE  UNCHANGED ak
  BY <1>3 DEF Refuse, connVars
<1>4. CASE OnAuthSync(c) \/ AuthResult(c)
  BY <1>1, <1>2, <1>3, <1>4 DEF OnAuthSync, AuthResult
<1>5. CASE Connect(c) \/ Drain(c) \/ Lost(c) \/ Publish(c) \/ Subscribe(c) \/ Unsubscribe(c)
  BY <1>1, <1>5 DEF Connect, Drain, Lost, Publish, Subscribe, Unsubscribe, connVars
<1>6. CASE DataReceived(c) \/ Eof(c) \/ Reset(c) \/ DeadlineExpires(c) \/ AuthError(c)
  BY <1>1, <1>6 DEF DataReceived, Eof, Reset, DeadlineExpires, AuthError, connVars
<1>7. CASE \/ Undecodable(c) \/ NotAuthFirst(c) \/ OnAuthAsync(c) \/ PublishRefused(c)
           \/ ServerIsNone(c) \/ NotImplemented(c) \/ BufferEmpty(c)
  BY <1>1, <1>7 DEF Undecodable, NotAuthFirst, OnAuthAsync, PublishRefused,
     ServerIsNone, NotImplemented, BufferEmpty, connVars
<1> QED  BY <1>4, <1>5, <1>6, <1>7 DEF Steps, Quiet
-----------------------------------------------------------------------------
(* Peers that never subscribe twice.  The account a connection's peer kept   *)
(* before the messages still in the buffer covers what is subscribed.        *)
Kept(view, c) ==
  \E S \in SUBSET Chans :
    active[c] \subseteq S /\ Path(OnceMoves, SUBSET Chans, S, buf[c], view[client[c]])

ListedOnce ==
  \A c \in Conns :
    /\ ak[c] = None => active[c] = {}
    /\ \A ch \in Chans : subscriptions[ch][c] = IF ch \in active[c] THEN 1 ELSE 0

OnceInv(view) == ListedOnce /\ \A c \in Conns : Kept(view, c)

LEMMA KeptTaken ==
  ASSUME TypeOK, NEW view, NEW c \in Conns, Kept(view, c), TakesOne(c)
  PROVE  LET m == Head(buf[c]) IN
         /\ m.op = "SUBSCRIBE" => m.chan \notin active[c]
         /\ \/ active'[c] = {}
            \/ m.op # "UNSUBSCRIBE" /\ active'[c] \subseteq active[c]
            \/ m.op = "SUBSCRIBE" /\ active'[c] = active[c] \cup {m.chan}
            \/ m.op = "UNSUBSCRIBE" /\ active'[c] = active[c] \ {m.chan}
            => Kept(view, c)'
<1> DEFINE m == Head(buf[c])
<1>1. PICK S \in SUBSET Chans :
        active[c] \subseteq S /\ Path(OnceMoves, SUBSET Chans, S, buf[c], view[client[c]])
  BY DEF Kept
<1>2. buf[c] \in Seq(Msgs) /\ buf[c] # << >>
  BY DEF TypeOK, TakesOne
<1>3. PICK T \in SUBSET Chans :
        /\ [from |-> S, msg |-> m, to |-> T] \in OnceMoves
        /\ Path(OnceMoves, SUBSET Chans, T, Tail(buf[c]), view[client[c]])
  BY <1>1, <1>2, PathStep
<1>4. /\ m.op = "SUBSCRIBE" => m.chan \notin S /\ S \cup {m.chan} \subseteq T
      /\ m.op = "UNSUBSCRIBE" => S \ {m.chan} \subseteq T
      /\ m.op \notin {"SUBSCRIBE", "UNSUBSCRIBE"} => S \subseteq T
  BY <1>3 DEF OnceMoves
<1>5. buf'[c] = Tail(buf[c]) /\ client'[c] = client[c]
  BY DEF TakesOne, TypeOK
<1>6. active'[c] \subseteq T => Kept(view, c)'
  BY <1>3, <1>5 DEF Kept
<1> HIDE DEF m
<1>7. m.op = "SUBSCRIBE" => m.chan \notin active[c]
  BY <1>1, <1>4
<1>8. \/ active'[c] = {}
      \/ m.op # "UNSUBSCRIBE" /\ active'[c] \subseteq active[c]
      \/ m.op = "SUBSCRIBE" /\ active'[c] = active[c] \cup {m.chan}
      \/ m.op = "UNSUBSCRIBE" /\ active'[c] = active[c] \ {m.chan}
      => active'[c] \subseteq T
  BY <1>1, <1>4
<1> QED  BY <1>6, <1>7, <1>8 DEF m

LEMMA KeptFed ==
  ASSUME TypeOK, NEW view, NeverTwice(view), NEW c \in Conns, Kept(view, c),
         DataReceived(c)
  PROVE  Kept(view, c)'
<1>1. PICK s \in Sends : /\ s.from = client[c]
                         /\ client' = [client EXCEPT ![c] = s.to]
                         /\ buf' = [buf EXCEPT ![c] = @ \o s.chunk]
  BY DEF DataReceived
<1>2. PICK S \in SUBSET Chans :
        active[c] \subseteq S /\ Path(OnceMoves, SUBSET Chans, S, buf[c], view[client[c]])
  BY DEF Kept
<1>3. Path(OnceMoves, SUBSET Chans, view[client[c]], s.chunk, view[s.to])
  BY <1>1 DEF NeverTwice, Keeps
<1>4. buf[c] \in Seq(Msgs) /\ s.chunk \in Seq(Msgs)
  BY BrokerAssumption DEF TypeOK
<1>5. Path(OnceMoves, SUBSET Chans, S, buf[c] \o s.chunk, view[s.to])
  BY <1>2, <1>3, <1>4, PathJoins
<1>6. buf'[c] = buf[c] \o s.chunk /\ client'[c] = s.to /\ active'[c] = active[c]
  BY <1>1 DEF TypeOK, DataReceived, serverVars
<1> QED  BY <1>2, <1>5, <1>6 DEF Kept

LEMMA KeptSame ==
  ASSUME NEW view, NEW d \in Conns, Kept(view, d),
         buf'[d] = buf[d], client'[d] = client[d], active'[d] \subseteq active[d]
  PROVE  Kept(view, d)'
BY DEF Kept

LEMMA OnceInit ==
  ASSUME NEW view, NeverTwice(view), Init
  PROVE  OnceInv(view)
<1>1. \A c \in Conns : view[client[c]] \in SUBSET Chans
  BY BrokerAssumption DEF NeverTwice, Keeps, Init
<1>2. \A c \in Conns : Kept(view, c)
  BY <1>1, PathEmpty DEF Kept, Init
<1> QED  BY <1>2 DEF OnceInv, ListedOnce, Init

LEMMA LostOnce ==
  ASSUME TypeOK, ListedOnce, NEW L, ConnectionLost(L)
  PROVE  \A d \in Conns :
           /\ active'[d] \subseteq active[d]
           /\ \A ch \in Chans : subscriptions'[ch][d] = IF ch \in active'[d] THEN 1 ELSE 0
<1> SUFFICES ASSUME NEW d \in Conns
             PROVE  /\ active'[d] \subseteq active[d]
                    /\ \A ch \in Chans :
                         subscriptions'[ch][d] = IF ch \in active'[d] THEN 1 ELSE 0
  OBVIOUS
<1>1. active'[d] = IF d \in L THEN {} ELSE active[d]
  BY DEF ConnectionLost
<1>2. \A ch \in Chans : subscriptions'[ch][d] = IF d \in L /\ ch \in active[d]
                                                THEN Removed(subscriptions[ch][d])
                                                ELSE subscriptions[ch][d]
  BY DEF ConnectionLost, Delisted
<1>3. Removed(1) = 0
  BY DEF Removed
<1>4. \A ch \in Chans : subscriptions[ch][d] = IF ch \in active[d] THEN 1 ELSE 0
  BY DEF ListedOnce
<1> QED  BY <1>1, <1>2, <1>3, <1>4

LEMMA OnceStep ==
  ASSUME TypeOK, Untouched, AttachedExactly, NEW view, NeverTwice(view),
         OnceInv(view), [Next]_vars
  PROVE  OnceInv(view)'
<1>1. CASE UNCHANGED vars
  BY <1>1 DEF OnceInv, ListedOnce, Kept, vars, connVars, serverVars
<1> SUFFICES ASSUME NEW c \in Conns, Steps(c)
             PROVE  OnceInv(view)'
  BY <1>1, NextSteps
<1>0. ListedOnce /\ \A d \in Conns : Kept(view, d)
  BY DEF OnceInv
<1>2. CASE Connect(c) \/ Quiet(c) \/ Drain(c) \/ Lost(c) \/ Publish(c)
  <2>0. UNCHANGED <<active, subscriptions>> \/ \E L : ConnectionLost(L)
    BY <1>2, ConnectMoves, QuietFrame, LosesMoves, PublishMoves
       DEF LosesConnection, serverVars
  <2>1. /\ \A d \in Conns : active'[d] \subseteq active[d]
        /\ ListedOnce'
    BY <1>0, <2>0, LostOnce, LogsIn DEF ListedOnce
  <2>2. \A d \in Conns : Kept(view, d)'
    <3>1. CASE UNCHANGED <<buf, client>>
      BY <1>0, <2>1, <3>1, KeptSame
    <3>2. CASE DataReceived(c)
      <4>1. \A d \in Conns : d # c => buf'[d] = buf[d] /\ client'[d] = client[d]
        BY <3>2 DEF DataReceived, TypeOK
      <4> QED  BY <1>0, <2>1, <3>2, <4>1, KeptSame, KeptFed
    <3>3. CASE TakesOne(c) /\ (Idly(c) \/ Head(buf[c]).op # "UNSUBSCRIBE")
      <4>1. \A d \in Conns : d # c => buf'[d] = buf[d] /\ client'[d] = client[d]
        BY <3>3 DEF TakesOne, TypeOK
      <4>2. Head(buf[c]).op = "UNSUBSCRIBE" => active'[c] = {}
        BY <1>0, <2>1, <3>3 DEF Idly, ListedOnce, AttachedExactly
      <4> QED  BY <1>0, <2>1, <3>3, <4>1, <4>2, KeptSame, KeptTaken
    <3>4. CASE Publish(c)
      BY <3>3, <3>4 DEF Publish, Takes, Handling, TakesOne
    <3>5. CASE Connect(c) \/ Drain(c) \/ Lost(c)
      BY <3>1, <3>5 DEF Connect, Drain, Lost
    <3> QED  BY <1>2, <3>1, <3>2, <3>3, <3>4, <3>5, QuietTakes
  <2> QED  BY <2>1, <2>2 DEF OnceInv
<1>3. CASE Subscribe(c) \/ Unsubscribe(c)
  <2>1. PICK m \in ChanMsgs :
          \/ Takes(c, m, {"SUBSCRIBE"}) /\ Enlist(c, m.chan)
          \/ Takes(c, m, {"UNSUBSCRIBE"}) /\ Delist(c, m.chan)
    BY <1>3 DEF Subscribe, Unsubscribe
  <2>2. TakesOne(c) /\ m = Head(buf[c]) /\ m.chan \in Chans /\ ak[c] # None
    BY <1>3, <2>1 DEF Subscribe, Unsubscribe, Takes, Handling, TakesOne, ChanMsgs
  <2>3. \A d \in Conns : d # c => /\ buf'[d] = buf[d] /\ client'[d] = client[d]
                                  /\ active'[d] = active[d]
    BY <2>1, <2>2 DEF TakesOne, TypeOK, Enlist, Delist
  <2>4. /\ Enlist(c, m.chan) => active'[c] = active[c] \cup {m.chan}
        /\ Delist(c, m.chan) => active'[c] = active[c] \ {m.chan}
    BY DEF Enlist, Delist, TypeOK
  <2>5. /\ m.op = "SUBSCRIBE" => m.chan \notin active[c]
        /\ Kept(view, c)'
    BY <1>0, <2>1, <2>2, <2>4, KeptTaken DEF Takes
  <2>6. \A d \in Conns : Kept(view, d)'
    BY <1>0, <2>3, <2>5, KeptSame
  <2>7. \A d \in Conns : d # c => \A x \in Chans : subscriptions'[x][d] = subscriptions[x][d]
    BY <2>1, <2>2, EnlistOthers
  <2>8. \A x \in Chans :
          subscriptions'[x][c] = IF x = m.chan
                                 THEN IF Enlist(c, m.chan) THEN subscriptions[x][c] + 1
                                      ELSE Removed(subscriptions[x][c])
                                 ELSE subscriptions[x][c]
    BY <2>1, <2>2 DEF Enlist, Delist, TypeOK
  <2>9. \A x \in Chans : subscriptions'[x][c] = IF x \in active'[c] THEN 1 ELSE 0
    <3>1. \A x \in Chans : subscriptions[x][c] = IF x \in active[c] THEN 1 ELSE 0
      BY <1>0 DEF ListedOnce
    <3>2. Removed(1) = 0 /\ Removed(0) = 0
      BY DEF Removed
    <3>3. CASE Enlist(c, m.chan) /\ m.op = "SUBSCRIBE"
      BY <2>2, <2>4, <2>5, <2>8, <3>1, <3>3
    <3>4. CASE ~Enlist(c, m.chan) /\ Delist(c, m.chan)
      BY <2>2, <2>4, <2>8, <3>1, <3>2, <3>4
    <3>5. Delist(c, m.chan) => ~Enlist(c, m.chan)
      BY <2>2, <2>4
    <3> QED  BY <2>1, <3>3, <3>4, <3>5 DEF Takes
  <2>10. ListedOnce'
    <3>1. \A d \in Conns : d # c => (ak'[d] = None => active'[d] = {})
      BY <1>0, <2>3, LogsIn DEF ListedOnce
    <3>2. ak'[c] # None
      BY <2>2, LogsIn
    <3> QED  BY <1>0, <2>3, <2>7, <2>9, <3>1, <3>2 DEF ListedOnce
  <2> QED  BY <2>6, <2>10 DEF OnceInv
<1> QED  BY <1>2, <1>3 DEF Steps

LEMMA OnceAlways ==
  ASSUME NEW view, NeverTwice(view)
  PROVE  Spec => [](BrokerInv /\ OnceInv(view))
<1>1. Init => OnceInv(view)
  BY OnceInit
<1>2. BrokerInv /\ OnceInv(view) /\ [Next]_vars => OnceInv(view)'
  BY OnceStep DEF BrokerInv
<1> QED  BY <1>1, <1>2, InvAlways, PTL DEF Spec

(* Closing unsubscribes: as long as peers never subscribe twice to a         *)
(* channel, Server.publish never meets an entry of a connection that         *)
(* connection_lost has cleaned up.                                           *)
THEOREM NoStale ==
  ASSUME NEW view, NeverTwice(view)
  PROVE  Spec => []NoStaleSubscriber
<1>1. BrokerInv /\ OnceInv(view) => NoStaleSubscriber
  <2> SUFFICES ASSUME BrokerInv, OnceInv(view), NEW ch \in Chans, NEW c \in Conns,
                      subscriptions[ch][c] > 0
               PROVE  c \in connections
    BY DEF NoStaleSubscriber
  <2>1. ch \in active[c]
    BY DEF OnceInv, ListedOnce
  <2>2. hasServer[c]
    BY <2>1 DEF BrokerInv, AttachedExactly
  <2>3. link[c].state # "new"
    BY DEF BrokerInv, Untouched
  <2> QED  BY <2>2, <2>3 DEF BrokerInv, AttachedExactly
<1> QED  BY <1>1, OnceAlways, PTL
-----------------------------------------------------------------------------
(* The broker as a publish/subscribe service.  With every connection listed  *)
(* once at most, and only while it has a server, the list's live entries are *)
(* the open connections subscribed to the channel.                           *)
Listens(d, ch) == ch \in active[d] /\ link[d].state = "open"

LEMMA LiveListens ==
  /\ ListedOnce => \A ch \in Chans : Live(ch) = {d \in Conns : Listens(d, ch)}
  /\ ListedOnce' => \A ch \in Chans : Live(ch)' = {d \in Conns : Listens(d, ch)'}
BY DEF ListedOnce, Live, Listed, Open, Listens

LEMMA NoneStale ==
  ASSUME ListedOnce, AttachedExactly
  PROVE  \A ch \in Chans : Stale(ch) = {}
BY DEF ListedOnce, AttachedExactly, Stale, Listed

(* A step after which c, and nobody else, may listen to nothing any more.   *)
LEMMA LeavesOrStays ==
  ASSUME ListedOnce, ListedOnce', UNCHANGED <<published, inbox>>, NEW c \in Conns,
         \A d \in Conns, ch \in Chans : d # c => (Listens(d, ch)' <=> Listens(d, ch)),
         \/ \A ch \in Chans : ~Listens(c, ch)'
         \/ \A ch \in Chans : Listens(c, ch)' <=> Listens(c, ch)
  PROVE  [PS!Next]_PS!psVars
<1>1. /\ \A ch \in Chans : Live(ch) = {d \in Conns : Listens(d, ch)}
      /\ \A ch \in Chans : Live(ch)' = {d \in Conns : Listens(d, ch)'}
  BY LiveListens
<1>2. CASE \A ch \in Chans : ~Listens(c, ch)'
  <2>1. \A ch \in Chans : Live(ch)' = Live(ch) \ {c}
    BY <1>1, <1>2
  <2>2. PS!Leave(c)
    BY <2>1 DEF PS!Leave
  <2> QED  BY <2>2 DEF PS!Next
<1>3. CASE \A ch \in Chans : Listens(c, ch)' <=> Listens(c, ch)
  <2>1. \A ch \in Chans : Live(ch)' = Live(ch)
    BY <1>1, <1>3
  <2> QED  BY <2>1 DEF PS!psVars
<1> QED  BY <1>2, <1>3

LEMMA SubscribeRefines ==
  ASSUME TypeOK, Untouched, ListedOnce, ListedOnce', NEW c \in Conns, Subscribe(c)
  PROVE  [PS!Next]_PS!psVars
<1>1. PICK m \in ChanMsgs :
        /\ Takes(c, m, {"SUBSCRIBE"})
        /\ Enlist(c, m.chan)
        /\ IF m.chan \in subchans[c] THEN UNCHANGED link ELSE SubscribeRefused(c)
  BY DEF Subscribe
<1>2. m.chan \in Chans /\ UNCHANGED <<published, inbox>>
  BY DEF ChanMsgs, Subscribe
<1>3. \A d \in Conns : active'[d] = IF d = c THEN active[d] \cup {m.chan} ELSE active[d]
  BY <1>1 DEF Enlist, TypeOK
<1>4. CASE m.chan \in subchans[c] /\ link[c].state = "open"
  <2>1. \A d \in Conns, ch \in Chans :
          Listens(d, ch)' <=> Listens(d, ch) \/ (d = c /\ ch = m.chan)
    BY <1>1, <1>3, <1>4 DEF Listens
  <2>2. [ch \in Chans |-> Live(ch)]' = [[ch \in Chans |-> Live(ch)] EXCEPT ![m.chan] = @ \cup {c}]
    <3>1. /\ \A ch \in Chans : Live(ch) = {d \in Conns : Listens(d, ch)}
          /\ \A ch \in Chans : Live(ch)' = {d \in Conns : Listens(d, ch)'}
      BY LiveListens
    <3>2. \A ch \in Chans : Live(ch)' = IF ch = m.chan THEN Live(ch) \cup {c} ELSE Live(ch)
      BY <2>1, <3>1
    <3> QED  BY <1>2, <3>2
  <2>3. PS!Subscribe(c, m.chan)
    BY <1>2, <2>2 DEF PS!Subscribe
  <2> QED  BY <1>2, <2>3 DEF PS!Next
<1>5. CASE m.chan \in subchans[c] /\ link[c].state # "open"
  <2>1. \A d \in Conns, ch \in Chans : Listens(d, ch)' <=> Listens(d, ch)
    BY <1>1, <1>3, <1>5 DEF Listens
  <2> QED  BY <1>2, <2>1, LeavesOrStays
<1>6. CASE m.chan \notin subchans[c]
  <2>1. PICK l : link' = [link EXCEPT ![c] = l] /\ l.state # "open"
    BY <1>1, <1>6, RejectLater DEF SubscribeRefused
  <2>2. \A d \in Conns : link'[d] = IF d = c THEN l ELSE link[d]
    BY <2>1 DEF TypeOK
  <2>3. /\ \A d \in Conns, ch \in Chans : d # c => (Listens(d, ch)' <=> Listens(d, ch))
        /\ \A ch \in Chans : ~Listens(c, ch)'
    BY <1>3, <2>1, <2>2 DEF Listens
  <2> QED  BY <1>2, <2>3, LeavesOrStays
<1> QED  BY <1>4, <1>5, <1>6

LEMMA UnsubscribeRefines ==
  ASSUME TypeOK, Untouched, ListedOnce, ListedOnce', NEW c \in Conns, Unsubscribe(c)
  PROVE  [PS!Next]_PS!psVars
<1>1. PICK ch \in Chans : Delist(c, ch)
  BY UnsubscribeMoves
<1>2. UNCHANGED <<link, published, inbox>>
  BY UnsubscribeMoves DEF ghostVars
<1>3. \A d \in Conns : active'[d] = IF d = c THEN active[d] \ {ch} ELSE active[d]
  BY <1>1 DEF Delist, TypeOK
<1>4. \A d \in Conns, x \in Chans :
        Listens(d, x)' <=> Listens(d, x) /\ ~(d = c /\ x = ch)
  BY <1>2, <1>3 DEF Listens
<1>5. /\ \A x \in Chans : Live(x) = {d \in Conns : Listens(d, x)}
      /\ \A x \in Chans : Live(x)' = {d \in Conns : Listens(d, x)'}
  BY LiveListens
<1>6. \A x \in Chans : Live(x)' = IF x = ch THEN Live(x) \ {c} ELSE Live(x)
  BY <1>4, <1>5
<1>7. [x \in Chans |-> Live(x)]' = [[x \in Chans |-> Live(x)] EXCEPT ![ch] = @ \ {c}]
  BY <1>6
<1> QED  BY <1>2, <1>7 DEF PS!Unsubscribe, PS!Next

LEMMA PublishRefines ==
  ASSUME TypeOK, Untouched, AttachedExactly, ListedOnce, ListedOnce',
         NEW c \in Conns, Publish(c)
  PROVE  [PS!Next]_PS!psVars
<1>1. PICK m \in ChanMsgs :
        /\ m.ident = ak[c] /\ m.chan \in pubchans[c] /\ published' = published + 1
        /\ \E done \in Walks(m.chan), how \in [Conns -> Kernel] : Walk(c, m, done, how)
  BY DEF Publish, Walk
<1> DEFINE ch == m.chan
<1>2. ch \in Chans /\ ak[c] \in Idents
  BY <1>1 DEF ChanMsgs
<1>3. Stale(ch) = {}
  BY <1>2, NoneStale
<1>4. PICK how \in [Conns -> Kernel] : Walk(c, m, Listed(ch), how)
  BY <1>1, <1>3 DEF Walks
<1>5. Listed(ch) \cap Live(ch) = Live(ch) /\ Listed(ch) \cap Gone(ch) = Gone(ch)
  BY DEF Live, Gone
<1>6. /\ inbox' = [d \in Conns |-> IF d \in Live(ch)
                                   THEN Append(inbox[d], [ident |-> ak[c], chan |-> ch])
                                   ELSE inbox[d]]
      /\ ConnectionLost(Gone(ch))
      /\ link' = [d \in Conns |-> IF d \in Live(ch) THEN Written(link[d], how[d])
                                  ELSE link[d]]
  BY <1>3, <1>4, <1>5 DEF Walk
<1>7. /\ \A d \in Conns : active'[d] = IF d \in Gone(ch) THEN {} ELSE active[d]
      /\ \A d \in Gone(ch) : link[d].state # "open"
      /\ \A d \in Live(ch) : link[d].state = "open"
  BY <1>6 DEF ConnectionLost, Gone, Live, Open
<1>8. \A d \in Conns : link'[d].state = "open" => link[d].state = "open"
  BY PublishMoves DEF Later
<1> DEFINE broken == {d \in Live(ch) : link'[d].state # "open"}
<1>9. \A x \in Chans : Live(x)' = Live(x) \ broken
  <2>1. /\ \A x \in Chans : Live(x) = {d \in Conns : Listens(d, x)}
        /\ \A x \in Chans : Live(x)' = {d \in Conns : Listens(d, x)'}
    BY LiveListens
  <2>2. \A d \in Conns : d \notin Live(ch) => link'[d] = link[d]
    BY <1>6
  <2>3. \A d \in Conns : d \in broken <=> d \in Live(ch) /\ link'[d].state # "open"
    BY DEF Live, Listed
  <2> HIDE DEF broken
  <2>4. \A d \in Conns, x \in Chans : Listens(d, x)' <=> Listens(d, x) /\ d \notin broken
    BY <1>7, <1>8, <2>2, <2>3 DEF Listens
  <2> QED  BY <2>1, <2>4
<1>10. broken \in SUBSET Live(ch)
  OBVIOUS
<1> HIDE DEF broken
<1>11. PS!Publish(ak[c], ch)
  BY <1>1, <1>2, <1>6, <1>9, <1>10 DEF PS!Publish
<1> QED  BY <1>2, <1>11 DEF PS!Next

LEMMA StepRefines ==
  ASSUME TypeOK, Untouched, AttachedExactly, ListedOnce, ListedOnce', [Next]_vars
  PROVE  [PS!Next]_PS!psVars
<1>1. CASE UNCHANGED vars
  BY <1>1 DEF vars, serverVars, ghostVars, PS!psVars, Live, Listed, Open
<1>2. ASSUME NEW c \in Conns, Connect(c)
      PROVE  [PS!Next]_PS!psVars
  <2>1. PICK l : link' = [link EXCEPT ![c] = l]
    BY <1>2, ConnectMoves
  <2>2. /\ UNCHANGED active /\ UNCHANGED <<published, inbox>>
        /\ \A d \in Conns : d # c => link'[d] = link[d]
    BY <1>2, <2>1, ConnectMoves DEF TypeOK, ghostVars
  <2>3. active[c] = {}
    <3>1. \A ch \in Chans : subscriptions[ch][c] = 0
      BY <1>2, ConnectMoves DEF Untouched
    <3> QED  BY <3>1 DEF ListedOnce, TypeOK
  <2>4. /\ \A d \in Conns, ch \in Chans : d # c => (Listens(d, ch)' <=> Listens(d, ch))
        /\ \A ch \in Chans : ~Listens(c, ch)'
    BY <2>2, <2>3 DEF Listens
  <2> QED  BY <2>2, <2>4, LeavesOrStays
<1>3. ASSUME NEW c \in Conns, Quiet(c)
      PROVE  [PS!Next]_PS!psVars
  <2>1. PICK l : link' = [link EXCEPT ![c] = l] /\ (l.state = "open" => link[c].state = "open")
    BY <1>3, QuietMoves DEF Moves, Later
  <2>2. UNCHANGED active /\ UNCHANGED <<published, inbox>>
    BY <1>3, QuietFrame DEF serverVars, ghostVars
  <2>3. \A d \in Conns : link'[d] = IF d = c THEN l ELSE link[d]
    BY <2>1 DEF TypeOK
  <2>4. /\ \A d \in Conns, ch \in Chans : d # c => (Listens(d, ch)' <=> Listens(d, ch))
        /\ \/ \A ch \in Chans : ~Listens(c, ch)'
           \/ \A ch \in Chans : Listens(c, ch)' <=> Listens(c, ch)
    BY <2>1, <2>2, <2>3 DEF Listens
  <2> QED  BY <2>2, <2>4, LeavesOrStays
<1>4. ASSUME NEW c \in Conns, Drain(c) \/ Lost(c)
      PROVE  [PS!Next]_PS!psVars
  <2>1. PICK l : /\ link' = [link EXCEPT ![c] = l]
                 /\ l.state = "open" => link[c].state = "open"
                 /\ \/ UNCHANGED serverVars
                    \/ l.state = "lost" /\ LosesConnection(c)
    BY <1>4, LosesMoves
  <2>2. UNCHANGED <<published, inbox>>
    BY <1>4, LosesMoves DEF ghostVars
  <2>3. \A d \in Conns : /\ link'[d] = IF d = c THEN l ELSE link[d]
                         /\ d # c => active'[d] = active[d]
                         /\ l.state = "open" => active'[d] = active[d]
    BY <2>1 DEF TypeOK, LosesConnection, ConnectionLost, serverVars
  <2>4. /\ \A d \in Conns, ch \in Chans : d # c => (Listens(d, ch)' <=> Listens(d, ch))
        /\ \/ \A ch \in Chans : ~Listens(c, ch)'
           \/ \A ch \in Chans : Listens(c, ch)' <=> Listens(c, ch)
    BY <2>1, <2>3 DEF Listens
  <2> QED  BY <2>2, <2>4, LeavesOrStays
<1> QED
  BY <1>1, <1>2, <1>3, <1>4, SubscribeRefines, UnsubscribeRefines, PublishRefines,
     NextSteps DEF Steps

(* The broker is a publish/subscribe service: for peers that never subscribe *)
(* twice, every message on_publish accepts is handed, once, to all the open  *)
(* connections subscribed to its channel and to nobody else.                 *)
THEOREM IsPubSub ==
  ASSUME NEW view, NeverTwice(view)
  PROVE  Spec => ImplementsPubSub
<1>1. Init => PS!Init
  BY DEF Init, PS!Init, Live, Listed
<1>2. BrokerInv /\ OnceInv(view) /\ BrokerInv' /\ OnceInv(view)' /\ [Next]_vars
        => [PS!Next]_PS!psVars
  BY StepRefines DEF BrokerInv, OnceInv
<1>3. Spec => PS!Spec
  BY <1>1, <1>2, OnceAlways, PTL DEF Spec, PS!Spec
<1> QED  BY <1>3 DEF ImplementsPubSub
-----------------------------------------------------------------------------
(* Input is not stranded. *)

\* Whose callback it is.
LEMMA StepsRun ==
  ASSUME TypeOK, Untouched, NEW c \in Conns, Steps(c)
  PROVE  /\ loop = None \/ loop.conn = c
         /\ loop' = None \/ loop'.conn = c
<1>1. \/ DataReceived(c) \/ Eof(c) \/ Reset(c) \/ DeadlineExpires(c)
      \/ AuthResult(c) \/ AuthError(c)
      => loop = None
  BY DEF DataReceived, Eof, Reset, DeadlineExpires, AuthResult, AuthError, Idle
<1>2. \/ Undecodable(c) \/ NotAuthFirst(c) \/ OnAuthSync(c) \/ OnAuthAsync(c)
      \/ PublishRefused(c) \/ ServerIsNone(c) \/ NotImplemented(c) \/ BufferEmpty(c)
      => loop.conn = c
  BY DEF Undecodable, NotAuthFirst, OnAuthSync, OnAuthAsync, PublishRefused,
     ServerIsNone, NotImplemented, BufferEmpty, Takes, Handling
<1>4. Quiet(c) => loop' = None \/ loop'.conn = c
  BY QuietMoves
<1>5. CASE Connect(c) \/ Drain(c) \/ Lost(c)
  BY <1>5 DEF Connect, Drain, Lost, Idle
<1>6. CASE Publish(c)
  <2>1. loop.conn = c
    BY <1>6 DEF Publish, Takes, Handling
  <2> QED  BY <1>6, <2>1, PublishMoves
<1>7. CASE Subscribe(c) \/ Unsubscribe(c)
  BY <1>7 DEF Subscribe, Unsubscribe, Takes, Handling
<1> QED  BY <1>1, <1>2, <1>4, <1>5, <1>6, <1>7 DEF Steps, Quiet

\* What stays open is read from as before.
Calm(l, k) == k.state = "open" => l.state = "open" /\ k.rpaused = l.rpaused

LEMMA LinkCalm ==
  ASSUME NEW l \in Links, NEW k
  PROVE  /\ Calm(l, l) /\ Calm(l, Aborted(l)) /\ Calm(l, Closed(l))
         /\ Calm(l, Limited(l)) /\ Calm(l, Written(l, k))
         /\ \A n \in 1 .. l.out : Calm(l, Drained(l, n))
         /\ Closed(l).state # "open" /\ Aborted(l).state # "open"
<1>1. /\ Closed(l).state # "open" /\ Aborted(l).state # "open"
      /\ Calm(l, l) /\ Calm(l, Aborted(l)) /\ Calm(l, Closed(l))
  BY DEF Calm, Aborted, Closed, Links, Writable
<1>2. \A j \in Links : Checked(j).state = j.state /\ Checked(j).rpaused = j.rpaused
  BY DEF Links, Checked
<1>3. Calm(l, Limited(l))
  <2>1. [l EXCEPT !.high = AuthHigh] \in Links
    BY DEF Links
  <2> QED  BY <1>2, <2>1 DEF Links, Calm, Limited
<1>4. Calm(l, Written(l, k))
  <2>1. [l EXCEPT !.out = @ + 1] \in Links /\ [l EXCEPT !.out = 1] \in Links
    BY DEF Links
  <2>2. /\ Calm(l, Checked([l EXCEPT !.out = @ + 1]))
        /\ Calm(l, Checked([l EXCEPT !.out = 1]))
    BY <1>2, <2>1 DEF Links, Calm
  <2> QED  BY <1>1, <2>2 DEF Written
<1>5. \A n \in 1 .. l.out : Calm(l, Drained(l, n))
  BY DEF Calm, Drained, Links
<1> QED  BY <1>1, <1>3, <1>4, <1>5

InFlight(c) == \E m \in AuthMsgs : tasks[c][m] > 0

Runs(c) == loop # None /\ loop.conn = c

\* Paused reading will be resumed by whoever is on the stack, or by a task;
\* what the buffer holds is being handled, or waits for a task.
Fine(c) ==
  Open(c) => /\ link[c].rpaused => InFlight(c) \/ (Runs(c) /\ loop.depth > 0)
             /\ buf[c] # << >>  => InFlight(c) \/ Runs(c)

Unread ==
  /\ buf \in [Conns -> Seq(Requests)]
  /\ \A c \in Conns : link[c].state = "new" => ~link[c].rpaused /\ buf[c] = << >>

FlowInv == Unread /\ \A c \in Conns : Fine(c)

LEMMA UnreadStep ==
  ASSUME TypeOK, Untouched, AttachedExactly, OnlyRequests, Unread, NEW c \in Conns, Steps(c)
  PROVE  Unread'
<1>0. Requests \subseteq Msgs
  BY DEF Requests
<1>1. \A d \in Conns : buf[d] \in Seq(Requests)
  BY DEF Unread
<1>2. \/ UNCHANGED buf
      \/ buf' = [buf EXCEPT ![c] = Tail(@)] /\ buf[c] # << >>
      \/ \E s \in Sends : buf' = [buf EXCEPT ![c] = @ \o s.chunk]
  <2>1. CASE Connect(c) \/ Drain(c) \/ Lost(c)
    BY <2>1 DEF Connect, Drain, Lost
  <2>2. CASE Publish(c) \/ Subscribe(c) \/ Unsubscribe(c)
    BY <2>2 DEF Publish, Subscribe, Unsubscribe, Takes, Handling
  <2>3. CASE Quiet(c)
    BY <2>3, QuietTakes DEF DataReceived, TakesOne
  <2> QED  BY <2>1, <2>2, <2>3 DEF Steps
<1>3. buf' \in [Conns -> Seq(Requests)]
  <2>1. CASE buf' = [buf EXCEPT ![c] = Tail(@)] /\ buf[c] # << >>
    <3>1. Tail(buf[c]) \in Seq(Requests)
      BY <1>1, <2>1
    <3> QED  BY <2>1, <3>1 DEF Unread
  <2>2. ASSUME NEW s \in Sends, buf' = [buf EXCEPT ![c] = @ \o s.chunk]
        PROVE  buf' \in [Conns -> Seq(Requests)]
    <3>1. buf[c] \o s.chunk \in Seq(Requests)
      BY <1>1 DEF OnlyRequests
    <3> QED  BY <2>2, <3>1 DEF Unread
  <2> QED  BY <1>2, <2>1, <2>2 DEF Unread
<1>4. /\ link'[c].state # "new"
      /\ \A d \in Conns : d # c /\ link'[d].state = "new" => link'[d] = link[d]
  <2>1. CASE Connect(c)
    <3>1. PICK l : link' = [link EXCEPT ![c] = l] /\ l.state # "new"
      BY <2>1, ConnectMoves
    <3> QED  BY <3>1 DEF TypeOK
  <2>2. CASE Quiet(c)
    BY <2>2, QuietMoves DEF Moves, Later, TypeOK
  <2>3. CASE Drain(c) \/ Lost(c)
    BY <2>3, LosesMoves DEF TypeOK
  <2>4. CASE Publish(c)
    <3>1. link[c].state # "new"
      BY <2>4, HandlerRuns DEF Publish, Takes
    <3> QED  BY <2>4, <3>1, PublishMoves DEF Later
  <2>5. CASE Subscribe(c)
    BY <2>5, SubscribeMoves DEF Moves, Later, TypeOK
  <2>6. CASE Unsubscribe(c)
    BY <2>6, UnsubscribeMoves DEF TypeOK
  <2> QED  BY <2>1, <2>2, <2>3, <2>4, <2>5, <2>6 DEF Steps
<1>5. \A d \in Conns : d # c => buf'[d] = buf[d]
  BY <1>2 DEF Unread
<1> QED  BY <1>3, <1>4, <1>5 DEF Unread

\* The messages of a step that only calms c's transport, or closes it.
LEMMA FineClosed ==
  ASSUME NEW c \in Conns, link'[c].state # "open"
  PROVE  Fine(c)'
BY DEF Fine, Open

LEMMA RejectCloses ==
  ASSUME TypeOK, NEW c \in Conns, NEW k, Reject(c, k)
  PROVE  link'[c].state # "open"
<1>1. PICK l : link' = [link EXCEPT ![c] = l] /\ l.state # "open"
  BY RejectLater
<1> QED  BY <1>1 DEF TypeOK

LEMMA RaiseCloses ==
  ASSUME TypeOK, NEW c \in Conns, NEW l \in Links, l.state # "open", Raise(c, l)
  PROVE  link'[c].state # "open"
<1>1. Aborted(l).state # "open"
  BY LinkCalm
<1> QED  BY <1>1 DEF Raise, TypeOK

LEMMA EndLoopLink ==
  ASSUME TypeOK, NEW c \in Conns, NEW l \in Links, loop \in Frames, EndLoop(c, l)
  PROVE  /\ link'[c].state = l.state
         /\ loop.depth = 0 => link'[c] = l /\ loop' = None
         /\ loop.depth # 0 /\ l.state = "open" => ~link'[c].rpaused
<1>1. ReadingResumed(l).state = l.state /\ (l.state = "open" => ~ReadingResumed(l).rpaused)
  BY DEF ReadingResumed, Links
<1>2. \/ loop.depth = 0 /\ loop' = None /\ link' = [link EXCEPT ![c] = l]
      \/ loop.depth # 0 /\ link' = [link EXCEPT ![c] = ReadingResumed(l)]
  BY DEF EndLoop
<1>3. \/ loop.depth = 0 /\ loop' = None /\ link'[c] = l
      \/ loop.depth # 0 /\ link'[c] = ReadingResumed(l)
  BY <1>2 DEF TypeOK
<1> QED  BY <1>1, <1>3

LEMMA FineHandled ==
  ASSUME TypeOK, Untouched, AttachedExactly, Unread, NEW c \in Conns, Fine(c), Quiet(c)
  PROVE  Fine(c)'
<1>0. link[c] \in Links /\ tasks[c] \in [AuthMsgs -> Nat] /\ buf[c] \in Seq(Requests)
  BY DEF TypeOK, Unread
<1>1. CASE DataReceived(c)
  <2>1. ~link'[c].rpaused /\ loop'.conn = c /\ loop' # None
    BY <1>1, BrokerAssumption DEF DataReceived, Frames
  <2> QED  BY <2>1 DEF Fine, Runs
<1>2. CASE Eof(c) \/ Reset(c)
  <2>1. link'[c].state # "open"
    BY <1>0, <1>2, LinkCalm DEF Eof, Reset, TypeOK
  <2> QED  BY <2>1, FineClosed
<1>3. CASE \/ DeadlineExpires(c) \/ AuthError(c) \/ NotAuthFirst(c) \/ PublishRefused(c)
  <2>1. \E k \in Kernel : Reject(c, k)
    BY <1>3 DEF DeadlineExpires, AuthError, NotAuthFirst, PublishRefused
  <2> QED  BY <2>1, RejectCloses, FineClosed
<1>4. CASE AuthResult(c)
  <2> DEFINE F == [conn |-> c, via |-> "task", depth |-> 1]
  <2>1. \E m \in AuthMsgs : \E row \in Answers[m.ident] : Accept(c, m, row, F) \/ Refuse(c, m, row)
    BY <1>4 DEF AuthResult
  <2>5. PICK m \in AuthMsgs : \E row \in Answers[m.ident] : Accept(c, m, row, F) \/ Refuse(c, m, row)
    BY <2>1
  <2>4. PICK row \in Answers[m.ident] : Accept(c, m, row, F) \/ Refuse(c, m, row)
    BY <2>5
  <2>2. CASE Refuse(c, m, row)
    BY <2>2, RejectCloses, FineClosed DEF Refuse
  <2>3. CASE Accept(c, m, row, F)
    <3>1. F # None
      BY BrokerAssumption DEF Frames
    <3>2. loop' = F
      BY <2>3 DEF Accept
    <3> QED  BY <3>1, <3>2 DEF Fine, Runs
  <2> QED  BY <2>2, <2>3, <2>4
<1>5. CASE Undecodable(c)
  <2>1. loop \in Frames
    BY <1>5 DEF Undecodable, Handling, TypeOK
  <2>2. Closed(link[c]) \in Links /\ Closed(link[c]).state # "open"
    BY <1>0, LinkOps, LinkCalm
  <2>3. link'[c].state # "open"
    BY <1>5, <2>1, <2>2, EndLoopLink DEF Undecodable
  <2> QED  BY <2>3, FineClosed
<1>6. CASE OnAuthSync(c)
  <2> DEFINE F == [loop EXCEPT !.depth = @ + 1]
  <2>4. PICK m \in AuthMsgs :
          Takes(c, m, {"AUTH"}) /\ \E row \in Answers[m.ident] : Accept(c, m, row, F) \/ Refuse(c, m, row)
    BY <1>6 DEF OnAuthSync
  <2>1. PICK row \in Answers[m.ident] :
          Takes(c, m, {"AUTH"}) /\ (Accept(c, m, row, F) \/ Refuse(c, m, row))
    BY <2>4
  <2>2. CASE Refuse(c, m, row)
    BY <2>2, RejectCloses, FineClosed DEF Refuse
  <2>3. CASE Accept(c, m, row, F)
    <3>1. loop \in Frames /\ loop.conn = c
      BY <2>1, TakesType
    <3>2. F \in Frames /\ F.conn = c /\ F.depth > 0
      BY <3>1 DEF Frames
    <3>3. F # None /\ loop' = F
      BY <2>3, <3>2, BrokerAssumption DEF Accept
    <3> HIDE DEF F
    <3> QED  BY <3>2, <3>3 DEF Fine, Runs
  <2> QED  BY <2>1, <2>2, <2>3
<1>7. CASE OnAuthAsync(c)
  <2>1. PICK m \in AuthMsgs : tasks' = [tasks EXCEPT ![c][m] = @ + 1]
    BY <1>7 DEF OnAuthAsync
  <2>2. tasks[c][m] \in Nat /\ tasks'[c][m] = tasks[c][m] + 1
    BY <1>0, <2>1 DEF TypeOK
  <2>3. tasks'[c][m] > 0
    BY <2>2
  <2> QED  BY <2>3 DEF Fine, InFlight
<1>8. CASE ServerIsNone(c)
  <2>1. link[c].state # "open"
    BY <1>8 DEF ServerIsNone, AttachedExactly
  <2>2. /\ Raise(c, link[c]) \/ \E k \in Kernel : Raise(c, Closed(Written(link[c], k)))
        /\ \A k : Written(link[c], k) \in Links /\ Closed(Written(link[c], k)) \in Links
    BY <1>0, <1>8, WrittenType, LinkOps DEF ServerIsNone
  <2>3. \A k : Closed(Written(link[c], k)).state # "open"
    BY <2>2, LinkCalm
  <2> QED  BY <1>0, <2>1, <2>2, <2>3, RaiseCloses, FineClosed
<1>9. CASE NotImplemented(c)
  <2>1. buf[c] # << >> /\ Head(buf[c]).op \in {"INFO", "ERROR"}
    BY <1>9 DEF NotImplemented, Takes, Handling
  <2>2. Head(buf[c]) \in Requests
    BY <1>0, <2>1
  <2> QED  BY <2>1, <2>2 DEF Requests
<1>10. CASE BufferEmpty(c)
  <2>1. loop \in Frames /\ Runs(c)
    BY <1>10 DEF BufferEmpty, TypeOK, Runs
  <2>2. /\ link'[c].state = link[c].state
        /\ loop.depth = 0 => link'[c] = link[c]
        /\ loop.depth # 0 /\ link[c].state = "open" => ~link'[c].rpaused
    BY <1>0, <1>10, <2>1, EndLoopLink DEF BufferEmpty
  <2>3. UNCHANGED <<buf, tasks>> /\ buf[c] = << >>
    BY <1>10 DEF BufferEmpty
  <2>4. loop.depth > 0 <=> loop.depth # 0
    BY <2>1 DEF Frames
  <2> QED  BY <2>2, <2>3, <2>4 DEF Fine, Open, InFlight
<1> QED
  BY <1>1, <1>2, <1>3, <1>4, <1>5, <1>6, <1>7, <1>8, <1>9, <1>10 DEF Quiet

\* A step of c that leaves a connection's input alone, and its transport calm.
LEMMA FineCalm ==
  ASSUME NEW d \in Conns, Fine(d), Calm(link[d], link'[d]), tasks'[d] = tasks[d],
         buf'[d] = buf[d] \/ Runs(d), Runs(d) => loop' = loop
  PROVE  Fine(d)'
BY DEF Fine, Calm, Open, InFlight, Runs

\* Without stale entries Server.publish does not raise.
LEMMA PublishCalm ==
  ASSUME TypeOK, AttachedExactly, ListedOnce, NEW c \in Conns, Publish(c)
  PROVE  /\ \A d \in Conns : Calm(link[d], link'[d])
         /\ Runs(c) /\ loop' = loop
<1>1. PICK m \in ChanMsgs, done \in SUBSET Conns, how \in [Conns -> Kernel] :
        Takes(c, m, {"PUBLISH"}) /\ Walk(c, m, done, how)
  BY PublishWalks
<1>2. Stale(m.chan) = {}
  BY NoneStale DEF ChanMsgs
<1>3. \A d \in Conns : link'[d] \in {link[d], Written(link[d], how[d])}
  BY <1>1, <1>2 DEF Walk
<1>4. \A d \in Conns : Calm(link[d], link[d]) /\ Calm(link[d], Written(link[d], how[d]))
  BY LinkCalm DEF TypeOK
<1>5. Runs(c) /\ loop' = loop
  BY <1>1, <1>2 DEF Walk, Takes, Handling, Runs
<1> QED  BY <1>3, <1>4, <1>5

LEMMA LosesCalm ==
  ASSUME TypeOK, NEW c \in Conns, Drain(c) \/ Lost(c)
  PROVE  Calm(link[c], link'[c])
<1>1. CASE Lost(c)
  <2>1. link'[c].state = "lost"
    BY <1>1 DEF Lost, TypeOK, Links
  <2> QED  BY <2>1 DEF Calm
<1>2. CASE Drain(c)
  <2>1. PICK n \in 1 .. link[c].out :
          \/ link' = [link EXCEPT ![c] = [Drained(link[c], n) EXCEPT !.state = "lost"]]
          \/ link' = [link EXCEPT ![c] = Drained(link[c], n)]
    BY <1>2 DEF Drain
  <2>2. link[c] \in Links /\ Drained(link[c], n) \in Links /\ Calm(link[c], Drained(link[c], n))
    BY LinkOps, LinkCalm DEF TypeOK
  <2>3. [Drained(link[c], n) EXCEPT !.state = "lost"].state = "lost"
    BY <2>2 DEF Links
  <2>4. \/ link'[c] = [Drained(link[c], n) EXCEPT !.state = "lost"]
        \/ link'[c] = Drained(link[c], n)
    BY <2>1 DEF TypeOK
  <2> QED  BY <2>2, <2>3, <2>4 DEF Calm
<1> QED  BY <1>1, <1>2

LEMMA ConnectFine ==
  ASSUME TypeOK, Unread, NEW c \in Conns, Connect(c)
  PROVE  Fine(c)'
<1>1. PICK k \in Kernel :
        link' = [link EXCEPT ![c] = Written([@ EXCEPT !.state = "open"], k)]
  BY DEF Connect
<1> DEFINE o == [link[c] EXCEPT !.state = "open"]
<1>2. link[c] \in Links /\ o \in Links /\ o.rpaused = link[c].rpaused
  <2>1. link[c] \in Links
    BY DEF TypeOK
  <2> QED  BY <2>1, LinkOps DEF Links
<1>3. Calm(o, Written(o, k)) /\ link'[c] = Written(o, k)
  BY <1>1, <1>2, LinkCalm DEF TypeOK
<1>4. ~link[c].rpaused /\ buf[c] = << >> /\ buf' = buf
  BY DEF Connect, Unread
<1> HIDE DEF o
<1> QED  BY <1>2, <1>3, <1>4 DEF Fine, Calm, Open

(* A step of c does to the others no more than write to them, or find that   *)
(* they are gone.                                                            *)
LEMMA Others ==
  ASSUME TypeOK, Untouched, AttachedExactly, ListedOnce, NEW c \in Conns, Steps(c),
         NEW d \in Conns, d # c
  PROVE  /\ Calm(link[d], link'[d])
         /\ buf'[d] = buf[d] /\ client'[d] = client[d]
         /\ tasks'[d] = tasks[d] /\ ak'[d] = ak[d]
         /\ hasServer'[d] => hasServer[d] /\ active'[d] = active[d]
         /\ ~Runs(d) /\ ~Runs(d)'
<1>1. Calm(link[d], link'[d])
  <2>1. CASE link'[d] = link[d]
    BY <2>1 DEF Calm
  <2>2. CASE Quiet(c) \/ Subscribe(c)
    BY <2>1, <2>2, QuietMoves, SubscribeMoves DEF Moves, TypeOK
  <2>3. CASE Connect(c) \/ Drain(c) \/ Lost(c)
    BY <2>1, <2>3, ConnectMoves, LosesMoves DEF TypeOK
  <2>4. CASE Publish(c)
    BY <2>4, PublishCalm
  <2>5. CASE Unsubscribe(c)
    BY <2>1, <2>5, UnsubscribeMoves
  <2> QED  BY <2>2, <2>3, <2>4, <2>5 DEF Steps
<1>2. tasks'[d] = tasks[d]
  BY QuietFrame, ConnectMoves, LosesMoves, PublishMoves, SubscribeMoves,
     UnsubscribeMoves DEF Steps
<1>3. buf'[d] = buf[d] /\ client'[d] = client[d]
  <2>1. CASE Quiet(c)
    BY <2>1, QuietTakes DEF DataReceived, TakesOne, TypeOK
  <2>2. CASE Connect(c) \/ Drain(c) \/ Lost(c)
    BY <2>2 DEF Connect, Drain, Lost
  <2>3. CASE Publish(c) \/ Subscribe(c) \/ Unsubscribe(c)
    BY <2>3 DEF Publish, Subscribe, Unsubscribe, Takes, TypeOK
  <2> QED  BY <2>1, <2>2, <2>3 DEF Steps
<1>4. ak'[d] = ak[d]
  BY LogsIn
<1>5. hasServer'[d] => hasServer[d] /\ active'[d] = active[d]
  <2>1. \/ UNCHANGED <<hasServer, active>>
        \/ \E L : ConnectionLost(L)
        \/ \E ch \in Chans : Enlist(c, ch) \/ Delist(c, ch)
    <3>1. CASE Connect(c)
      BY <3>1, ConnectMoves
    <3>2. CASE ~Connect(c)
      BY <3>2, Shape DEF Steps, ServerStep, TakesDown, serverVars
    <3> QED  BY <3>1, <3>2
  <2> QED  BY <2>1 DEF ConnectionLost, Enlist, Delist, TypeOK
<1>6. ~Runs(d) /\ ~Runs(d)'
  BY StepsRun DEF Runs
<1> QED  BY <1>1, <1>2, <1>3, <1>4, <1>5, <1>6

LEMMA FlowStep ==
  ASSUME TypeOK, Untouched, AttachedExactly, ListedOnce, OnlyRequests, FlowInv, [Next]_vars
  PROVE  FlowInv'
<1>1. CASE UNCHANGED vars
  BY <1>1 DEF FlowInv, Unread, Fine, InFlight, Runs, Open, vars
<1> SUFFICES ASSUME NEW c \in Conns, Steps(c)
             PROVE  FlowInv'
  BY <1>1, NextSteps
<1>0. Unread /\ \A d \in Conns : Fine(d) /\ link[d] \in Links
  BY DEF FlowInv, TypeOK
<1>2. Unread'
  BY <1>0, UnreadStep
<1>3. ASSUME NEW d \in Conns, d # c
      PROVE  Fine(d)'
  BY <1>0, <1>3, Others, FineCalm
<1>4. Fine(c)'
  <2>1. CASE Quiet(c)
    BY <1>0, <2>1, FineHandled
  <2>2. CASE Connect(c)
    BY <1>0, <2>2, ConnectFine
  <2>3. CASE Drain(c) \/ Lost(c)
    <3>1. UNCHANGED <<buf, tasks, loop>>
      BY <2>3 DEF Drain, Lost
    <3> QED  BY <1>0, <2>3, <3>1, LosesCalm, FineCalm
  <2>4. CASE Publish(c)
    <3>1. UNCHANGED tasks
      BY <2>4, PublishMoves
    <3> QED  BY <1>0, <2>4, <3>1, PublishCalm, FineCalm
  <2>5. CASE Subscribe(c)
    <3>1. Runs(c) /\ UNCHANGED <<loop, tasks>>
      BY <2>5 DEF Subscribe, Takes, Handling, Runs
    <3>2. UNCHANGED link \/ SubscribeRefused(c)
      BY <2>5 DEF Subscribe
    <3>3. CASE UNCHANGED link
      BY <1>0, <3>1, <3>3, LinkCalm, FineCalm
    <3>4. CASE SubscribeRefused(c)
      BY <3>4, RejectCloses, FineClosed DEF SubscribeRefused
    <3> QED  BY <3>2, <3>3, <3>4
  <2>6. CASE Unsubscribe(c)
    <3>1. Runs(c) /\ UNCHANGED <<loop, tasks, link>>
      BY <2>6 DEF Unsubscribe, Takes, Handling, Runs
    <3> QED  BY <1>0, <3>1, LinkCalm, FineCalm
  <2> QED  BY <2>1, <2>2, <2>3, <2>4, <2>5, <2>6 DEF Steps
<1> QED  BY <1>2, <1>3, <1>4 DEF FlowInv

LEMMA FlowInit == Init => FlowInv
BY DEF Init, FlowInv, Unread, Fine, Open, NewLink

(* Input is never stranded: for peers that never subscribe twice and send no *)
(* message meant for clients, between callbacks an open connection is paused *)
(* or holds messages only while an authentication check is in flight.        *)
THEOREM NotStranded ==
  ASSUME NEW view, NeverTwice(view), OnlyRequests
  PROVE  Spec => []InputNotStranded
<1>1. BrokerInv /\ OnceInv(view) /\ FlowInv /\ [Next]_vars => FlowInv'
  BY FlowStep DEF BrokerInv, OnceInv
<1>2. FlowInv => InputNotStranded
  BY DEF FlowInv, Fine, InputNotStranded, InFlight, Runs, Idle
<1> QED  BY <1>1, <1>2, FlowInit, OnceAlways, PTL DEF Spec
-----------------------------------------------------------------------------
(* Proper clients.  Theirs is the account [me, subs]: it agrees with what    *)
(* the broker knows, up to the messages still in the buffer.                 *)
LEMMA ProperOnce ==
  ASSUME NEW view, ProperPeers(view)
  PROVE  NeverTwice([p \in ClientStates |-> view[p].subs])
<1> DEFINE w == [p \in ClientStates |-> view[p].subs]
<1>1. w \in [ClientStates -> SUBSET Chans]
  BY DEF ProperPeers, Keeps, Accounts
<1>2. ASSUME NEW s \in Sends
      PROVE  Path(OnceMoves, SUBSET Chans, w[s.from], s.chunk, w[s.to])
  <2> DEFINE n == Len(s.chunk)
  <2>1. s.from \in ClientStates /\ s.to \in ClientStates /\ s.chunk \in Seq(Msgs)
    BY BrokerAssumption
  <2>2. PICK v \in [0 .. n -> Accounts] :
          /\ v[0] = view[s.from] /\ v[n] = view[s.to]
          /\ \A i \in 1 .. n : [from |-> v[i - 1], msg |-> s.chunk[i], to |-> v[i]] \in ProperMoves
    BY DEF ProperPeers, Keeps, Path
  <2>3. n \in Nat /\ \A i \in 1 .. n : s.chunk[i] \in Msgs
    BY <2>1
  <2> HIDE DEF n
  <2> DEFINE z == [i \in 0 .. n |-> v[i].subs]
  <2>4. \A i \in 0 .. n : v[i] \in Accounts /\ v[i].subs \in SUBSET Chans
    BY DEF Accounts
  <2>5. z \in [0 .. n -> SUBSET Chans] /\ z[0] = w[s.from] /\ z[n] = w[s.to]
    BY <2>1, <2>2, <2>3, <2>4
  <2>6. ASSUME NEW i \in 1 .. n
        PROVE  [from |-> z[i - 1], msg |-> s.chunk[i], to |-> z[i]] \in OnceMoves
    <3>1. i - 1 \in 0 .. n /\ i \in 0 .. n
      BY <2>3
    <3>2. [from |-> v[i - 1], msg |-> s.chunk[i], to |-> v[i]] \in ProperMoves
      BY <2>2
    <3>3. z[i - 1] = v[i - 1].subs /\ z[i] = v[i].subs
      BY <3>1
    <3>4. /\ v[i - 1] \in Accounts /\ v[i] \in Accounts
          /\ v[i - 1].subs \in SUBSET Chans /\ v[i].subs \in SUBSET Chans
      BY <2>4, <3>1
    <3> HIDE DEF z
    <3> DEFINE a == v[i - 1]
               b == v[i]
               m == s.chunk[i]
    <3>5. IF a.me = None
          THEN m.op = "AUTH" /\ b = [a EXCEPT !.me = m.ident]
          ELSE /\ m.op \in {"PUBLISH", "SUBSCRIBE", "UNSUBSCRIBE"}
               /\ m.op = "PUBLISH" => b.subs = a.subs
               /\ m.op = "SUBSCRIBE" =>
                    m.chan \notin a.subs /\ b.subs = a.subs \cup {m.chan}
               /\ m.op = "UNSUBSCRIBE" => b.subs = a.subs \ {m.chan}
      BY <3>2 DEF ProperMoves, Behaves
    <3>6. a.me = None => b.subs = a.subs
      BY <3>4, <3>5 DEF Accounts
    <3> HIDE DEF a, b, m
    <3>7. /\ m.op = "SUBSCRIBE" => m.chan \notin a.subs /\ a.subs \cup {m.chan} \subseteq b.subs
          /\ m.op = "UNSUBSCRIBE" => a.subs \ {m.chan} \subseteq b.subs
          /\ m.op \notin {"SUBSCRIBE", "UNSUBSCRIBE"} => a.subs \subseteq b.subs
      BY <3>5, <3>6
    <3>8. m \in Msgs
      BY <2>3 DEF m
    <3> QED  BY <3>3, <3>4, <3>7, <3>8 DEF a, b, m, OnceMoves
  <2> HIDE DEF z
  <2> QED  BY <2>5, <2>6 DEF Path, n
<1> HIDE DEF w
<1>3. NeverTwice(w)
  BY <1>1, <1>2 DEF NeverTwice, Keeps
<1> QED  BY <1>3 DEF w

NoTask(c) == \A m \in AuthMsgs : tasks[c][m] = 0

\* The connection is over, or about to be.
Shut(c) == link[c].state \notin {"new", "open"}

LEMMA ShutStays ==
  ASSUME TypeOK, Untouched, AttachedExactly, NEW c \in Conns, Steps(c),
         NEW d \in Conns, Shut(d)
  PROVE  Shut(d)'
<1>1. CASE Connect(c)
  <2>1. PICK l : link' = [link EXCEPT ![c] = l] /\ link[c].state = "new"
    BY <1>1, ConnectMoves
  <2>2. d # c
    BY <2>1 DEF Shut
  <2> QED  BY <2>1, <2>2 DEF Shut, TypeOK
<1>2. CASE ~Connect(c)
  BY <1>2, Shape DEF Steps, LinksGoOn, Shut
<1> QED  BY <1>1, <1>2

LEMMA RejectShuts ==
  ASSUME TypeOK, NEW c \in Conns, link[c].state # "new", NEW k, Reject(c, k)
  PROVE  Shut(c)'
<1>1. PICK l : link' = [link EXCEPT ![c] = l] /\ Later(link[c], l) /\ l.state # "open"
  BY RejectLater
<1> QED  BY <1>1 DEF Shut, Later, TypeOK

\* One check is in flight, and nothing else happens on c until it is over.
Waits(c, i) ==
  /\ ~Runs(c) /\ (Open(c) => link[c].rpaused)
  /\ \E m \in AuthMsgs : m.ident = i /\ \A k \in AuthMsgs : tasks[c][k] = IF k = m THEN 1 ELSE 0

Agrees(a, c) ==
  \/ a = [me |-> None, subs |-> {}] /\ ak[c] = None /\ NoTask(c)
  \/ a.me # None /\ ak[c] = None /\ a.subs = {} /\ Waits(c, a.me)
  \/ a.me # None /\ ak[c] = None /\ NoTask(c) /\ Shut(c)
  \/ a.me # None /\ ak[c] = a.me /\ NoTask(c) /\ (hasServer[c] => active[c] = a.subs)

\* The account kept before the messages in the buffer.
Stands(view, a, c) ==
  /\ a \in Accounts /\ Path(ProperMoves, Accounts, a, buf[c], view[client[c]])
  /\ Agrees(a, c)

ProperInv(view) ==
  \A c \in Conns : /\ \E a \in Accounts : Stands(view, a, c)
                   /\ Runs(c) /\ loop.depth > 0 => ak[c] # None

\* The next message moves the account.
LEMMA NextMove ==
  ASSUME TypeOK, NEW view, NEW c \in Conns, NEW a, Stands(view, a, c), buf[c] # << >>
  PROVE  LET m == Head(buf[c]) IN
         \E b \in Accounts :
           /\ Path(ProperMoves, Accounts, b, Tail(buf[c]), view[client[c]])
           /\ Behaves(a, m, b)
<1>1. buf[c] \in Seq(Msgs)
  BY DEF TypeOK
<1>2. PICK b \in Accounts :
        /\ [from |-> a, msg |-> Head(buf[c]), to |-> b] \in ProperMoves
        /\ Path(ProperMoves, Accounts, b, Tail(buf[c]), view[client[c]])
  BY <1>1, PathStep DEF Stands
<1> QED  BY <1>2 DEF ProperMoves

LEMMA AgreesSame ==
  ASSUME NEW a, NEW d \in Conns, Agrees(a, d), ak'[d] = ak[d], tasks'[d] = tasks[d],
         Runs(d)' => Runs(d), Shut(d) => Shut(d)',
         Calm(link[d], link'[d]) \/ Runs(d) \/ NoTask(d),
         hasServer'[d] => hasServer[d] /\ active'[d] = active[d]
  PROVE  Agrees(a, d)'
<1>1. NoTask(d) => NoTask(d)'
  BY DEF NoTask
<1>2. Waits(d, a.me) => ~Runs(d) /\ ~NoTask(d)
  BY DEF Waits, NoTask
<1>3. Waits(d, a.me) => Waits(d, a.me)'
  BY <1>2 DEF Waits, Calm, Open
<1> QED  BY <1>1, <1>3 DEF Agrees

LEMMA StandsSame ==
  ASSUME NEW view, NEW a, NEW d \in Conns, Stands(view, a, d),
         buf'[d] = buf[d], client'[d] = client[d], Agrees(a, d)'
  PROVE  Stands(view, a, d)'
BY DEF Stands

(* A handler that takes a message and leaves c as the account b of the       *)
(* message says.                                                             *)
LEMMA StandsTaken ==
  ASSUME TypeOK, NEW view, NEW c \in Conns, TakesOne(c), NEW b \in Accounts,
         Path(ProperMoves, Accounts, b, Tail(buf[c]), view[client[c]]), Agrees(b, c)'
  PROVE  Stands(view, b, c)'
BY DEF Stands, TakesOne, TypeOK

\* On a connection that is being handled no check is in flight.
LEMMA RunningAccount ==
  ASSUME NEW a, NEW c \in Conns, Agrees(a, c), Runs(c)
  PROVE  /\ NoTask(c)
         /\ ak[c] # None => a.me = ak[c] /\ (hasServer[c] => active[c] = a.subs)
BY DEF Agrees, Waits

(* What the handlers of c do to c, apart from authentication. *)
LEMMA ProperHandled ==
  ASSUME TypeOK, Untouched, AttachedExactly, ListedOnce, NEW view, NEW c \in Conns,
         NEW a, Stands(view, a, c),
         \/ NotAuthFirst(c) \/ PublishRefused(c) \/ ServerIsNone(c)
         \/ Publish(c) \/ Subscribe(c) \/ Unsubscribe(c)
  PROVE  /\ \E b \in Accounts : Stands(view, b, c)'
         /\ loop' = loop \/ loop' = None
         /\ ak' = ak
<1>0. a \in Accounts /\ Agrees(a, c)
  BY DEF Stands
<1>1. TakesOne(c) /\ Runs(c)
  BY DEF NotAuthFirst, PublishRefused, ServerIsNone, Publish, Subscribe, Unsubscribe,
     Takes, Handling, TakesOne, Runs
<1> DEFINE m == Head(buf[c])
<1>2. PICK b \in Accounts :
        /\ Path(ProperMoves, Accounts, b, Tail(buf[c]), view[client[c]])
        /\ Behaves(a, m, b)
  BY <1>1, NextMove DEF TakesOne
<1>3. /\ NoTask(c)
      /\ ak[c] # None => a.me = ak[c] /\ (hasServer[c] => active[c] = a.subs)
  BY <1>0, <1>1, RunningAccount
<1>4. ak' = ak /\ tasks' = tasks /\ (loop' = loop \/ loop' = None)
  <2>1. CASE NotAuthFirst(c) \/ PublishRefused(c) \/ Publish(c) \/ Subscribe(c) \/ Unsubscribe(c)
    BY <2>1, PublishMoves DEF NotAuthFirst, PublishRefused, Publish, Subscribe,
       Unsubscribe, connVars
  <2>2. CASE ServerIsNone(c)
    BY <2>2 DEF ServerIsNone, Raise, connVars
  <2> QED  BY <2>1, <2>2
<1>5. NoTask(c)'
  BY <1>3, <1>4 DEF NoTask
<1>6. b.me # None
  <2>1. m.op = "AUTH" => m.ident # None
    <3>1. m \in Msgs
      BY <1>1 DEF TakesOne, TypeOK
    <3>2. \A k \in Msgs : k.op = "AUTH" => k.ident \in Idents
      BY DEF Msgs, AuthMsgs, ChanMsgs, OtherMsgs
    <3> QED  BY <3>1, <3>2, BrokerAssumption
  <2>2. a \in Accounts
    BY <1>0
  <2>3. a.me = None => b.me = m.ident
    BY <1>2, <2>2 DEF Accounts, Behaves
  <2> HIDE DEF m
  <2> QED  BY <1>2, <2>1, <2>3 DEF Behaves
<1> SUFFICES Agrees(b, c)'
  BY <1>1, <1>2, <1>4, StandsTaken
<1>7. CASE ak[c] = None
  <2>1. Shut(c)'
    <3>1. CASE NotAuthFirst(c)
      <4>1. link[c].state # "new"
        BY <1>1 DEF Runs, Untouched
      <4> QED  BY <3>1, <4>1, RejectShuts DEF NotAuthFirst
    <3>2. CASE ServerIsNone(c)
      <4>1. Shut(c)
        BY <3>2 DEF ServerIsNone, AttachedExactly, Shut
      <4> QED  BY <3>2, <4>1, ShutStays DEF Steps, Quiet
    <3> QED
      BY <1>7, <3>1, <3>2 DEF PublishRefused, Publish, Subscribe, Unsubscribe
  <2> QED  BY <1>4, <1>5, <1>6, <1>7, <2>1 DEF Agrees
<1> SUFFICES ASSUME ak[c] # None PROVE Agrees(b, c)'
  BY <1>7
<1>8. a.me = ak[c] /\ b.me = ak[c] /\ (hasServer[c] => active[c] = a.subs)
      /\ m.op \in {"PUBLISH", "SUBSCRIBE", "UNSUBSCRIBE"}
  <2> HIDE DEF m
  <2> QED  BY <1>2, <1>3 DEF Behaves
<1>9. hasServer'[c] => active'[c] = b.subs
  <2> SUFFICES ASSUME hasServer'[c] PROVE active'[c] = b.subs
    OBVIOUS
  <2>1. CASE PublishRefused(c)
    <3>1. m.op = "PUBLISH" /\ UNCHANGED <<hasServer, active>>
      BY <2>1 DEF PublishRefused, Takes, serverVars
    <3> QED  BY <1>2, <1>8, <3>1 DEF Behaves
  <2>2. CASE ServerIsNone(c)
    BY <2>2 DEF ServerIsNone, serverVars
  <2>3. CASE Publish(c)
    <3>1. m.op = "PUBLISH" /\ \E L : ConnectionLost(L)
      BY <2>3, PublishMoves DEF Publish, Takes
    <3>2. hasServer[c] /\ active'[c] = active[c]
      BY <3>1 DEF ConnectionLost
    <3> QED  BY <1>2, <1>8, <3>1, <3>2 DEF Behaves
  <2>4. CASE Subscribe(c)
    <3>1. m.op = "SUBSCRIBE" /\ Enlist(c, m.chan) /\ hasServer[c]
      BY <2>4 DEF Subscribe, Takes
    <3>2. active'[c] = active[c] \cup {m.chan}
      BY <3>1 DEF Enlist, TypeOK
    <3> QED  BY <1>2, <1>8, <3>1, <3>2 DEF Behaves
  <2>5. CASE Unsubscribe(c)
    <3>1. m.op = "UNSUBSCRIBE" /\ Delist(c, m.chan) /\ hasServer[c]
      BY <2>5 DEF Unsubscribe, Takes
    <3>2. active'[c] = active[c] \ {m.chan}
      BY <3>1 DEF Delist, TypeOK
    <3> QED  BY <1>2, <1>8, <3>1, <3>2 DEF Behaves
  <2>6. CASE NotAuthFirst(c)
    BY <2>6 DEF NotAuthFirst
  <2> QED  BY <2>1, <2>2, <2>3, <2>4, <2>5, <2>6
<1> QED  BY <1>4, <1>5, <1>6, <1>8, <1>9 DEF Agrees

\* AUTH comes when nobody is logged in on c, and nothing is in flight.
LEMMA FirstAuth ==
  ASSUME TypeOK, NEW view, NEW c \in Conns, NEW a, Stands(view, a, c),
         NEW m \in AuthMsgs, Takes(c, m, {"AUTH"})
  PROVE  /\ ak[c] = None /\ NoTask(c) /\ Runs(c) /\ m.ident # None
         /\ \E b \in Accounts :
              /\ b = [me |-> m.ident, subs |-> {}]
              /\ Path(ProperMoves, Accounts, b, Tail(buf[c]), view[client[c]])
<1>2. buf[c] # << >> /\ m = Head(buf[c]) /\ m.op = "AUTH" /\ Runs(c)
  BY DEF Takes, Handling, Runs
<1>1. PICK b \in Accounts :
        /\ Path(ProperMoves, Accounts, b, Tail(buf[c]), view[client[c]])
        /\ Behaves(a, Head(buf[c]), b)
  <2>1. buf[c] # << >>
    BY <1>2
  <2> QED  BY <2>1, NextMove
<1>3. /\ Path(ProperMoves, Accounts, b, Tail(buf[c]), view[client[c]])
      /\ IF a.me = None THEN b = [a EXCEPT !.me = m.ident]
         ELSE m.op \in {"PUBLISH", "SUBSCRIBE", "UNSUBSCRIBE"}
  BY <1>1, <1>2 DEF Behaves
<1>4. a.me = None /\ b = [a EXCEPT !.me = m.ident]
  BY <1>2, <1>3
<1>5. a = [me |-> None, subs |-> {}] /\ ak[c] = None /\ NoTask(c)
  BY <1>4 DEF Stands, Agrees
<1>6. b = [me |-> m.ident, subs |-> {}]
  BY <1>4, <1>5
<1>7. m.ident # None
  BY BrokerAssumption DEF AuthMsgs
<1> QED  BY <1>2, <1>3, <1>5, <1>6, <1>7

\* A check that is in flight is the only one, of whom the account names.
LEMMA OneCheck ==
  ASSUME TypeOK, NEW view, NEW c \in Conns, NEW a, Stands(view, a, c),
         NEW m \in AuthMsgs, tasks[c][m] > 0, tasks' = [tasks EXCEPT ![c][m] = @ - 1]
  PROVE  /\ a \in Accounts /\ a.me = m.ident /\ a.me # None /\ a.subs = {}
         /\ ak[c] = None /\ NoTask(c)'
<1>1. ~NoTask(c)
  BY DEF NoTask
<1>2. a.me # None /\ ak[c] = None /\ a.subs = {} /\ Waits(c, a.me)
  BY <1>1 DEF Stands, Agrees
<1>3. PICK k \in AuthMsgs : k.ident = a.me /\ \A j \in AuthMsgs : tasks[c][j] = IF j = k THEN 1 ELSE 0
  BY <1>2 DEF Waits
<1>4. k = m
  BY <1>3
<1>5. \A j \in AuthMsgs : tasks'[c][j] = IF j = m THEN tasks[c][j] - 1 ELSE tasks[c][j]
  BY DEF TypeOK
<1>6. NoTask(c)'
  BY <1>3, <1>4, <1>5 DEF NoTask
<1> QED  BY <1>2, <1>3, <1>4, <1>6 DEF Stands

LEMMA ProperAuth ==
  ASSUME TypeOK, Untouched, AttachedExactly, ListedOnce, NEW view, NEW c \in Conns,
         NEW a, Stands(view, a, c), Runs(c) /\ loop.depth > 0 => ak[c] # None,
         OnAuthSync(c) \/ OnAuthAsync(c) \/ AuthResult(c) \/ AuthError(c)
  PROVE  /\ \E b \in Accounts : Stands(view, b, c)'
         /\ Runs(c)' /\ loop'.depth > 0 => ak'[c] # None
         /\ ak' # ak => active[c] = {} /\ ak[c] = None
<1>0. ak[c] = None => active[c] = {}
  BY DEF ListedOnce
<1>1. UNCHANGED active
  BY DEF OnAuthSync, OnAuthAsync, AuthResult, AuthError, serverVars
<1>2. CASE OnAuthSync(c) \/ OnAuthAsync(c)
  <2>1. PICK m \in AuthMsgs : Takes(c, m, {"AUTH"})
    BY <1>2 DEF OnAuthSync, OnAuthAsync
  <2>7. TakesOne(c) /\ m = Head(buf[c])
    BY <1>2, <2>1 DEF OnAuthSync, OnAuthAsync, Takes, Handling, TakesOne
  <2>2. /\ ak[c] = None /\ NoTask(c) /\ Runs(c) /\ m.ident # None /\ TakesOne(c)
        /\ m = Head(buf[c])
    BY <2>1, <2>7, FirstAuth
  <2>3. PICK b \in Accounts :
          /\ b = [me |-> m.ident, subs |-> {}]
          /\ Path(ProperMoves, Accounts, b, Tail(buf[c]), view[client[c]])
    BY <2>1, FirstAuth
  <2>4. b.me = m.ident /\ b.subs = {}
    BY <2>3
  <2>5. CASE OnAuthSync(c)
    <3> DEFINE F == [loop EXCEPT !.depth = @ + 1]
    <3>1. PICK row : Accept(c, m, row, F) \/ Refuse(c, m, row)
      BY <2>1, <2>2, <2>5 DEF OnAuthSync, Takes
    <3>2. UNCHANGED tasks
      BY <2>5 DEF OnAuthSync
    <3>3. NoTask(c)'
      BY <2>2, <3>2 DEF NoTask
    <3>4. CASE Accept(c, m, row, F)
      <4>1. ak'[c] = m.ident
        BY <3>4 DEF Accept, TypeOK
      <4>2. Agrees(b, c)'
        BY <1>0, <1>1, <2>2, <2>4, <3>3, <4>1 DEF Agrees
      <4> QED  BY <1>0, <2>2, <2>3, <4>1, <4>2, StandsTaken
    <3>5. CASE Refuse(c, m, row)
      <4>1. ak' = ak /\ loop' = loop
        BY <3>5 DEF Refuse, connVars
      <4>4. Shut(c)'
        <5>1. link[c].state # "new"
          BY <2>2 DEF Runs, Untouched
        <5> QED  BY <3>5, <5>1, RejectShuts DEF Refuse
      <4>2. Agrees(b, c)'
        BY <2>2, <2>4, <3>3, <4>1, <4>4 DEF Agrees
      <4>3. Runs(c)' /\ loop'.depth > 0 => ak'[c] # None
        BY <4>1 DEF Runs
      <4> QED  BY <2>2, <2>3, <4>1, <4>2, <4>3, StandsTaken
    <3> QED  BY <3>1, <3>4, <3>5
  <2>6. CASE OnAuthAsync(c)
    <3>1. tasks' = [tasks EXCEPT ![c][m] = @ + 1] /\ ak' = ak
      BY <2>1, <2>2, <2>6 DEF OnAuthAsync, Takes, connVars
    <3>2. loop \in Frames /\ link[c] \in Links /\ ReadingPaused(link[c]) \in Links
      BY <2>1, TakesType, LinkOps DEF TypeOK
    <3>3. loop.depth = 0
      <4>1. ~(loop.depth > 0)
        BY <2>2
      <4> QED  BY <3>2, <4>1 DEF Frames
    <3>4. loop' = None /\ link'[c] = ReadingPaused(link[c])
      BY <2>6, <3>2, <3>3, EndLoopLink DEF OnAuthAsync
    <3>5. \A k \in AuthMsgs : tasks'[c][k] = IF k = m THEN 1 ELSE 0
      BY <2>2, <3>1 DEF NoTask, TypeOK
    <3>6. link'[c].state = "open" => link'[c].rpaused
      BY <3>2, <3>4 DEF ReadingPaused, Links
    <3>7. Waits(c, m.ident)'
      BY <3>4, <3>5, <3>6 DEF Waits, Runs, Open
    <3>8. Agrees(b, c)'
      BY <2>2, <2>4, <3>1, <3>7 DEF Agrees
    <3> QED  BY <2>2, <2>3, <3>1, <3>4, <3>8, StandsTaken DEF Runs
  <2> QED  BY <1>2, <2>5, <2>6
<1>3. CASE AuthResult(c) \/ AuthError(c)
  <2> DEFINE F == [conn |-> c, via |-> "task", depth |-> 1]
  <2>1. PICK m \in AuthMsgs :
          /\ tasks[c][m] > 0 /\ tasks' = [tasks EXCEPT ![c][m] = @ - 1]
          /\ \/ \E row : Accept(c, m, row, F)
             \/ UNCHANGED <<ak, loop>> /\ \E k \in Kernel : Reject(c, k)
    BY <1>3 DEF AuthResult, AuthError, Refuse, connVars
  <2>2. /\ a \in Accounts /\ a.me = m.ident /\ a.me # None /\ a.subs = {}
        /\ ak[c] = None /\ NoTask(c)'
    BY <2>1, OneCheck
  <2>3. loop = None /\ UNCHANGED <<buf, client>>
    BY <1>3 DEF AuthResult, AuthError, Idle
  <2>4. CASE UNCHANGED <<ak, loop>> /\ \E k \in Kernel : Reject(c, k)
    <3>2. link[c].state # "new"
      BY <2>1 DEF Untouched
    <3>1. Agrees(a, c)'
      BY <2>2, <2>4, <3>2, RejectShuts DEF Agrees
    <3> QED  BY <2>2, <2>3, <2>4, <3>1, StandsSame DEF Runs
  <2>5. ASSUME NEW row, Accept(c, m, row, F)
        PROVE  ak'[c] = a.me
    BY <2>2, <2>5 DEF Accept, TypeOK
  <2>6. CASE ak'[c] = a.me
    <3>1. Agrees(a, c)'
      BY <1>0, <1>1, <2>2, <2>6 DEF Agrees
    <3> QED  BY <1>0, <2>2, <2>3, <2>6, <3>1, StandsSame
  <2> QED  BY <2>1, <2>4, <2>5, <2>6
<1> QED  BY <1>2, <1>3

\* The other steps of c: c is what it was, or has more in its buffer.
LEMMA ProperElse ==
  ASSUME TypeOK, Untouched, AttachedExactly, ListedOnce,
         NEW view, ProperPeers(view), NEW c \in Conns, NEW a, Stands(view, a, c),
         \/ Connect(c) \/ Drain(c) \/ Lost(c) \/ DataReceived(c) \/ Eof(c) \/ Reset(c)
         \/ DeadlineExpires(c) \/ Undecodable(c) \/ NotImplemented(c) \/ BufferEmpty(c)
  PROVE  /\ Stands(view, a, c)'
         /\ Runs(c)' /\ loop'.depth > 0 => Runs(c) /\ loop.depth > 0
         /\ ak' = ak
<1>0. link[c] \in Links /\ buf[c] \in Seq(Msgs) /\ a \in Accounts /\ Agrees(a, c)
  BY DEF TypeOK, Stands
<1>1. CASE Connect(c) \/ Drain(c) \/ Lost(c) \/ Eof(c) \/ Reset(c) \/ DeadlineExpires(c)
  <2>1. UNCHANGED <<buf, client, tasks, loop, ak>>
    BY <1>1 DEF Connect, Drain, Lost, Eof, Reset, DeadlineExpires, connVars
  <2>2. Calm(link[c], link'[c]) \/ NoTask(c)
    <3>1. CASE Connect(c)
      BY <3>1 DEF Connect, Untouched, NoTask
    <3>2. CASE Drain(c) \/ Lost(c)
      BY <3>2, LosesCalm
    <3>3. CASE Eof(c) \/ Reset(c)
      BY <1>0, <3>3, LinkCalm DEF Eof, Reset, TypeOK
    <3>4. CASE DeadlineExpires(c)
      BY <3>4, RejectCloses DEF DeadlineExpires, Calm
    <3> QED  BY <1>1, <3>1, <3>2, <3>3, <3>4
  <2>3. hasServer'[c] => hasServer[c] /\ active'[c] = active[c]
    <3>1. CASE Connect(c)
      BY <3>1, ConnectMoves
    <3>2. CASE Drain(c) \/ Lost(c)
      BY <3>2, LosesMoves DEF LosesConnection, ConnectionLost, serverVars
    <3>3. CASE Eof(c) \/ Reset(c) \/ DeadlineExpires(c)
      BY <3>3 DEF Eof, Reset, DeadlineExpires, serverVars
    <3> QED  BY <1>1, <3>1, <3>2, <3>3
  <2>4. Agrees(a, c)'
    BY <1>0, <2>1, <2>2, <2>3, ShutStays, AgreesSame DEF Runs, Steps, Quiet
  <2> QED  BY <2>1, <2>4, StandsSame DEF Runs
<1>2. CASE DataReceived(c)
  <2>1. PICK s \in Sends : /\ s.from = client[c]
                           /\ client' = [client EXCEPT ![c] = s.to]
                           /\ buf' = [buf EXCEPT ![c] = @ \o s.chunk]
    BY <1>2 DEF DataReceived
  <2>2. Path(ProperMoves, Accounts, view[client[c]], s.chunk, view[s.to])
    BY <2>1 DEF ProperPeers, Keeps
  <2>3. Path(ProperMoves, Accounts, a, buf[c] \o s.chunk, view[s.to])
    <3>1. s.chunk \in Seq(Msgs)
      BY BrokerAssumption
    <3>2. Path(ProperMoves, Accounts, a, buf[c], view[client[c]])
      BY DEF Stands
    <3> QED  BY <1>0, <2>2, <3>1, <3>2, PathJoins
  <2>4. buf'[c] = buf[c] \o s.chunk /\ client'[c] = s.to
    BY <2>1 DEF TypeOK
  <2>5. /\ UNCHANGED <<ak, tasks, hasServer, active, link>>
        /\ loop'.depth = 0 /\ Open(c) /\ ~link[c].rpaused
    BY <1>2 DEF DataReceived, connVars, serverVars
  <2>6. ~Waits(c, a.me)
    BY <2>5 DEF Waits
  <2>7. Agrees(a, c)'
    BY <1>0, <2>5, <2>6 DEF Agrees, NoTask, Shut
  <2> QED  BY <1>0, <2>3, <2>4, <2>5, <2>7 DEF Stands
<1>3. CASE Undecodable(c) \/ NotImplemented(c)
  <2>1. buf[c] # << >> /\ Head(buf[c]).op \notin {"AUTH", "PUBLISH", "SUBSCRIBE", "UNSUBSCRIBE"}
    BY <1>3 DEF Undecodable, NotImplemented, Takes, Handling
  <2>2. Head(buf[c]).op \in {"AUTH", "PUBLISH", "SUBSCRIBE", "UNSUBSCRIBE"}
    BY <2>1, NextMove DEF Behaves
  <2> QED  BY <2>1, <2>2
<1>4. CASE BufferEmpty(c)
  <2>1. UNCHANGED <<buf, client, tasks, ak, hasServer, active>> /\ Runs(c)
    BY <1>4 DEF BufferEmpty, connVars, serverVars, Runs
  <2>2. Agrees(a, c)'
    BY <1>0, <1>4, <2>1, ShutStays, AgreesSame DEF Steps, Quiet
  <2>3. loop \in Frames
    BY <2>1 DEF Runs, TypeOK
  <2>4. loop.depth = 0 => loop' = None
    BY <1>4 DEF BufferEmpty, EndLoop
  <2>5. loop.depth # 0 => loop.depth > 0
    BY <2>3 DEF Frames
  <2> QED  BY <2>1, <2>2, <2>4, <2>5, StandsSame DEF Runs
<1> QED  BY <1>1, <1>2, <1>3, <1>4

LEMMA ProperStep ==
  ASSUME TypeOK, Untouched, AttachedExactly, ListedOnce,
         NEW view, ProperPeers(view), ProperInv(view), [Next]_vars
  PROVE  /\ ProperInv(view)'
         /\ \A d \in Conns : ak'[d] # ak[d] => active[d] = {} /\ ak[d] = None
<1>1. CASE UNCHANGED vars
  BY <1>1 DEF ProperInv, Stands, Agrees, NoTask, Waits, Shut, Runs, Open, vars, connVars, serverVars
<1> SUFFICES ASSUME NEW c \in Conns, Steps(c)
             PROVE  /\ ProperInv(view)'
                    /\ \A d \in Conns : ak'[d] # ak[d] => active[d] = {} /\ ak[d] = None
  BY <1>1, NextSteps
<1>2. \A d \in Conns : /\ \E a \in Accounts : Stands(view, a, d)
                       /\ Runs(d) /\ loop.depth > 0 => ak[d] # None
  BY DEF ProperInv
<1>3. ASSUME NEW d \in Conns, d # c
      PROVE  /\ \E a \in Accounts : Stands(view, a, d)'
             /\ ~Runs(d)'
  <2>1. PICK a \in Accounts : Stands(view, a, d)
    BY <1>2
  <2>2. Agrees(a, d)'
    BY <1>3, <2>1, Others, ShutStays, AgreesSame DEF Stands
  <2> QED  BY <1>3, <2>1, <2>2, Others, StandsSame
<1>4. PICK a \in Accounts : Stands(view, a, c)
  BY <1>2
<1>5. /\ \E b \in Accounts : Stands(view, b, c)'
      /\ Runs(c)' /\ loop'.depth > 0 => ak'[c] # None
      /\ ak' # ak => active[c] = {} /\ ak[c] = None
  <2>1. CASE OnAuthSync(c) \/ OnAuthAsync(c) \/ AuthResult(c) \/ AuthError(c)
    BY <1>2, <1>4, <2>1, ProperAuth
  <2>2. CASE \/ NotAuthFirst(c) \/ PublishRefused(c) \/ ServerIsNone(c)
             \/ Publish(c) \/ Subscribe(c) \/ Unsubscribe(c)
    BY <1>2, <1>4, <2>2, ProperHandled DEF Runs
  <2>3. CASE \/ Connect(c) \/ Drain(c) \/ Lost(c) \/ DataReceived(c) \/ Eof(c) \/ Reset(c)
             \/ DeadlineExpires(c) \/ Undecodable(c) \/ NotImplemented(c) \/ BufferEmpty(c)
    BY <1>2, <1>4, <2>3, ProperElse
  <2> QED  BY <2>1, <2>2, <2>3 DEF Steps, Quiet
<1>6. \A d \in Conns : ak'[d] # ak[d] => d = c /\ ak' # ak
  BY LogsIn
<1> QED  BY <1>3, <1>5, <1>6 DEF ProperInv

LEMMA ProperInit ==
  ASSUME NEW view, ProperPeers(view), Init
  PROVE  ProperInv(view)
<1> DEFINE a == [me |-> None, subs |-> {}]
<1>1. a \in Accounts
  BY DEF Accounts
<1> HIDE DEF a
<1>2. Path(ProperMoves, Accounts, a, << >>, a)
  BY <1>1, PathEmpty
<1>3. \A c \in Conns : Stands(view, a, c)
  BY <1>1, <1>2 DEF a, Init, ProperPeers, Stands, Agrees, NoTask
<1> QED  BY <1>1, <1>3 DEF Init, ProperInv, Runs
-----------------------------------------------------------------------------
(* The gauge SUBSCRIPTIONS *)

Held(i, ch) == {c \in Conns : ak[c] = i /\ ch \in active[c]}

GaugeHolds ==
  \A i \in Idents, ch \in Chans : subscriptionsGauge[i][ch] = Cardinality(Held(i, ch))

LEMMA HeldFinite ==
  /\ \A i, ch : IsFiniteSet(Held(i, ch)) /\ Cardinality(Held(i, ch)) \in Nat
BY CardType DEF Held

LEMMA GaugeStep ==
  ASSUME TypeOK, Untouched, AttachedExactly, ListedOnce, GaugeHolds,
         NEW own, ProperPeers(own), ProperInv(own), [Next]_vars
  PROVE  GaugeHolds'
<1>0. \A d \in Conns : ak'[d] # ak[d] => active[d] = {} /\ ak[d] = None
  BY ProperStep
<1>1. CASE UNCHANGED <<active, subscriptionsGauge>>
  <2>1. \A i \in Idents, ch \in Chans : Held(i, ch)' = Held(i, ch)
    BY <1>0, <1>1, BrokerAssumption DEF Held
  <2> QED  BY <1>1, <2>1 DEF GaugeHolds
<1>2. ASSUME NEW L, ConnectionLost(L), UNCHANGED ak
      PROVE  GaugeHolds'
  <2>1. ASSUME NEW i \in Idents, NEW ch \in Chans
        PROVE  subscriptionsGauge'[i][ch] = Cardinality(Held(i, ch)')
    <3> DEFINE S == {c \in Conns : Delisted(L, c, ch) /\ ak[c] = i}
    <3>1. subscriptionsGauge'[i][ch] = subscriptionsGauge[i][ch] - Cardinality(S)
      BY <1>2 DEF ConnectionLost
    <3>2. Held(i, ch)' = Held(i, ch) \ S /\ Held(i, ch) \cap S = S
      BY <1>2 DEF ConnectionLost, Delisted, Held
    <3> HIDE DEF S
    <3>3. Cardinality(Held(i, ch) \ S) = Cardinality(Held(i, ch)) - Cardinality(S)
      BY <3>2, HeldFinite, FS_Difference
    <3> QED  BY <3>1, <3>2, <3>3 DEF GaugeHolds
  <2> QED  BY <2>1 DEF GaugeHolds
<1>3. ASSUME NEW c \in Conns, Subscribe(c) \/ Unsubscribe(c)
      PROVE  GaugeHolds'
  <2>1. PICK m \in ChanMsgs :
          /\ Takes(c, m, {"SUBSCRIBE", "UNSUBSCRIBE"}) /\ UNCHANGED ak /\ ak[c] # None
          /\ \/ m.op = "SUBSCRIBE" /\ Enlist(c, m.chan)
             \/ m.op = "UNSUBSCRIBE" /\ Delist(c, m.chan)
    BY <1>3 DEF Subscribe, Unsubscribe, Takes, connVars
  <2>2. ak[c] \in Idents /\ m.chan \in Chans /\ hasServer[c]
    BY <1>3, <2>1 DEF TypeOK, ChanMsgs, Subscribe, Unsubscribe
  <2>3. m.op = "SUBSCRIBE" <=> m.chan \notin active[c]
    <3>1. PICK a \in Accounts : Stands(own, a, c)
      BY DEF ProperInv
    <3>2. buf[c] # << >> /\ m = Head(buf[c]) /\ Runs(c) /\ m.op \in {"SUBSCRIBE", "UNSUBSCRIBE"}
      BY <2>1 DEF Takes, Handling, Runs
    <3>3. /\ Head(buf[c]).op = "SUBSCRIBE" => Head(buf[c]).chan \notin a.subs
          /\ Head(buf[c]).op = "UNSUBSCRIBE" => Head(buf[c]).chan \in a.subs
      BY <3>1, <3>2, NextMove DEF Behaves
    <3>4. active[c] = a.subs
      BY <2>1, <2>2, <3>1, <3>2, RunningAccount DEF Stands
    <3> QED  BY <3>2, <3>3, <3>4
  <2>4. /\ Enlist(c, m.chan) => active'[c] = active[c] \cup {m.chan}
        /\ Delist(c, m.chan) => active'[c] = active[c] \ {m.chan}
        /\ \A d \in Conns : d # c => active'[d] = active[d]
    BY <2>1 DEF Enlist, Delist, TypeOK
  <2>5. ASSUME NEW i \in Idents, NEW ch \in Chans, ~(i = ak[c] /\ ch = m.chan)
        PROVE  subscriptionsGauge'[i][ch] = Cardinality(Held(i, ch)')
    <3>1. subscriptionsGauge'[i][ch] = subscriptionsGauge[i][ch]
      BY <2>1, <2>2, <2>5 DEF Enlist, Delist, TypeOK, Gauges
    <3>2. Held(i, ch)' = Held(i, ch)
      BY <2>1, <2>4, <2>5 DEF Held
    <3> QED  BY <3>1, <3>2 DEF GaugeHolds
  <2>6. subscriptionsGauge'[ak[c]][m.chan] = Cardinality(Held(ak[c], m.chan)')
    <3> DEFINE H == Held(ak[c], m.chan)
    <3>1. subscriptionsGauge[ak[c]][m.chan] = Cardinality(H)
      BY <2>2 DEF GaugeHolds
    <3>2. /\ Enlist(c, m.chan) => subscriptionsGauge'[ak[c]][m.chan] = Cardinality(H) + 1
          /\ Delist(c, m.chan) => subscriptionsGauge'[ak[c]][m.chan] = Cardinality(H) - 1
      <4> HIDE DEF H
      <4> QED  BY <2>2, <3>1 DEF Enlist, Delist, TypeOK, Gauges
    <3>3. CASE m.op = "SUBSCRIBE" /\ Enlist(c, m.chan)
      <4>1. H' = H \cup {c} /\ c \notin H
        BY <2>1, <2>3, <2>4, <3>3 DEF Held
      <4>2. Cardinality(H \cup {c}) = Cardinality(H) + 1
        BY <4>1, HeldFinite, FS_AddElement
      <4> QED  BY <2>1, <3>2, <3>3, <4>1, <4>2
    <3>4. CASE m.op = "UNSUBSCRIBE" /\ Delist(c, m.chan)
      <4>1. H' = H \ {c} /\ c \in H
        BY <2>1, <2>3, <2>4, <3>4 DEF Held
      <4>2. Cardinality(H \ {c}) = Cardinality(H) - 1
        BY <4>1, HeldFinite, FS_RemoveElement
      <4> QED  BY <2>1, <3>2, <3>4, <4>1, <4>2
    <3> QED  BY <2>1, <3>3, <3>4
  <2>7. \A i \in Idents, ch \in Chans : subscriptionsGauge'[i][ch] = Cardinality(Held(i, ch)')
    <3> TAKE i \in Idents, ch \in Chans
    <3>1. CASE i = ak[c] /\ ch = m.chan
      <4>1. Held(i, ch)' = Held(ak[c], m.chan)'
        BY <2>1, <3>1 DEF Held
      <4> QED  BY <2>6, <3>1, <4>1
    <3> QED  BY <2>5, <3>1
  <2> QED  BY <2>7 DEF GaugeHolds
<1>4. ASSUME NEW c \in Conns, Steps(c)
      PROVE  \/ UNCHANGED <<active, subscriptionsGauge>>
             \/ \E L : ConnectionLost(L) /\ UNCHANGED ak
             \/ Subscribe(c) \/ Unsubscribe(c)
  <2>1. CASE Connect(c)
    BY <2>1 DEF Connect
  <2>2. CASE Quiet(c)
    BY <2>2, QuietFrame DEF serverVars
  <2>3. CASE Drain(c) \/ Lost(c)
    <3>1. UNCHANGED ak
      BY <2>3 DEF Drain, Lost, connVars
    <3> QED  BY <2>3, <3>1, LosesMoves DEF LosesConnection, serverVars
  <2>4. CASE Publish(c)
    <3>1. UNCHANGED ak
      BY <2>4 DEF Publish, connVars
    <3> QED  BY <2>4, <3>1, PublishMoves
  <2> QED  BY <1>4, <2>1, <2>2, <2>3, <2>4 DEF Steps
<1>5. UNCHANGED vars => UNCHANGED <<active, subscriptionsGauge>>
  BY DEF vars, serverVars
<1> QED  BY <1>1, <1>2, <1>3, <1>4, <1>5, NextSteps

(* SUBSCRIPTIONS is exact for proper clients, whatever the authenticator     *)
(* answers and whenever it does: a gauge may be off only once somebody        *)
(* subscribes twice, unsubscribes from nothing or logs in again.              *)
THEOREM GaugeExact ==
  ASSUME NEW view, ProperPeers(view)
  PROVE  Spec => []GaugeIsExact
<1> DEFINE once == [p \in ClientStates |-> view[p].subs]
<1>1. NeverTwice(once)
  BY ProperOnce
<1> HIDE DEF once
<1>2. Init => OnceInv(once) /\ ProperInv(view)
  BY <1>1, OnceInit, ProperInit
<1>3. Init => GaugeHolds
  <2> SUFFICES ASSUME Init, NEW i \in Idents, NEW ch \in Chans
               PROVE  subscriptionsGauge[i][ch] = Cardinality(Held(i, ch))
    BY DEF GaugeHolds
  <2>1. Held(i, ch) = {}
    BY DEF Init, Held
  <2>2. subscriptionsGauge[i][ch] = 0
    BY DEF Init
  <2> QED  BY <2>1, <2>2, FS_EmptySet
<1>4. BrokerInv /\ OnceInv(once) /\ ProperInv(view) /\ GaugeHolds /\ [Next]_vars
      => OnceInv(once)' /\ ProperInv(view)' /\ GaugeHolds'
  BY <1>1, OnceStep, ProperStep, GaugeStep DEF BrokerInv, OnceInv
<1>5. BrokerInv /\ OnceInv(once) /\ GaugeHolds => GaugeIsExact
  <2> SUFFICES ASSUME ListedOnce, GaugeHolds, NEW i \in Idents, NEW ch \in Chans
               PROVE  subscriptionsGauge[i][ch]
                        = Cardinality({c \in Conns : ak[c] = i /\ subscriptions[ch][c] > 0})
    BY DEF GaugeIsExact, OnceInv
  <2>1. Held(i, ch) = {c \in Conns : ak[c] = i /\ subscriptions[ch][c] > 0}
    BY DEF Held, ListedOnce
  <2> QED  BY <2>1 DEF GaugeHolds
<1> QED  BY <1>2, <1>3, <1>4, <1>5, InvAlways, PTL DEF Spec
-----------------------------------------------------------------------------
(* A client that does what it is entitled to is not disconnected by a        *)
(* handler.                                                                  *)
Entrusted(rights) ==
  /\ buf \in [Conns -> Seq(Entitling(rights))]
  /\ \A c \in Conns, m \in AuthMsgs : tasks[c][m] > 0 => m.good
  /\ \A c \in Conns : ak[c] # None => /\ pubchans[c] = rights[ak[c]].pub
                                      /\ subchans[c] = rights[ak[c]].sub

LEMMA EntrustedStep ==
  ASSUME TypeOK, NEW rights, Entitled(rights), Entrusted(rights), [Next]_vars
  PROVE  Entrusted(rights)'
<1>1. CASE UNCHANGED vars
  BY <1>1 DEF Entrusted, vars, connVars
<1> SUFFICES ASSUME NEW c \in Conns, Steps(c)
             PROVE  Entrusted(rights)'
  BY <1>1, NextSteps
<1>0. \A d \in Conns : buf[d] \in Seq(Entitling(rights))
  BY DEF Entrusted
<1>2. buf' \in [Conns -> Seq(Entitling(rights))]
  <2>1. \/ UNCHANGED buf
        \/ TakesOne(c)
        \/ \E s \in Sends : buf' = [buf EXCEPT ![c] = @ \o s.chunk]
    <3>1. CASE Connect(c) \/ Drain(c) \/ Lost(c)
      BY <3>1 DEF Connect, Drain, Lost
    <3>2. CASE Publish(c) \/ Subscribe(c) \/ Unsubscribe(c)
      BY <3>2 DEF Publish, Subscribe, Unsubscribe, Takes, Handling, TakesOne
    <3>3. CASE Quiet(c)
      BY <3>3, QuietTakes DEF DataReceived
    <3> QED  BY <3>1, <3>2, <3>3 DEF Steps
  <2>2. CASE TakesOne(c)
    <3>1. Tail(buf[c]) \in Seq(Entitling(rights))
      BY <1>0, <2>2 DEF TakesOne
    <3> QED  BY <2>2, <3>1 DEF Entrusted, TakesOne
  <2>3. ASSUME NEW s \in Sends, buf' = [buf EXCEPT ![c] = @ \o s.chunk]
        PROVE  buf' \in [Conns -> Seq(Entitling(rights))]
    <3>1. buf[c] \o s.chunk \in Seq(Entitling(rights))
      BY <1>0 DEF Entitled
    <3> QED  BY <2>3, <3>1 DEF Entrusted
  <2> QED  BY <2>1, <2>2, <2>3 DEF Entrusted
<1>3. \A d \in Conns, m \in AuthMsgs : tasks'[d][m] > 0 => m.good
  <2>1. CASE OnAuthAsync(c)
    <3>1. PICK m \in AuthMsgs :
            Takes(c, m, {"AUTH"}) /\ tasks' = [tasks EXCEPT ![c][m] = @ + 1]
      BY <2>1 DEF OnAuthAsync
    <3>2. m.good
      <4>1. buf[c] # << >> /\ m = Head(buf[c]) /\ m.op = "AUTH"
        BY <3>1 DEF Takes, Handling
      <4>2. m \in Entitling(rights)
        BY <1>0, <4>1
      <4> QED  BY <4>1, <4>2 DEF Entitling
    <3>3. \A d \in Conns, k \in AuthMsgs :
            tasks'[d][k] = tasks[d][k] \/ k = m
      BY <3>1 DEF TypeOK
    <3> QED  BY <3>2, <3>3 DEF Entrusted
  <2>2. CASE AuthResult(c) \/ AuthError(c)
    <3>1. PICK m \in AuthMsgs : tasks[c][m] > 0 /\ tasks' = [tasks EXCEPT ![c][m] = @ - 1]
      BY <2>2 DEF AuthResult, AuthError
    <3>2. \A d \in Conns, k \in AuthMsgs : tasks'[d][k] = tasks[d][k] \/ k = m
      BY <3>1 DEF TypeOK
    <3> QED  BY <3>1, <3>2 DEF Entrusted
  <2>3. CASE UNCHANGED tasks
    BY <2>3 DEF Entrusted
  <2>4. \/ OnAuthAsync(c) \/ AuthResult(c) \/ AuthError(c)
        \/ UNCHANGED tasks
    <3>1. CASE DataReceived(c) \/ Eof(c) \/ Reset(c) \/ DeadlineExpires(c)
      BY <3>1 DEF DataReceived, Eof, Reset, DeadlineExpires
    <3>2. CASE Undecodable(c) \/ NotAuthFirst(c) \/ OnAuthSync(c) \/ PublishRefused(c)
      BY <3>2 DEF Undecodable, NotAuthFirst, OnAuthSync, PublishRefused
    <3>3. CASE ServerIsNone(c) \/ NotImplemented(c) \/ BufferEmpty(c)
      BY <3>3 DEF ServerIsNone, NotImplemented, BufferEmpty
    <3>4. CASE Connect(c) \/ Drain(c) \/ Lost(c)
      BY <3>4 DEF Connect, Drain, Lost
    <3>5. CASE Publish(c) \/ Subscribe(c) \/ Unsubscribe(c)
      BY <3>5 DEF Publish, Subscribe, Unsubscribe
    <3> QED  BY <3>1, <3>2, <3>3, <3>4, <3>5 DEF Steps, Quiet
  <2> QED  BY <2>1, <2>2, <2>3, <2>4
<1>4. \A d \in Conns : ak'[d] # None => /\ pubchans'[d] = rights[ak'[d]].pub
                                        /\ subchans'[d] = rights[ak'[d]].sub
  <2>1. CASE UNCHANGED connVars
    BY <2>1 DEF Entrusted, connVars
  <2>2. ASSUME NEW m \in AuthMsgs, NEW row \in Answers[m.ident], NEW f, Accept(c, m, row, f)
        PROVE  \A d \in Conns : ak'[d] # None => /\ pubchans'[d] = rights[ak'[d]].pub
                                                 /\ subchans'[d] = rights[ak'[d]].sub
    <3>1. row = rights[m.ident]
      BY DEF Entitled, AuthMsgs
    <3>2. \A d \in Conns :
            \/ ak'[d] = m.ident /\ pubchans'[d] = row.pub /\ subchans'[d] = row.sub
            \/ ak'[d] = ak[d] /\ pubchans'[d] = pubchans[d] /\ subchans'[d] = subchans[d]
      BY <2>2 DEF Accept, TypeOK
    <3> QED  BY <3>1, <3>2 DEF Entrusted
  <2>3. CASE OnAuthSync(c) \/ AuthResult(c)
    BY <2>1, <2>2, <2>3 DEF OnAuthSync, AuthResult, Refuse
  <2>4. \/ OnAuthSync(c) \/ AuthResult(c)
        \/ UNCHANGED connVars
    <3>1. CASE DataReceived(c) \/ Eof(c) \/ Reset(c) \/ DeadlineExpires(c) \/ AuthError(c)
      BY <3>1 DEF DataReceived, Eof, Reset, DeadlineExpires, AuthError
    <3>2. CASE Undecodable(c) \/ NotAuthFirst(c) \/ OnAuthAsync(c) \/ PublishRefused(c)
      BY <3>2 DEF Undecodable, NotAuthFirst, OnAuthAsync, PublishRefused
    <3>3. CASE ServerIsNone(c) \/ NotImplemented(c) \/ BufferEmpty(c)
      BY <3>3 DEF ServerIsNone, NotImplemented, BufferEmpty
    <3>4. CASE Connect(c) \/ Drain(c) \/ Lost(c)
      BY <3>4 DEF Connect, Drain, Lost
    <3>5. CASE Publish(c) \/ Subscribe(c) \/ Unsubscribe(c)
      BY <3>5 DEF Publish, Subscribe, Unsubscribe
    <3> QED  BY <3>1, <3>2, <3>3, <3>4, <3>5 DEF Steps, Quiet
  <2> QED  BY <2>1, <2>3, <2>4
<1> QED  BY <1>2, <1>3, <1>4 DEF Entrusted

LEMMA LinkKeeps ==
  ASSUME NEW l \in Links, NEW k \in Kernel, "failed" \notin Kernel
  PROVE  /\ Written(l, k).state = l.state
         /\ Limited(l).state = l.state /\ ReadingPaused(l).state = l.state
<1>1. \A j \in Links : Checked(j).state = j.state
  BY DEF Links, Checked
<1>2. [l EXCEPT !.out = @ + 1] \in Links /\ [l EXCEPT !.out = 1] \in Links
      /\ [l EXCEPT !.high = AuthHigh] \in Links
  BY DEF Links
<1>3. k # "failed"
  OBVIOUS
<1>4. Written(l, k).state = l.state
  BY <1>1, <1>2, <1>3 DEF Links, Written
<1> QED  BY <1>1, <1>2, <1>4 DEF Links, Limited, ReadingPaused

\* Another's handler writes to c at most, and c's socket takes it.
LEMMA OthersKeep ==
  ASSUME TypeOK, Untouched, AttachedExactly, ListedOnce, "failed" \notin Kernel,
         NEW c \in Conns, Steps(c), loop # None, NEW d \in Conns,
         d # c \/ Publish(c)
  PROVE  link'[d].state = link[d].state
<1>0. \A e \in Conns : link[e] \in Links
  BY DEF TypeOK
<1>1. CASE Publish(c)
  <2>1. PICK m \in ChanMsgs, done \in SUBSET Conns, how \in [Conns -> Kernel] :
          Walk(c, m, done, how)
    BY <1>1, PublishWalks
  <2>2. Stale(m.chan) = {}
    BY NoneStale DEF ChanMsgs
  <2>3. link'[d] \in {link[d], Written(link[d], how[d])}
    BY <2>1, <2>2 DEF Walk
  <2> QED  BY <1>0, <2>3, LinkKeeps
<1>2. CASE d # c /\ (Quiet(c) \/ Subscribe(c))
  <2>1. Moves(c)
    BY <1>2, QuietMoves, SubscribeMoves
  <2>2. link'[d] = link[d]
    BY <1>2, <2>1 DEF Moves, TypeOK
  <2> QED  BY <2>2
<1>3. CASE Unsubscribe(c)
  BY <1>3, UnsubscribeMoves
<1>4. CASE Connect(c) \/ Drain(c) \/ Lost(c)
  BY <1>4 DEF Connect, Drain, Lost, Idle
<1> QED  BY <1>1, <1>2, <1>3, <1>4 DEF Steps

LEMMA HandlersKeep ==
  ASSUME TypeOK, Untouched, AttachedExactly, ListedOnce, "failed" \notin Kernel,
         NEW view, NEW rights, Entitled(rights), Entrusted(rights),
         NEW c \in Conns, NEW a, Stands(view, a, c),
         loop # None, Open(c), Steps(c)
  PROVE  link'[c].state = "open"
<1>0. /\ link[c] \in Links /\ buf[c] \in Seq(Entitling(rights)) /\ Kernel # {}
      /\ a \in Accounts /\ Agrees(a, c) /\ link[c].state = "open"
  BY TransportAssumption DEF TypeOK, Entrusted, Stands, Open
<1>1. Runs(c) /\ loop \in Frames
  BY StepsRun DEF Runs, TypeOK
<1>2. /\ ReadingPaused(link[c]) \in Links /\ ReadingPaused(link[c]).state = "open"
      /\ Limited(link[c]).state = "open"
  BY <1>0, LinkKeeps, LinkOps
<1>3. ak[c] = None => a.me = None
  BY <1>0, <1>1 DEF Agrees, Waits, Shut
<1>4. ak[c] # None => /\ a.me = ak[c] /\ ak[c] \in Idents
                      /\ pubchans[c] = rights[ak[c]].pub /\ subchans[c] = rights[ak[c]].sub
  BY <1>0, <1>1, RunningAccount DEF Entrusted, TypeOK
<1> DEFINE m == Head(buf[c])
<1>5. buf[c] # << >> => /\ m \in Entitling(rights)
                        /\ IF a.me = None THEN m.op = "AUTH"
                           ELSE /\ m.op \in {"PUBLISH", "SUBSCRIBE", "UNSUBSCRIBE"}
                                /\ m.ident = a.me
  <2> SUFFICES ASSUME buf[c] # << >>
               PROVE  /\ m \in Entitling(rights)
                      /\ IF a.me = None THEN m.op = "AUTH"
                         ELSE /\ m.op \in {"PUBLISH", "SUBSCRIBE", "UNSUBSCRIBE"}
                              /\ m.ident = a.me
    OBVIOUS
  <2>1. m \in Entitling(rights)
    BY <1>0
  <2>2. PICK b \in Accounts :
          /\ Path(ProperMoves, Accounts, b, Tail(buf[c]), view[client[c]])
          /\ Behaves(a, m, b)
    BY NextMove
  <2> QED  BY <2>1, <2>2 DEF Behaves
<1>6. /\ m.op = "AUTH" /\ m \in Entitling(rights) => m.good
      /\ m.op = "PUBLISH" /\ m \in Entitling(rights) => m.chan \in rights[m.ident].pub
      /\ m.op = "SUBSCRIBE" /\ m \in Entitling(rights) => m.chan \in rights[m.ident].sub
  BY DEF Entitling
<1>7. \A k, ops : Takes(c, k, ops) => buf[c] # << >> /\ k = m /\ m.op \in ops
  BY DEF Takes, Handling
<1> HIDE DEF m
<1>8. CASE Undecodable(c) \/ NotImplemented(c)
  <2>1. buf[c] # << >> /\ m.op \in {"UNKNOWN", "INFO", "ERROR"}
    BY <1>7, <1>8 DEF Undecodable, NotImplemented, Handling, m
  <2> QED  BY <1>5, <2>1
<1>9. CASE NotAuthFirst(c)
  <2>1. ak[c] = None /\ buf[c] # << >> /\ m.op # "AUTH"
    BY <1>7, <1>9 DEF NotAuthFirst
  <2> QED  BY <1>3, <1>5, <2>1
<1>10. CASE OnAuthSync(c)
  <2>1. PICK k \in AuthMsgs : /\ Takes(c, k, {"AUTH"})
                              /\ \E row \in Answers[k.ident] : \E f : Accept(c, k, row, f) \/ Refuse(c, k, row)
    BY <1>10 DEF OnAuthSync
  <2>2. k.good
    BY <1>5, <1>6, <1>7, <2>1
  <2>8. PICK row \in Answers[k.ident] : \E f : Accept(c, k, row, f) \/ Refuse(c, k, row)
    BY <2>1
  <2>3. PICK f : Accept(c, k, row, f) \/ Refuse(c, k, row)
    BY <2>8
  <2>4. row # None
    <3>1. k.ident \in Idents /\ None \notin Rows
      BY BrokerAssumption DEF AuthMsgs
    <3>2. row = rights[k.ident] /\ rights[k.ident] \in Rows
      BY <3>1 DEF Entitled
    <3> QED  BY <3>1, <3>2
  <2>5. Accept(c, k, row, f)
    BY <2>2, <2>3, <2>4 DEF Refuse
  <2> QED  BY <1>2, <2>5 DEF Accept, TypeOK
<1>11. CASE OnAuthAsync(c)
  BY <1>1, <1>2, <1>11, EndLoopLink DEF OnAuthAsync
<1>12. CASE PublishRefused(c)
  <2>1. /\ ak[c] # None /\ buf[c] # << >> /\ m.op = "PUBLISH"
        /\ m.ident # ak[c] \/ m.chan \notin pubchans[c]
    BY <1>7, <1>12 DEF PublishRefused
  <2> QED  BY <1>4, <1>5, <1>6, <2>1, BrokerAssumption
<1>13. CASE Publish(c)
  BY <1>0, <1>13, OthersKeep
<1>14. CASE Subscribe(c)
  <2>1. /\ ak[c] # None /\ buf[c] # << >> /\ m.op = "SUBSCRIBE"
        /\ m.chan \in subchans[c] => UNCHANGED link
    BY <1>7, <1>14 DEF Subscribe
  <2>2. m.chan \in subchans[c]
    BY <1>4, <1>5, <1>6, <2>1, BrokerAssumption
  <2> QED  BY <1>0, <2>1, <2>2
<1>15. CASE Unsubscribe(c)
  BY <1>0, <1>15, UnsubscribeMoves
<1>16. CASE ServerIsNone(c)
  BY <1>0, <1>16 DEF ServerIsNone, AttachedExactly
<1>17. CASE BufferEmpty(c)
  BY <1>0, <1>1, <1>17, EndLoopLink DEF BufferEmpty
<1>18. CASE \/ DataReceived(c) \/ Eof(c) \/ Reset(c) \/ DeadlineExpires(c) \/ AuthResult(c)
            \/ AuthError(c) \/ Connect(c) \/ Drain(c) \/ Lost(c)
  BY <1>18 DEF DataReceived, Eof, Reset, DeadlineExpires, AuthResult, AuthError,
     Connect, Drain, Lost, Idle
<1> QED
  BY <1>8, <1>9, <1>10, <1>11, <1>12, <1>13, <1>14, <1>15, <1>16, <1>17, <1>18
     DEF Steps, Quiet

(* No handler closes the connection of a client that does what it is         *)
(* entitled to (asyncio/protocol.py and broker/connection.py): however its    *)
(* messages are cut into chunks, what follows an AUTH is handled with the     *)
(* rights the AUTH gained, and publishing to a subscriber that is gone        *)
(* raises nothing.                                                           *)
THEOREM KeepsProper ==
  ASSUME NEW view, ProperPeers(view), NEW rights, Entitled(rights), "failed" \notin Kernel
  PROVE  Spec => HandlersKeepConnection
<1> DEFINE once == [p \in ClientStates |-> view[p].subs]
           A == \A c \in Conns : loop # None /\ Open(c) => link'[c].state = "open"
<1>1. NeverTwice(once)
  BY ProperOnce
<1> HIDE DEF once
<1>2. Init => OnceInv(once) /\ ProperInv(view)
  BY <1>1, OnceInit, ProperInit
<1>3. Init => Entrusted(rights)
  BY DEF Init, Entrusted
<1>4. /\ BrokerInv /\ OnceInv(once) /\ ProperInv(view) /\ Entrusted(rights) /\ [Next]_vars
      => OnceInv(once)' /\ ProperInv(view)' /\ Entrusted(rights)'
  BY <1>1, OnceStep, ProperStep, EntrustedStep DEF BrokerInv, OnceInv
<1>5. BrokerInv /\ OnceInv(once) /\ ProperInv(view) /\ Entrusted(rights) /\ [Next]_vars => A
  <2> SUFFICES ASSUME BrokerInv, ListedOnce, ProperInv(view), Entrusted(rights), [Next]_vars,
                      NEW d \in Conns, loop # None, Open(d)
               PROVE  link'[d].state = "open"
    BY DEF OnceInv
  <2>1. CASE UNCHANGED vars
    BY <2>1 DEF vars, Open
  <2>2. ASSUME NEW c \in Conns, Steps(c)
        PROVE  link'[d].state = "open"
    <3>1. PICK a \in Accounts : Stands(view, a, d)
      BY DEF ProperInv
    <3>2. CASE d = c
      BY <2>2, <3>1, <3>2, HandlersKeep DEF BrokerInv
    <3>3. CASE d # c
      BY <2>2, <3>3, OthersKeep DEF BrokerInv, Open
    <3> QED  BY <3>2, <3>3
  <2> QED  BY <2>1, <2>2, NextSteps
<1> HIDE DEF A
<1>6. Spec => [][A]_vars
  BY <1>2, <1>3, <1>4, <1>5, InvAlways, PTL DEF Spec
<1> QED  BY <1>6 DEF HandlersKeepConnection, A
=============================================================================
