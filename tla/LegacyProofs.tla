---------------------------- MODULE LegacyProofs -----------------------------
(***************************************************************************)
(* Proofs about the threaded client, for any sockets, channels and bounds. *)
(* IInv is inductive; Sockets and Threading say what nearly all steps have *)
(* in common, the seven others are treated one by one.                     *)
(***************************************************************************)
EXTENDS LegacyClient, SequenceTheorems, TLAPS

\* Thread t is making the connection self.s.
Dials(t) == at[t] \in Critical \ {"redial"}

\* A connection that t makes is one that publish() makes while run() goes on.
Foreign(t) == t = "pub" \/ back[t] = "callback"

\* run() will receive again before it subscribes again.
Listens == \/ at["run"] \in {"inner", "recv", "nodata", "feed", "handle", "callback"}
           \/ at["run"] \in Connecting \cup {"unsent"} /\ back["run"] = "callback"

\* There is one connection, whatever the threads still hold.
OneSocket == \A k \in Socks : k # s => net[k] \in {"free", "closed"}

\* There is a socket, but at the beginning of the constructor.
Made == \/ s \in Socks
        \/ /\ at["run"] \in {"acquire", "redial"} /\ back["run"] = "built"
           /\ at["pub"] = "idle" /\ ~connected

Receives == at["run"] = "recv" => rs \in Socks

NotOwn == \A t \in Threads : Dials(t) /\ Foreign(t) => s \notin own

\* The connection in use, if run() or the constructor made it.
OwnUp == connected /\ s \in own /\ net[s] = "up"

Listening == Listens /\ OwnUp => due \subseteq told[s]

Subscribing == at["run"] = "subscribe" /\ OwnUp => due \ todo \subseteq told[s]

IInv == /\ TypeOK /\ OneSocket /\ Made /\ Receives /\ NotOwn
        /\ AuthenticatedWhenFree /\ Listening /\ Subscribing /\ ListensSubscribed
-----------------------------------------------------------------------------
(* Building blocks *)

\* There is always another socket to be had.
LEMMA FreshSocket ==
  ASSUME TypeOK, OneSocket
  PROVE  Fresh \in Socks /\ Fresh # s /\ net[Fresh] \in {"free", "closed"}
<1>1. s \in Socks \cup {None} /\ rs \in Socks \cup {None}
  BY DEF TypeOK
<1>2. Socks \ {s, rs} # {}
  BY <1>1, SocksAssumption
<1>3. PICK k \in Socks : k # s /\ k # rs
  BY <1>2
<1>4. net[k] \in {"free", "closed"}
  BY <1>3 DEF OneSocket
<1>5. \E j \in Socks : /\ net[j] \in {"free", "closed"} /\ j # s
                       /\ at["run"] = "recv" => j # rs
  BY <1>3, <1>4
<1> QED
  BY <1>5 DEF Fresh

\* What is received consists of messages, and so does what is left.
LEMMA ReceivedType ==
  ASSUME TypeOK, NEW k \in Socks, NEW d \in Received(k), Taken(k, d)
  PROVE  d \in Seq(Messages) /\ inbox' \in [Socks -> Seq(Messages)]
<1>1. PICK n \in 1 .. Len(inbox[k]) : d = SubSeq(inbox[k], 1, n)
  BY DEF Received
<1>2. inbox[k] \in Seq(Messages)
  BY DEF TypeOK
<1>3. d \in Seq(Messages) /\ Len(d) = n
  BY <1>1, <1>2, SubSeqProperties
<1>4. SubSeq(inbox[k], Len(d) + 1, Len(inbox[k])) \in Seq(Messages)
  BY <1>1, <1>2, <1>3, SubSeqProperties
<1> QED
  BY <1>3, <1>4 DEF Taken, TypeOK

SocketsOK ==
  /\ net \in [Socks -> {"free", "new", "up", "down", "closed"}]
  /\ inbox \in [Socks -> Seq(Messages)] /\ told \in [Socks -> SUBSET (Chans \cup {"AUTH"})]

\* The connection in use may break; the broker forgets nothing.
Carried == \A k \in Socks : /\ net'[k] = net[k] \/ (k = s /\ net[k] = "up" /\ net'[k] = "down")
                            /\ told[k] \subseteq told'[k]

\* What is sent reaches the broker, or the connection is or gets broken.
LEMMA SentEffect ==
  ASSUME TypeOK, NEW item \in Chans \cup {"AUTH", "PUBLISH"}, Sent(item)
  PROVE  /\ s \in Socks /\ own' = own /\ SocketsOK' /\ Carried
         /\ net'[s] = "up" => item \in told'[s] \cup {"PUBLISH"}
<1>1. s \in Socks
  BY DEF Sent, TypeOK
<1>2. SocketsOK
  BY DEF TypeOK, SocketsOK
<1>3. CASE net[s] = "up" /\ (item = "AUTH" \/ "AUTH" \in told[s])
  <2>1. /\ told' = [told EXCEPT ![s] = @ \cup ({item} \cap (Chans \cup {"AUTH"}))]
        /\ own' = own /\ net' = net /\ inbox' = inbox
    BY <1>3 DEF Sent
  <2>2. told[s] \cup ({item} \cap (Chans \cup {"AUTH"})) \in SUBSET (Chans \cup {"AUTH"})
    BY <1>1, <1>2 DEF SocketsOK
  <2>3. SocketsOK' /\ Carried
    BY <2>1, <2>2, <1>1, <1>2 DEF SocketsOK, Carried
  <2>4. item \in told'[s] \cup {"PUBLISH"}
    BY <2>1, <1>1, <1>2 DEF SocketsOK
  <2> QED
    BY <2>1, <2>3, <2>4, <1>1
<1>4. CASE net[s] = "up" /\ item # "AUTH" /\ "AUTH" \notin told[s]
  <2>1. /\ net' = [net EXCEPT ![s] = "down"] /\ inbox' = [inbox EXCEPT ![s] = Append(@, "ERROR")]
        /\ own' = own /\ told' = told
    BY <1>4 DEF Sent
  <2>2. Append(inbox[s], "ERROR") \in Seq(Messages)
    BY <1>1, <1>2 DEF Messages, SocketsOK
  <2>3. SocketsOK'
    BY <2>1, <2>2, <1>1, <1>2 DEF SocketsOK
  <2>4. Carried /\ net'[s] # "up"
    BY <2>1, <1>4, <1>1, <1>2 DEF SocketsOK, Carried
  <2> QED
    BY <2>1, <2>3, <2>4, <1>1
<1>5. CASE net[s] # "up"
  <2>1. own' = own /\ net' = net /\ inbox' = inbox /\ told' = told
    BY <1>5 DEF Sent, netVars
  <2>2. SocketsOK' /\ Carried
    BY <2>1, <1>2 DEF SocketsOK, Carried
  <2> QED
    BY <2>1, <2>2, <1>1, <1>5
<1> QED
  BY <1>3, <1>4, <1>5
-----------------------------------------------------------------------------
(* Types *)

ThreadsOK ==
  /\ at \in [Threads -> Connecting \cup Running \cup {"unsent", "idle"}]
  /\ back \in [Threads -> {"built", "head", "callback", "idle"}]
  /\ \A t \in Threads : at[t] \in Critical <=> lock = t
  /\ lock \in Threads \cup {None}

ClientOK ==
  /\ connected \in BOOLEAN /\ stopped \in BOOLEAN
  /\ subscriptions \subseteq Chans /\ todo \subseteq due /\ due \subseteq subscriptions
  /\ s \in Socks \cup {None} /\ rs \in Socks \cup {None} /\ own \subseteq Socks
  /\ calls \in 0 .. MaxCalls /\ sent \in 0 .. MaxSent /\ breaks \in 0 .. MaxBreaks

NetOK == unpacker \in Seq(Messages) /\ data \in Seq(Messages) /\ SocketsOK

\* The bounds are numbers.
LEMMA Bounds == MaxCalls \in Nat /\ MaxSent \in Nat /\ MaxBreaks \in Nat
  BY ParametersAssumption

\* tryconnect() but for what it receives and sends.
LEMMA ConnectingType ==
  ASSUME TypeOK, NEW t \in Threads,
         Enter(t) \/ DialFails(t) \/ Check(t) \/ Reset(t) \/ ReceiveInfoFails(t) \/ PopInfo(t)
         \/ SendAuthFails(t)
  PROVE  TypeOK'
<1> USE DEF TypeOK, Enter, DialFails, Check, Reset, ReceiveInfoFails, PopInfo, SendAuthFails,
            At, clientVars, runVars, netVars, counters, Acquire, Failed
<1>1. connected' \in BOOLEAN
  OBVIOUS
<1>2. ThreadsOK'
  BY DEF ThreadsOK, Threads, Connecting, Critical, Running, None
<1>3. ClientOK'
  BY <1>1, Bounds DEF ClientOK, SendFails
<1>a. /\ unpacker # << >> => Tail(unpacker) \in Seq(Messages)
      /\ unpacker \o data \in Seq(Messages) /\ << >> \in Seq(Messages)
  BY HeadTailProperties, ConcatProperties
<1>4. NetOK'
  BY <1>a DEF NetOK, SocketsOK
<1> QED
  BY <1>2, <1>3, <1>4 DEF ThreadsOK, ClientOK, NetOK, SocketsOK

\* publish() without success.
LEMMA UnsentType ==
  ASSUME TypeOK, NEW t \in Threads, PublishFails(t) \/ Unsent(t)
  PROVE  TypeOK'
<1> USE DEF TypeOK, PublishFails, Unsent, At, clientVars, runVars, netVars, counters
<1>1. connected' \in BOOLEAN
  OBVIOUS
<1>2. ThreadsOK'
  BY DEF ThreadsOK, Threads, Connecting, Critical, Running, None
<1>b. calls' \in 0 .. MaxCalls /\ sent' \in 0 .. MaxSent /\ breaks' \in 0 .. MaxBreaks
  BY Bounds DEF SendFails
<1>3. ClientOK'
  BY <1>1, <1>b DEF ClientOK, SendFails
<1>4. NetOK'
  BY DEF NetOK, SocketsOK, Messages
<1> QED
  BY <1>2, <1>3, <1>4 DEF ThreadsOK, ClientOK, NetOK, SocketsOK

\* run() but for what it receives and sends.
LEMMA MovingType ==
  ASSUME TypeOK,
         Run \/ Loop \/ SubscribeFails \/ NotSubscribed \/ SubscribeEnds \/ Inner \/ RecvFails
         \/ NoData \/ Feed \/ Handle \/ Handled \/ CallbackReturns \/ Outer
  PROVE  TypeOK'
<1> USE DEF TypeOK, Run, Loop, SubscribeFails, NotSubscribed, SubscribeEnds, Inner,
            RecvFails, NoData, Feed, Handle, Handled, CallbackReturns, Outer, At,
            clientVars, runVars, netVars, counters, Subscribed
<1>1. connected' \in BOOLEAN
  OBVIOUS
<1>2. ThreadsOK'
  BY DEF ThreadsOK, Threads, Connecting, Critical, Running, None
<1>3. ClientOK'
  BY <1>1, Bounds DEF ClientOK, SendFails
<1>a. /\ unpacker # << >> => Tail(unpacker) \in Seq(Messages)
      /\ unpacker \o data \in Seq(Messages) /\ << >> \in Seq(Messages)
  BY HeadTailProperties, ConcatProperties
<1>4. NetOK'
  BY <1>a DEF NetOK, SocketsOK
<1> QED
  BY <1>2, <1>3, <1>4 DEF ThreadsOK, ClientOK, NetOK, SocketsOK

\* Other calls.
LEMMA CallsType ==
  ASSUME TypeOK, Close \/ Stop
  PROVE  TypeOK'
<1> USE DEF TypeOK, Close, Stop, clientVars, runVars, netVars, counters
<1>1. connected' \in BOOLEAN /\ stopped' \in BOOLEAN
  OBVIOUS
<1>2. ThreadsOK'
  BY DEF ThreadsOK, Threads, Connecting, Critical, Running, None
<1>b. calls' \in 0 .. MaxCalls /\ sent' \in 0 .. MaxSent /\ breaks' \in 0 .. MaxBreaks
  BY Bounds
<1>3. ClientOK'
  BY <1>1, <1>b DEF ClientOK
<1>4. NetOK'
  BY DEF NetOK, SocketsOK, Messages
<1> QED
  BY <1>2, <1>3, <1>4 DEF ThreadsOK, ClientOK, NetOK, SocketsOK

\* subscribe().
LEMMA SubscribeType ==
  ASSUME TypeOK, NEW ch \in Chans, Subscribe(ch)
  PROVE  TypeOK'
<1> USE DEF TypeOK, Subscribe, runVars, netVars, counters
<1>1. connected' \in BOOLEAN
  OBVIOUS
<1>2. ThreadsOK'
  BY DEF ThreadsOK, Threads, Connecting, Critical, Running, None
<1>3. ClientOK'
  BY <1>1, Bounds DEF ClientOK
<1>4. NetOK'
  BY DEF NetOK, SocketsOK, Messages
<1> QED
  BY <1>2, <1>3, <1>4 DEF ThreadsOK, ClientOK, NetOK, SocketsOK

\* A message from the broker.
LEMMA BrokerPublishesType ==
  ASSUME TypeOK, NEW k \in Socks, BrokerPublishes(k)
  PROVE  TypeOK'
<1> USE DEF TypeOK, BrokerPublishes, clientVars, runVars
<1>1. connected' \in BOOLEAN
  OBVIOUS
<1>2. ThreadsOK'
  BY DEF ThreadsOK, Threads, Connecting, Critical, Running, None
<1>3. ClientOK'
  BY <1>1, Bounds DEF ClientOK
<1>4. NetOK'
  BY DEF NetOK, SocketsOK, Messages
<1> QED
  BY <1>2, <1>3, <1>4 DEF ThreadsOK, ClientOK, NetOK, SocketsOK

LEMMA RedialType ==
  ASSUME TypeOK, OneSocket, Made, Receives, NEW t \in Threads, Redial(t)
  PROVE  TypeOK'
BY FreshSocket DEF TypeOK, Redial, At, clientVars, runVars, counters, Threads,
   Connecting, Critical, Running, Messages, None

LEMMA DialedType ==
  ASSUME TypeOK, OneSocket, Made, Receives, NEW t \in Threads, Dialed(t)
  PROVE  TypeOK'
<1> USE DEF TypeOK, Dialed, At, runVars, counters
<1>0. <<"INFO">> \in Seq(Messages)
  BY DEF Messages
<1>a. inbox' \in [Socks -> Seq(Messages)]
  BY <1>0
<1>1. connected' \in BOOLEAN
  OBVIOUS
<1>2. ThreadsOK'
  BY DEF ThreadsOK, Threads, Connecting, Critical, Running, None
<1>3. ClientOK'
  BY <1>1, Bounds DEF ClientOK
<1>4. NetOK'
  BY <1>a DEF NetOK, SocketsOK, Messages
<1> QED
  BY <1>2, <1>3, <1>4 DEF ThreadsOK, ClientOK, NetOK, SocketsOK

LEMMA ReceiveInfoType ==
  ASSUME TypeOK, OneSocket, Made, Receives, NEW t \in Threads, ReceiveInfo(t)
  PROVE  TypeOK'
<1> USE DEF TypeOK, ReceiveInfo, At, clientVars, runVars, counters
<1>0. s \in Socks
  BY DEF Made, Critical, Connecting, Threads
<1>a. PICK d \in Received(s) : Taken(s, d) /\ unpacker' = unpacker \o d
  OBVIOUS
<1>b. d \in Seq(Messages) /\ inbox' \in [Socks -> Seq(Messages)]
  BY <1>0, <1>a, ReceivedType
<1>1. connected' \in BOOLEAN
  OBVIOUS
<1>2. ThreadsOK'
  BY DEF ThreadsOK, Threads, Connecting, Critical, Running, None
<1>3. ClientOK'
  BY <1>1, Bounds DEF ClientOK
<1>4. NetOK'
  BY <1>0, <1>a, <1>b DEF NetOK, SocketsOK, Messages
<1> QED
  BY <1>2, <1>3, <1>4 DEF ThreadsOK, ClientOK, NetOK, SocketsOK

LEMMA SendAuthType ==
  ASSUME TypeOK, OneSocket, Made, Receives, NEW t \in Threads, SendAuth(t)
  PROVE  TypeOK'
<1> USE DEF TypeOK, SendAuth, At, clientVars, runVars, counters
<1>1. connected' \in BOOLEAN
  OBVIOUS
<1>2. ThreadsOK'
  BY DEF ThreadsOK, Threads, Connecting, Critical, Running, None
<1>3. ClientOK'
  BY <1>1, Bounds, SentEffect DEF ClientOK
<1>4. NetOK'
  BY SentEffect DEF NetOK, SocketsOK, Messages
<1> QED
  BY <1>2, <1>3, <1>4 DEF ThreadsOK, ClientOK, NetOK, SocketsOK

LEMMA PublishType ==
  ASSUME TypeOK, OneSocket, Made, Receives, NEW t \in Threads, Publish(t)
  PROVE  TypeOK'
<1> USE DEF TypeOK, Publish, clientVars, runVars
<1>1. connected' \in BOOLEAN
  OBVIOUS
<1>2. ThreadsOK'
  BY DEF ThreadsOK, Threads, Connecting, Critical, Running, None
<1>3. ClientOK'
  BY <1>1, Bounds, SentEffect DEF ClientOK
<1>4. NetOK'
  BY SentEffect DEF NetOK, SocketsOK, Messages
<1> QED
  BY <1>2, <1>3, <1>4 DEF ThreadsOK, ClientOK, NetOK, SocketsOK

LEMMA WaitType ==
  ASSUME TypeOK, OneSocket, Made, Receives, Wait
  PROVE  TypeOK'
<1> USE DEF TypeOK, clientVars, runVars
<1>0. s \in Socks
  BY DEF Made, Wait
<1>a. PICK e \in Received(s) :
        /\ Taken(s, e)
        /\ LET all == unpacker \o e
               errors == {i \in DOMAIN all : all[i] = "ERROR"} IN
           \/ errors = {} /\ unpacker' = << >>
           \/ \E i \in errors : unpacker' = SubSeq(all, i + 1, Len(all))
  BY DEF Wait
<1>b. e \in Seq(Messages) /\ inbox' \in [Socks -> Seq(Messages)]
  BY <1>0, <1>a, ReceivedType
<1>c. unpacker' \in Seq(Messages)
  <2> DEFINE all == unpacker \o e
             errors == {i \in DOMAIN all : all[i] = "ERROR"}
  <2>1. CASE errors = {} /\ unpacker' = << >>
    BY <2>1
  <2>2. CASE \E i \in errors : unpacker' = SubSeq(all, i + 1, Len(all))
    <3>1. PICK i \in errors : unpacker' = SubSeq(all, i + 1, Len(all))
      BY <2>2
    <3>2. all \in Seq(Messages)
      BY <1>b, ConcatProperties
    <3>3. i \in 1 .. Len(all)
      BY <3>2
    <3> HIDE DEF all
    <3> QED
      BY <3>1, <3>2, <3>3, SubSeqProperties
  <2> QED
    BY <1>a, <2>1, <2>2
<1>1. /\ calls' \in 0 .. MaxCalls
      /\ UNCHANGED <<at, back, lock, clientVars, s, runVars, own, net, told, sent, breaks>>
  BY ParametersAssumption DEF Wait
<1>2. ThreadsOK'
  BY <1>1 DEF ThreadsOK, Threads, Connecting, Critical, Running, None
<1>3. ClientOK'
  BY <1>1 DEF ClientOK
<1>4. NetOK'
  BY <1>1, <1>c, <1>b DEF NetOK, SocketsOK, Messages
<1> QED
  BY <1>2, <1>3, <1>4 DEF ThreadsOK, ClientOK, NetOK, SocketsOK

LEMMA SubscribeNextType ==
  ASSUME TypeOK, OneSocket, Made, Receives, SubscribeNext
  PROVE  TypeOK'
<1> USE DEF TypeOK, SubscribeNext, clientVars, counters
<1>0. PICK c \in todo : todo' = todo \ {c} /\ Sent(c)
  OBVIOUS
<1>1. connected' \in BOOLEAN
  OBVIOUS
<1>2. ThreadsOK'
  BY DEF ThreadsOK, Threads, Connecting, Critical, Running, None
<1>3. ClientOK'
  BY <1>1, Bounds, SentEffect, <1>0 DEF ClientOK
<1>4. NetOK'
  BY SentEffect, <1>0 DEF NetOK, SocketsOK, Messages
<1> QED
  BY <1>2, <1>3, <1>4 DEF ThreadsOK, ClientOK, NetOK, SocketsOK

LEMMA RecvType ==
  ASSUME TypeOK, OneSocket, Made, Receives, Recv
  PROVE  TypeOK'
<1> USE DEF TypeOK, Recv, At, clientVars, counters
<1>0. rs \in Socks
  BY DEF Receives
<1>a. PICK d \in Received(rs) : Taken(rs, d) /\ data' = d
  OBVIOUS
<1>b. d \in Seq(Messages) /\ inbox' \in [Socks -> Seq(Messages)]
  BY <1>0, <1>a, ReceivedType
<1>1. connected' \in BOOLEAN
  OBVIOUS
<1>2. ThreadsOK'
  BY DEF ThreadsOK, Threads, Connecting, Critical, Running, None
<1>3. ClientOK'
  BY <1>1, Bounds DEF ClientOK
<1>4. NetOK'
  BY <1>0, <1>a, <1>b DEF NetOK, SocketsOK, Messages
<1> QED
  BY <1>2, <1>3, <1>4 DEF ThreadsOK, ClientOK, NetOK, SocketsOK

LEMMA BreakType ==
  ASSUME TypeOK, OneSocket, Made, Receives, NEW k \in Socks, Break(k)
  PROVE  TypeOK'
<1> USE DEF TypeOK, Break, clientVars, runVars
<1>0. Append(inbox[k], "ERROR") \in Seq(Messages)
  BY DEF Messages
<1>a. inbox' \in [Socks -> Seq(Messages)]
  BY <1>0
<1>1. connected' \in BOOLEAN
  OBVIOUS
<1>2. ThreadsOK'
  BY DEF ThreadsOK, Threads, Connecting, Critical, Running, None
<1>3. ClientOK'
  BY <1>1, Bounds DEF ClientOK
<1>4. NetOK'
  BY <1>a DEF NetOK, SocketsOK, Messages
<1> QED
  BY <1>2, <1>3, <1>4 DEF ThreadsOK, ClientOK, NetOK, SocketsOK

\* Every step keeps the types.
LEMMA TypeStep ==
  ASSUME TypeOK, OneSocket, Made, Receives, Next
  PROVE  TypeOK'
BY ConnectingType, UnsentType, MovingType, CallsType, SubscribeType, BrokerPublishesType,
   RedialType, DialedType, ReceiveInfoType, SendAuthType, PublishType, WaitType,
   SubscribeNextType, RecvType, BreakType
   DEF Next, Proceeds, Runs
-----------------------------------------------------------------------------
(* What most steps have in common *)

\* No connection begins, no AUTH or subscription is forgotten.
Sockets ==
  /\ s' = s /\ own' = own
  /\ connected' => connected
  /\ \A k \in Socks : /\ \/ net'[k] = net[k]
                         \/ net[k] \in {"up", "down"} /\ net'[k] = "down"
                         \/ net'[k] = "closed"
                      /\ net'[k] = "up" => told[k] \subseteq told'[k]

\* No thread begins to dial.
Dialing == \A t \in Threads : Dials(t)' => Dials(t) /\ back'[t] = back[t]

\* The lock is not released.
Locking == lock' = None => lock = None

\* run() stays where it is, or goes where it neither sends nor receives.
Waiting ==
  /\ Listens' /\ connected' => Listens
  /\ at'["run"] = "subscribe" => at["run"] = "subscribe" /\ todo' = todo
  /\ at'["run"] = "recv" => at["run"] = "recv" /\ rs' = rs
  /\ due' = due

\* What IInv consists of, for the proofs below.
LEMMA Parts ==
  ASSUME IInv
  PROVE  /\ TypeOK /\ OneSocket /\ Made /\ Receives /\ NotOwn /\ Listening /\ Subscribing
         /\ AuthenticatedWhenFree /\ ListensSubscribed
         /\ connected => s \in Socks
BY DEF IInv, Made

\* No other socket is in use, and nobody dials on a socket of run()'s own.
LEMMA DialingStep ==
  ASSUME IInv, Sockets, Dialing
  PROVE  OneSocket' /\ NotOwn'
<1>1. OneSocket'
  <2> SUFFICES ASSUME NEW k \in Socks, k # s PROVE net'[k] \in {"free", "closed"}
    BY DEF OneSocket, Sockets
  <2>1. net[k] \in {"free", "closed"}
    BY Parts DEF OneSocket
  <2> QED
    BY <2>1 DEF Sockets
<1> QED
  BY <1>1, Parts DEF Sockets, Dialing, NotOwn, Foreign

\* A connection nobody makes stays authenticated.
LEMMA LockingStep ==
  ASSUME IInv, Sockets, Locking
  PROVE  AuthenticatedWhenFree'
<1> SUFFICES ASSUME lock' = None, connected', net'[s] = "up" PROVE "AUTH" \in told'[s]
  BY DEF AuthenticatedWhenFree, Sockets
<1>1. connected /\ net[s] = "up" /\ told[s] \subseteq told'[s]
  BY Parts DEF Sockets
<1> QED
  BY <1>1, Parts DEF AuthenticatedWhenFree, Locking

\* Such a step makes no connection of run()'s own.
LEMMA OwnUpStep ==
  ASSUME IInv, Sockets
  PROVE  OwnUp' => OwnUp /\ told[s] \subseteq told'[s]
<1> SUFFICES ASSUME connected', s \in own, net'[s] = "up"
             PROVE  OwnUp /\ told[s] \subseteq told'[s]
  BY DEF OwnUp, Sockets
<1> QED
  BY Parts DEF OwnUp, Sockets

\* The socket that run() receives from keeps its subscriptions.
LEMMA ReceivingStep ==
  ASSUME IInv, Sockets, due' = due,
         at'["run"] = "recv" => at["run"] = "recv" /\ rs' = rs
  PROVE  Receives' /\ ListensSubscribed'
<1>1. Receives'
  BY Parts DEF Receives
<1>2. ListensSubscribed'
  <2> SUFFICES ASSUME at'["run"] = "recv", rs \in own, net'[rs] = "up"
               PROVE  due \subseteq told'[rs]
    BY DEF ListensSubscribed, Sockets
  <2>1. rs \in Socks
    BY Parts DEF Receives
  <2>2. net[rs] = "up" /\ told[rs] \subseteq told'[rs]
    BY <2>1 DEF Sockets
  <2> QED
    BY <2>2, Parts DEF ListensSubscribed
<1> QED
  BY <1>1, <1>2

\* What is sent on the way to receiving stays sent.
LEMMA WaitingStep ==
  ASSUME IInv, Sockets, Waiting
  PROVE  Receives' /\ Listening' /\ Subscribing' /\ ListensSubscribed'
<1> USE DEF Waiting, Sockets
<1>1. Receives' /\ ListensSubscribed'
  BY ReceivingStep
<1>2. Listening'
  BY Parts, OwnUpStep DEF Listening, OwnUp
<1>3. Subscribing'
  BY Parts, OwnUpStep DEF Subscribing
<1> QED
  BY <1>1, <1>2, <1>3

\* tryconnect() until AUTH is sent, but for the making of a socket.
LEMMA TriesSteady ==
  ASSUME IInv, NEW t \in Threads,
         \/ Enter(t) \/ DialFails(t) \/ Check(t) \/ Reset(t) \/ ReceiveInfo(t)
         \/ ReceiveInfoFails(t) \/ PopInfo(t) \/ SendAuthFails(t)
  PROVE  Sockets /\ Dialing /\ Locking /\ Waiting /\ Made'
<1> USE DEF Enter, DialFails, Check, Reset, ReceiveInfo, ReceiveInfoFails, PopInfo,
            SendAuthFails, At, clientVars, runVars, netVars, counters, Acquire, Failed,
            Taken, Threads, IInv, TypeOK
<1>1. Sockets
  BY DEF Sockets
<1>2. Dialing /\ Locking /\ Waiting
  BY DEF Dialing, Locking, Waiting, Dials, Listens, Connecting, Critical, None
<1>3. Made'
  BY DEF Made, Constructed, Connecting
<1> QED
  BY <1>1, <1>2, <1>3

\* publish().
LEMMA PublishesSteady ==
  ASSUME IInv, NEW t \in Threads, Publish(t) \/ PublishFails(t) \/ Unsent(t)
  PROVE  Sockets /\ Dialing /\ Locking /\ Waiting /\ Made'
<1> USE DEF Publish, PublishFails, Unsent, At, clientVars, runVars, netVars, counters,
            Threads, IInv, TypeOK
<1>1. Sockets
  BY SentEffect DEF Sockets, Carried
<1>2. Dialing /\ Locking /\ Waiting
  BY DEF Dialing, Locking, Waiting, Dials, Listens, Connecting, Critical, None
<1>3. Made'
  BY DEF Made, Constructed, Connecting
<1> QED
  BY <1>1, <1>2, <1>3

\* run() finds the connection broken.
LEMMA FailsSteady ==
  ASSUME IInv, SubscribeFails \/ NotSubscribed \/ RecvFails \/ NoData \/ Outer
  PROVE  Sockets /\ Dialing /\ Locking /\ Waiting /\ Made'
<1> USE DEF SubscribeFails, NotSubscribed, RecvFails, NoData, Outer, At, clientVars,
            runVars, netVars, counters, Threads, IInv, TypeOK
<1>1. Sockets
  BY DEF Sockets
<1>2. Dialing /\ Locking /\ Waiting
  BY DEF Dialing, Locking, Waiting, Dials, Listens, Connecting, Critical, None
<1>3. Made'
  BY DEF Made, Constructed, Connecting
<1> QED
  BY <1>1, <1>2, <1>3

\* run() receives and handles.
LEMMA ReceivingSteady ==
  ASSUME IInv, Run \/ Recv \/ Feed \/ Handle \/ Handled \/ CallbackReturns
  PROVE  Sockets /\ Dialing /\ Locking /\ Waiting /\ Made'
<1> USE DEF Run, Recv, Feed, Handle, Handled, CallbackReturns, At, clientVars, runVars,
            netVars, counters, Taken, Threads, IInv, TypeOK
<1>1. Sockets
  BY DEF Sockets
<1>2. Dialing /\ Locking /\ Waiting
  BY DEF Dialing, Locking, Waiting, Dials, Listens, Connecting, Critical, None
<1>3. Made'
  BY DEF Made, Constructed, Connecting
<1> QED
  BY <1>1, <1>2, <1>3

\* Other calls.
LEMMA CallsSteady ==
  ASSUME IInv, Close \/ Stop \/ Wait
  PROVE  Sockets /\ Dialing /\ Locking /\ Waiting /\ Made'
<1> USE DEF Close, Stop, Wait, clientVars, runVars, netVars, counters, Taken, Threads,
            IInv, TypeOK
<1>1. Sockets
  BY DEF Sockets
<1>2. Dialing /\ Locking /\ Waiting
  BY DEF Dialing, Locking, Waiting, Dials, Listens, Connecting, Critical, None
<1>3. Made'
  BY DEF Made, Constructed, Connecting
<1> QED
  BY <1>1, <1>2, <1>3

\* subscribe().
LEMMA SubscribeSteady ==
  ASSUME IInv, NEW ch \in Chans, Subscribe(ch)
  PROVE  Sockets /\ Dialing /\ Locking /\ Waiting /\ Made'
<1> USE DEF Subscribe, runVars, netVars, counters, Threads, IInv, TypeOK
<1>1. Sockets
  BY DEF Sockets
<1>2. Dialing /\ Locking /\ Waiting
  BY DEF Dialing, Locking, Waiting, Dials, Listens, Connecting, Critical, None
<1>3. Made'
  BY DEF Made, Constructed, Connecting
<1> QED
  BY <1>1, <1>2, <1>3

\* The broker and the network.
LEMMA OutsideSteady ==
  ASSUME IInv, NEW k \in Socks, BrokerPublishes(k) \/ Break(k)
  PROVE  Sockets /\ Dialing /\ Locking /\ Waiting /\ Made'
<1> USE DEF BrokerPublishes, Break, clientVars, runVars, Threads, IInv, TypeOK
<1>1. Sockets
  BY DEF Sockets
<1>2. Dialing /\ Locking /\ Waiting
  BY DEF Dialing, Locking, Waiting, Dials, Listens, Connecting, Critical, None
<1>3. Made'
  BY DEF Made, Constructed, Connecting
<1> QED
  BY <1>1, <1>2, <1>3

-----------------------------------------------------------------------------
(* The seven other steps *)

LEMMA RedialStep ==
  ASSUME IInv, TypeOK', NEW t \in Threads, Redial(t)
  PROVE  IInv'
<1> USE DEF Redial, At, runVars, clientVars, Threads
<1>a. /\ Fresh \in Socks /\ s' = Fresh /\ Fresh # s
      /\ net' = [k \in Socks |-> IF k = Fresh THEN "new" ELSE IF k = s THEN "closed" ELSE net[k]]
      /\ lock' # None /\ ~OwnUp'
  BY FreshSocket, Parts DEF OwnUp, TypeOK, Critical, Connecting, None
<1>1. OneSocket' /\ Made' /\ Receives'
  BY <1>a, Parts DEF OneSocket, Made, Receives, TypeOK
<1>2. NotOwn'
  <2> SUFFICES ASSUME NEW u \in Threads, Dials(u)', Foreign(u)' PROVE s' \notin own'
    BY DEF NotOwn
  <2>1. u = t
    BY Parts DEF TypeOK, Dials, Critical, Connecting
  <2> QED
    BY <2>1, <1>a DEF Foreign
<1>3. AuthenticatedWhenFree' /\ Listening' /\ Subscribing'
  BY <1>a DEF AuthenticatedWhenFree, Listening, Subscribing
<1>4. ListensSubscribed'
  BY <1>a, Parts DEF ListensSubscribed, Receives, TypeOK, OneSocket
<1> QED
  BY <1>1, <1>2, <1>3, <1>4 DEF IInv

LEMMA DialedStep ==
  ASSUME IInv, TypeOK', NEW t \in Threads, Dialed(t)
  PROVE  IInv'
<1> USE DEF Dialed, At, runVars, Threads
<1>a. s \in Socks /\ Dials(t) /\ lock' # None
  BY Parts DEF Made, Dials, TypeOK, Critical, Connecting, None
<1>b. Dials(t) /\ Dials(t)' /\ \A u \in Threads : Dials(u)' => Dials(u)
  BY Parts DEF Dials, TypeOK, Critical, Connecting
<1>c. Foreign(t) => s \notin own
  BY <1>b, Parts DEF NotOwn
<1>d. s \in own => t = "run" /\ back["run"] # "callback"
  BY <1>c DEF Foreign
<1>1. OneSocket' /\ Made' /\ Receives'
  BY <1>a, Parts DEF OneSocket, Made, Receives, TypeOK
<1>2. NotOwn'
  BY <1>b, Parts DEF NotOwn, Foreign
<1>3. AuthenticatedWhenFree'
  BY <1>a DEF AuthenticatedWhenFree
<1>4. s \in own => ~Listens' /\ at'["run"] = "check"
  BY <1>d, Parts DEF Listens, TypeOK, Connecting
<1>5. Listening' /\ Subscribing'
  BY <1>4 DEF Listening, Subscribing, OwnUp
<1>6. ListensSubscribed'
  <2> SUFFICES ASSUME at'["run"] = "recv", rs \in own, net'[rs] = "up"
               PROVE  due \subseteq told[rs]
    BY DEF ListensSubscribed
  <2>1. rs \in Socks /\ rs # s
    BY <1>4, Parts DEF TypeOK
  <2>2. net[rs] = "up"
    BY <2>1, Parts DEF TypeOK
  <2> QED
    BY <2>1, <2>2, Parts DEF OneSocket
<1> QED
  BY <1>1, <1>2, <1>3, <1>5, <1>6 DEF IInv

LEMMA SendAuthStep ==
  ASSUME IInv, TypeOK', NEW t \in Threads, SendAuth(t)
  PROVE  IInv'
<1> USE DEF SendAuth, At, clientVars, runVars, Threads
<1>a. s \in Socks /\ Sockets /\ (net'[s] = "up" => "AUTH" \in told'[s])
  BY Parts, SentEffect DEF Sockets, Carried
<1>1. Dialing /\ Waiting
  BY Parts DEF TypeOK, Dialing, Waiting, Dials, Listens, Connecting, Critical
<1>2. AuthenticatedWhenFree' /\ Made'
  BY <1>a DEF AuthenticatedWhenFree, Made
<1> QED
  BY <1>a, <1>1, <1>2, DialingStep, WaitingStep DEF IInv

LEMMA LoopStep ==
  ASSUME IInv, TypeOK', Loop
  PROVE  IInv'
<1> USE DEF Loop, At, clientVars, netVars, Threads
<1>1. Sockets /\ Dialing /\ Locking /\ Made'
  BY Parts DEF TypeOK, Sockets, Dialing, Locking, Made, Dials, Connecting, Critical
<1>2. ~Listens' /\ at'["run"] # "recv"
  BY Parts DEF TypeOK, Listens, Connecting
<1>3. Receives' /\ Listening' /\ ListensSubscribed'
  BY <1>2 DEF Receives, Listening, ListensSubscribed
<1>4. Subscribing'
  BY Parts DEF Subscribing, Subscribed, TypeOK
<1> QED
  BY <1>1, <1>3, <1>4, DialingStep, LockingStep DEF IInv

LEMMA SubscribeNextStep ==
  ASSUME IInv, TypeOK', SubscribeNext
  PROVE  IInv'
<1>a. PICK c \in todo : todo' = todo \ {c} /\ Sent(c)
  BY DEF SubscribeNext
<1>b. /\ at["run"] = "subscribe"
      /\ UNCHANGED <<at, back, lock, clientVars, s, unpacker, rs, data, due, counters>>
  BY DEF SubscribeNext
<1>c. c \in Chans
  BY Parts DEF TypeOK
<1>d. /\ s \in Socks /\ own' = own /\ Carried
      /\ net'[s] = "up" => c \in told'[s]
  BY <1>a, <1>c, Parts, SentEffect, ChansAssumption
<1>1. Sockets /\ Made'
  BY <1>b, <1>d DEF Sockets, Carried, Made, clientVars
<1>2. Dialing /\ Locking
  BY <1>b DEF Dialing, Locking, Dials
<1>3. ~Listens' /\ Receives' /\ ListensSubscribed'
  BY <1>b DEF Listens, Receives, ListensSubscribed, Connecting
<1>4. Subscribing'
  <2> SUFFICES ASSUME OwnUp' PROVE due \ todo' \subseteq told'[s]
    BY <1>b DEF Subscribing
  <2>1. OwnUp /\ told[s] \subseteq told'[s]
    BY <1>1, OwnUpStep
  <2>2. due \ todo \subseteq told[s]
    BY <2>1, <1>b, Parts DEF Subscribing
  <2>3. c \in told'[s]
    BY <1>d, <1>b DEF OwnUp
  <2> QED
    BY <1>a, <2>1, <2>2, <2>3
<1> QED
  BY <1>1, <1>2, <1>3, <1>4, DialingStep, LockingStep DEF IInv, Listening

LEMMA SubscribeEndsStep ==
  ASSUME IInv, TypeOK', SubscribeEnds
  PROVE  IInv'
<1> USE DEF SubscribeEnds, At, clientVars, runVars, netVars, Threads
<1>1. Sockets /\ Dialing /\ Locking /\ Made'
  BY Parts DEF TypeOK, Sockets, Dialing, Locking, Made, Dials, Connecting, Critical
<1>2. at'["run"] = "inner"
  BY Parts DEF TypeOK
<1>3. Receives' /\ ListensSubscribed' /\ Subscribing'
  BY <1>2 DEF Receives, ListensSubscribed, Subscribing
<1>4. Listening'
  BY Parts, <1>1, OwnUpStep DEF Listening, Subscribing
<1> QED
  BY <1>1, <1>3, <1>4, DialingStep, LockingStep DEF IInv

LEMMA InnerStep ==
  ASSUME IInv, TypeOK', Inner
  PROVE  IInv'
<1> USE DEF Inner, At, clientVars, netVars, Threads
<1>1. Sockets /\ Dialing /\ Locking /\ Made'
  BY Parts DEF TypeOK, Sockets, Dialing, Locking, Made, Dials, Connecting, Critical
<1>2. at["run"] = "inner" /\ at'["run"] \in {"recv", "outer"}
  BY Parts DEF TypeOK
<1>3. CASE connected
  <2>1. rs' = s /\ s \in Socks
    BY <1>3, Parts
  <2>2. s \in own /\ net[s] = "up" => due \subseteq told[s]
    BY <1>2, <1>3, Parts DEF Listening, Listens, OwnUp
  <2> QED
    BY <1>2, <2>1, <2>2, <1>1, DialingStep, LockingStep, OwnUpStep, Parts
       DEF IInv, Receives, Listening, Subscribing, ListensSubscribed, Listens
<1>4. CASE ~connected
  <2>1. at'["run"] = "outer" /\ ~OwnUp'
    BY <1>4, Parts DEF TypeOK, OwnUp
  <2>2. Receives' /\ Listening' /\ Subscribing' /\ ListensSubscribed'
    BY <2>1 DEF Receives, Listening, Subscribing, ListensSubscribed
  <2> QED
    BY <2>2, <1>1, DialingStep, LockingStep DEF IInv
<1> QED
  BY <1>3, <1>4
-----------------------------------------------------------------------------
(* The theorems *)

\* Every step keeps IInv.
LEMMA Inductive ==
  ASSUME IInv, [Next]_vars
  PROVE  IInv'
<1>1. CASE UNCHANGED vars
  BY <1>1 DEF vars, clientVars, runVars, netVars, counters, IInv, TypeOK, OneSocket, Made,
     Receives, NotOwn, Dials, Foreign, AuthenticatedWhenFree, Listening, Listens, Subscribing,
     OwnUp, ListensSubscribed
<1>2. CASE Next
  <2>1. TypeOK'
    BY <1>2, Parts, TypeStep
  <2>2. ASSUME Sockets, Dialing, Locking, Waiting, Made' PROVE IInv'
    BY <2>1, <2>2, DialingStep, LockingStep, WaitingStep DEF IInv
  <2>3. CASE \/ \E t \in Threads :
                  \/ Enter(t) \/ DialFails(t) \/ Check(t) \/ Reset(t) \/ ReceiveInfo(t)
                  \/ ReceiveInfoFails(t) \/ PopInfo(t) \/ SendAuthFails(t)
                  \/ Publish(t) \/ PublishFails(t) \/ Unsent(t)
             \/ Run \/ SubscribeFails \/ NotSubscribed \/ Recv \/ RecvFails \/ NoData
             \/ Feed \/ Handle \/ Handled \/ CallbackReturns \/ Outer
             \/ Close \/ Stop \/ Wait \/ \E ch \in Chans : Subscribe(ch)
             \/ \E k \in Socks : BrokerPublishes(k) \/ Break(k)
    BY <2>2, <2>3, TriesSteady, PublishesSteady, FailsSteady, ReceivingSteady, CallsSteady,
       SubscribeSteady, OutsideSteady
  <2> QED
    BY <1>2, <2>1, <2>3, RedialStep, DialedStep, SendAuthStep, LoopStep, SubscribeNextStep,
       SubscribeEndsStep, InnerStep DEF Next, Proceeds, Runs
<1> QED
  BY <1>1, <1>2 DEF vars

LEMMA Initial == Init => IInv
<1> SUFFICES ASSUME Init PROVE IInv
  OBVIOUS
<1>1. TypeOK
  <2>1. ThreadsOK
    BY DEF Init, ThreadsOK, Threads, Connecting, Critical, Running, None
  <2>2. ClientOK
    <3>1. connected \in BOOLEAN /\ stopped \in BOOLEAN
      BY DEF Init
    <3> QED
      BY <3>1, ParametersAssumption DEF Init, ClientOK
  <2>3. NetOK
    BY DEF Init, NetOK, SocketsOK
  <2> QED
    BY <2>1, <2>2, <2>3 DEF TypeOK, ThreadsOK, ClientOK, NetOK, SocketsOK
<1> QED
  BY <1>1 DEF Init, IInv, OneSocket, Made, Receives, NotOwn, Dials, Foreign, Critical, Connecting,
     AuthenticatedWhenFree, Listening, OwnUp, Subscribing, ListensSubscribed, Threads

LEMMA Invariant == Spec => []IInv
BY Initial, Inductive, PTL DEF Spec

\* Every attribute of the client keeps its type, and a thread is inside
\* tryconnect() exactly while it holds the lock.
THEOREM TypeCorrect == Spec => []TypeOK
<1>1. IInv => TypeOK
  BY DEF IInv
<1> QED
  BY <1>1, Invariant, PTL

\* When no thread is in tryconnect(), the connection that `connected` speaks of
\* has been authenticated, however the threads race in publish() and run().
THEOREM Authenticated == Spec => []AuthenticatedWhenFree
<1>1. IInv => AuthenticatedWhenFree
  BY DEF IInv
<1> QED
  BY <1>1, Invariant, PTL

\* run() receives on a connection that it made itself only once all it set out
\* to subscribe to was sent on it.
THEOREM Subscribes == Spec => []ListensSubscribed
<1>1. IInv => ListensSubscribed
  BY DEF IInv
<1> QED
  BY <1>1, Invariant, PTL
=============================================================================
