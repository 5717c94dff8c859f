---------------------------- MODULE BlockingClient ----------------------------
(***************************************************************************)
(* blocking/: a ClientSession whose connection is managed by a thread, the *)
(* reactor, while threads of the user write, read and stop it.  The two    *)
(* sides meet in two Queues: a thread-safe queue with a socket pair, into  *)
(* which put() sends a byte after the item and from which get() takes a    *)
(* byte before the item, so that select() can watch it.                    *)
(*                                                                         *)
(* A step is what a thread does up to its next access to a queue or to the *)
(* network; the reactor looks at `closing` at the end of one.              *)
(* _connect() replaces the outbox: the outboxes are numbered by connection *)
(* (0 is the one of __init__), since a thread may still hold an older one. *)
(* A message is two cells, so that a send can stop within one.             *)
(***************************************************************************)
EXTENDS Naturals, Sequences, FiniteSets

CONSTANTS Users,      \* threads of the user
          Capacity,   \* bytes a socket pair takes before send() blocks
          MaxConns,   \* bound: connections made; the last does not break, and only
                      \* on the last are there messages that end the thread
          MaxCalls,   \* bound: messages written by the users
          MaxSent,    \* bound: messages the broker publishes
          OddAfter    \* bound: after how many of them a peer may misspeak

ASSUME BlockingAssumption ==
  /\ IsFiniteSet(Users)
  /\ Capacity \in Nat /\ MaxConns \in Nat /\ MaxCalls \in Nat /\ MaxSent \in Nat

VARIABLES
  rpc,            \* where the reactor's thread is
  ready,          \* what select() returned, without what is being handled
  pending,        \* messages in the Unpacker of the protocol
  buffer,         \* self._buffer
  outbox,         \* every outbox made so far
  gen,            \* self._outbox is outbox[gen]
  whenConnected,  \* self.when_connected is set
  closing,        \* self.closing
  readQueue,      \* session.read_queue
  call,           \* what each thread of the user is doing
  link,           \* the connection as the client can see it; "closed" if the
                  \* protocol has closed self.sock, which is not None then
  toClient,       \* messages from the broker that were not received
  wire,           \* cells sent on the connection
  log,            \* history: what was put in each outbox
  got,            \* history: what was read from readQueue
  made, calls, sent   \* counters for the bounds

reactorVars == <<rpc, ready, pending, buffer, gen, whenConnected>>
queueVars   == <<outbox, readQueue, log>>
userVars    == <<closing, call, got, calls>>
linkVars    == <<link, toClient, wire, made, sent>>
vars == <<reactorVars, queueVars, userVars, linkVars>>

AuthMessage == 0             \* the AUTH message; a call's message is its number
Messages == 0 .. MaxCalls
Cells    == Messages \X {1, 2}
\* ODD is AUTH, SUBSCRIBE or UNSUBSCRIBE, or what the Unpacker refuses.
Replies  == [op : {"INFO", "ERROR", "ODD"}] \cup [op : {"PUBLISH"}, n : 1 .. MaxSent]
Queues(S) == [items : Seq(S), wakes : Nat]
EmptyQueue == [items |-> << >>, wakes |-> 0]

TypeOK ==
  /\ rpc \in {"new", "connecting", "select", "read", "handle", "wakeOutbox",
              "wakeReader", "get", "send", "done", "dead"}
  /\ ready \in SUBSET {"sock", "outbox", "send"}
  /\ pending \in Seq(Replies)
  /\ buffer \in Seq(Cells)
  /\ outbox \in [0 .. MaxConns -> Queues(Messages)]
  /\ gen \in 0 .. MaxConns
  /\ whenConnected \in BOOLEAN /\ closing \in BOOLEAN
  /\ readQueue \in Queues(1 .. MaxSent)
  /\ call \in [Users -> [at : {"idle", "writing", "waking", "taking", "joining"},
                         gen : 0 .. MaxConns, msg : Messages]]
  /\ link \in {"none", "up", "eof", "reset", "closed"}
  /\ toClient \in Seq(Replies)
  /\ wire \in Seq(Cells)
  /\ log \in [0 .. MaxConns -> Seq(Messages)]
  /\ got \in Seq(1 .. MaxSent)
  /\ made \in 0 .. MaxConns /\ calls \in 0 .. MaxCalls /\ sent \in 0 .. MaxSent

Idle == [at |-> "idle", gen |-> 0, msg |-> 0]

Init ==
  /\ rpc = "new" /\ ready = {} /\ pending = << >> /\ buffer = << >>
  /\ outbox = [g \in 0 .. MaxConns |-> EmptyQueue]
  /\ gen = 0 /\ whenConnected = FALSE /\ closing = FALSE
  /\ readQueue = EmptyQueue
  /\ call = [u \in Users |-> Idle]
  /\ link = "none" /\ toClient = << >> /\ wire = << >>
  /\ log = [g \in 0 .. MaxConns |-> << >>] /\ got = << >>
  /\ made = 0 /\ calls = 0 /\ sent = 0

\* The cells of a sequence of messages.
Split(ms) == [i \in 1 .. 2 * Len(ms) |-> <<ms[(i + 1) \div 2], 2 - (i % 2)>>]
-----------------------------------------------------------------------------
(* Queue: put() and get() are two steps each *)

\* A bug: a LifoQueue.
PutItemFirst(q, m) == [q EXCEPT !.items = <<m>> \o q.items]

PutItem(q, m)  == [q EXCEPT !.items = Append(q.items, m)]
HasRoom(q)     == q.wakes < Capacity
PutWake(q)     == [q EXCEPT !.wakes = q.wakes + 1]
TakeItem(q)    == [q EXCEPT !.items = Tail(q.items)]

\* A bug: get() leaves the byte in the socket pair.
TakeWakeNever(q) == q

\* A bug: get() takes all bytes there are.
TakeWakeAll(q) == [q EXCEPT !.wakes = 0]

TakeWake(q)    == [q EXCEPT !.wakes = q.wakes - 1]
-----------------------------------------------------------------------------
(* The reactor's thread: run_forever *)

\* The conditions of the outer and of the inner loop.
OuterLoop == IF closing THEN "done" ELSE "connecting"
InnerLoop == IF closing THEN "done" ELSE "select"

Start ==
  /\ rpc = "new" /\ rpc' = OuterLoop
  /\ UNCHANGED <<ready, pending, buffer, gen, whenConnected, queueVars, userVars, linkVars>>

\* The connector returns a socket, and the rest of _connect: a new buffer, outbox
\* and protocol.  The broker's INFO is on its way.
Connect ==
  /\ rpc = "connecting" /\ made < MaxConns
  /\ made' = made + 1 /\ gen' = made'
  /\ buffer' = << >> /\ pending' = << >> /\ whenConnected' = TRUE
  /\ rpc' = InnerLoop
  /\ link' = "up" /\ toClient' = <<[op |-> "INFO"]>> /\ wire' = << >>
  /\ UNCHANGED <<ready, queueVars, userVars, sent>>

\* The connector returns None, which has no setblocking(): the thread ends.
ConnectFails ==
  /\ rpc = "connecting" /\ rpc' = "dead"
  /\ UNCHANGED <<ready, pending, buffer, gen, whenConnected, queueVars, userVars, linkVars>>

\* What select() watches: the outbox only when everything taken from it is sent.
Watched == IF buffer # << >> THEN {"sock", "send"} ELSE {"sock", "outbox"}

Readable == link \in {"eof", "reset"} \/ toClient # << >>

\* What comes first of what select() found ready.
FirstOf(r) == CASE "sock" \in r -> "read"
                [] "sock" \notin r /\ "outbox" \in r -> "get"
                [] "sock" \notin r /\ "outbox" \notin r /\ "send" \in r -> "send"
                [] OTHER -> InnerLoop

\* A byte in the socket pair shows at once; the network takes its time.
Select ==
  /\ rpc = "select" /\ link # "closed"
  /\ \E r \in SUBSET Watched \ {{}} :
       /\ "sock" \in r => Readable
       /\ "outbox" \in r <=> "outbox" \in Watched /\ outbox[gen].wakes > 0
       /\ rpc' = FirstOf(r)
       /\ ready' = IF "sock" \in r THEN r \ {"sock"} ELSE {}
  /\ UNCHANGED <<pending, buffer, gen, whenConnected, queueVars, userVars, linkVars>>
\* select() raises for a socket that is closed: the thread ends.
SelectFails ==
  /\ rpc = "select" /\ link = "closed" /\ rpc' = "dead"
  /\ UNCHANGED <<ready, pending, buffer, gen, whenConnected, queueVars, userVars, linkVars>>
-----------------------------------------------------------------------------
(* The socket is ready for reading *)

Receive ==
  /\ rpc = "read" /\ link # "reset" /\ toClient # << >>
  /\ rpc' = "handle"
  /\ \E k \in 1 .. Len(toClient) :
       /\ pending'  = SubSeq(toClient, 1, k)
       /\ toClient' = SubSeq(toClient, k + 1, Len(toClient))
  /\ UNCHANGED <<ready, buffer, gen, whenConnected, queueVars, userVars, link, wire, made, sent>>

\* End of file: _connection_lost, and back to the outer loop.
ReadFails ==
  /\ rpc = "read" /\ link = "eof" /\ toClient = << >>
  /\ rpc' = OuterLoop /\ link' = "none" /\ whenConnected' = FALSE
  /\ ready' = {}
  /\ UNCHANGED <<pending, buffer, gen, queueVars, userVars, toClient, wire, made, sent>>

\* recv() or send() raises on a connection that was reset, or send() on a socket
\* that is closed: the thread ends.
Raises ==
  /\ rpc \in {"read", "send"} /\ link \in {"reset", "closed"} /\ rpc' = "dead"
  /\ UNCHANGED <<ready, pending, buffer, gen, whenConnected, queueVars, userVars, linkVars>>

\* After a message: the next one, or what else select() returned.
AfterMessage(rest) ==
  IF rest # << >> THEN rpc' = "handle" /\ UNCHANGED ready
  ELSE rpc' = FirstOf(ready) /\ ready' = {}

OnInfo ==
  /\ rpc = "handle" /\ Head(pending).op = "INFO"
  /\ pending' = Tail(pending) /\ rpc' = "wakeOutbox"
  /\ outbox' = [outbox EXCEPT ![gen] = PutItem(@, AuthMessage)]
  /\ log' = [log EXCEPT ![gen] = Append(@, AuthMessage)]
  /\ UNCHANGED <<ready, buffer, gen, whenConnected, readQueue, userVars, linkVars>>

WakeOutbox ==
  /\ rpc = "wakeOutbox" /\ HasRoom(outbox[gen])
  /\ outbox' = [outbox EXCEPT ![gen] = PutWake(@)]
  /\ AfterMessage(pending)
  /\ UNCHANGED <<pending, buffer, gen, whenConnected, readQueue, log, userVars, linkVars>>

OnPublish ==
  /\ rpc = "handle" /\ Head(pending).op = "PUBLISH"
  /\ pending' = Tail(pending) /\ rpc' = "wakeReader"
  /\ readQueue' = PutItem(readQueue, Head(pending).n)
  /\ UNCHANGED <<ready, buffer, gen, whenConnected, outbox, log, userVars, linkVars>>

WakeReader ==
  /\ rpc = "wakeReader" /\ HasRoom(readQueue)
  /\ readQueue' = PutWake(readQueue)
  /\ AfterMessage(pending)
  /\ UNCHANGED <<pending, buffer, gen, whenConnected, outbox, log, userVars, linkVars>>

\* on_error is not implemented: the thread ends.
OnError ==
  /\ rpc = "handle" /\ Head(pending).op = "ERROR" /\ rpc' = "dead"
  /\ UNCHANGED <<ready, pending, buffer, gen, whenConnected, queueVars, userVars, linkVars>>

\* transport.close(), which forgets nothing but the socket's descriptor.
Closes == link' = "closed" /\ toClient' = << >>

\* on_auth, on_subscribe, on_unsubscribe: the messages that follow are handled, too.
OnUnexpected ==
  /\ rpc = "handle" /\ Head(pending).op = "ODD"
  /\ Closes
  /\ pending' = Tail(pending) /\ AfterMessage(Tail(pending))
  /\ UNCHANGED <<buffer, gen, whenConnected, queueVars, userVars, wire, made, sent>>

\* The Unpacker raises ProtocolException: nothing that follows is looked at.
Undecodable ==
  /\ rpc = "handle" /\ Head(pending).op = "ODD"
  /\ Closes
  /\ pending' = << >> /\ AfterMessage(<< >>)
  /\ UNCHANGED <<buffer, gen, whenConnected, queueVars, userVars, wire, made, sent>>
-----------------------------------------------------------------------------
(* The outbox is ready, or the socket is ready for writing *)

Buffered(m) == buffer \o Split(<<m>>)

\* _outbox_read_ready, which goes on to write at once.
Get ==
  /\ rpc = "get" /\ outbox[gen].wakes > 0 /\ outbox[gen].items # << >>
  /\ buffer' = Buffered(Head(outbox[gen].items))
  /\ outbox' = [outbox EXCEPT ![gen] = TakeItem(TakeWake(@))]
  /\ rpc' = "send"
  /\ UNCHANGED <<ready, pending, gen, whenConnected, readQueue, log, userVars, linkVars>>

\* A bug: a partial send is taken for a complete one.
RestNothing(k) == << >>

Rest(k) == SubSeq(buffer, k + 1, Len(buffer))

Send ==
  /\ rpc = "send" /\ link \notin {"reset", "closed"}
  /\ \E k \in 1 .. Len(buffer) :
       /\ wire' = wire \o SubSeq(buffer, 1, k)
       /\ buffer' = Rest(k)
  /\ rpc' = InnerLoop
  /\ UNCHANGED <<ready, pending, gen, whenConnected, queueVars, userVars, link, toClient, made, sent>>

\* send() would block.
SendAgain ==
  /\ rpc = "send" /\ link \notin {"reset", "closed"} /\ rpc' = InnerLoop
  /\ UNCHANGED <<ready, pending, buffer, gen, whenConnected, queueVars, userVars, linkVars>>
-----------------------------------------------------------------------------
(* Threads of the user *)

\* publish, subscribe, unsubscribe: write() looks up self._outbox, ...
Write(u) ==
  /\ call[u].at = "idle" /\ calls < MaxCalls
  /\ calls' = calls + 1
  /\ call' = [call EXCEPT ![u] = [at |-> "writing", gen |-> gen, msg |-> calls']]
  /\ UNCHANGED <<reactorVars, queueVars, closing, got, linkVars>>

\* ... puts the message there, ...
WriteItem(u) ==
  /\ call[u].at = "writing"
  /\ call' = [call EXCEPT ![u].at = "waking"]
  /\ outbox' = [outbox EXCEPT ![call[u].gen] = PutItem(@, call[u].msg)]
  /\ log' = [log EXCEPT ![call[u].gen] = Append(@, call[u].msg)]
  /\ UNCHANGED <<reactorVars, readQueue, closing, got, calls, linkVars>>

\* ... and wakes the reactor.
WriteWake(u) ==
  /\ call[u].at = "waking" /\ HasRoom(outbox[call[u].gen])
  /\ call' = [call EXCEPT ![u] = Idle]
  /\ outbox' = [outbox EXCEPT ![call[u].gen] = PutWake(@)]
  /\ UNCHANGED <<reactorVars, readQueue, log, closing, got, calls, linkVars>>

\* read(): a byte, then a message.
Read(u) ==
  /\ call[u].at = "idle" /\ readQueue.wakes > 0
  /\ call' = [call EXCEPT ![u].at = "taking"]
  /\ readQueue' = TakeWake(readQueue)
  /\ UNCHANGED <<reactorVars, outbox, log, closing, got, calls, linkVars>>

ReadItem(u) ==
  /\ call[u].at = "taking" /\ readQueue.items # << >>
  /\ call' = [call EXCEPT ![u] = Idle]
  /\ got' = Append(got, Head(readQueue.items))
  /\ readQueue' = TakeItem(readQueue)
  /\ UNCHANGED <<reactorVars, outbox, log, closing, calls, linkVars>>

\* stop(): ask the thread to end, and wait for it.
Stop(u) ==
  /\ call[u].at = "idle" /\ ~closing /\ rpc # "new"
  /\ closing' = TRUE
  /\ call' = [call EXCEPT ![u].at = "joining"]
  /\ UNCHANGED <<reactorVars, queueVars, got, calls, linkVars>>

Joined(u) ==
  /\ call[u].at = "joining" /\ rpc \in {"done", "dead"}
  /\ call' = [call EXCEPT ![u] = Idle]
  /\ UNCHANGED <<reactorVars, queueVars, closing, got, calls, linkVars>>
-----------------------------------------------------------------------------
(* The broker and the network *)

Authenticated == Len(wire) >= 2 /\ wire[1][1] = AuthMessage

BrokerPublishes ==
  /\ link = "up" /\ sent < MaxSent /\ Authenticated
  /\ sent' = sent + 1
  /\ toClient' = Append(toClient, [op |-> "PUBLISH", n |-> sent'])
  /\ UNCHANGED <<reactorVars, queueVars, userVars, link, wire, made>>

\* The broker refuses a message: any before AUTH, or one without the right to.
BrokerRefuses ==
  /\ link = "up" /\ made = MaxConns /\ Len(wire) >= 2
  /\ \A i \in DOMAIN toClient : toClient[i].op \in {"INFO", "PUBLISH"}
  /\ toClient' = Append(toClient, [op |-> "ERROR"])
  /\ UNCHANGED <<reactorVars, queueVars, userVars, link, wire, made, sent>>

\* A peer that is no broker, or no proper one.
BrokerMisspeaks ==
  /\ link = "up" /\ made = MaxConns /\ sent \in OddAfter
  /\ \A i \in DOMAIN toClient : toClient[i].op \in {"INFO", "PUBLISH"}
  /\ toClient' = Append(toClient, [op |-> "ODD"])
  /\ UNCHANGED <<reactorVars, queueVars, userVars, link, wire, made, sent>>

Break ==
  /\ link = "up" /\ made < MaxConns
  /\ \/ link' = "eof" /\ UNCHANGED toClient
     \/ link' = "reset" /\ toClient' = << >>
  /\ UNCHANGED <<reactorVars, queueVars, userVars, wire, made, sent>>
-----------------------------------------------------------------------------
Reactor == \/ Start \/ ConnectFails \/ Select \/ SelectFails
           \/ Receive \/ ReadFails \/ Raises \/ OnInfo \/ WakeOutbox \/ OnPublish
           \/ WakeReader \/ OnError \/ OnUnexpected \/ Undecodable \/ Get \/ SendAgain
Finish(u) == WriteItem(u) \/ WriteWake(u) \/ ReadItem(u) \/ Joined(u)
User(u) == Write(u) \/ Read(u) \/ Stop(u)
Broker  == BrokerPublishes \/ BrokerRefuses \/ BrokerMisspeaks \/ Break

Next == \/ Reactor \/ Connect \/ Send
        \/ \E u \in Users : User(u) \/ Finish(u)
        \/ Broker

Spec == Init /\ [][Next]_vars

\* Threads run.  A socket that is tried again and again takes something at
\* last, and so does a connection attempt.
Fairness == /\ WF_vars(Reactor) /\ SF_vars(Connect) /\ SF_vars(Send)
            /\ \A u \in Users : WF_vars(Finish(u))

FairSpec == Spec /\ Fairness
-----------------------------------------------------------------------------
(* Properties *)

\* Whoever took a byte from a queue finds an item there, so that the reactor
\* never gets to its handler for an empty queue (which would raise, since
\* queue.Empty is a class that is no exception), and no reader blocks although
\* select() says that there is something to read.
GetFindsItem ==
  /\ rpc = "get" => outbox[gen].wakes > 0 /\ outbox[gen].items # << >>
  /\ Cardinality({u \in Users : call[u].at = "taking"}) <= Len(readQueue.items)

\* On the wire is what was put in the outbox of the connection, in that order,
\* each message once: whatever the two kinds of threads do, however sends are
\* cut short, and although every connection gets a new outbox.
WireInOrder == Split(log[gen]) = wire \o buffer \o Split(outbox[gen].items)

\* Messages are read in the order in which the broker published them, and none
\* twice.
ReadInOrder ==
  LET seq == got \o readQueue.items IN
  \A i, j \in DOMAIN seq : i < j => seq[i] < seq[j]

\* The reactor itself waits in put() for somebody to empty the queue.
Jammed == \/ rpc = "wakeOutbox" /\ ~HasRoom(outbox[gen])
          \/ rpc = "wakeReader" /\ ~HasRoom(readQueue)

Unsent == buffer # << >> \/ outbox[gen].items # << >>

\* The present outbox and buffer get empty when the users stop writing (their
\* calls are bounded), unless the session is stopped, the thread has ended, or
\* the reactor waits in put(): a wake-up is never missed, and what a send left
\* over is sent.
Flushed == gen > 0 /\ Unsent ~> ~Unsent \/ closing \/ rpc = "dead" \/ Jammed

\* "Create and maintain a session": a session that is not stopped gets
\* connected, and again after its connection was lost.
MaintainsSession == rpc # "new" /\ ~whenConnected ~> whenConnected \/ closing
=============================================================================
