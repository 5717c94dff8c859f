------------------------------- MODULE Broker --------------------------------
(***************************************************************************)
(* The hpfeeds broker: Server (broker/server.py) and its Connections       *)
(* (broker/connection.py on top of asyncio/protocol.py), with the asyncio  *)
(* transport of module Transport underneath and the peers around it.       *)
(*                                                                         *)
(* The broker is one asyncio event loop.  A callback runs to its end before *)
(* another starts; `loop` is None between callbacks and otherwise the      *)
(* process_pending() activation that is handling buffered messages.  One   *)
(* step handles one message, completely.                                   *)
(*                                                                         *)
(* Abstractions.  A message is a record; payloads, secrets and nonces are  *)
(* reduced to whether the digest of an AUTH was made from the right secret. *)
(* Framing is complete messages: a chunk of data is a sequence of messages. *)
(* Write-buffer sizes count messages.  Counters that never decrease are    *)
(* left out; the two gauges are kept.                                      *)
(***************************************************************************)
EXTENDS Transport, Integers, Sequences, FiniteSets

CONSTANTS
  Conns,         \* the Connection objects the broker ever makes
  Idents,        \* identities
  Chans,         \* channels
  None,          \* Python's None
  Answers,       \* what the authenticator may answer for an identity
  AsyncIdents,   \* identities whose lookup returns an awaitable
  ClientStates,  \* the states of a peer, as far as what it sends depends on it
  FirstStates,   \* those it may connect in
  Sends          \* the chunks of messages a peer may send in a state

AuthMsgs  == [op : {"AUTH"}, ident : Idents, good : BOOLEAN]
ChanMsgs  == [op : {"PUBLISH", "SUBSCRIBE", "UNSUBSCRIBE"}, ident : Idents, chan : Chans]
\* INFO and ERROR are for clients; UNKNOWN stands for whatever ready() refuses.
OtherMsgs == [op : {"INFO", "ERROR", "UNKNOWN"}]
Msgs      == AuthMsgs \cup ChanMsgs \cup OtherMsgs

Rows == [pub : SUBSET Chans, sub : SUBSET Chans]

\* The process_pending() activation being run: on whose buffer, whether under
\* data_received or under an authentication task's callback, and how many
\* authenticate() calls on the stack still have their resume_reading() to do.
Frames == [conn : Conns, via : {"data", "task"}, depth : Nat]

ASSUME BrokerAssumption ==
  /\ IsFiniteSet(Conns)
  /\ None \notin Idents /\ None \notin Rows /\ None \notin Frames
  /\ Answers \in [Idents -> SUBSET (Rows \cup {None})]
  /\ AsyncIdents \subseteq Idents
  /\ FirstStates \subseteq ClientStates
  /\ Sends \subseteq [from : ClientStates, chunk : Seq(Msgs), to : ClientStates]

VARIABLES
  link,           \* each connection's transport
  timer,          \* _deadline_timer: none, armed (sleeping) or fired
  buf,            \* unpacker.buf, as the messages it holds
  ak,             \* the identity authenticated on the connection
  pubchans,       \* channels that identity may publish to
  subchans,       \* channels it may subscribe to
  active,         \* active_subscriptions
  hasServer,      \* self.server is not None
  tasks,          \* authentication checks in flight, per AUTH message
  connections,    \* Server.connections
  subscriptions,  \* Server.subscriptions: how often each list holds each connection
  clientConnections,   \* gauge CLIENT_CONNECTIONS
  subscriptionsGauge,  \* gauge SUBSCRIPTIONS, by identity and channel
  loop,           \* the running process_pending(), or None
  client,         \* the peer's state
  published,      \* history: how many PUBLISHes were accepted
  inbox,          \* history: copies handed to each connection's transport
  granted         \* history: channels whose SUBSCRIBE passed the rights check

connVars   == <<ak, pubchans, subchans>>
serverVars == <<hasServer, connections, active, subscriptions,
                clientConnections, subscriptionsGauge>>
ghostVars  == <<published, inbox, granted>>
vars == <<link, timer, buf, tasks, loop, client, connVars, serverVars, ghostVars>>

Gauges == [Idents -> [Chans -> Int]]

TypeOK ==
  /\ link \in [Conns -> Links]
  /\ timer \in [Conns -> {"none", "armed", "fired"}]
  /\ buf \in [Conns -> Seq(Msgs)]
  /\ ak \in [Conns -> Idents \cup {None}]
  /\ pubchans \in [Conns -> SUBSET Chans]
  /\ subchans \in [Conns -> SUBSET Chans]
  /\ active \in [Conns -> SUBSET Chans]
  /\ hasServer \in [Conns -> BOOLEAN]
  /\ tasks \in [Conns -> [AuthMsgs -> Nat]]
  /\ connections \in SUBSET Conns
  /\ subscriptions \in [Chans -> [Conns -> Nat]]
  /\ clientConnections \in Int
  /\ subscriptionsGauge \in Gauges
  /\ loop \in Frames \cup {None}
  /\ client \in [Conns -> ClientStates]
  /\ published \in Nat
  /\ inbox \in [Conns -> Seq([ident : Idents, chan : Chans])]
  /\ granted \in [Conns -> SUBSET Chans]

Init ==
  /\ link = [c \in Conns |-> NewLink]
  /\ timer = [c \in Conns |-> "none"]
  /\ buf = [c \in Conns |-> << >>]
  /\ ak = [c \in Conns |-> None]
  /\ pubchans = [c \in Conns |-> {}]
  /\ subchans = [c \in Conns |-> {}]
  /\ active = [c \in Conns |-> {}]
  /\ hasServer = [c \in Conns |-> TRUE]
  /\ tasks = [c \in Conns |-> [m \in AuthMsgs |-> 0]]
  /\ connections = {}
  /\ subscriptions = [ch \in Chans |-> [c \in Conns |-> 0]]
  /\ clientConnections = 0
  /\ subscriptionsGauge = [i \in Idents |-> [ch \in Chans |-> 0]]
  /\ loop = None
  /\ client \in [Conns -> FirstStates]
  /\ published = 0
  /\ inbox = [c \in Conns |-> << >>]
  /\ granted = [c \in Conns |-> {}]
-----------------------------------------------------------------------------
(* Building blocks *)

Idle == loop = None
Open(c) == link[c].state = "open"

\* A bug: pause_writing is not implemented.
FlowControlNone == UNCHANGED timer

\* pause_writing and resume_writing, the callbacks by which a transport tells
\* its Connection about the write buffer: one arms the deadline timer, the
\* other cancels it.  Part of every step that touches a link.
FlowControl ==
  timer' = [c \in Conns |->
              CASE ~link[c].wpaused /\ link'[c].wpaused -> "armed"
                [] link[c].wpaused /\ ~link'[c].wpaused -> "none"
                [] OTHER                                -> timer[c]]

\* self.error(...) and self.transport.close().
Reject(c, k) == link' = [link EXCEPT ![c] = Closed(Written(@, k))]

\* A bug: list.remove without looking whether there is an entry.
RemovedUnchecked(n) == n - 1

\* A bug: unsubscribe() forgets the list.
RemovedNever(n) == n

\* n entries of a connection in a channel's list, after one list.remove.
Removed(n) == IF n > 0 THEN n - 1 ELSE n

\* A bug: active subscriptions are forgotten, not unsubscribed.
DelistedNever(L, c, ch) == FALSE

\* Of the connections L being taken down, c unsubscribes from ch.
Delisted(L, c, ch) == c \in L /\ ch \in active[c]

\* connection_lost on each connection of L, all of them still attached.
ConnectionLost(L) ==
  /\ clientConnections' = clientConnections - Cardinality(L)
  /\ connections' = connections \ L
  /\ hasServer' = [c \in Conns |-> hasServer[c] /\ c \notin L]
  /\ active' = [c \in Conns |-> IF c \in L THEN {} ELSE active[c]]
  /\ subscriptions' =
       [ch \in Chans |-> [c \in Conns |->
          IF Delisted(L, c, ch) THEN Removed(subscriptions[ch][c])
                                ELSE subscriptions[ch][c]]]
  /\ subscriptionsGauge' =
       [i \in Idents |-> [ch \in Chans |->
          subscriptionsGauge[i][ch]
            - Cardinality({c \in Conns : Delisted(L, c, ch) /\ ak[c] = i})]]

\* A bug: the guard against a second connection_lost is gone.
LosesConnectionTwice(c) == ConnectionLost({c})

\* A bug: only a connection with subscriptions is cleaned up.
LosesSubscriberOnly(c) ==
  IF hasServer[c] /\ active[c] # {} THEN ConnectionLost({c}) ELSE UNCHANGED serverVars

\* The transport of c calls connection_lost.  On a connection without server
\* the call fails at its first line: nothing changes and asyncio logs it.
LosesConnection(c) ==
  IF hasServer[c] THEN ConnectionLost({c}) ELSE UNCHANGED serverVars

\* An exception leaves the handler with c's transport in state l.  Out of
\* data_received it is fatal to the transport; out of a task's callback the
\* event loop only logs it.
Raise(c, l) ==
  /\ link' = [link EXCEPT ![c] = IF loop.via = "data" THEN Aborted(l) ELSE l]
  /\ loop' = None

\* A bug: the loop goes on after a handler asked it to stop.
EndLoopNever(c, l) == link' = [link EXCEPT ![c] = l] /\ UNCHANGED loop

\* A bug: authenticate() does not resume reading.
EndLoopStaysPaused(c, l) == link' = [link EXCEPT ![c] = l] /\ loop' = None

\* The innermost process_pending() returns with c's transport in state l: to
\* data_received, or to an authenticate() that goes on to resume_reading().
EndLoop(c, l) ==
  IF loop.depth = 0
  THEN /\ link' = [link EXCEPT ![c] = l]
       /\ loop' = None
  ELSE /\ link' = [link EXCEPT ![c] = ReadingResumed(l)]
       /\ loop' = IF loop.via = "task" /\ loop.depth = 1 THEN None
                  ELSE [loop EXCEPT !.depth = @ - 1]
-----------------------------------------------------------------------------
(* The event loop between callbacks *)

\* connection_made.
Connect(c) ==
  /\ Idle /\ link[c].state = "new"
  /\ \E k \in Kernel :
       link' = [link EXCEPT ![c] = Written([@ EXCEPT !.state = "open"], k)]
  /\ FlowControl
  /\ connections' = connections \cup {c}
  /\ clientConnections' = clientConnections + 1
  /\ UNCHANGED <<buf, tasks, loop, client, connVars, ghostVars, hasServer,
                 active, subscriptions, subscriptionsGauge>>

\* data_received: the chunk joins the buffer and process_pending starts.
DataReceived(c) ==
  /\ Idle /\ Open(c) /\ ~link[c].rpaused
  /\ \E s \in Sends :
       /\ s.from = client[c]
       /\ client' = [client EXCEPT ![c] = s.to]
       /\ buf' = [buf EXCEPT ![c] = @ \o s.chunk]
  /\ loop' = [conn |-> c, via |-> "data", depth |-> 0]
  /\ UNCHANGED <<link, timer, tasks, connVars, serverVars, ghostVars>>

\* The peer half-closes: eof_received returns None, the transport closes.
Eof(c) ==
  /\ Idle /\ Open(c) /\ ~link[c].rpaused
  /\ link' = [link EXCEPT ![c] = Closed(@)]
  /\ FlowControl
  /\ UNCHANGED <<buf, tasks, loop, client, connVars, serverVars, ghostVars>>

\* The peer resets the connection, or the network gives up on it.
Reset(c) ==
  /\ Idle /\ Writable(link[c])
  /\ link' = [link EXCEPT ![c] = Aborted(@)]
  /\ FlowControl
  /\ UNCHANGED <<buf, tasks, loop, client, connVars, serverVars, ghostVars>>

\* The kernel takes n buffered messages.  Once a closing transport is flushed
\* it calls connection_lost in the same callback.
Drain(c) ==
  /\ Idle /\ Writable(link[c])
  /\ \E n \in 1 .. link[c].out :
       LET l == Drained(link[c], n) IN
       IF l.state = "closing" /\ l.out = 0
       THEN /\ link' = [link EXCEPT ![c] = [l EXCEPT !.state = "lost"]]
            /\ LosesConnection(c)
       ELSE /\ link' = [link EXCEPT ![c] = l]
            /\ UNCHANGED serverVars
  /\ FlowControl
  /\ UNCHANGED <<buf, tasks, loop, client, connVars, ghostVars>>

\* The scheduled call of connection_lost.
Lost(c) ==
  /\ Idle /\ link[c].state = "dying"
  /\ link' = [link EXCEPT ![c].state = "lost"]
  /\ FlowControl
  /\ LosesConnection(c)
  /\ UNCHANGED <<buf, tasks, loop, client, connVars, ghostVars>>

\* The deadline timer's sixty seconds are over.
DeadlineExpires(c) ==
  /\ Idle /\ timer[c] = "armed"
  /\ \E k \in Kernel : Reject(c, k)
  /\ timer' = [timer EXCEPT ![c] = "fired"]
  /\ UNCHANGED <<buf, tasks, loop, client, connVars, serverVars, ghostVars>>
-----------------------------------------------------------------------------
(* Authentication *)

\* authenticate(), when the row and the digest are good: the handler goes on
\* in a nested process_pending(), frame f.
Accept(c, m, row, f) ==
  /\ row # None /\ m.good
  /\ ak' = [ak EXCEPT ![c] = m.ident]
  /\ pubchans' = [pubchans EXCEPT ![c] = row.pub]
  /\ subchans' = [subchans EXCEPT ![c] = row.sub]
  /\ link' = [link EXCEPT ![c] = Limited(@)]
  /\ loop' = f

\* authenticate(), when there is no row or the digest is wrong.
Refuse(c, m, row) ==
  /\ row = None \/ ~m.good
  /\ \E k \in Kernel : Reject(c, k)
  /\ UNCHANGED <<connVars, loop>>

\* An authentication task finishes, in any order; on_auth_result runs whatever
\* became of the connection meanwhile.
AuthResult(c) ==
  /\ Idle
  /\ \E m \in AuthMsgs :
       /\ tasks[c][m] > 0
       /\ tasks' = [tasks EXCEPT ![c][m] = @ - 1]
       /\ \E row \in Answers[m.ident] :
            \/ Accept(c, m, row, [conn |-> c, via |-> "task", depth |-> 1])
            \/ Refuse(c, m, row)
  /\ FlowControl
  /\ UNCHANGED <<buf, client, serverVars, ghostVars>>

\* The check itself failed with an exception.
AuthError(c) ==
  /\ Idle
  /\ \E m \in AuthMsgs :
       /\ tasks[c][m] > 0
       /\ tasks' = [tasks EXCEPT ![c][m] = @ - 1]
  /\ \E k \in Kernel : Reject(c, k)
  /\ FlowControl
  /\ UNCHANGED <<buf, loop, client, connVars, serverVars, ghostVars>>
-----------------------------------------------------------------------------
(* The message handlers: c's process_pending() takes the next message m *)

\* c's process_pending() is running and has a message to take.
Handling(c) == loop # None /\ loop.conn = c /\ buf[c] # << >>

\* unpack() takes m, a message of one of the kinds ops.
Takes(c, m, ops) ==
  /\ Handling(c) /\ m = Head(buf[c]) /\ m.op \in ops
  /\ buf' = [buf EXCEPT ![c] = Tail(@)]

\* ready() raises on an unknown opcode: the message stays, the loop ends.
Undecodable(c) ==
  /\ Handling(c) /\ Head(buf[c]).op = "UNKNOWN"
  /\ EndLoop(c, Closed(link[c]))
  /\ FlowControl
  /\ UNCHANGED <<buf, tasks, client, connVars, serverVars, ghostVars>>

\* message_received before authentication.  The loop goes on.
NotAuthFirst(c) ==
  /\ ak[c] = None
  /\ \E m \in Msgs : Takes(c, m, {"INFO", "ERROR", "PUBLISH", "SUBSCRIBE", "UNSUBSCRIBE"})
  /\ \E k \in Kernel : Reject(c, k)
  /\ FlowControl
  /\ UNCHANGED <<tasks, loop, client, connVars, serverVars, ghostVars>>

\* on_auth, the authenticator answering at once.
OnAuthSync(c) ==
  /\ hasServer[c]
  /\ \E m \in AuthMsgs :
       /\ Takes(c, m, {"AUTH"}) /\ m.ident \notin AsyncIdents
       /\ \E row \in Answers[m.ident] :
            \/ Accept(c, m, row, [loop EXCEPT !.depth = @ + 1])
            \/ Refuse(c, m, row)
  /\ FlowControl
  /\ UNCHANGED <<tasks, client, serverVars, ghostVars>>

\* on_auth, the authenticator returning an awaitable: reading is paused and
\* the loop is left.
OnAuthAsync(c) ==
  /\ hasServer[c]
  /\ \E m \in AuthMsgs :
       /\ Takes(c, m, {"AUTH"}) /\ m.ident \in AsyncIdents
       /\ tasks' = [tasks EXCEPT ![c][m] = @ + 1]
  /\ EndLoop(c, ReadingPaused(link[c]))
  /\ FlowControl
  /\ UNCHANGED <<client, connVars, serverVars, ghostVars>>

\* on_publish refuses: the wrong identity, or a channel it may not publish to.
PublishRefused(c) ==
  /\ ak[c] # None
  /\ \E m \in ChanMsgs :
       /\ Takes(c, m, {"PUBLISH"})
       /\ m.ident # ak[c] \/ m.chan \notin pubchans[c]
  /\ \E k \in Kernel : Reject(c, k)
  /\ FlowControl
  /\ UNCHANGED <<tasks, loop, client, connVars, serverVars, ghostVars>>

\* A bug: no closing check, every listed connection is sent to.
LiveUnchecked(ch) == {d \in Conns : subscriptions[ch][d] > 0}

\* Who Server.publish finds in the channel's list: connections to send to,
\* closing ones it cleans up itself, and ones that have no server any more,
\* on which that clean-up raises.
Listed(ch) == {d \in Conns : subscriptions[ch][d] > 0}
Live(ch)   == {d \in Listed(ch) : Open(d)}
Gone(ch)   == {d \in Listed(ch) : ~Open(d) /\ hasServer[d]}
Stale(ch)  == {d \in Listed(ch) : ~Open(d) /\ ~hasServer[d]}

\* A bug: return instead of continue after cleaning up a closing subscriber.
WalksUntilClosing(ch) ==
  IF Gone(ch) \cup Stale(ch) = {} THEN {Listed(ch)} ELSE SUBSET (Live(ch) \cup Gone(ch))

\* The entries Server.publish gets to: it walks a set copy of the list, in no
\* particular order, and ends early at a stale entry.
Walks(ch) ==
  IF Stale(ch) = {} THEN {Listed(ch)} ELSE SUBSET (Live(ch) \cup Gone(ch))

\* on_publish and Server.publish.
Publish(c) ==
  /\ ak[c] # None
  /\ \E m \in ChanMsgs :
       /\ Takes(c, m, {"PUBLISH"})
       /\ m.ident = ak[c] /\ m.chan \in pubchans[c] /\ hasServer[c]
       /\ published' = published + 1
       /\ \E done \in Walks(m.chan), how \in [Conns -> Kernel] :
            LET served == done \cap Live(m.chan)
                lnk == [d \in Conns |-> IF d \in served THEN Written(link[d], how[d])
                                        ELSE link[d]]
            IN /\ inbox' = [d \in Conns |->
                              IF d \in served
                              THEN Append(inbox[d], [ident |-> ak[c], chan |-> m.chan])
                              ELSE inbox[d]]
               /\ ConnectionLost(done \cap Gone(m.chan))
               /\ IF Stale(m.chan) = {}
                  THEN link' = lnk /\ UNCHANGED loop
                  ELSE /\ link' = [lnk EXCEPT ![c] = IF loop.via = "data"
                                                     THEN Aborted(@) ELSE @]
                       /\ loop' = None
  /\ FlowControl
  /\ UNCHANGED <<tasks, client, connVars, granted>>

\* Server.subscribe.
Enlist(c, ch) ==
  /\ subscriptionsGauge' = [subscriptionsGauge EXCEPT ![ak[c]][ch] = @ + 1]
  /\ subscriptions' = [subscriptions EXCEPT ![ch][c] = @ + 1]
  /\ active' = [active EXCEPT ![c] = @ \cup {ch}]
  /\ UNCHANGED <<hasServer, connections, clientConnections>>

\* A bug: a refused SUBSCRIBE is answered but the connection stays open.
SubscribeOnlyErrors(c) ==
  \E k \in Kernel : link' = [link EXCEPT ![c] = Written(@, k)]

\* on_subscribe finds no right to the channel.
SubscribeRefused(c) == \E k \in Kernel : Reject(c, k)

\* on_subscribe.  A refused SUBSCRIBE closes the connection and then enlists it.
Subscribe(c) ==
  /\ ak[c] # None /\ hasServer[c]
  /\ \E m \in ChanMsgs :
       /\ Takes(c, m, {"SUBSCRIBE"})
       /\ Enlist(c, m.chan)
       /\ IF m.chan \in subchans[c]
          THEN /\ granted' = [granted EXCEPT ![c] = @ \cup {m.chan}]
               /\ UNCHANGED link
          ELSE SubscribeRefused(c) /\ UNCHANGED granted
  /\ FlowControl
  /\ UNCHANGED <<tasks, loop, client, connVars, published, inbox>>

\* Server.unsubscribe.
Delist(c, ch) ==
  /\ subscriptionsGauge' = [subscriptionsGauge EXCEPT ![ak[c]][ch] = @ - 1]
  /\ subscriptions' = [subscriptions EXCEPT ![ch][c] = Removed(@)]
  /\ active' = [active EXCEPT ![c] = @ \ {ch}]
  /\ UNCHANGED <<hasServer, connections, clientConnections>>

\* on_unsubscribe: no check of rights.
Unsubscribe(c) ==
  /\ ak[c] # None /\ hasServer[c]
  /\ \E m \in ChanMsgs :
       /\ Takes(c, m, {"UNSUBSCRIBE"})
       /\ Delist(c, m.chan)
  /\ UNCHANGED <<link, timer, tasks, loop, client, connVars, ghostVars>>

\* A handler that needs self.server after connection_lost set it to None.
\* on_subscribe has sent its error by then, if it had one to send.
ServerIsNone(c) ==
  /\ ~hasServer[c]
  /\ \E m \in AuthMsgs \cup ChanMsgs :
       \/ Takes(c, m, {"AUTH"}) /\ Raise(c, link[c])
       \/ /\ ak[c] # None
          /\ \/ /\ Takes(c, m, {"PUBLISH"})
                /\ m.ident = ak[c] /\ m.chan \in pubchans[c]
                /\ Raise(c, link[c])
             \/ Takes(c, m, {"UNSUBSCRIBE"}) /\ Raise(c, link[c])
             \/ /\ Takes(c, m, {"SUBSCRIBE"})
                /\ IF m.chan \in subchans[c]
                   THEN Raise(c, link[c])
                   ELSE \E k \in Kernel : Raise(c, Closed(Written(link[c], k)))
  /\ FlowControl
  /\ UNCHANGED <<tasks, client, connVars, serverVars, ghostVars>>

\* INFO and ERROR on an authenticated connection: on_info and on_error are not
\* implemented and raise.
NotImplemented(c) ==
  /\ ak[c] # None
  /\ \E m \in OtherMsgs : Takes(c, m, {"INFO", "ERROR"})
  /\ Raise(c, link[c])
  /\ FlowControl
  /\ UNCHANGED <<tasks, client, connVars, serverVars, ghostVars>>

\* The buffer holds no further message.
BufferEmpty(c) ==
  /\ loop # None /\ loop.conn = c /\ buf[c] = << >>
  /\ EndLoop(c, link[c])
  /\ FlowControl
  /\ UNCHANGED <<buf, tasks, client, connVars, serverVars, ghostVars>>
-----------------------------------------------------------------------------
HandleMessage(c) ==
  \/ Undecodable(c) \/ NotAuthFirst(c) \/ OnAuthSync(c) \/ OnAuthAsync(c)
  \/ PublishRefused(c) \/ Publish(c) \/ Subscribe(c) \/ Unsubscribe(c)
  \/ ServerIsNone(c) \/ NotImplemented(c)

\* What peers and the network do.
Environment(c) == Connect(c) \/ DataReceived(c) \/ Eof(c) \/ Reset(c) \/ Drain(c)

Next ==
  \E c \in Conns :
    \/ Environment(c)
    \/ Lost(c) \/ DeadlineExpires(c)
    \/ AuthResult(c) \/ AuthError(c)
    \/ HandleMessage(c) \/ BufferEmpty(c)

Spec == Init /\ [][Next]_vars

\* A callback runs to its end, scheduled callbacks run, timers expire and the
\* authenticator answers.  Nothing is assumed of peers and of the network.
Fairness ==
  \A c \in Conns :
    /\ WF_vars(HandleMessage(c) \/ BufferEmpty(c))
    /\ WF_vars(Lost(c))
    /\ WF_vars(DeadlineExpires(c))
    /\ WF_vars(AuthResult(c) \/ AuthError(c))

FairSpec == Spec /\ Fairness
-----------------------------------------------------------------------------
(* Properties *)

\* CLIENT_CONNECTIONS counts the connections the server holds, even though a
\* connection can be taken down twice: by Server.publish finding it closing
\* and by the transport's own call of connection_lost.
ConnectionCount == clientConnections = Cardinality(connections)

\* connection_lost undoes connection_made exactly once: from then on, and only
\* then, the connection has no server, is not in Server.connections and has no
\* active subscription; none of it happens while the transport is open.
AttachedExactly ==
  \A c \in Conns :
    /\ c \in connections <=> link[c].state # "new" /\ hasServer[c]
    /\ link[c].state \in {"new", "open"} => hasServer[c]
    /\ link[c].state = "lost" => ~hasServer[c]
    /\ ~hasServer[c] => active[c] = {}

\* on_subscribe enlists a refused connection, for want of a return, and the
\* closing check in Server.publish is all that keeps messages from it: whoever
\* is listed with an open transport had its SUBSCRIBE granted.
OpenListedWasGranted ==
  \A ch \in Chans : \A c \in Live(ch) : ch \in granted[c]

\* A copy is handed over only by a handler whose connection is authenticated
\* under the identity the copy names and may publish there, and only to an
\* open connection that was granted the channel.
DeliveryAuthorised ==
  [][\A d \in Conns : inbox'[d] # inbox[d] =>
       LET m == inbox'[d][Len(inbox'[d])] IN
       /\ Open(d) /\ m.chan \in granted[d]
       /\ ak[loop.conn] = m.ident /\ m.chan \in pubchans[loop.conn]]_vars

\* The deadline timer sleeps exactly while an open connection is above its
\* watermark; none is left armed on a connection that recovered, and one that
\* fired leaves no connection open.
DeadlineGuardsBackpressure ==
  \A c \in Conns :
    /\ Open(c) => (link[c].wpaused <=> timer[c] = "armed") /\ timer[c] # "fired"
    /\ timer[c] = "armed" => link[c].wpaused

\* Closing auto-unsubscribes: a connection that connection_lost has cleaned up
\* is on no channel's list.
NoStaleSubscriber ==
  \A ch \in Chans, c \in Conns : subscriptions[ch][c] > 0 => c \in connections

\* The broker is a publish/subscribe service: the listed connections with an
\* open transport are the subscribers of module PubSub, and its steps are
\* steps of that module.
PS == INSTANCE PubSub WITH
        subscribers <- [ch \in Chans |-> Live(ch)],
        inbox       <- inbox,
        published   <- published
ImplementsPubSub == PS!Spec

\* A published message is handed to every open connection on the channel's list.
PublishReachesAll ==
  [][\A c \in Conns : Publish(c) =>
       \A d \in Live(Head(buf[c]).chan) : inbox'[d] # inbox[d]]_vars

\* SUBSCRIPTIONS is the number of list entries, by identity and channel.
GaugeIsExact ==
  \A i \in Idents, ch \in Chans :
    subscriptionsGauge[i][ch] =
      Cardinality({c \in Conns : ak[c] = i /\ subscriptions[ch][c] > 0})

\* Between callbacks an open connection whose reading is paused, or that holds
\* complete messages nobody is going to look at, has an authentication check
\* in flight: input is never stranded behind pause_reading or `break`.
InputNotStranded ==
  \A c \in Conns :
    Idle /\ Open(c) /\ (link[c].rpaused \/ buf[c] # << >>)
      => \E m \in AuthMsgs : tasks[c][m] > 0

\* No handler closes the connection of a client that does what it is entitled
\* to, however its messages are cut into chunks and however long the
\* authenticator takes: what follows an AUTH waits for the answer.
HandlersKeepConnection ==
  [][\A c \in Conns : loop # None /\ Open(c) => link'[c].state = "open"]_vars

\* A connection above its watermark recovers or is closed.
BackpressureResolves ==
  \A c \in Conns : Open(c) /\ link[c].wpaused ~> ~(Open(c) /\ link[c].wpaused)

\* Received messages are all handled, and reading goes on, unless the
\* connection closes.
InputHandled ==
  \A c \in Conns : Open(c) /\ (buf[c] # << >> \/ link[c].rpaused)
                     ~> ~Open(c) \/ (buf[c] = << >> /\ ~link[c].rpaused)
-----------------------------------------------------------------------------
(* Peers that behave.  What a peer sends is as good as an account of itself  *)
(* that every message it sends keeps up.                                     *)

\* Sending the messages q takes an account of V from s to t, by moves of R.
Path(R, V, s, q, t) ==
  \E v \in [0 .. Len(q) -> V] :
    /\ v[0] = s /\ v[Len(q)] = t
    /\ \A i \in 1 .. Len(q) : [from |-> v[i - 1], msg |-> q[i], to |-> v[i]] \in R

\* view is the account of a peer in each of its states.
Keeps(R, V, view) ==
  /\ view \in [ClientStates -> V]
  /\ \A s \in Sends : Path(R, V, view[s.from], s.chunk, view[s.to])

\* It keeps at least what it may be subscribed to, and never subscribes to
\* something it keeps: no SUBSCRIBE is repeated without an UNSUBSCRIBE.
OnceMoves ==
  {mv \in [from : SUBSET Chans, msg : Msgs, to : SUBSET Chans] :
     /\ mv.msg.op = "SUBSCRIBE" =>
          mv.msg.chan \notin mv.from /\ mv.from \cup {mv.msg.chan} \subseteq mv.to
     /\ mv.msg.op = "UNSUBSCRIBE" => mv.from \ {mv.msg.chan} \subseteq mv.to
     /\ mv.msg.op \notin {"SUBSCRIBE", "UNSUBSCRIBE"} => mv.from \subseteq mv.to}

NeverTwice(view) == Keeps(OnceMoves, SUBSET Chans, view)

\* It sends nothing that only a broker has reason to send.
Requests == {m \in Msgs : m.op \notin {"INFO", "ERROR"}}
OnlyRequests == \A s \in Sends : s.chunk \in Seq(Requests)

\* A proper client logs in first and once, subscribes to what it is not
\* subscribed to and unsubscribes from what it is, all under its own name.
Accounts == [me : Idents \cup {None}, subs : SUBSET Chans]
Behaves(a, m, b) ==
  IF a.me = None
  THEN m.op = "AUTH" /\ b = [a EXCEPT !.me = m.ident]
  ELSE /\ m.op \in {"PUBLISH", "SUBSCRIBE", "UNSUBSCRIBE"}
       /\ m.ident = a.me /\ b.me = a.me
       /\ m.op = "PUBLISH" => b.subs = a.subs
       /\ m.op = "SUBSCRIBE" =>
            m.chan \notin a.subs /\ b.subs = a.subs \cup {m.chan}
       /\ m.op = "UNSUBSCRIBE" =>
            m.chan \in a.subs /\ b.subs = a.subs \ {m.chan}
ProperMoves ==
  {mv \in [from : Accounts, msg : Msgs, to : Accounts] : Behaves(mv.from, mv.msg, mv.to)}

ProperPeers(view) ==
  /\ Keeps(ProperMoves, Accounts, view)
  /\ \A p \in FirstStates : view[p] = [me |-> None, subs |-> {}]

\* It does only what it is entitled to, by rights the authenticator sticks to.
Entitling(rights) ==
  {m \in Msgs : /\ m.op = "AUTH" => m.good
                /\ m.op = "PUBLISH" => m.chan \in rights[m.ident].pub
                /\ m.op = "SUBSCRIBE" => m.chan \in rights[m.ident].sub}
Entitled(rights) ==
  /\ rights \in [Idents -> Rows]
  /\ \A i \in Idents : Answers[i] \subseteq {rights[i]}
  /\ \A s \in Sends : s.chunk \in Seq(Entitling(rights))
=============================================================================
