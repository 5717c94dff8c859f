---------------------------- MODULE TwistedClient ----------------------------
(***************************************************************************)
(* twisted/service.py and protocol.py: ClientSessionService, the protocol  *)
(* object of its connection, and Twisted's ClientService, which makes the  *)
(* connections one after the other, against a broker that says INFO once   *)
(* per connection, then publishes, reports errors, says what a client      *)
(* must not hear, or goes away.                                            *)
(*                                                                         *)
(* Everything runs in the reactor's thread.  dataReceived handles what it  *)
(* was given in one go (`batch`); in between, the user's code runs only as *)
(* the callback of a Deferred that the last message fired (`fired`).       *)
(* One connection's state is kept: the next is made after its loss.        *)
(***************************************************************************)
EXTENDS ClientWire

CONSTANTS MaxConns,   \* bound: connections made; the last does not break or restart
          MaxCalls,   \* bound: calls of subscribe, unsubscribe and publish
          MaxSent,    \* bound: messages the broker publishes
          MaxReaders  \* bound: Deferreds of read() that wait at a time

ASSUME BoundsAssumption == {MaxConns, MaxCalls, MaxSent, MaxReaders} \subseteq Nat

VARIABLES
  state,          \* of the ClientService
  protocol,       \* self.protocol is the connection's protocol, or None
  subscriptions,  \* self.subscriptions
  whenConnected,  \* the present self.whenConnected was fired
  waiter,         \* a callback that the user added to whenConnected
  pending,        \* self.read_queue: messages nobody waits for
  waiting,        \* self.read_queue: readers that wait
  got,            \* history: what readers were given
  conn,           \* the connection's transport
  batch,          \* how much of toClient dataReceived still has to handle
  fired,          \* the last message fired a Deferred of the user's
  toBroker,       \* messages under way to the broker
  toClient,       \* and from it
  authed,         \* the broker has seen AUTH on the connection
  inForce,        \* the broker's subscriptions for the connection
  made, calls, sent   \* counters for the bounds

serviceVars == <<protocol, subscriptions, whenConnected, waiter>>
queueVars   == <<pending, waiting, got>>
brokerVars  == <<authed, inForce>>
counters    == <<made, calls, sent>>
vars == <<state, serviceVars, queueVars, conn, batch, fired, toBroker, toClient,
          brokerVars, counters>>

\* UNEXPECTED: an AUTH, SUBSCRIBE or UNSUBSCRIBE.  UNDECODABLE: an opcode or a
\* length that the unpacker refuses.
Replies == [op : {"INFO", "ERROR", "UNEXPECTED", "UNDECODABLE"}]
           \cup [op : {"PUBLISH"}, n : 1 .. MaxSent]

TypeOK ==
  /\ state \in {"stopped", "connecting", "waiting", "connected", "disconnecting", "restarting"}
  /\ protocol \in BOOLEAN /\ whenConnected \in BOOLEAN
  /\ subscriptions \subseteq Chans
  /\ waiter \in {"none", "added", "orphan", "called"}
  /\ pending \in Seq(1 .. MaxSent) /\ got \in Seq(1 .. MaxSent)
  /\ waiting \in 0 .. MaxReaders
  /\ conn \in {"none", "open", "losing", "broken", "ended"}
  /\ toBroker \in Seq(Requests) /\ toClient \in Seq(Replies)
  /\ batch \in 0 .. Len(toClient) /\ fired \in BOOLEAN
  /\ authed \in BOOLEAN /\ inForce \subseteq Chans
  /\ made \in 0 .. MaxConns /\ calls \in 0 .. MaxCalls /\ sent \in 0 .. MaxSent

Init ==
  /\ state = "stopped"
  /\ protocol = FALSE /\ subscriptions = {} /\ whenConnected = FALSE /\ waiter = "none"
  /\ pending = << >> /\ waiting = 0 /\ got = << >>
  /\ conn = "none" /\ batch = 0 /\ fired = FALSE
  /\ toBroker = << >> /\ toClient = << >>
  /\ authed = FALSE /\ inForce = {}
  /\ made = 0 /\ calls = 0 /\ sent = 0
-----------------------------------------------------------------------------
(* Twisted's ClientService *)

Connected ==
  /\ state = "connecting" /\ made < MaxConns
  /\ state' = "connected" /\ made' = made + 1
  /\ conn' = "open" /\ toBroker' = << >> /\ toClient' = <<[op |-> "INFO"]>>
  /\ authed' = FALSE /\ inForce' = {}
  /\ UNCHANGED <<serviceVars, queueVars, batch, fired, calls, sent>>

ConnectFails ==
  /\ state = "connecting" /\ state' = "waiting"
  /\ UNCHANGED <<serviceVars, queueVars, conn, batch, fired, toBroker, toClient,
                 brokerVars, counters>>

Retry ==
  /\ state = "waiting" /\ state' = "connecting"
  /\ UNCHANGED <<serviceVars, queueVars, conn, batch, fired, toBroker, toClient,
                 brokerVars, counters>>

\* A bug: the service keeps the protocol of the connection that was lost.
LostKeepsProtocol ==
  /\ whenConnected' = FALSE
  /\ waiter' = IF waiter = "added" THEN "orphan" ELSE waiter
  /\ UNCHANGED protocol

\* A bug: whenConnected is not replaced.
LostKeepsDeferred == protocol' = FALSE /\ UNCHANGED <<whenConnected, waiter>>

\* _Protocol.connectionLost: a new whenConnected; callbacks of the old one that
\* was not fired are never called.
Lost ==
  /\ protocol' = FALSE
  /\ whenConnected' = FALSE
  /\ waiter' = IF waiter = "added" THEN "orphan" ELSE waiter

\* The transport calls connectionLost, and ClientService hears of it.
Goes ==
  /\ Lost
  /\ conn' = "none" /\ batch' = 0 /\ fired' = FALSE
  /\ toBroker' = << >> /\ toClient' = << >>
  /\ state' = CASE state = "connected"     -> "waiting"
                [] state = "disconnecting" -> "stopped"
                [] OTHER                   -> "connecting"
  /\ UNCHANGED <<subscriptions, queueVars, brokerVars, counters>>

ConnectionLost == conn \in {"losing", "broken", "ended"} /\ batch = 0 /\ Goes
-----------------------------------------------------------------------------
(* Handling what the broker says *)

\* loseConnection: reading ends, what is written goes out first.
Losing == conn' = IF conn \in {"open", "losing"} THEN "losing" ELSE "ended"

\* The transport writes until the connection is lost.
Sends(msgs) == IF conn \in {"open", "losing"} THEN toBroker \o msgs ELSE toBroker

\* Data that came before a connection broke may still be read.
DataReceived ==
  /\ conn \in {"open", "broken"} /\ batch = 0 /\ toClient # << >>
  /\ batch' \in 1 .. Len(toClient) /\ fired' = FALSE
  /\ UNCHANGED <<state, serviceVars, queueVars, conn, toBroker, toClient, brokerVars, counters>>

Handling(op) == batch > 0 /\ Head(toClient).op = op

Handled == toClient' = Tail(toClient) /\ batch' = batch - 1

\* AUTH, then connectionReady: the service gets the protocol, the broker all
\* subscriptions, and the callbacks of whenConnected run.
Ready(order) ==
  /\ toBroker' = Sends(<<Auth>> \o Resubscribed(order))
  /\ protocol' = TRUE
  /\ whenConnected' = TRUE
  /\ fired' = (waiter = "added")
  /\ waiter' = IF waiter = "added" THEN "called" ELSE waiter

OnInfo ==
  /\ Handling("INFO") /\ ~whenConnected
  /\ Handled
  /\ \E order \in Orders(subscriptions) : Ready(order)
  /\ UNCHANGED <<state, subscriptions, queueVars, conn, brokerVars, counters>>

\* An exception out of dataReceived: Twisted drops the connection at once.
\* onError is not implemented; a fired Deferred cannot be fired again.
Raises == /\ Handling("ERROR") \/ (Handling("INFO") /\ whenConnected)
          /\ Goes

\* DeferredQueue.put: the first reader's callbacks run, or the message waits.
Put(m) ==
  \/ /\ waiting > 0
     /\ waiting' = waiting - 1 /\ got' = Append(got, m)
     /\ UNCHANGED pending
  \/ /\ waiting = 0
     /\ pending' = Append(pending, m)
     /\ UNCHANGED <<waiting, got>>

OnPublish ==
  /\ Handling("PUBLISH")
  /\ Handled
  /\ Put(Head(toClient).n) /\ fired' = (waiting > 0)
  /\ UNCHANGED <<state, serviceVars, conn, toBroker, brokerVars, counters>>

\* protocolError and loseConnection; the rest of the batch is handled yet.
OnUnexpected ==
  /\ Handling("UNEXPECTED")
  /\ Handled /\ Losing /\ fired' = FALSE
  /\ UNCHANGED <<state, serviceVars, queueVars, toBroker, brokerVars, counters>>

\* The unpacker raises ProtocolException, which ends the loop.
Undecodable ==
  /\ Handling("UNDECODABLE")
  /\ batch' = 0 /\ Losing /\ fired' = FALSE
  /\ UNCHANGED <<state, serviceVars, queueVars, toBroker, toClient, brokerVars, counters>>
-----------------------------------------------------------------------------
(* The user's calls *)

MayCall == batch = 0 \/ fired

StartService ==
  /\ MayCall /\ state \in {"stopped", "disconnecting"} /\ made < MaxConns
  /\ state' = IF state = "stopped" THEN "connecting" ELSE "restarting"
  /\ UNCHANGED <<serviceVars, queueVars, conn, batch, fired, toBroker, toClient,
                 brokerVars, counters>>

\* An attempt or the wait for the next one is cancelled; a connection is lost.
StopService ==
  /\ MayCall /\ state \in {"connecting", "waiting", "connected", "restarting"}
  /\ state' = IF state \in {"connected", "restarting"} THEN "disconnecting" ELSE "stopped"
  /\ IF state = "connected" THEN Losing ELSE UNCHANGED conn
  /\ UNCHANGED <<serviceVars, queueVars, batch, fired, toBroker, toClient,
                 brokerVars, counters>>

\* A call that tells the broker about a channel if there is a protocol.
Tells(op, ch) ==
  /\ MayCall /\ calls < MaxCalls /\ calls' = calls + 1
  /\ toBroker' = IF protocol THEN Sends(<<Request(op, ch)>>) ELSE toBroker
  /\ UNCHANGED <<state, protocol, whenConnected, waiter, queueVars, conn, batch, fired,
                 toClient, brokerVars, made, sent>>

Subscribe(ch) ==
  /\ ch \notin subscriptions /\ subscriptions' = subscriptions \cup {ch}
  /\ Tells("SUBSCRIBE", ch)

Unsubscribe(ch) ==
  /\ ch \in subscriptions /\ subscriptions' = subscriptions \ {ch}
  /\ Tells("UNSUBSCRIBE", ch)

\* Without a protocol the message is dropped.
Publish(ch) == protocol /\ Tells("PUBLISH", ch) /\ UNCHANGED subscriptions

\* DeferredQueue.get: the first message, or wait for one.
Read ==
  /\ MayCall
  /\ \/ /\ pending # << >>
        /\ pending' = Tail(pending) /\ got' = Append(got, Head(pending))
        /\ UNCHANGED waiting
     \/ /\ pending = << >> /\ waiting < MaxReaders
        /\ waiting' = waiting + 1
        /\ UNCHANGED <<pending, got>>
  /\ UNCHANGED <<state, serviceVars, conn, batch, fired, toBroker, toClient,
                 brokerVars, counters>>

\* whenConnected.addCallback; it is called at once if the Deferred was fired.
Await ==
  /\ MayCall /\ waiter = "none"
  /\ waiter' = IF whenConnected THEN "called" ELSE "added"
  /\ UNCHANGED <<state, protocol, subscriptions, whenConnected, queueVars, conn, batch,
                 fired, toBroker, toClient, brokerVars, counters>>
-----------------------------------------------------------------------------
(* The broker and the network *)

\* The broker takes a message: it refuses anything before AUTH.
BrokerTakes ==
  /\ conn \in {"open", "losing"} /\ toBroker # << >>
  /\ toBroker' = Tail(toBroker)
  /\ LET m == Head(toBroker) IN
     /\ authed' = (authed \/ m = Auth)
     /\ inForce' = IF authed THEN Serving(inForce, m) ELSE inForce
     /\ toClient' = IF MayFollow(authed, toBroker) THEN toClient
                    ELSE Append(toClient, [op |-> "ERROR"])
  /\ UNCHANGED <<state, serviceVars, queueVars, conn, batch, fired, counters>>

BrokerPublishes ==
  /\ conn = "open" /\ inForce # {} /\ sent < MaxSent
  /\ sent' = sent + 1
  /\ toClient' = Append(toClient, [op |-> "PUBLISH", n |-> sent'])
  /\ UNCHANGED <<state, serviceVars, queueVars, conn, batch, fired, toBroker,
                 brokerVars, made, calls>>

\* The broker reports an error, or is not one.
BrokerMisspeaks ==
  /\ conn = "open" /\ authed /\ made < MaxConns
  /\ \A i \in DOMAIN toClient : toClient[i].op \in {"INFO", "PUBLISH"}
  /\ \E op \in {"ERROR", "UNEXPECTED", "UNDECODABLE"} :
       toClient' = Append(toClient, [op |-> op])
  /\ UNCHANGED <<state, serviceVars, queueVars, conn, batch, fired, toBroker,
                 brokerVars, counters>>

\* The connection breaks; the reactor will notice.
Break ==
  /\ conn \in {"open", "losing"} /\ made < MaxConns
  /\ conn' = "broken"
  /\ UNCHANGED <<state, serviceVars, queueVars, batch, fired, toBroker, toClient,
                 brokerVars, counters>>
-----------------------------------------------------------------------------
Reactor == \/ DataReceived \/ OnInfo \/ Raises \/ OnPublish \/ OnUnexpected \/ Undecodable
           \/ ConnectionLost \/ Retry
Calls   == \/ StartService \/ StopService \/ Read \/ Await
           \/ \E ch \in Chans : Subscribe(ch) \/ Unsubscribe(ch) \/ Publish(ch)
Broker  == BrokerTakes \/ BrokerPublishes \/ BrokerMisspeaks \/ Break

Next == Connected \/ ConnectFails \/ Reactor \/ Calls \/ Broker

Spec == Init /\ [][Next]_vars

\* The reactor does what is to be done.  A broker that is tried again and
\* again is reached in the end.
Fairness == WF_vars(Reactor) /\ SF_vars(Connected)

FairSpec == Spec /\ Fairness
-----------------------------------------------------------------------------
(* Properties *)

IsReady == conn = "open" /\ protocol

\* What the broker will serve once it has taken what is under way.
Agreed == IF IsReady THEN WillServe(authed, inForce, toBroker) ELSE {}

\* The service keeps a session's promise: a connection that is ready has been
\* authenticated and will serve the present subscriptions, wherever among the
\* messages of a batch, the loss and the next attempt the calls came, and
\* messages are read in order and once.
Promise == INSTANCE Session WITH
  Messages <- 1 .. MaxSent, wanted <- subscriptions, ready <- IsReady,
  agreed <- Agreed, unread <- pending

ImplementsSession == Promise!Spec

\* Whatever the user calls and when, each message finds the broker in a state where
\* a proper client sends it: the service's account of its subscriptions is the
\* broker's, as of the moment the message is taken, on every connection anew.
AsksProperly == conn \in {"open", "losing"} /\ toBroker # << >> => Proper(authed, inForce, Head(toBroker))

\* "automatically maintain a connection to a hpfeeds broker": whatever breaks
\* a connection, the service gets ready again unless it is stopped: the INFO of
\* the next connection must find whenConnected not fired, or callback() raises
\* AlreadyCalledError and that connection is dropped as well.
Maintains == state # "stopped" ~> IsReady \/ state \in {"stopped", "disconnecting"}
=============================================================================
