---------------------------- MODULE AsyncioClient ----------------------------
(***************************************************************************)
(* asyncio/client.py: ClientSession, its reconnect() task and the protocol *)
(* object of the connection, on one event loop, against a broker that says *)
(* INFO once per connection, then publishes, reports errors or goes away.  *)
(*                                                                         *)
(* A step is what runs between two awaits.  reconnect() makes a connection *)
(* only after the previous one is lost, so one connection's state is kept; *)
(* `protocol` says whether self.protocol is its protocol object or None.   *)
(* The futures when_connected and when_closed are replaced by the task:    *)
(* what is kept is whether the present one is resolved, and `enter` what    *)
(* became of the one that __aenter__ awaits.                               *)
(***************************************************************************)
EXTENDS ClientWire

CONSTANTS MaxConns,   \* bound: connections made; the last one does not break
          MaxCalls,   \* bound: calls of subscribe, unsubscribe and publish
          MaxSent     \* bound: messages the broker publishes

ASSUME BoundsAssumption == {MaxConns, MaxCalls, MaxSent} \subseteq Nat

VARIABLES
  task,           \* where reconnect() is
  closing,        \* self.closing
  protocol,       \* self.protocol is the connection's protocol, or None
  subscriptions,  \* self.subscriptions
  connectedDone,  \* the present when_connected is resolved
  closedDone,     \* the present when_closed is resolved
  conn,           \* the connection's transport
  toBroker,       \* messages under way to the broker
  toClient,       \* and from it
  authed,         \* the broker has seen AUTH on the connection
  inForce,        \* the broker's subscriptions for the connection
  readQueue,      \* self.read_queue
  got,            \* history: what read() has returned
  enter,          \* a user coroutine in __aenter__
  closer,         \* a user coroutine in close()
  made, calls, sent   \* counters for the bounds

sessionVars == <<task, closing, protocol, subscriptions, connectedDone, closedDone>>
wireVars    == <<conn, toBroker, toClient, authed, inForce>>
userVars    == <<readQueue, got, enter, closer>>
vars == <<sessionVars, wireVars, userVars, made, calls, sent>>

Replies == [op : {"INFO", "ERROR"}] \cup [op : {"PUBLISH"}, n : 1 .. MaxSent]

TypeOK ==
  /\ task \in {"scheduled", "connecting", "sleeping", "awaiting", "done"}
  /\ closing \in BOOLEAN /\ protocol \in BOOLEAN
  /\ connectedDone \in BOOLEAN /\ closedDone \in BOOLEAN
  /\ subscriptions \in SUBSET Chans
  /\ conn \in {"none", "open", "closing", "lost"}
  /\ toBroker \in Seq(Requests) /\ toClient \in Seq(Replies)
  /\ authed \in BOOLEAN /\ inForce \in SUBSET Chans
  /\ readQueue \in Seq(1 .. MaxSent) /\ got \in Seq(1 .. MaxSent)
  /\ enter \in {"out", "waiting", "orphan", "woken", "in"}
  /\ closer \in {"out", "waiting", "raised", "returned"}
  /\ made \in 0 .. MaxConns /\ calls \in 0 .. MaxCalls /\ sent \in 0 .. MaxSent

Init ==
  /\ task = "scheduled" /\ closing = FALSE /\ protocol = FALSE
  /\ connectedDone = FALSE /\ closedDone = FALSE
  /\ subscriptions = {}
  /\ conn = "none" /\ toBroker = << >> /\ toClient = << >>
  /\ authed = FALSE /\ inForce = {}
  /\ readQueue = << >> /\ got = << >>
  /\ enter = "out" /\ closer = "out"
  /\ made = 0 /\ calls = 0 /\ sent = 0
-----------------------------------------------------------------------------
(* The reconnect() task *)

\* A bug: the loop does not look at `closing`.
AttemptAlways ==
  task' = "connecting" /\ protocol' = FALSE /\ closedDone' = FALSE /\ conn' = "none"

\* The head of the loop: leave it, or start over with a new when_closed.
Attempt ==
  IF closing
  THEN task' = "done" /\ UNCHANGED <<protocol, closedDone, conn>>
  ELSE task' = "connecting" /\ protocol' = FALSE /\ closedDone' = FALSE /\ conn' = "none"

Start ==
  /\ task = "scheduled"
  /\ Attempt
  /\ UNCHANGED <<closing, subscriptions, connectedDone, toBroker, toClient, authed,
                 inForce, userVars, made, calls, sent>>

\* create_connection succeeds; reconnect() goes on to await when_closed.  The
\* broker's first message is on its way.
Connected ==
  /\ task = "connecting" /\ made < MaxConns
  /\ task' = "awaiting" /\ made' = made + 1
  /\ conn' = "open" /\ toBroker' = << >> /\ toClient' = <<[op |-> "INFO"]>>
  /\ authed' = FALSE /\ inForce' = {}
  /\ UNCHANGED <<closing, protocol, subscriptions, connectedDone, closedDone,
                 userVars, calls, sent>>

\* create_connection raises OSError: sleep for a second, whatever `closing` says.
ConnectFails ==
  /\ task = "connecting" /\ task' = "sleeping"
  /\ UNCHANGED <<closing, protocol, subscriptions, connectedDone, closedDone,
                 wireVars, userVars, made, calls, sent>>

Retry ==
  /\ task = "sleeping" /\ task' = "connecting"
  /\ UNCHANGED <<closing, protocol, subscriptions, connectedDone, closedDone,
                 wireVars, userVars, made, calls, sent>>

\* Any other exception is logged; when_closed is awaited without a connection.
ConnectRaises ==
  /\ task = "connecting" /\ task' = "awaiting"
  /\ UNCHANGED <<closing, protocol, subscriptions, connectedDone, closedDone,
                 wireVars, userVars, made, calls, sent>>

\* A bug: when_connected is not replaced.
RenewedNever == UNCHANGED <<connectedDone, enter>>

\* A new when_connected.  Whoever still awaits the old one is forgotten.
Renewed ==
  /\ connectedDone' = FALSE
  /\ enter' = IF enter = "waiting" THEN "orphan" ELSE enter

\* when_closed is resolved: the task resumes.
Reconnect ==
  /\ task = "awaiting" /\ closedDone
  /\ Renewed
  /\ Attempt
  /\ UNCHANGED <<closing, subscriptions, toBroker, toClient, authed, inForce,
                 readQueue, got, closer, made, calls, sent>>
-----------------------------------------------------------------------------
(* Callbacks of the connection *)

Up == conn = "open" /\ protocol

\* self.protocol writes to its transport, which drops what it gets once lost.
Sends(msgs) == IF conn = "open" THEN toBroker \o msgs ELSE toBroker

\* on_info: AUTH, then connection_ready subscribes to all there is, resolves
\* when_connected and makes the protocol known to the session.
OnInfo ==
  /\ conn = "open" /\ toClient # << >> /\ Head(toClient).op = "INFO"
  /\ toClient' = Tail(toClient)
  /\ \E order \in Orders(subscriptions) :
       toBroker' = toBroker \o <<Auth>> \o Resubscribed(order)
  /\ protocol' = TRUE
  /\ connectedDone' = TRUE
  /\ enter' = IF enter = "waiting" THEN "woken" ELSE enter
  /\ UNCHANGED <<task, closing, subscriptions, closedDone, conn, authed, inForce,
                 readQueue, got, closer, made, calls, sent>>

Queued(m) == Append(readQueue, m.n)

OnPublish ==
  /\ conn = "open" /\ toClient # << >> /\ Head(toClient).op = "PUBLISH"
  /\ toClient' = Tail(toClient)
  /\ readQueue' = Queued(Head(toClient))
  /\ UNCHANGED <<sessionVars, conn, toBroker, authed, inForce, got, enter, closer,
                 made, calls, sent>>

\* on_error is not implemented: the exception is fatal to the transport.
OnError ==
  /\ conn = "open" /\ toClient # << >> /\ Head(toClient).op = "ERROR"
  /\ toClient' = Tail(toClient)
  /\ conn' = "closing"
  /\ UNCHANGED <<sessionVars, toBroker, authed, inForce, userVars, made, calls, sent>>

\* A bug: connection_lost does not tell the task.
ResolvedNever == UNCHANGED closedDone

\* when_closed.set_result.
Resolved == closedDone' = TRUE

ConnectionLost ==
  /\ conn = "closing"
  /\ conn' = "lost" /\ toBroker' = << >> /\ toClient' = << >>
  /\ Resolved
  /\ UNCHANGED <<task, closing, protocol, subscriptions, connectedDone, authed,
                 inForce, userVars, made, calls, sent>>
-----------------------------------------------------------------------------
(* Calls by user coroutines *)

Subscribe(ch) ==
  /\ calls < MaxCalls /\ calls' = calls + 1
  /\ ch \notin subscriptions
  /\ subscriptions' = subscriptions \cup {ch}
  /\ toBroker' = IF protocol THEN Sends(<<Request("SUBSCRIBE", ch)>>) ELSE toBroker
  /\ UNCHANGED <<task, closing, protocol, connectedDone, closedDone, conn, toClient,
                 authed, inForce, userVars, made, sent>>

Unsubscribe(ch) ==
  /\ calls < MaxCalls /\ calls' = calls + 1
  /\ ch \in subscriptions
  /\ subscriptions' = subscriptions \ {ch}
  /\ toBroker' = IF protocol THEN Sends(<<Request("UNSUBSCRIBE", ch)>>) ELSE toBroker
  /\ UNCHANGED <<task, closing, protocol, connectedDone, closedDone, conn, toClient,
                 authed, inForce, userVars, made, sent>>

\* publish drops the message when there is no protocol.
Publish(ch) ==
  /\ calls < MaxCalls /\ calls' = calls + 1
  /\ protocol
  /\ toBroker' = Sends(<<Request("PUBLISH", ch)>>)
  /\ UNCHANGED <<sessionVars, conn, toClient, authed, inForce, userVars, made, sent>>

Read ==
  /\ readQueue # << >>
  /\ readQueue' = Tail(readQueue) /\ got' = Append(got, Head(readQueue))
  /\ UNCHANGED <<sessionVars, wireVars, enter, closer, made, calls, sent>>

\* __aenter__ awaits the present when_connected.
Enter ==
  /\ enter = "out"
  /\ enter' = IF connectedDone THEN "in" ELSE "waiting"
  /\ UNCHANGED <<sessionVars, wireVars, readQueue, got, closer, made, calls, sent>>

Entered ==
  /\ enter = "woken" /\ enter' = "in"
  /\ UNCHANGED <<sessionVars, wireVars, readQueue, got, closer, made, calls, sent>>

\* close(), which raises as long as reconnect() has not made a when_closed.
Close ==
  /\ closer = "out"
  /\ closing' = TRUE
  /\ conn' = IF Up THEN "closing" ELSE conn
  /\ closer' = CASE task = "scheduled" -> "raised"
                 [] task # "scheduled" /\ closedDone  -> "returned"
                 [] task # "scheduled" /\ ~closedDone -> "waiting"
  /\ UNCHANGED <<task, protocol, subscriptions, connectedDone, closedDone, toBroker,
                 toClient, authed, inForce, readQueue, got, enter, made, calls, sent>>

Closed ==
  /\ closer = "waiting" /\ closedDone /\ closer' = "returned"
  /\ UNCHANGED <<sessionVars, wireVars, readQueue, got, enter, made, calls, sent>>
-----------------------------------------------------------------------------
(* The broker and the network *)

\* The broker takes a message: it refuses anything before AUTH.
BrokerTakes ==
  /\ conn = "open" /\ toBroker # << >>
  /\ toBroker' = Tail(toBroker)
  /\ LET m == Head(toBroker) IN
     /\ authed' = (authed \/ m = Auth)
     /\ inForce' = IF authed THEN Serving(inForce, m) ELSE inForce
     /\ toClient' = IF MayFollow(authed, toBroker) THEN toClient
                    ELSE Append(toClient, [op |-> "ERROR"])
  /\ UNCHANGED <<sessionVars, conn, userVars, made, calls, sent>>

BrokerPublishes ==
  /\ conn = "open" /\ inForce # {} /\ sent < MaxSent
  /\ sent' = sent + 1
  /\ toClient' = Append(toClient, [op |-> "PUBLISH", n |-> sent'])
  /\ UNCHANGED <<sessionVars, conn, toBroker, authed, inForce, userVars, made, calls>>

\* The broker rejects a message (it lacks rights, or the secret is wrong).
BrokerRefuses ==
  /\ conn = "open" /\ authed /\ made < MaxConns
  /\ \A i \in DOMAIN toClient : toClient[i].op # "ERROR"
  /\ toClient' = Append(toClient, [op |-> "ERROR"])
  /\ UNCHANGED <<sessionVars, conn, toBroker, authed, inForce, userVars, made, calls, sent>>

\* The connection breaks, or the broker closes it.
Break ==
  /\ conn = "open" /\ made < MaxConns
  /\ conn' = "closing"
  /\ UNCHANGED <<sessionVars, toBroker, toClient, authed, inForce, userVars, made, calls, sent>>
-----------------------------------------------------------------------------
Task      == Start \/ Retry \/ Reconnect
Callbacks == OnInfo \/ OnPublish \/ OnError \/ ConnectionLost
Calls     == \/ \E ch \in Chans : Subscribe(ch) \/ Unsubscribe(ch) \/ Publish(ch)
             \/ Read \/ Enter \/ Close
Broker    == BrokerTakes \/ BrokerPublishes \/ BrokerRefuses \/ Break

Next == \/ Task \/ Connected \/ ConnectFails \/ ConnectRaises
        \/ Callbacks \/ Calls \/ Entered \/ Closed \/ Broker

Spec == Init /\ [][Next]_vars

\* The event loop runs what is ready.  A broker that is tried again and again
\* is reached in the end, and takes what is sent to it.
Fairness == /\ WF_vars(Task) /\ SF_vars(Connected)
            /\ WF_vars(Callbacks) /\ WF_vars(Entered) /\ WF_vars(Closed)
            /\ WF_vars(BrokerTakes)

FairSpec == Spec /\ Fairness
-----------------------------------------------------------------------------
(* Properties *)

\* What the broker will serve once it has taken what is under way.
Agreed == IF Up THEN WillServe(authed, inForce, toBroker) ELSE {}

\* The session keeps its promise: a connection that is ready has been
\* authenticated before anything else was said on it and will serve the
\* session's subscriptions, whenever they were made (before connecting, between
\* the connection and its INFO, or while an earlier connection was breaking),
\* and messages are read in order and once.
Promise == INSTANCE Session WITH
  Messages <- 1 .. MaxSent, wanted <- subscriptions, ready <- Up,
  agreed <- Agreed, unread <- readQueue

ImplementsSession == Promise!Spec

\* Whatever the user calls and when, each message finds the broker in a state where
\* a proper client sends it: the session's account of its subscriptions is the
\* broker's, as of the moment the message is taken, on every connection anew.
AsksProperly == conn = "open" /\ toBroker # << >> => Proper(authed, inForce, Head(toBroker))

\* No future is resolved twice, which would raise InvalidStateError in the
\* callback: connection_ready and connection_lost find theirs unresolved.
ResolvedOnce ==
  /\ conn = "open" /\ toClient # << >> => (Head(toClient).op = "INFO" => ~connectedDone)
  /\ conn = "closing" => ~closedDone

\* The task awaits a when_closed although it has no connection.
GaveUp == task = "awaiting" /\ conn = "none"

\* "automatically maintain a connection to the broker": as long as attempts
\* fail with OSError only, the session gets ready again, unless it is closed.
Maintains == ~closing ~> Up \/ closing \/ GaveUp

\* close() of a session returns when it has a connection to close: when_closed of
\* that connection, for which it waits, fires.  (Once `closing` is set, reconnect()
\* makes no other when_closed, so the present one is the one it waits for.)
CloseReturns == closer = "waiting" /\ conn = "closing" ~> closer = "returned"
=============================================================================
