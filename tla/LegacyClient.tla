---------------------------- MODULE LegacyClient -----------------------------
(***************************************************************************)
(* client.py: the threaded Client.  "run" is the thread that constructs    *)
(* the client, subscribes and is then in run(); "pub" is another thread of *)
(* the program that publishes.  They share the socket self.s, the unpacker *)
(* and `connected`; only connecting is under a lock, and whoever finds the *)
(* connection broken makes the next one.                                   *)
(*                                                                         *)
(* A step ends where the other thread's steps can be told apart: at a      *)
(* system call, at the lock, and between a failed call and the assignment  *)
(* to `connected` that follows it.  Sockets are ids that are used again.   *)
(***************************************************************************)
EXTENDS Naturals, Sequences

CONSTANTS Chans, Socks,
          Reconnect,   \* self.reconnect
          MaxCalls,    \* bound: calls of publish(), wait() and close()
          MaxSent,     \* bound: messages the broker publishes
          MaxBreaks    \* bound: connections that break

ASSUME ParametersAssumption ==
  Reconnect \in BOOLEAN /\ {MaxCalls, MaxSent, MaxBreaks} \subseteq Nat

Threads == {"run", "pub"}
None == "none"

\* There is a socket beside the one in use and the one run() receives from.
ASSUME SocksAssumption ==
  None \notin Socks /\ \A j, k \in Socks \cup {None} : Socks \ {j, k} # {}

ASSUME ChansAssumption == "AUTH" \notin Chans /\ "PUBLISH" \notin Chans

VARIABLES
  at,             \* where each thread is
  back,           \* where tryconnect() and publish() return to, for each thread
  lock,           \* who holds self.connecting_lock
  connected, stopped, subscriptions,   \* attributes of the client
  s,              \* self.s
  unpacker,       \* the messages in self.unpacker
  rs,             \* the socket that run() receives from
  data,           \* what it has received
  todo,           \* subscriptions that _subscribe has yet to send
  due,            \* history: the subscriptions it set out to send
  own,            \* history: the sockets not made by publish() during run()
  net,            \* each socket
  inbox,          \* what the broker has sent on it
  told,           \* what the broker was told on it
  calls, sent, breaks   \* counters for the bounds

clientVars == <<connected, stopped, subscriptions>>
runVars    == <<rs, data, todo, due>>
netVars    == <<own, net, inbox, told>>
counters   == <<calls, sent, breaks>>
vars == <<at, back, lock, clientVars, s, unpacker, runVars, netVars, counters>>

Connecting == {"acquire", "redial", "dial", "check", "reset", "receive", "pop", "auth"}
Critical   == Connecting \ {"acquire"}
Running    == {"built", "head", "subscribe", "unsubscribed", "inner", "recv", "nodata",
               "feed", "handle", "callback", "outer", "raised", "ended"}
Messages   == {"INFO", "PUBLISH", "ERROR"}

TypeOK ==
  /\ at \in [Threads -> Connecting \cup Running \cup {"unsent", "idle"}]
  /\ back \in [Threads -> {"built", "head", "callback", "idle"}]
  /\ \A t \in Threads : at[t] \in Critical <=> lock = t
  /\ lock \in Threads \cup {None}
  /\ connected \in BOOLEAN /\ stopped \in BOOLEAN
  /\ subscriptions \subseteq Chans /\ todo \subseteq due /\ due \subseteq subscriptions
  /\ s \in Socks \cup {None} /\ rs \in Socks \cup {None} /\ own \subseteq Socks
  /\ unpacker \in Seq(Messages) /\ data \in Seq(Messages)
  /\ net \in [Socks -> {"free", "new", "up", "down", "closed"}]
  /\ inbox \in [Socks -> Seq(Messages)] /\ told \in [Socks -> SUBSET (Chans \cup {"AUTH"})]
  /\ calls \in 0 .. MaxCalls /\ sent \in 0 .. MaxSent /\ breaks \in 0 .. MaxBreaks

\* The constructor calls tryconnect().
Init ==
  /\ at = [run |-> "acquire", pub |-> "idle"] /\ back = [run |-> "built", pub |-> "idle"]
  /\ lock = None
  /\ connected = FALSE /\ stopped = FALSE /\ subscriptions = {}
  /\ s = None /\ unpacker = << >>
  /\ rs = None /\ data = << >> /\ todo = {} /\ due = {}
  /\ own = {}
  /\ net = [k \in Socks |-> "free"] /\ inbox = [k \in Socks |-> << >>]
  /\ told = [k \in Socks |-> {}]
  /\ calls = 0 /\ sent = 0 /\ breaks = 0

At(t, from, to) == at[t] = from /\ at' = [at EXCEPT ![t] = to]

\* The other thread does not use the client while "run" connects before run().
Constructed == back["run"] # "built" \/ at["run"] \notin Connecting \cup {"unsent"}
-----------------------------------------------------------------------------
(* What a socket does *)

Fresh == CHOOSE k \in Socks : net[k] \in {"free", "closed"} /\ k # s /\ (at["run"] = "recv" => k # rs)

\* recv() returns the beginning of what has arrived.
Received(k) == {SubSeq(inbox[k], 1, n) : n \in {i \in 1 .. Len(inbox[k]) : net[k] \in {"up", "down"}}}

Taken(k, d) == inbox' = [inbox EXCEPT ![k] = SubSeq(@, Len(d) + 1, Len(@))]

\* What is sent on an open connection the broker gets; what is sent after the
\* peer is gone may get lost without an error.  Before AUTH the broker takes
\* nothing else: it says ERROR and closes.
Sent(item) ==
  \/ /\ s # None /\ net[s] = "up" /\ (item = "AUTH" \/ "AUTH" \in told[s])
     /\ told' = [told EXCEPT ![s] = @ \cup ({item} \cap (Chans \cup {"AUTH"}))]
     /\ UNCHANGED <<own, net, inbox>>
  \/ /\ s # None /\ net[s] = "up" /\ item # "AUTH" /\ "AUTH" \notin told[s]
     /\ net' = [net EXCEPT ![s] = "down"]
     /\ inbox' = [inbox EXCEPT ![s] = Append(@, "ERROR")]
     /\ UNCHANGED <<own, told>>
  \/ s # None /\ net[s] = "down" /\ UNCHANGED netVars

\* sendall() fails on what is no connection (any more), or it times out, which
\* counts as a break.
SendFails == \/ s = None /\ UNCHANGED breaks
             \/ s # None /\ net[s] # "up" /\ UNCHANGED breaks
             \/ s # None /\ net[s] = "up" /\ breaks < MaxBreaks /\ breaks' = breaks + 1
-----------------------------------------------------------------------------
(* tryconnect() by thread t *)

\* A bug: it returns without releasing the lock if it finds a connection.
AcquireKeeps(t) ==
  /\ lock = None /\ lock' = t
  /\ At(t, "acquire", IF connected THEN back[t] ELSE "redial")

Acquire(t) ==
  /\ lock = None
  /\ IF connected THEN At(t, "acquire", back[t]) /\ UNCHANGED lock
     ELSE At(t, "acquire", "redial") /\ lock' = t

Enter(t) ==
  /\ Acquire(t)
  /\ UNCHANGED <<back, clientVars, s, unpacker, runVars, netVars, counters>>

\* A bug: a failure gets out of tryconnect().
GivenUp(t) == at' = [at EXCEPT ![t] = back[t]] /\ lock' = None

\* Any failure: after a sleep, with the lock held, try again.
Failed(t) == at' = [at EXCEPT ![t] = "redial"] /\ UNCHANGED lock

\* close_old(), a new socket.
Redial(t) ==
  /\ At(t, "redial", "dial")
  /\ s' = Fresh
  /\ net' = [k \in Socks |-> IF k = Fresh THEN "new" ELSE IF k = s THEN "closed" ELSE net[k]]
  /\ inbox' = [inbox EXCEPT ![Fresh] = << >>]
  /\ told' = [told EXCEPT ![Fresh] = {}]
  /\ own' = IF t = "run" /\ back[t] # "callback" THEN own \cup {Fresh} ELSE own \ {Fresh}
  /\ UNCHANGED <<back, lock, clientVars, unpacker, runVars, counters>>

\* connect() of the socket succeeds: `connected` is set before authentication.
Dialed(t) ==
  /\ At(t, "dial", "check")
  /\ net' = [net EXCEPT ![s] = "up"] /\ inbox' = [inbox EXCEPT ![s] = <<"INFO">>]
  /\ connected' = TRUE
  /\ UNCHANGED <<back, lock, stopped, subscriptions, s, unpacker, runVars, own, told, counters>>

\* No address can be connected to.
DialFails(t) ==
  /\ At(t, "dial", "check")
  /\ UNCHANGED <<back, lock, clientVars, s, unpacker, runVars, netVars, counters>>

\* If `connected` is still set, from an attempt that got no further, connect() goes
\* on with the dead socket; if the other thread has cleared it, with none.
Check(t) ==
  /\ at[t] = "check"
  /\ IF connected THEN At(t, "check", "reset") /\ UNCHANGED lock ELSE Failed(t)
  /\ UNCHANGED <<back, clientVars, s, unpacker, runVars, netVars, counters>>

Reset(t) ==
  /\ At(t, "reset", "receive")
  /\ unpacker' = << >>
  /\ UNCHANGED <<back, lock, clientVars, s, runVars, netVars, counters>>

\* do_auth: recv(), feed.
ReceiveInfo(t) ==
  /\ At(t, "receive", "pop")
  /\ \E d \in Received(s) : Taken(s, d) /\ unpacker' = unpacker \o d
  /\ UNCHANGED <<back, lock, clientVars, s, runVars, own, net, told, counters>>

\* The peer is gone, the timeout is over, or INFO has not come whole.
ReceiveInfoFails(t) ==
  /\ at[t] = "receive" /\ Failed(t)
  /\ UNCHANGED <<back, clientVars, s, unpacker, runVars, netVars, counters>>

\* The first message is to be INFO.
PopInfo(t) ==
  /\ at[t] = "pop"
  /\ unpacker' = IF unpacker = << >> THEN << >> ELSE Tail(unpacker)
  /\ IF unpacker # << >> /\ Head(unpacker) = "INFO"
     THEN At(t, "pop", "auth") /\ UNCHANGED lock
     ELSE Failed(t)
  /\ UNCHANGED <<back, clientVars, s, runVars, netVars, counters>>

\* The lock is released.
SendAuth(t) ==
  /\ At(t, "auth", back[t]) /\ lock' = None
  /\ Sent("AUTH")
  /\ UNCHANGED <<back, clientVars, s, unpacker, runVars, counters>>

SendAuthFails(t) ==
  /\ at[t] = "auth" /\ Failed(t)
  /\ SendFails
  /\ UNCHANGED <<back, clientVars, s, unpacker, runVars, netVars, calls, sent>>
-----------------------------------------------------------------------------
(* publish() by thread t: "run" calls it before run() or in a callback *)

Publish(t) ==
  /\ at[t] \in {"built", "callback", "idle"} /\ Constructed
  /\ calls < MaxCalls /\ calls' = calls + 1
  /\ Sent("PUBLISH")
  /\ UNCHANGED <<at, back, lock, clientVars, s, unpacker, runVars, sent, breaks>>

PublishFails(t) ==
  /\ at[t] \in {"built", "callback", "idle"} /\ Constructed
  /\ calls < MaxCalls /\ calls' = calls + 1
  /\ SendFails
  /\ at' = [at EXCEPT ![t] = "unsent"] /\ back' = [back EXCEPT ![t] = at[t]]
  /\ UNCHANGED <<lock, clientVars, s, unpacker, runVars, netVars, sent>>

\* The message is dropped.  run() catches what a callback raises.
Unsent(t) ==
  /\ At(t, "unsent", IF Reconnect THEN "acquire"
                     ELSE IF back[t] = "callback" THEN "nodata" ELSE back[t])
  /\ connected' = FALSE
  /\ UNCHANGED <<back, lock, stopped, subscriptions, s, unpacker, runVars, netVars, counters>>

\* close() of the client by the other thread.
Close ==
  /\ at["pub"] = "idle" /\ Constructed /\ s # None
  /\ calls < MaxCalls /\ calls' = calls + 1
  /\ net' = [net EXCEPT ![s] = "closed"]
  /\ UNCHANGED <<at, back, lock, clientVars, s, unpacker, runVars, own, inbox, told, sent, breaks>>

Stop ==
  /\ at["pub"] = "idle" \/ at["run"] = "callback"
  /\ Constructed /\ ~stopped /\ stopped' = TRUE
  /\ UNCHANGED <<at, back, lock, connected, subscriptions, s, unpacker, runVars, netVars, counters>>
-----------------------------------------------------------------------------
(* The thread that is in run() *)

\* subscribe(), before run() or in a callback, sends nothing.
Subscribe(ch) ==
  /\ at["run"] \in {"built", "callback"}
  /\ ch \notin subscriptions /\ subscriptions' = subscriptions \cup {ch}
  /\ UNCHANGED <<at, back, lock, connected, stopped, s, unpacker, runVars, netVars, counters>>

\* wait() instead of run(): look for an ERROR in what comes in a second.  That
\* nothing comes, or the connection is broken, changes nothing.
Wait ==
  /\ at["run"] = "built" /\ calls < MaxCalls /\ calls' = calls + 1
  /\ \E d \in Received(s) :
       LET all == unpacker \o d
           errors == {i \in DOMAIN all : all[i] = "ERROR"} IN
       /\ Taken(s, d)
       /\ \/ errors = {} /\ unpacker' = << >>
          \/ \E i \in errors : /\ \A j \in errors : i <= j
                              /\ unpacker' = SubSeq(all, i + 1, Len(all))
  /\ UNCHANGED <<at, back, lock, clientVars, s, runVars, own, net, told, sent, breaks>>

Run ==
  /\ At("run", "built", "head")
  /\ UNCHANGED <<back, lock, clientVars, s, unpacker, runVars, netVars, counters>>

\* A bug: only what is new is sent.
SubscribedNew == todo' = subscriptions \ due

Subscribed == todo' = subscriptions

\* The head of the outer loop; _subscribe begins.
Loop ==
  /\ IF stopped
     THEN At("run", "head", "ended") /\ UNCHANGED <<todo, due>>
     ELSE At("run", "head", "subscribe") /\ Subscribed /\ due' = subscriptions
  /\ UNCHANGED <<back, lock, clientVars, s, unpacker, rs, data, netVars, counters>>

SubscribeNext ==
  /\ at["run"] = "subscribe"
  /\ \E c \in todo : todo' = todo \ {c} /\ Sent(c)
  /\ UNCHANGED <<at, back, lock, clientVars, s, unpacker, rs, data, due, counters>>

SubscribeFails ==
  /\ At("run", "subscribe", "unsubscribed") /\ todo # {}
  /\ SendFails
  /\ UNCHANGED <<back, lock, clientVars, s, unpacker, runVars, netVars, calls, sent>>

NotSubscribed ==
  /\ At("run", "unsubscribed", IF Reconnect THEN "inner" ELSE "raised")
  /\ connected' = FALSE
  /\ todo' = {}
  /\ UNCHANGED <<back, lock, stopped, subscriptions, s, unpacker, rs, data, due, netVars, counters>>

SubscribeEnds ==
  /\ At("run", "subscribe", "inner") /\ todo = {}
  /\ UNCHANGED <<back, lock, clientVars, s, unpacker, runVars, netVars, counters>>

\* The head of the inner loop; the call of recv() picks the socket.
Inner ==
  /\ at["run"] = "inner"
  /\ IF connected THEN At("run", "inner", "recv") /\ rs' = s
     ELSE At("run", "inner", "outer") /\ UNCHANGED rs
  /\ UNCHANGED <<back, lock, clientVars, s, unpacker, data, todo, due, netVars, counters>>

Recv ==
  /\ At("run", "recv", "feed")
  /\ \E d \in Received(rs) : Taken(rs, d) /\ data' = d
  /\ UNCHANGED <<back, lock, clientVars, s, unpacker, rs, todo, due, own, net, told, counters>>

\* The peer is gone, or the socket is not a connection.
RecvFails ==
  /\ At("run", "recv", "nodata")
  /\ \/ net[rs] = "down" /\ inbox[rs] = << >>
     \/ net[rs] \in {"new", "closed", "free"}
  /\ UNCHANGED <<back, lock, clientVars, s, unpacker, runVars, netVars, counters>>

\* except Disconnect in run(): this may be another connection by now.
NoData ==
  /\ At("run", "nodata", "outer")
  /\ connected' = FALSE
  /\ UNCHANGED <<back, lock, stopped, subscriptions, s, unpacker, runVars, netVars, counters>>

Feed ==
  /\ At("run", "feed", "handle")
  /\ unpacker' = unpacker \o data /\ data' = << >>
  /\ UNCHANGED <<back, lock, clientVars, s, rs, todo, due, netVars, counters>>

\* PUBLISH and ERROR go to a callback, anything else is passed over.
Handle ==
  /\ at["run"] = "handle" /\ unpacker # << >>
  /\ unpacker' = Tail(unpacker)
  /\ at' = [at EXCEPT !["run"] = IF Head(unpacker) = "INFO" THEN "handle" ELSE "callback"]
  /\ UNCHANGED <<back, lock, clientVars, s, runVars, netVars, counters>>

\* What was received is handled; the inner loop ends if stopped.
Handled ==
  /\ At("run", "handle", IF stopped THEN "outer" ELSE "inner") /\ unpacker = << >>
  /\ UNCHANGED <<back, lock, clientVars, s, runVars, unpacker, netVars, counters>>

CallbackReturns ==
  /\ At("run", "callback", "handle")
  /\ UNCHANGED <<back, lock, clientVars, s, unpacker, runVars, netVars, counters>>

Outer ==
  /\ IF ~stopped /\ Reconnect
     THEN At("run", "outer", "acquire") /\ back' = [back EXCEPT !["run"] = "head"]
     ELSE At("run", "outer", "head") /\ UNCHANGED back
  /\ UNCHANGED <<lock, clientVars, s, unpacker, runVars, netVars, counters>>
-----------------------------------------------------------------------------
(* The broker and the network *)

BrokerPublishes(k) ==
  /\ net[k] = "up" /\ told[k] \cap Chans # {}
  /\ sent < MaxSent /\ sent' = sent + 1
  /\ inbox' = [inbox EXCEPT ![k] = Append(@, "PUBLISH")]
  /\ UNCHANGED <<at, back, lock, clientVars, s, unpacker, runVars, own, net, told, calls, breaks>>

\* The connection breaks, or the broker says ERROR and closes it.
Break(k) ==
  /\ net[k] = "up"
  /\ breaks < MaxBreaks /\ breaks' = breaks + 1
  /\ net' = [net EXCEPT ![k] = "down"]
  /\ \/ UNCHANGED inbox
     \/ inbox' = [inbox EXCEPT ![k] = Append(@, "ERROR")]
  /\ UNCHANGED <<at, back, lock, clientVars, s, unpacker, runVars, own, told, calls, sent>>
-----------------------------------------------------------------------------
\* What thread t does in tryconnect() whatever the network does.
Proceeds(t) == \/ Redial(t) \/ Check(t) \/ Reset(t) \/ ReceiveInfoFails(t) \/ PopInfo(t)
               \/ SendAuth(t) \/ SendAuthFails(t) \/ Unsent(t)

Runs == \/ Run \/ Loop \/ SubscribeNext \/ SubscribeFails \/ NotSubscribed \/ SubscribeEnds
        \/ Inner \/ Recv \/ RecvFails \/ NoData \/ Feed \/ Handle \/ Handled \/ CallbackReturns
        \/ Outer

Next ==
  \/ \E t \in Threads : \/ Enter(t) \/ Proceeds(t)
                        \/ Dialed(t) \/ DialFails(t) \/ ReceiveInfo(t)
                        \/ Publish(t) \/ PublishFails(t)
  \/ Runs \/ Close \/ Stop \/ Wait \/ \E ch \in Chans : Subscribe(ch)
  \/ \E k \in Socks : BrokerPublishes(k) \/ Break(k)

Spec == Init /\ [][Next]_vars

\* Threads run, and one that waits for the lock gets it; the broker is reached
\* and says INFO in time, if it is tried again and again.
Fairness == /\ WF_vars(\E t \in Threads : Proceeds(t)) /\ SF_vars(Enter("run"))
            /\ SF_vars(\E t \in Threads : Dialed(t))
            /\ SF_vars(\E t \in Threads : ReceiveInfo(t))

FairSpec == Spec /\ Fairness
-----------------------------------------------------------------------------
(* Properties *)

\* When no thread is connecting, the connection that `connected` speaks of has
\* been authenticated: whoever publishes then is not refused.
AuthenticatedWhenFree ==
  lock = None /\ connected /\ net[s] = "up" => "AUTH" \in told[s]

\* run() waits for messages on a connection it made itself only once the
\* broker has all the subscriptions, whatever the other thread did meanwhile.
\* (Not so for a connection that publish() made: see the README.)
ListensSubscribed ==
  at["run"] = "recv" /\ rs \in own /\ net[rs] = "up" => due \subseteq told[rs]

\* Both threads may find the connection broken at once, wait for each other's
\* lock and break each other's connection: still run() gets out of tryconnect().
\* (Not so publish() in the other thread: run() may take its INFO away every
\* time.)
RunReconnects == at["run"] \in Connecting ~> at["run"] \notin Connecting
=============================================================================
