------------------------------- MODULE PubSub --------------------------------
(***************************************************************************)
(* What the broker promises (docs/broker.rst): a client subscribes to      *)
(* channels, and a message published on a channel reaches every current    *)
(* subscriber of that channel, exactly once.                               *)
(***************************************************************************)
EXTENDS Naturals, Sequences

CONSTANTS Conns, Idents, Chans

VARIABLES published,    \* how many messages were published
          subscribers,  \* the connections listening on each channel
          inbox         \* the copies handed to each connection, in order

psVars == <<published, subscribers, inbox>>

Init == /\ published = 0
        /\ subscribers = [ch \in Chans |-> {}]
        /\ inbox = [c \in Conns |-> << >>]

Subscribe(c, ch) ==
  /\ subscribers' = [subscribers EXCEPT ![ch] = @ \cup {c}]
  /\ UNCHANGED <<published, inbox>>

Unsubscribe(c, ch) ==
  /\ subscribers' = [subscribers EXCEPT ![ch] = @ \ {c}]
  /\ UNCHANGED <<published, inbox>>

\* A connection that closes stops listening everywhere at once.
Leave(c) ==
  /\ subscribers' = [ch \in Chans |-> subscribers[ch] \ {c}]
  /\ UNCHANGED <<published, inbox>>

\* Every subscriber gets one copy; handing the copy over may reveal that some
\* of them are gone.
Publish(i, ch) ==
  /\ published' = published + 1
  /\ inbox' = [c \in Conns |->
                 IF c \in subscribers[ch]
                 THEN Append(inbox[c], [ident |-> i, chan |-> ch])
                 ELSE inbox[c]]
  /\ \E broken \in SUBSET subscribers[ch] :
       subscribers' = [x \in Chans |-> subscribers[x] \ broken]

Next ==
  \/ \E c \in Conns, ch \in Chans : Subscribe(c, ch) \/ Unsubscribe(c, ch)
  \/ \E c \in Conns : Leave(c)
  \/ \E i \in Idents, ch \in Chans : Publish(i, ch)

Spec == Init /\ [][Next]_psVars
=============================================================================
