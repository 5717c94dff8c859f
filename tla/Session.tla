------------------------------- MODULE Session -------------------------------
(***************************************************************************)
(* What a client session promises, whatever library runs it: the user says *)
(* at any moment which channels are wanted; whenever the session is ready  *)
(* the broker will serve exactly those; and what the broker publishes is   *)
(* read in the order in which it was published, each message at most once, *)
(* across the loss of any number of connections.                           *)
(***************************************************************************)
EXTENDS Naturals, Sequences, SequencesExt

CONSTANTS Chans,
          Messages    \* a set of naturals: messages are numbered as the broker publishes them

VARIABLES
  wanted,   \* channels the user has subscribed to
  ready,    \* there is a connection and it is authenticated
  agreed,   \* what the broker will serve once it has taken what is under way
  unread,   \* messages that wait for a reader
  got       \* messages readers were given

vars == <<wanted, ready, agreed, unread, got>>

Init == /\ wanted = {} /\ ready = FALSE /\ agreed = {}
        /\ unread = << >> /\ got = << >>

GetReady == /\ ~ready /\ ready' = TRUE
            /\ agreed' = wanted
            /\ UNCHANGED <<wanted, unread, got>>

Lose == /\ ready /\ ready' = FALSE
        /\ agreed' = {}
        /\ UNCHANGED <<wanted, unread, got>>

Want(channels) ==
  /\ wanted' = channels
  /\ agreed' = IF ready THEN channels ELSE {}
  /\ UNCHANGED <<ready, unread, got>>

Subscribe(ch)   == ch \notin wanted /\ Want(wanted \cup {ch})
Unsubscribe(ch) == ch \in wanted /\ Want(wanted \ {ch})

\* A message newer than all before it; a reader that waits gets it at once.
Arrive(m) ==
  /\ \A n \in ToSet(got) \cup ToSet(unread) : n < m
  /\ \/ unread' = Append(unread, m) /\ UNCHANGED got
     \/ unread = << >> /\ got' = Append(got, m) /\ UNCHANGED unread
  /\ UNCHANGED <<wanted, ready, agreed>>

Read ==
  /\ unread # << >>
  /\ unread' = Tail(unread) /\ got' = Append(got, Head(unread))
  /\ UNCHANGED <<wanted, ready, agreed>>

Next == \/ GetReady \/ Lose \/ Read
        \/ \E ch \in Chans : Subscribe(ch) \/ Unsubscribe(ch)
        \/ \E m \in Messages : Arrive(m)

Spec == Init /\ [][Next]_vars
=============================================================================
