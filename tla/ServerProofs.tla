---------------------------- MODULE ServerProofs ----------------------------
(***************************************************************************)
(* Proofs about serve_forever, for any stack of authenticators, endpoints, *)
(* clients and users: its types, what its end has released, and that users *)
(* are found.                                                              *)
(***************************************************************************)
EXTENDS ServerLifecycle, SequenceTheorems, WellFoundedInduction, TLAPS

\* Stages of the task.
Starting == {"new", "metrics"}
Running  == {"endpoint", "created", "serving"}
Ending   == {"waiting", "stop metrics", "close auth", "through", "interrupted"}

\* The list of servers is there from the first endpoint on, and it alone names
\* what the clean-up closes.
ServersOK ==
  /\ at \in Starting \cup {"crashed"} => ~bound
  /\ at \in Running \cup {"cleanup"} \cup Ending => bound
  /\ at \in {"cleanup"} \cup Ending => servers \cap listening = {}
  /\ at = "created" => next \in Numbers
  /\ listening \subseteq Numbers

\* A certificate is watched as long as its clean-up is due.
WatchersOK ==
  /\ cleanups = watched \cap TLS
  /\ at \in Ending => cleanups = {}

\* The end of the metrics and of the authentication.
ClosedOK ==
  /\ at \in {"close auth", "through"} => exporter = "closed" /\ ~collector
  /\ at \notin {"new", "through"} => finalizers = Kinds \cap Finalized
  /\ at = "through" => stack = << >> /\ "sqlite" \notin open
  /\ at # "through" => stack = Stack /\ open = Kinds

\* Who answered for a user has that user, and of those before it only the JSON
\* store may have the user by now.
Found(i, u) ==
  /\ Has(Stack[i], u) \/ Stack[i] \in Late
  /\ \A j \in 1 .. i - 1 : Stack[j] \notin Late /\ (u \in Knows[Stack[j]] => Stack[j] = "json")

AnswersOK ==
  \A c \in Clients : answer[c].by # 0 => Found(answer[c].by, answer[c].user)

IInv == TypeOK /\ ServersOK /\ WatchersOK /\ ClosedOK /\ AnswersOK
-----------------------------------------------------------------------------
(* Building blocks *)

\* A set of natural numbers that is not empty has a least one.
LEMMA LeastOf ==
  ASSUME NEW T \in SUBSET Nat, T # {}
  PROVE  \E i \in T : \A j \in T : i <= j
<1> DEFINE Less == {p \in Nat \X Nat : p[1] < p[2]}
<1>1. IsWellFoundedOn(Less, Nat)
  BY NatLessThanWellFounded DEF OpToRel
<1>2. \A x, y \in Nat : y < x => <<y, x>> \in Less
  OBVIOUS
<1> HIDE DEF Less
<1>3. \E x \in T : \A y \in T : <<y, x>> \notin Less
  BY <1>1, WFMin
<1>4. PICK x \in T : \A y \in T : ~(y < x)
  BY <1>2, <1>3
<1> QED
  BY <1>4

\* What the constants say.
LEMMA Constants ==
  /\ Len(Stack) \in Nat /\ DOMAIN Stack = 1 .. Len(Stack)
  /\ Len(Endpoints) \in Nat /\ Numbers = 1 .. Len(Endpoints)
  /\ TLS \subseteq Numbers /\ JSON \notin TLS
  /\ Kinds \subseteq {"json", "sqlite", "mongo", "database", "env", "memory"}
  /\ \A i \in DOMAIN Stack : Stack[i] \in Kinds
  /\ MaxCancels \in Nat
<1> DEFINE All == {"json", "sqlite", "mongo", "database", "env", "memory"}
<1>1. /\ Stack \in Seq(All) /\ Endpoints \in Seq({"tcp", "tls"})
      /\ MaxCancels \in Nat
  BY KindsAssumption DEF Kinds
<1>2. /\ Len(Stack) \in Nat /\ DOMAIN Stack = 1 .. Len(Stack)
      /\ Len(Endpoints) \in Nat /\ Numbers = 1 .. Len(Endpoints)
  BY <1>1, LenProperties DEF Numbers
<1>3. \A i \in DOMAIN Stack : Stack[i] \in Kinds /\ Stack[i] \in All
  BY <1>1, <1>2, ElementOfSeq DEF Kinds
<1>4. Kinds \subseteq All
  BY <1>3 DEF Kinds
<1>5. TLS \subseteq Numbers /\ JSON \notin TLS
  BY <1>2 DEF TLS, JSON
<1> HIDE DEF Kinds
<1> QED
  BY <1>1, <1>2, <1>3, <1>4, <1>5

\* The parts of the types.
TaskTypes ==
  /\ at \in {"new", "metrics", "endpoint", "created", "serving", "finally", "cleanup",
             "waiting", "stop metrics", "close auth"} \cup Ends
  /\ collector \in BOOLEAN /\ exporter \in {"off", "listens", "closed"}
  /\ bound \in BOOLEAN /\ started \in BOOLEAN /\ cancels \in 0 .. MaxCancels

AuthTypes ==
  /\ stack \in {Stack, << >>} /\ finalizers \subseteq Kinds /\ open \subseteq Kinds
  /\ loaded \in BOOLEAN

EndpointTypes ==
  /\ watched \subseteq {JSON} \cup TLS
  /\ next \in 1 .. Len(Endpoints) + 1
  /\ servers \subseteq 1 .. next - 1 /\ listening \subseteq 1 .. next
  /\ cleanups \subseteq TLS /\ (at # "cleanup" => cleanups \subseteq watched)

ClientTypes ==
  /\ client \in [Clients -> {0} \cup Numbers]
  /\ answer \in [Clients -> [user : Users \cup {"none"}, by : 0 .. Len(Stack)]]

LEMMA TypeParts == TypeOK <=> TaskTypes /\ AuthTypes /\ EndpointTypes /\ ClientTypes
BY DEF TypeOK, TaskTypes, AuthTypes, EndpointTypes, ClientTypes

LEMMA Parts ==
  ASSUME IInv
  PROVE  /\ TaskTypes /\ AuthTypes /\ EndpointTypes /\ ClientTypes
         /\ ServersOK /\ WatchersOK /\ ClosedOK /\ AnswersOK
BY TypeParts DEF IInv
-----------------------------------------------------------------------------
(* The task's steps *)

\* Clients leave the task alone.
LEMMA ClientsApart ==
  ASSUME NEW c \in Clients, NEW u, Accept(c) \/ Leave(c) \/ Lookup(c, u)
  PROVE  UNCHANGED <<at, stack, finalizers, open, loaded, watched, collector, exporter, next, listening,
                     bound, servers, cleanups, started, cancels>>
<1>1. CASE Accept(c)
  BY <1>1 DEF Accept, authVars, metricsVars, endpointVars
<1>2. CASE Leave(c)
  BY <1>2 DEF Leave, authVars, metricsVars, endpointVars
<1>3. CASE Lookup(c, u)
  BY <1>3 DEF Lookup, authVars, metricsVars, endpointVars
<1> QED
  BY <1>1, <1>2, <1>3

\* So does the JSON store's watcher.
LEMMA LoadApart ==
  ASSUME Load
  PROVE  /\ UNCHANGED <<at, stack, finalizers, open, watched, collector, exporter, next, listening,
                        bound, servers, cleanups, started, client, answer, cancels>>
         /\ loaded' \in {loaded, TRUE}
BY DEF Load, Reloaded, metricsVars, endpointVars, clientVars

LEMMA TaskTypesStep ==
  ASSUME IInv, Next
  PROVE  TaskTypes'
<1>0. TaskTypes
  BY Parts
<1> USE DEF TaskTypes, Goto, authVars, metricsVars, endpointVars, clientVars
<1>1. CASE Start \/ MetricsListen \/ MetricsFail
  BY <1>0, <1>1 DEF Start, MetricsListen, MetricsFail
<1>2. CASE Listen \/ ListenFails \/ Created \/ Serve
  BY <1>0, <1>2 DEF Listen, ListenFails, Created, Serve
<1>3. CASE CloseServers \/ CleanUp \/ CleanedUp
  BY <1>0, <1>3 DEF CloseServers, CleanUp, CleanedUp, Ends
<1>4. CASE WaitClosed \/ StopMetrics \/ CloseAuth
  BY <1>0, <1>4 DEF WaitClosed, StopMetrics, CloseAuth, Ends
<1>5. CASE Cancel
  <2>1. cancels' \in 0 .. MaxCancels /\ UNCHANGED <<bound, started>>
    <3>1. cancels < MaxCancels /\ cancels' = cancels + 1 /\ UNCHANGED <<bound, started>>
      BY <1>5 DEF Cancel
    <3>2. cancels \in 0 .. MaxCancels /\ MaxCancels \in Nat
      BY <1>0, Constants
    <3> QED
      BY <3>1, <3>2
  <2>2. /\ at' \in {at, "finally", "interrupted"} /\ collector' \in {collector, FALSE}
        /\ exporter' \in {exporter, "off", "listens", "closed"}
    BY <1>5 DEF Cancel, Cancelled
  <2> QED
    BY <1>0, <2>1, <2>2 DEF Ends
<1>6. ASSUME NEW c \in Clients, NEW u, Accept(c) \/ Leave(c) \/ Lookup(c, u)
      PROVE  TaskTypes'
  BY <1>0, <1>6, ClientsApart
<1>7. CASE Load
  BY <1>0, <1>7, LoadApart
<1> QED
  BY <1>1, <1>2, <1>3, <1>4, <1>5, <1>6, <1>7 DEF Next, Task

LEMMA AuthStep ==
  ASSUME IInv, Next
  PROVE  AuthTypes' /\ ClosedOK'
<1>0. AuthTypes /\ ClosedOK
  BY Parts
<1> USE DEF AuthTypes, ClosedOK, Goto, authVars, metricsVars, endpointVars, clientVars
<1>1. CASE Start
  BY <1>0, <1>1 DEF Start, AuthStarted
<1>2. CASE MetricsListen \/ MetricsFail \/ Listen \/ ListenFails \/ Created \/ Serve
  BY <1>0, <1>2 DEF MetricsListen, MetricsFail, Listen, ListenFails, Created, Serve
<1>3. CASE CloseServers \/ CleanUp \/ CleanedUp \/ WaitClosed \/ StopMetrics
  BY <1>0, <1>3 DEF CloseServers, CleanUp, CleanedUp, WaitClosed, StopMetrics
<1>4. CASE CloseAuth
  BY <1>0, <1>4 DEF CloseAuth, StackClosed, Finalized
<1>5. CASE Cancel
  BY <1>0, <1>5 DEF Cancel, Cancelled
<1>6. ASSUME NEW c \in Clients, NEW u, Accept(c) \/ Leave(c) \/ Lookup(c, u)
      PROVE  AuthTypes' /\ ClosedOK'
  BY <1>0, <1>6, ClientsApart
<1>7. CASE Load
  <2>1. UNCHANGED <<at, stack, finalizers, open, collector, exporter>>
    BY <1>7, LoadApart
  <2>2. loaded' \in BOOLEAN
    BY <1>0, <1>7, LoadApart
  <2> QED
    BY <1>0, <2>1, <2>2
<1> QED
  BY <1>1, <1>2, <1>3, <1>4, <1>5, <1>6, <1>7 DEF Next, Task

LEMMA EndpointStep ==
  ASSUME IInv, Next
  PROVE  EndpointTypes' /\ ServersOK' /\ WatchersOK'
<1>0. /\ EndpointTypes /\ ServersOK /\ WatchersOK
      /\ Len(Endpoints) \in Nat /\ Numbers = 1 .. Len(Endpoints) /\ TLS \subseteq Numbers
      /\ JSON \notin TLS
  BY Parts, Constants
<1> USE DEF EndpointTypes, ServersOK, WatchersOK, Starting, Running, Ending, Goto, authVars,
            metricsVars, endpointVars, clientVars
<1>1. CASE Start
  <2>1. /\ at = "new" /\ at' = "metrics" /\ watched' = watched \cup {JSON : k \in Kinds \cap {"json"}}
        /\ UNCHANGED <<next, listening, bound, servers, cleanups>>
    BY <1>1 DEF Start, AuthStarted
  <2>2. watched' \subseteq watched \cup {JSON} /\ watched \subseteq watched'
    BY <2>1
  <2>3. watched' \cap TLS = watched \cap TLS
    BY <1>0, <2>2
  <2> QED
    BY <1>0, <2>1, <2>2, <2>3
<1>a. CASE MetricsListen \/ MetricsFail
  BY <1>0, <1>a DEF MetricsListen, MetricsFail
<1>2. CASE Listen \/ ListenFails
  <2>1. cleanups' = watched' \cap TLS /\ watched' \subseteq {JSON} \cup TLS
    BY <1>0, <1>2 DEF Listen, ListenFails, Secured
  <2>2. next \in Numbers /\ listening' \subseteq listening \cup {next}
    <3>1. next <= Len(Endpoints) /\ listening' \in {listening, listening \cup {next}}
      BY <1>2 DEF Listen, ListenFails
    <3>2. /\ next \in 1 .. Len(Endpoints) + 1
          /\ Len(Endpoints) \in Nat /\ Numbers = 1 .. Len(Endpoints)
      BY <1>0
    <3> HIDE DEF EndpointTypes, ServersOK, WatchersOK
    <3>3. next \in Numbers
      BY <3>1, <3>2
    <3> QED
      BY <3>1, <3>3
  <2>3. at = "endpoint" /\ at' \in {"created", "finally"} /\ UNCHANGED <<next, bound, servers>>
    BY <1>2 DEF Listen, ListenFails
  <2>4. EndpointTypes'
    BY <1>0, <2>1, <2>2, <2>3
  <2>5. ServersOK'
    BY <1>0, <2>2, <2>3
  <2>6. WatchersOK'
    BY <2>1, <2>3
  <2> QED
    BY <2>4, <2>5, <2>6
<1>3. CASE Created
  BY <1>0, <1>3 DEF Created
<1>4. CASE Serve \/ CleanedUp \/ WaitClosed \/ StopMetrics \/ CloseAuth
  BY <1>0, <1>4 DEF Serve, CleanedUp, WaitClosed, StopMetrics, CloseAuth
<1>5. CASE CloseServers
  BY <1>0, <1>5 DEF CloseServers
<1>6. CASE CleanUp
  BY <1>0, <1>6 DEF CleanUp
<1>7. CASE Cancel
  BY <1>0, <1>7 DEF Cancel, Cancelled
<1>8. ASSUME NEW c \in Clients, NEW u, Accept(c) \/ Leave(c) \/ Lookup(c, u)
      PROVE  EndpointTypes' /\ ServersOK' /\ WatchersOK'
  BY <1>0, <1>8, ClientsApart
<1>9. CASE Load
  <2>1. UNCHANGED <<at, watched, next, listening, bound, servers, cleanups>>
    BY <1>9, LoadApart
  <2> QED
    BY <1>0, <2>1
<1> QED
  BY <1>1, <1>a, <1>2, <1>3, <1>4, <1>5, <1>6, <1>7, <1>8, <1>9 DEF Next, Task
-----------------------------------------------------------------------------
(* Clients *)

\* Who answers: the first that is asked and has the user, or answers later.
First(u) == CHOOSE i \in Hits(u) : \A j \in Hits(u) : i <= j

LEMMA FirstAnswers ==
  ASSUME IInv, NEW u, Hits(u) # {}
  PROVE  /\ stack = Stack
         /\ First(u) \in 1 .. Len(Stack)
         /\ Has(Stack[First(u)], u) \/ Stack[First(u)] \in Late
         /\ \A j \in DOMAIN Stack : Has(Stack[j], u) \/ Stack[j] \in Late => First(u) <= j
<1>1. Hits(u) \subseteq DOMAIN stack
  BY DEF Hits
<1>2. stack = Stack
  <2>1. stack # << >>
    BY <1>1
  <2> QED
    BY <2>1, Parts DEF ClosedOK
<1>3. Hits(u) \subseteq Nat /\ DOMAIN Stack = 1 .. Len(Stack)
  BY <1>1, <1>2, Constants
<1>4. First(u) \in Hits(u) /\ \A j \in Hits(u) : First(u) <= j
  BY <1>3, LeastOf DEF First
<1> QED
  BY <1>1, <1>2, <1>3, <1>4 DEF Hits

\* What is loaded stays loaded.
LEMMA FoundStays ==
  ASSUME NEW i, NEW u, Found(i, u), loaded' \in {loaded, TRUE}
  PROVE  Found(i, u)'
<1>1. \A k : Has(k, u) => Has(k, u)'
  BY DEF Has
<1> QED
  BY <1>1 DEF Found

LEMMA LoadedStays ==
  ASSUME IInv, Next
  PROVE  loaded' \in {loaded, TRUE}
<1>1. CASE Load
  BY <1>1, LoadApart
<1>2. CASE Task \/ Cancel
  BY <1>2 DEF Task, Cancel, Start, MetricsListen, MetricsFail, Listen, ListenFails, Created, Serve,
              CloseServers, CleanUp, CleanedUp, WaitClosed, StopMetrics, CloseAuth, authVars
<1>3. ASSUME NEW c \in Clients, NEW u, Accept(c) \/ Leave(c) \/ Lookup(c, u)
      PROVE  loaded' = loaded
  BY <1>3, ClientsApart
<1> QED
  BY <1>1, <1>2, <1>3 DEF Next

LEMMA ClientStep ==
  ASSUME IInv, Next
  PROVE  ClientTypes' /\ AnswersOK'
<1>0. /\ ClientTypes /\ AnswersOK /\ listening \subseteq Numbers /\ loaded' \in {loaded, TRUE}
      /\ Len(Stack) \in Nat /\ DOMAIN Stack = 1 .. Len(Stack)
  BY Parts, LoadedStays, Constants DEF ServersOK
<1>1. ASSUME NEW c \in Clients, answer'[c] = answer[c], answer'[c].by # 0
      PROVE  Found(answer[c].by, answer[c].user)'
  <2>1. PICK i, u : i = answer[c].by /\ u = answer[c].user
    OBVIOUS
  <2>2. Found(i, u)
    BY <1>0, <1>1, <2>1 DEF AnswersOK
  <2>3. Found(i, u)'
    BY <1>0, <2>2, FoundStays
  <2> QED
    BY <1>1, <2>1, <2>3
<1>a. ASSUME UNCHANGED answer PROVE AnswersOK'
  BY <1>1, <1>a DEF AnswersOK
<1>2. CASE Task \/ Cancel \/ Load
  <2>1. UNCHANGED <<client, answer>>
    BY <1>2 DEF Task, Cancel, Load, Start, MetricsListen, MetricsFail, Listen, ListenFails, Created,
                Serve, CloseServers, CleanUp, CleanedUp, WaitClosed, StopMetrics, CloseAuth,
                clientVars
  <2> QED
    BY <1>0, <1>a, <2>1 DEF ClientTypes
<1>3. ASSUME NEW c \in Clients, Accept(c) \/ Leave(c)
      PROVE  ClientTypes' /\ AnswersOK'
  <2>1. UNCHANGED answer
    BY <1>3 DEF Accept, Leave
  <2>2. \E n \in {0} \cup Numbers : client' = [client EXCEPT ![c] = n]
    BY <1>0, <1>3 DEF Accept, Leave
  <2> QED
    BY <1>0, <1>a, <2>1, <2>2 DEF ClientTypes
<1>4. ASSUME NEW c \in Clients, NEW u \in Users, Lookup(c, u)
      PROVE  ClientTypes' /\ AnswersOK'
  <2> DEFINE who == IF Hits(u) = {} THEN 0 ELSE First(u)
  <2>1. /\ client' = client /\ loaded' = loaded
        /\ answer' = [answer EXCEPT ![c] = [user |-> u, by |-> who]]
    BY <1>4 DEF Lookup, First, authVars
  <2>2. who \in 0 .. Len(Stack)
    BY <1>0, FirstAnswers
  <2>3. ASSUME who # 0
        PROVE  Found(who, u)
    <3>1. Hits(u) # {} /\ who = First(u)
      BY <2>3
    <3>2. /\ who \in 1 .. Len(Stack)
          /\ Has(Stack[who], u) \/ Stack[who] \in Late
          /\ \A j \in DOMAIN Stack : Has(Stack[j], u) \/ Stack[j] \in Late => who <= j
      BY <3>1, FirstAnswers
    <3> HIDE DEF who
    <3>3. \A j \in 1 .. who - 1 : j \in DOMAIN Stack /\ ~(who <= j)
      BY <1>0, <3>2
    <3> QED
      BY <3>2, <3>3 DEF Found, Has
  <2> HIDE DEF who
  <2>4. ClientTypes'
    BY <1>0, <2>1, <2>2 DEF ClientTypes
  <2>5. ASSUME NEW d \in Clients, d # c PROVE answer'[d] = answer[d]
    BY <1>0, <2>1, <2>5 DEF ClientTypes
  <2>6. answer'[c].user = u /\ answer'[c].by = who
    BY <1>0, <2>1 DEF ClientTypes
  <2>7. ASSUME who # 0 PROVE Found(answer[c].by, answer[c].user)'
    <3>1. PICK i : i = who
      OBVIOUS
    <3>2. Found(i, u)'
      BY <2>1, <2>3, <2>7, <3>1, FoundStays
    <3> QED
      BY <2>6, <3>1, <3>2
  <2>8. AnswersOK'
    BY <1>1, <2>5, <2>6, <2>7 DEF AnswersOK
  <2> QED
    BY <2>4, <2>8
<1> QED
  BY <1>2, <1>3, <1>4 DEF Next

\* Whoever has answered for a user still has that user, so a later lookup comes no
\* further; and of those before it only the JSON store can have come to know.
LEMMA FoundByTheSame ==
  ASSUME IInv, NEW d \in Clients, NEW u \in Users, Lookup(d, u), stack # << >>,
         NEW c \in Clients
  PROVE  FoundAgain(c, d)
<1> SUFFICES ASSUME answer'[d].user = answer[c].user, answer[c].by # 0
             PROVE  \/ answer'[d].by = answer[c].by
                    \/ answer'[d].by \in 1 .. answer[c].by - 1 /\ Stack[answer'[d].by] = "json"
  BY DEF FoundAgain
<1> DEFINE i == answer[c].by
           who == IF Hits(u) = {} THEN 0 ELSE First(u)
<1>1. /\ ClientTypes /\ AnswersOK /\ stack = Stack
      /\ Len(Stack) \in Nat /\ DOMAIN Stack = 1 .. Len(Stack)
  BY Parts, Constants DEF ClosedOK
<1>2. answer' = [answer EXCEPT ![d] = [user |-> u, by |-> who]]
  BY DEF Lookup, First
<1>3. answer'[d].user = u /\ answer'[d].by = who
  BY <1>1, <1>2 DEF ClientTypes
<1>4. i \in 1 .. Len(Stack) /\ answer[c].user = u
  BY <1>1, <1>3 DEF ClientTypes
<1>5. Found(i, u)
  BY <1>1, <1>4 DEF AnswersOK
<1>6. i \in Hits(u)
  BY <1>1, <1>4, <1>5 DEF Found, Hits
<1>7. /\ who = First(u) /\ who \in 1 .. Len(Stack) /\ who <= i
      /\ Has(Stack[who], u) \/ Stack[who] \in Late
  <2>1. /\ First(u) \in 1 .. Len(Stack)
        /\ Has(Stack[First(u)], u) \/ Stack[First(u)] \in Late
        /\ \A j \in DOMAIN Stack : Has(Stack[j], u) \/ Stack[j] \in Late => First(u) <= j
    BY <1>6, FirstAnswers
  <2>2. i \in DOMAIN Stack /\ (Has(Stack[i], u) \/ Stack[i] \in Late)
    BY <1>1, <1>4, <1>5 DEF Found
  <2>3. who = First(u)
    BY <1>6
  <2> HIDE DEF who, i
  <2> QED
    BY <2>1, <2>2, <2>3
<1> HIDE DEF who, i
<1>8. CASE who = i
  BY <1>3, <1>8 DEF i
<1>9. CASE who # i
  <2>1. who \in 1 .. i - 1
    BY <1>4, <1>7, <1>9
  <2>2. Stack[who] = "json"
    BY <1>5, <1>7, <2>1 DEF Found, Has
  <2> QED
    BY <1>3, <2>1, <2>2 DEF i
<1> QED
  BY <1>8, <1>9
-----------------------------------------------------------------------------
(* The invariant *)

LEMMA Initial == Init => IInv
<1> SUFFICES ASSUME Init PROVE IInv
  OBVIOUS
<1>1. TaskTypes /\ AuthTypes
  <2>1. 0 \in 0 .. MaxCancels
    BY Constants
  <2> QED
    BY <2>1 DEF Init, TaskTypes, AuthTypes
<1>2. EndpointTypes /\ ServersOK /\ WatchersOK
  BY Constants DEF Init, EndpointTypes, ServersOK, WatchersOK, Starting, Running, Ending
<1>3. ClosedOK
  BY DEF Init, ClosedOK
<1>4. ClientTypes
  BY DEF Init, ClientTypes
<1>5. AnswersOK
  BY DEF Init, AnswersOK
<1> QED
  BY <1>1, <1>2, <1>3, <1>4, <1>5, TypeParts DEF IInv

LEMMA Inductive == IInv /\ [Next]_vars => IInv'
<1> SUFFICES ASSUME IInv, [Next]_vars PROVE IInv'
  OBVIOUS
<1>1. CASE Next
  <2>1. TypeOK'
    BY <1>1, TaskTypesStep, AuthStep, EndpointStep, ClientStep
       DEF TypeOK, TaskTypes, AuthTypes, EndpointTypes, ClientTypes
  <2> QED
    BY <1>1, <2>1, AuthStep, EndpointStep, ClientStep DEF IInv
<1>2. CASE UNCHANGED vars
  <2>1. UNCHANGED <<at, stack, finalizers, open, loaded, watched, collector, exporter, next, listening,
                    bound, servers, cleanups, started, client, answer, cancels>>
    BY <1>2 DEF vars, authVars, metricsVars, endpointVars, clientVars
  <2>2. TypeOK'
    BY <2>1 DEF IInv, TypeOK
  <2> QED
    BY <2>1, <2>2 DEF IInv, ServersOK, WatchersOK, ClosedOK, AnswersOK, Found, Has
<1> QED
  BY <1>1, <1>2

LEMMA Invariant == Spec => []IInv
BY Initial, Inductive, PTL DEF Spec

\* The types of the task, of what it holds and of its clients.
THEOREM TypeCorrect == Spec => []TypeOK
<1>1. IInv => TypeOK
  BY DEF IInv
<1> QED
  BY <1>1, Invariant, PTL

\* Whichever step of serve_forever (server.py 158-230) fails or is cancelled, its
\* end has closed what the list of servers names and every certificate's watcher;
\* and got through, the exporter, the collector and the database.
THEOREM EndReleases == Spec => []Released
<1>1. IInv => Released
  BY Parts DEF Released, ServersOK, WatchersOK, ClosedOK, TaskTypes, Ends, Ending, Starting, Running
<1> QED
  BY <1>1, Invariant, PTL

\* Multi.get_authkey (multi.py 38-43): whoever was found is found again until
\* authentication is closed, by the same authenticator or by the JSON store before
\* it, whose first load (json.py 41-72) may come at any time after clients were
\* accepted; and none that was closed is on the stack to be asked.
THEOREM FindsAgain == Spec => UsersAreFound
<1>1. IInv => \A i \in DOMAIN stack : stack[i] \in open
  <2> SUFFICES ASSUME IInv PROVE \A i \in DOMAIN stack : stack[i] \in open
    OBVIOUS
  <2>1. CASE at = "through"
    BY <2>1, Parts DEF ClosedOK
  <2>2. CASE at # "through"
    BY <2>2, Parts, Constants DEF ClosedOK
  <2> QED
    BY <2>1, <2>2
<1>2. IInv /\ [Next]_vars => [stack # << >> => \A c, d \in Clients : FoundAgain(c, d)]_vars
  <2> SUFFICES ASSUME IInv, Next, stack # << >>, NEW c \in Clients, NEW d \in Clients
               PROVE  FoundAgain(c, d)
    OBVIOUS
  <2>1. CASE answer'[d] = answer[d]
    BY <2>1 DEF FoundAgain
  <2>2. CASE answer'[d] # answer[d]
    <3>1. PICK u \in Users : Lookup(d, u)
      <4>1. CASE Task \/ Cancel \/ Load
        BY <2>2, <4>1 DEF Task, Cancel, Load, Start, MetricsListen, MetricsFail, Listen, ListenFails,
                Created, Serve, CloseServers, CleanUp, CleanedUp, WaitClosed, StopMetrics, CloseAuth,
                clientVars
      <4>2. ASSUME NEW e \in Clients, Accept(e) \/ Leave(e)
            PROVE  FALSE
        BY <2>2, <4>2 DEF Accept, Leave
      <4>3. ASSUME NEW e \in Clients, NEW u \in Users, Lookup(e, u)
            PROVE  Lookup(d, u)
        <5>1. e = d
          BY <2>2, <4>3, Parts DEF Lookup, ClientTypes
        <5> QED
          BY <4>3, <5>1
      <4> QED
        BY <4>1, <4>2, <4>3 DEF Next
    <3> QED
      BY <3>1, FoundByTheSame
  <2> QED
    BY <2>1, <2>2
<1> QED
  BY <1>1, <1>2, Invariant, PTL DEF Spec, UsersAreFound
=============================================================================
