---------------------------- MODULE TwistedProofs ----------------------------
(***************************************************************************)
(* Proofs about the Twisted client, for any channels and bounds: its types, *)
(* that no Deferred of whenConnected is fired twice, and that it           *)
(* implements Session.                                                     *)
(***************************************************************************)
EXTENDS TwistedClient, FiniteSetTheorems, SequenceTheorems, TLAPS

Members(s) == {s[i] : i \in DOMAIN s}

\* The messages in q are numbered in ascending order, after those in `given`, up
\* to `top`.
InOrder(q, given, top) ==
  /\ \A g \in given : g <= top
  /\ \A i \in DOMAIN q : q[i].op = "PUBLISH" => /\ q[i].n <= top
                                                /\ \A g \in given : g < q[i].n
  /\ \A i, j \in DOMAIN q : i < j /\ q[i].op = "PUBLISH" /\ q[j].op = "PUBLISH"
                              => q[i].n < q[j].n

\* There is a connection exactly in the states of the ClientService that have one.
StateOK ==
  /\ conn = "none" <=> state \in {"stopped", "connecting", "waiting"}
  /\ conn = "none" => ~protocol /\ batch = 0
  /\ protocol <=> whenConnected

\* Nothing was said on a connection whose INFO was not handled.
FreshOK ==
  conn # "none" /\ ~protocol =>
    /\ toBroker = << >> /\ toClient = <<[op |-> "INFO"]>>
    /\ ~authed /\ inForce = {}

\* A connection that is ready has been or will be authenticated and will serve the
\* subscriptions.
ServedOK ==
  IsReady => /\ MayFollow(authed, toBroker)
             /\ WillServe(authed, inForce, toBroker) = subscriptions

\* A connection hears no INFO again.
InfoOK == protocol => \A i \in DOMAIN toClient : toClient[i].op # "INFO"

\* Nobody waits for a message while there is one.
QueueOK == waiting = 0 \/ pending = << >>

Given == Members(got) \cup Members(pending)

\* What connectionReady relies on when it calls whenConnected.callback(None).
InfoFindsUnfired == Handling("INFO") => ~whenConnected

IInv == /\ TypeOK /\ IsFiniteSet(subscriptions)
        /\ StateOK /\ FreshOK /\ ServedOK /\ InfoOK /\ QueueOK
        /\ InOrder(toClient, Given, sent)

Numbers == 1 .. MaxSent

-----------------------------------------------------------------------------
(* Requests under way to the broker *)

\* A request is AUTH or about a channel, never both.
LEMMA RequestKinds ==
  /\ \A m \in Requests : m = Auth <=> m.op = "AUTH"
  /\ \A m \in Requests \ {Auth} :
       /\ m.chan \in Chans /\ m.op \in {"SUBSCRIBE", "UNSUBSCRIBE", "PUBLISH"}
       /\ m = Request(m.op, m.chan)
  /\ Auth \in Requests
  /\ \A ch \in Chans, op \in {"SUBSCRIBE", "UNSUBSCRIBE", "PUBLISH"} :
       /\ Request(op, ch) \in Requests /\ Request(op, ch) # Auth
       /\ Request(op, ch).op = op /\ Request(op, ch).chan = ch
BY DEF Requests, Request, Auth

\* Which requests of Append(q, m) are about channel c.
LEMMA AboutAppended ==
  ASSUME NEW q \in Seq(Requests), NEW m \in Requests, NEW c \in Chans
  PROVE  /\ About(Append(q, m), c) =
              IF m \in {Request("SUBSCRIBE", c), Request("UNSUBSCRIBE", c)}
              THEN About(q, c) \cup {Len(q) + 1} ELSE About(q, c)
         /\ About(q, c) \subseteq 1 .. Len(q)
<1> DEFINE r == Append(q, m)
<1>1. /\ Len(q) \in Nat /\ DOMAIN q = 1 .. Len(q)
      /\ r \in Seq(Requests) /\ DOMAIN r = 1 .. Len(q) + 1
      /\ \A i \in 1 .. Len(q) : r[i] = q[i]
      /\ r[Len(q) + 1] = m
  BY AppendProperties, LenProperties
<1> HIDE DEF r
<1>2. About(q, c) \subseteq 1 .. Len(q)
  BY <1>1 DEF About
<1>3. About(r, c) \ {Len(q) + 1} = About(q, c)
  BY <1>1 DEF About
<1>4. Len(q) + 1 \in About(r, c) <=> m \in {Request("SUBSCRIBE", c), Request("UNSUBSCRIBE", c)}
  BY <1>1 DEF About
<1> QED
  BY <1>1, <1>2, <1>3, <1>4 DEF r

\* One more request: what will be served is served, and then that request.
LEMMA AppendServes ==
  ASSUME NEW a \in BOOLEAN, NEW f, NEW q \in Seq(Requests), NEW m \in Requests, MayFollow(a, q)
  PROVE  /\ MayFollow(a, Append(q, m))
         /\ WillServe(a, f, Append(q, m)) = Serving(WillServe(a, f, q), m)
<1> DEFINE r == Append(q, m)
<1>1. /\ Len(q) \in Nat /\ DOMAIN q = 1 .. Len(q)
      /\ DOMAIN r = 1 .. Len(q) + 1
      /\ \A i \in 1 .. Len(q) : r[i] = q[i]
      /\ r[Len(q) + 1] = m
      /\ r # << >> /\ (q # << >> => Head(r) = Head(q))
  BY AppendProperties, LenProperties, HeadTailAppend
<1>2. MayFollow(a, r)
  BY <1>1 DEF MayFollow
<1> HIDE DEF r
<1>3. WillServe(a, f, r) \subseteq Chans /\ Serving(WillServe(a, f, q), m) \subseteq Chans
  BY RequestKinds DEF WillServe, Serving
<1>4. ASSUME NEW c \in Chans
      PROVE  c \in WillServe(a, f, r) <=> c \in Serving(WillServe(a, f, q), m)
  <2>1. CASE m \in {Request("SUBSCRIBE", c), Request("UNSUBSCRIBE", c)}
    <3>1. /\ About(r, c) = About(q, c) \cup {Len(q) + 1}
          /\ About(q, c) \subseteq 1 .. Len(q)
      BY <2>1, <1>1, AboutAppended DEF r
    <3>2. ASSUME NEW i \in About(r, c)
          PROVE  (\A j \in About(r, c) : j <= i) <=> i = Len(q) + 1
      <4>1. i \in 1 .. Len(q) + 1 /\ Len(q) + 1 \in About(r, c)
        BY <3>1, <1>1
      <4>2. \A j \in About(r, c) : j <= Len(q) + 1
        BY <3>1, <1>1
      <4> QED
        BY <4>1, <4>2, <1>1
    <3>3. c \in WillServe(a, f, r) <=> m.op = "SUBSCRIBE"
      BY <3>1, <3>2, <1>1, <1>2 DEF WillServe
    <3> QED
      BY <3>3, <2>1, RequestKinds DEF Serving
  <2>2. CASE m \notin {Request("SUBSCRIBE", c), Request("UNSUBSCRIBE", c)}
    <3>1. About(r, c) = About(q, c) /\ \A i \in About(q, c) : r[i] = q[i]
      BY <2>2, <1>1, AboutAppended DEF r
    <3>2. c \in WillServe(a, f, r) <=> c \in WillServe(a, f, q)
      BY <3>1, <1>2 DEF WillServe
    <3>3. ~(m.op \in {"SUBSCRIBE", "UNSUBSCRIBE"} /\ m.chan = c)
      BY <2>2, RequestKinds
    <3> QED
      BY <3>2, <3>3 DEF Serving
  <2> QED
    BY <2>1, <2>2
<1> QED
  BY <1>2, <1>3, <1>4 DEF r

\* The broker takes a request that it may take: what it will serve stays the same.
LEMMA TakeServes ==
  ASSUME NEW a \in BOOLEAN, NEW f, NEW q \in Seq(Requests), q # << >>, MayFollow(a, q)
  PROVE  LET m == Head(q) IN
         WillServe(a \/ m = Auth, IF a THEN Serving(f, m) ELSE f, Tail(q)) = WillServe(a, f, q)
<1> DEFINE m == Head(q)
           t == Tail(q)
           g == IF a THEN Serving(f, m) ELSE f
<1>1. /\ m \in Requests /\ Len(q) \in Nat \ {0} /\ DOMAIN q = 1 .. Len(q) /\ q[1] = m
      /\ DOMAIN t = 1 .. Len(q) - 1
      /\ \A i \in 1 .. Len(q) - 1 : t[i] = q[i + 1]
  BY HeadTailProperties, LenProperties, EmptySeq
<1> HIDE DEF t
<1>2. MayFollow(a \/ m = Auth, t)
  BY DEF MayFollow
<1>3. ASSUME NEW c \in Chans
      PROVE  c \in WillServe(a \/ m = Auth, g, t) <=> c \in WillServe(a, f, q)
  <2>1. /\ About(t, c) \subseteq 1 .. Len(q) - 1
        /\ \A i \in 1 .. Len(q) - 1 : i \in About(t, c) <=> i + 1 \in About(q, c)
        /\ About(q, c) \subseteq 1 .. Len(q)
        /\ 1 \in About(q, c) <=> m \in {Request("SUBSCRIBE", c), Request("UNSUBSCRIBE", c)}
    BY <1>1 DEF About
  <2>2. CASE About(t, c) # {}
    <3>1. About(q, c) # {}
      BY <2>1, <2>2
    <3>2. (\E i \in About(t, c) : (\A j \in About(t, c) : j <= i) /\ t[i].op = "SUBSCRIBE")
          <=> (\E i \in About(q, c) : (\A j \in About(q, c) : j <= i) /\ q[i].op = "SUBSCRIBE")
      <4>1. ASSUME NEW i \in About(t, c), \A j \in About(t, c) : j <= i, t[i].op = "SUBSCRIBE"
            PROVE  /\ i + 1 \in About(q, c) /\ q[i + 1].op = "SUBSCRIBE"
                   /\ \A j \in About(q, c) : j <= i + 1
        <5>1. i + 1 \in About(q, c) /\ q[i + 1].op = "SUBSCRIBE" /\ i \in 1 .. Len(q) - 1
          BY <4>1, <2>1, <1>1
        <5>2. ASSUME NEW j \in About(q, c) PROVE j <= i + 1
          <6>1. j = 1 \/ j - 1 \in About(t, c)
            BY <2>1, <1>1
          <6> QED
            BY <6>1, <4>1, <5>1, <2>1, <1>1
        <5> QED
          BY <5>1, <5>2
      <4>2. ASSUME NEW i \in About(q, c), \A j \in About(q, c) : j <= i, q[i].op = "SUBSCRIBE"
            PROVE  /\ i - 1 \in About(t, c) /\ t[i - 1].op = "SUBSCRIBE"
                   /\ \A j \in About(t, c) : j <= i - 1
        <5>1. PICK k \in About(t, c) : TRUE
          BY <2>2
        <5>2. i \in 2 .. Len(q)
          BY <5>1, <4>2, <2>1, <1>1
        <5> QED
          BY <5>2, <4>2, <2>1, <1>1
      <4> QED
        BY <4>1, <4>2
    <3> QED
      BY <3>1, <3>2, <2>2, <1>2 DEF WillServe
  <2>3. CASE About(t, c) = {}
    <3>1. ASSUME NEW j \in About(q, c), j # 1 PROVE FALSE
      <4>1. j - 1 \in 1 .. Len(q) - 1 /\ (j - 1) + 1 = j
        BY <3>1, <2>1, <1>1
      <4> QED
        BY <4>1, <2>1, <2>3
    <3>2. c \in WillServe(a \/ m = Auth, g, t) <=> c \in g
      BY <2>3, <1>2 DEF WillServe
    <3>3. CASE m \in {Request("SUBSCRIBE", c), Request("UNSUBSCRIBE", c)}
      <4>1. About(q, c) = {1} /\ a
        BY <3>1, <3>3, <2>1, RequestKinds DEF MayFollow
      <4>2. c \in WillServe(a, f, q) <=> m.op = "SUBSCRIBE"
        BY <4>1, <1>1 DEF WillServe
      <4>3. m.op \in {"SUBSCRIBE", "UNSUBSCRIBE"} /\ m.chan = c
        BY <3>3, RequestKinds
      <4>4. c \in Serving(f, m) <=> m.op = "SUBSCRIBE"
        BY <4>3 DEF Serving
      <4> QED
        BY <3>2, <4>1, <4>2, <4>4
    <3>4. CASE m \notin {Request("SUBSCRIBE", c), Request("UNSUBSCRIBE", c)}
      <4>1. About(q, c) = {}
        BY <3>1, <3>4, <2>1
      <4>2. c \in WillServe(a, f, q) <=> c \in f
        BY <4>1 DEF WillServe
      <4>3. ~(m.op \in {"SUBSCRIBE", "UNSUBSCRIBE"} /\ m.chan = c)
        BY <3>4, <1>1, RequestKinds
      <4> QED
        BY <3>2, <4>2, <4>3 DEF Serving
    <3> QED
      BY <3>3, <3>4
  <2> QED
    BY <2>2, <2>3
<1> QED
  BY <1>3 DEF WillServe, t

\* An order of a finite set names each member once.
LEMMA OrdersOnce ==
  ASSUME NEW S, IsFiniteSet(S), NEW order \in Orders(S)
  PROVE  /\ Cardinality(S) \in Nat /\ order \in [1 .. Cardinality(S) -> S]
         /\ \A x \in S : \E i \in 1 .. Cardinality(S) : order[i] = x
         /\ \A i, j \in 1 .. Cardinality(S) : order[i] = order[j] => i = j
<1> DEFINE n == Cardinality(S)
<1>1. n \in Nat
  BY FS_CardinalityType
<1>2. order \in [1 .. n -> S] /\ \A x \in S : \E i \in 1 .. n : order[i] = x
  BY DEF Orders
<1>3. order \in Surjection(1 .. n, S)
  BY <1>2 DEF Surjection
<1>4. IsFiniteSet(1 .. n) /\ Cardinality(1 .. n) = n
  BY <1>1, FS_Interval
<1>5. order \in Injection(1 .. n, S)
  BY <1>3, <1>4, FS_SurjSameCardinalityImpliesInj
<1> QED
  BY <1>1, <1>2, <1>5 DEF Injection, IsInjective

\* A connection that becomes ready will be served all that was subscribed to.
LEMMA ReadyServes ==
  ASSUME NEW S \in SUBSET Chans, IsFiniteSet(S), NEW order \in Orders(S)
  PROVE  LET q == <<Auth>> \o Resubscribed(order) IN
         /\ Resubscribed(order) \in Seq(Requests) /\ q \in Seq(Requests) /\ MayFollow(FALSE, q)
         /\ WillServe(FALSE, {}, q) = S
<1> DEFINE n == Cardinality(S)
           p == Resubscribed(order)
           q == <<Auth>> \o p
<1>1. /\ n \in Nat /\ order \in [1 .. n -> S]
      /\ \A x \in S : \E i \in 1 .. n : order[i] = x
      /\ \A i, j \in 1 .. n : order[i] = order[j] => i = j
  BY OrdersOnce
<1>2. /\ p \in Seq(Requests) /\ Len(p) = n
      /\ \A i \in 1 .. n : p[i] = Request("SUBSCRIBE", order[i])
  BY <1>1, RequestKinds DEF Resubscribed
<1>3. <<Auth>> \in Seq(Requests) /\ Len(<<Auth>>) = 1
  BY RequestKinds
<1> HIDE DEF p
<1>4. /\ q \in Seq(Requests) /\ Len(q) = n + 1 /\ DOMAIN q = 1 .. n + 1
      /\ q[1] = Auth
      /\ \A i \in 1 .. n : q[i + 1] = Request("SUBSCRIBE", order[i])
  BY <1>1, <1>2, <1>3, ConcatProperties, LenProperties
<1> HIDE DEF q
<1>5. q # << >> /\ Head(q) = Auth
  BY <1>1, <1>4
<1>6. ASSUME NEW c \in Chans
      PROVE  c \in WillServe(FALSE, {}, q) <=> c \in S
  <2>1. /\ About(q, c) \subseteq 1 .. n + 1 /\ 1 \notin About(q, c)
        /\ \A i \in 1 .. n : i + 1 \in About(q, c) <=> order[i] = c
    <3>1. \A i \in 1 .. n : Request("SUBSCRIBE", order[i])
                              \in {Request("SUBSCRIBE", c), Request("UNSUBSCRIBE", c)} <=> order[i] = c
      BY <1>1, RequestKinds
    <3> QED
      BY <3>1, <1>1, <1>4, RequestKinds DEF About
  <2>2. CASE c \in S
    <3>1. PICK i \in 1 .. n : order[i] = c
      BY <2>2, <1>1
    <3>2. ASSUME NEW j \in About(q, c) PROVE j = i + 1
      <4>1. j - 1 \in 1 .. n /\ order[j - 1] = c
        BY <2>1, <1>1
      <4> QED
        BY <4>1, <3>1, <2>1, <1>1
    <3>3. About(q, c) = {i + 1} /\ q[i + 1].op = "SUBSCRIBE"
      BY <3>1, <3>2, <2>1, <1>4, <2>2, RequestKinds
    <3> QED
      BY <3>3, <2>2, <1>5, <1>1 DEF WillServe, MayFollow
  <2>3. CASE c \notin S
    <3>1. ASSUME NEW j \in About(q, c) PROVE FALSE
      <4>1. j - 1 \in 1 .. n /\ order[j - 1] = c
        BY <2>1, <1>1
      <4> QED
        BY <4>1, <2>3, <1>1
    <3> QED
      BY <3>1, <2>3 DEF WillServe
  <2> QED
    BY <2>2, <2>3
<1>7. WillServe(FALSE, {}, q) = S
  BY <1>6 DEF WillServe
<1> QED
  BY <1>2, <1>4, <1>5, <1>7 DEF MayFollow, q, p

\* The requests of q are proper, for a broker that has seen AUTH or not and serves
\* f; after them it serves s.  v[i] is what it serves after i of them.
Course(v, a, f, q, s) ==
  /\ v[0] = f /\ v[Len(q)] = s
  /\ \A i \in 1 .. Len(q) : /\ Proper(a \/ i > 1, v[i - 1], q[i])
                            /\ v[i] = Serving(v[i - 1], q[i])

AllProper(a, f, q, s) == \E v \in [Nat -> SUBSET Chans] : Course(v, a, f, q, s)

LEMMA ServingType ==
  ASSUME NEW f \in SUBSET Chans, NEW m \in Requests
  PROVE  Serving(f, m) \in SUBSET Chans
BY RequestKinds DEF Serving

\* One more proper request.
LEMMA ProperAppend ==
  ASSUME NEW a \in BOOLEAN, NEW f, NEW s, NEW q \in Seq(Requests), NEW m \in Requests,
         AllProper(a, f, q, s), Proper(a \/ q # << >>, s, m)
  PROVE  AllProper(a, f, Append(q, m), Serving(s, m))
<1> DEFINE r == Append(q, m)
           n == Len(q)
<1>1. /\ n \in Nat /\ r \in Seq(Requests) /\ Len(r) = n + 1
      /\ \A i \in 1 .. n : r[i] = q[i]
      /\ r[n + 1] = m /\ (q # << >> <=> n > 0)
  BY AppendProperties, LenProperties, EmptySeq
<1>2. PICK v \in [Nat -> SUBSET Chans] : Course(v, a, f, q, s)
  BY DEF AllProper
<1> DEFINE u == [v EXCEPT ![n + 1] = Serving(s, m)]
<1> HIDE DEF r
<1>3. v[0] = f /\ v[n] = s
  BY <1>2 DEF Course
<1>4. \A i \in 1 .. n : Proper(a \/ i > 1, v[i - 1], q[i]) /\ v[i] = Serving(v[i - 1], q[i])
  BY <1>2 DEF Course
<1> HIDE DEF n
<1>5. s \in SUBSET Chans /\ Serving(s, m) \in SUBSET Chans
  BY <1>1, <1>2, <1>3, ServingType
<1>6. /\ u \in [Nat -> SUBSET Chans]
      /\ \A i \in Nat : i # n + 1 => u[i] = v[i]
      /\ u[n + 1] = Serving(s, m)
  BY <1>1, <1>2, <1>5
<1> HIDE DEF u
<1>7. u[0] = f /\ u[n] = s /\ u[Len(r)] = Serving(s, m)
  BY <1>1, <1>3, <1>6
<1>8. ASSUME NEW i \in 1 .. Len(r)
      PROVE  Proper(a \/ i > 1, u[i - 1], r[i]) /\ u[i] = Serving(u[i - 1], r[i])
  <2>1. CASE i = n + 1
    <3>1. u[i - 1] = s /\ r[i] = m /\ u[i] = Serving(s, m)
      BY <1>1, <1>6, <1>7, <2>1
    <3>2. i > 1 <=> q # << >>
      BY <1>1, <2>1
    <3> QED
      BY <3>1, <3>2
  <2>2. CASE i # n + 1
    <3>1. i \in 1 .. n /\ i - 1 \in Nat /\ i \in Nat /\ i - 1 # n + 1
      BY <1>1, <2>2
    <3>2. u[i - 1] = v[i - 1] /\ u[i] = v[i] /\ r[i] = q[i]
      BY <1>1, <1>6, <2>2, <3>1
    <3> QED
      BY <1>4, <3>1, <3>2
  <2> QED
    BY <2>1, <2>2
<1>9. Course(u, a, f, r, Serving(s, m))
  BY <1>7, <1>8 DEF Course
<1> QED
  BY <1>6, <1>9 DEF AllProper, r

\* The broker takes the first of them.
LEMMA ProperTake ==
  ASSUME NEW a \in BOOLEAN, NEW f, NEW s, NEW q \in Seq(Requests), q # << >>,
         AllProper(a, f, q, s)
  PROVE  /\ Proper(a, f, Head(q)) /\ (a \/ Head(q) = Auth)
         /\ AllProper(TRUE, IF a THEN Serving(f, Head(q)) ELSE f, Tail(q), s)
<1> DEFINE m == Head(q)
           t == Tail(q)
<1>1. /\ m \in Requests /\ Len(q) \in Nat \ {0} /\ q[1] = m
      /\ Len(t) = Len(q) - 1
      /\ \A i \in 1 .. Len(q) - 1 : t[i] = q[i + 1]
  BY HeadTailProperties, LenProperties, EmptySeq
<1> HIDE DEF m, t
<1>2. PICK v \in [Nat -> SUBSET Chans] : Course(v, a, f, q, s)
  BY DEF AllProper
<1>3. v[0] = f /\ v[Len(q)] = s
  BY <1>2 DEF Course
<1>4. \A i \in 1 .. Len(q) : Proper(a \/ i > 1, v[i - 1], q[i]) /\ v[i] = Serving(v[i - 1], q[i])
  BY <1>2 DEF Course
<1>5. Proper(a, f, m) /\ v[1] = Serving(f, m)
  <2>1. 1 \in 1 .. Len(q) /\ 1 - 1 = 0 /\ ~(1 > 1)
    BY <1>1
  <2> QED
    BY <1>1, <1>3, <1>4, <2>1
<1>6. a \/ m = Auth
  BY <1>5 DEF Proper
<1>7. v[1] = IF a THEN Serving(f, m) ELSE f
  <2>1. CASE a
    BY <1>5, <2>1
  <2>2. CASE ~a
    <3>1. Serving(f, Auth) = f
      BY DEF Serving, Auth
    <3> QED
      BY <1>5, <1>6, <2>2, <3>1
  <2> QED
    BY <2>1, <2>2
<1>8. \E u \in [Nat -> SUBSET Chans] : \A i \in Nat : u[i] = v[i + 1]
  <2>1. [i \in Nat |-> v[i + 1]] \in [Nat -> SUBSET Chans]
    BY <1>2
  <2> QED
    BY <2>1
<1>9. PICK u \in [Nat -> SUBSET Chans] : \A i \in Nat : u[i] = v[i + 1]
  BY <1>8
<1>10. u[0] = v[1] /\ u[Len(t)] = s
  <2>1. Len(t) \in Nat /\ Len(t) + 1 = Len(q)
    BY <1>1
  <2> QED
    BY <1>3, <1>9, <2>1
<1>11. ASSUME NEW i \in 1 .. Len(t)
       PROVE  Proper(TRUE \/ i > 1, u[i - 1], t[i]) /\ u[i] = Serving(u[i - 1], t[i])
  <2>1. /\ i + 1 \in 1 .. Len(q) /\ (i + 1) - 1 = i /\ i + 1 > 1 /\ i \in Nat
        /\ i - 1 \in Nat /\ (i - 1) + 1 = i /\ i \in 1 .. Len(q) - 1
    BY <1>1
  <2>2. u[i - 1] = v[i] /\ u[i] = v[i + 1] /\ t[i] = q[i + 1]
    BY <1>1, <1>9, <2>1
  <2>3. /\ Proper(a \/ i + 1 > 1, v[(i + 1) - 1], q[i + 1])
        /\ v[i + 1] = Serving(v[(i + 1) - 1], q[i + 1])
    BY <1>4, <2>1
  <2>4. (a \/ i + 1 > 1) <=> (TRUE \/ i > 1)
    BY <2>1
  <2> QED
    BY <2>1, <2>2, <2>3, <2>4 DEF Proper
<1>12. Course(u, TRUE, v[1], t, s)
  BY <1>10, <1>11 DEF Course
<1>13. AllProper(TRUE, v[1], t, s)
  BY <1>12 DEF AllProper
<1> QED
  BY <1>5, <1>6, <1>7, <1>13 DEF m, t

\* What a connection says when it becomes ready.
LEMMA ReadyProper ==
  ASSUME NEW S \in SUBSET Chans, IsFiniteSet(S), NEW order \in Orders(S)
  PROVE  AllProper(FALSE, {}, <<Auth>> \o Resubscribed(order), S)
<1> DEFINE n == Cardinality(S)
           p == Resubscribed(order)
           q == <<Auth>> \o p
<1>1. /\ n \in Nat /\ order \in [1 .. n -> S]
      /\ \A x \in S : \E i \in 1 .. n : order[i] = x
      /\ \A i, j \in 1 .. n : order[i] = order[j] => i = j
  BY OrdersOnce
<1>2. /\ p \in Seq(Requests) /\ Len(p) = n
      /\ \A i \in 1 .. n : p[i] = Request("SUBSCRIBE", order[i])
  BY <1>1, RequestKinds DEF Resubscribed
<1>3. <<Auth>> \in Seq(Requests) /\ Len(<<Auth>>) = 1
  BY RequestKinds
<1> HIDE DEF p
<1>4. /\ Len(q) = n + 1 /\ q[1] = Auth
      /\ \A i \in 1 .. n : q[i + 1] = Request("SUBSCRIBE", order[i])
  BY <1>1, <1>2, <1>3, ConcatProperties, LenProperties
<1> HIDE DEF q
<1> DEFINE u == [i \in Nat |-> {order[j] : j \in {k \in 1 .. n : k < i}}]
<1> HIDE DEF n
<1>5. u \in [Nat -> SUBSET Chans]
  BY <1>1
<1>6. u[0] = {} /\ u[1] = {} /\ u[n + 1] = S
  <2>1. \A k \in 1 .. n : ~(k < 0) /\ ~(k < 1) /\ k < n + 1
    BY <1>1
  <2>2. 0 \in Nat /\ 1 \in Nat /\ n + 1 \in Nat
    BY <1>1
  <2> QED
    BY <1>1, <2>1, <2>2
<1>7. ASSUME NEW i \in 1 .. n + 1
      PROVE  Proper(FALSE \/ i > 1, u[i - 1], q[i]) /\ u[i] = Serving(u[i - 1], q[i])
  <2>1. CASE i = 1
    <3>1. Serving({}, Auth) = {}
      BY DEF Serving, Auth
    <3>2. Proper(FALSE, {}, Auth)
      BY DEF Proper, Auth
    <3>3. i - 1 = 0 /\ ~(i > 1)
      BY <2>1
    <3> HIDE DEF u
    <3> QED
      BY <1>4, <1>6, <2>1, <3>1, <3>2, <3>3
  <2>2. CASE i # 1
    <3> DEFINE k == i - 1
    <3>1. k \in 1 .. n /\ k + 1 = i /\ i > 1 /\ k \in Nat /\ i \in Nat
      BY <1>1, <2>2
    <3>2. q[i] = Request("SUBSCRIBE", order[k]) /\ order[k] \in Chans
      BY <1>1, <1>4, <3>1
    <3>3. order[k] \notin u[k]
      BY <1>1, <3>1
    <3>4. u[i] = u[k] \cup {order[k]}
      <4>1. \A j \in 1 .. n : j < i <=> j < k \/ j = k
        BY <3>1
      <4> QED
        BY <3>1, <4>1
    <3> HIDE DEF u
    <3>5. q[i] # Auth /\ q[i].op = "SUBSCRIBE" /\ q[i].chan = order[k]
      BY <3>2, RequestKinds
    <3> QED
      BY <3>1, <3>3, <3>4, <3>5 DEF Proper, Serving
  <2> QED
    BY <2>1, <2>2
<1> HIDE DEF u
<1>8. Course(u, FALSE, {}, q, S)
  BY <1>4, <1>6, <1>7 DEF Course
<1> QED
  BY <1>5, <1>8 DEF AllProper, q, p

-----------------------------------------------------------------------------
(* Numbered messages on their way from the broker *)

\* A reply that is no message.
LEMMA InOrderReply ==
  ASSUME NEW R, NEW q \in Seq(R), NEW r \in R, NEW given, NEW top,
         r.op # "PUBLISH", InOrder(q, given, top)
  PROVE  InOrder(Append(q, r), given, top)
<1> DEFINE p == Append(q, r)
<1>1. /\ Len(q) \in Nat /\ DOMAIN q = 1 .. Len(q) /\ DOMAIN p = 1 .. Len(q) + 1
      /\ \A i \in 1 .. Len(q) : p[i] = q[i]
      /\ p[Len(q) + 1].op # "PUBLISH"
  BY AppendProperties, LenProperties
<1>2. \A i \in DOMAIN p : p[i].op = "PUBLISH" => i \in DOMAIN q /\ p[i] = q[i]
  BY <1>1
<1> HIDE DEF p
<1> QED
  BY <1>2 DEF InOrder, p

\* The next message.
LEMMA InOrderPublish ==
  ASSUME NEW R, NEW q \in Seq(R), NEW r \in R, NEW given \in SUBSET Nat, NEW top \in Nat,
         \A i \in DOMAIN q : q[i].op = "PUBLISH" => q[i].n \in Nat,
         r.op = "PUBLISH", r.n = top + 1, InOrder(q, given, top)
  PROVE  InOrder(Append(q, r), given, top + 1)
<1> DEFINE p == Append(q, r)
<1>1. /\ Len(q) \in Nat /\ DOMAIN q = 1 .. Len(q) /\ DOMAIN p = 1 .. Len(q) + 1
      /\ \A i \in 1 .. Len(q) : p[i] = q[i]
      /\ p[Len(q) + 1] = r
  BY AppendProperties, LenProperties
<1> HIDE DEF p
<1>2. \A i \in DOMAIN p : (i \in DOMAIN q /\ p[i] = q[i]) \/ (i = Len(q) + 1 /\ p[i] = r)
  BY <1>1
<1>3. ASSUME NEW g \in given PROVE g <= top + 1 /\ g < r.n
  <2>1. g \in Nat /\ g <= top
    BY DEF InOrder
  <2> QED
    BY <2>1
<1>4. ASSUME NEW i \in DOMAIN p, p[i].op = "PUBLISH"
      PROVE  p[i].n <= top + 1 /\ \A g \in given : g < p[i].n
  BY <1>2, <1>3, <1>4 DEF InOrder
<1>5. ASSUME NEW i \in DOMAIN p, NEW j \in DOMAIN p, i < j,
             p[i].op = "PUBLISH", p[j].op = "PUBLISH"
      PROVE  p[i].n < p[j].n
  <2>1. i \in DOMAIN q /\ p[i] = q[i]
    BY <1>1, <1>5
  <2>2. CASE j \in DOMAIN q /\ p[j] = q[j]
    BY <2>1, <2>2, <1>5 DEF InOrder
  <2>3. CASE j = Len(q) + 1 /\ p[j] = r
    BY <2>1, <2>3, <1>5 DEF InOrder
  <2> QED
    BY <2>2, <2>3, <1>2
<1> QED
  BY <1>3, <1>4, <1>5 DEF InOrder, p

\* The first reply is handled; if it is a message, it is given.
LEMMA InOrderTail ==
  ASSUME NEW R, NEW q \in Seq(R), q # << >>, NEW given, NEW top, InOrder(q, given, top)
  PROVE  /\ InOrder(Tail(q), given, top)
         /\ Head(q).op = "PUBLISH" =>
              /\ \A g \in given : g < Head(q).n
              /\ InOrder(Tail(q), given \cup {Head(q).n}, top)
<1> DEFINE p == Tail(q)
<1>1. /\ Len(q) \in Nat \ {0} /\ DOMAIN q = 1 .. Len(q) /\ DOMAIN p = 1 .. Len(q) - 1
      /\ \A i \in 1 .. Len(q) - 1 : p[i] = q[i + 1]
      /\ Head(q) = q[1]
  BY HeadTailProperties, LenProperties, EmptySeq
<1> HIDE DEF p
<1>2. \A i \in DOMAIN p : i + 1 \in DOMAIN q /\ p[i] = q[i + 1] /\ 1 < i + 1
  BY <1>1
<1>3. 1 \in DOMAIN q
  BY <1>1
<1>4. \A i, j \in DOMAIN p : i < j => i + 1 < j + 1
  BY <1>1
<1>5. InOrder(p, given, top)
  BY <1>2, <1>4 DEF InOrder
<1>6. ASSUME Head(q).op = "PUBLISH"
      PROVE  (\A g \in given : g < Head(q).n) /\ InOrder(p, given \cup {Head(q).n}, top)
  <2>1. /\ \A g \in given : g < Head(q).n
        /\ \A g \in given \cup {Head(q).n} : g <= top
    BY <1>1, <1>3, <1>6 DEF InOrder
  <2>2. \A i \in DOMAIN p : p[i].op = "PUBLISH" => Head(q).n < p[i].n
    BY <1>1, <1>2, <1>3, <1>6 DEF InOrder
  <2> QED
    BY <2>1, <2>2, <1>5 DEF InOrder
<1> QED
  BY <1>5, <1>6 DEF p

\* Members of a sequence that grows at the end, or shrinks at the front.
LEMMA MembersAppend ==
  ASSUME NEW R, NEW q \in Seq(R), NEW r \in R
  PROVE  Members(Append(q, r)) = Members(q) \cup {r} /\ Members(q) \subseteq R
<1>1. /\ Len(q) \in Nat /\ DOMAIN q = 1 .. Len(q) /\ DOMAIN Append(q, r) = 1 .. Len(q) + 1
      /\ \A i \in 1 .. Len(q) : Append(q, r)[i] = q[i] /\ q[i] \in R
      /\ Append(q, r)[Len(q) + 1] = r
  BY AppendProperties, LenProperties, ElementOfSeq
<1>2. \A i \in 1 .. Len(q) + 1 : i \in 1 .. Len(q) \/ i = Len(q) + 1
  BY <1>1
<1> QED
  BY <1>1, <1>2 DEF Members

LEMMA MembersTail ==
  ASSUME NEW R, NEW q \in Seq(R), q # << >>
  PROVE  Members(q) = Members(Tail(q)) \cup {Head(q)}
<1>1. /\ Len(q) \in Nat \ {0} /\ DOMAIN q = 1 .. Len(q)
      /\ DOMAIN Tail(q) = 1 .. Len(q) - 1
      /\ \A i \in 1 .. Len(q) - 1 : Tail(q)[i] = q[i + 1]
      /\ Head(q) = q[1]
  BY HeadTailProperties, LenProperties, EmptySeq
<1>2. \A i \in 1 .. Len(q) : i = 1 \/ (i - 1 \in 1 .. Len(q) - 1 /\ (i - 1) + 1 = i)
  BY <1>1
<1>3. 1 \in DOMAIN q /\ \A i \in 1 .. Len(q) - 1 : i + 1 \in DOMAIN q
  BY <1>1
<1>4. Members(q) \subseteq Members(Tail(q)) \cup {Head(q)}
  <2>1. ASSUME NEW i \in 1 .. Len(q) PROVE q[i] \in Members(Tail(q)) \cup {Head(q)}
    <3>1. CASE i = 1
      BY <3>1, <1>1
    <3>2. CASE i - 1 \in DOMAIN Tail(q) /\ Tail(q)[i - 1] = q[i]
      BY <3>2 DEF Members
    <3> QED
      BY <3>1, <3>2, <1>1, <1>2
  <2> QED
    BY <2>1, <1>1 DEF Members
<1>5. Members(Tail(q)) \cup {Head(q)} \subseteq Members(q)
  BY <1>1, <1>3 DEF Members
<1> QED
  BY <1>4, <1>5

-----------------------------------------------------------------------------
(* Building blocks *)

LEMMA Bounds == MaxConns \in Nat /\ MaxCalls \in Nat /\ MaxSent \in Nat /\ MaxReaders \in Nat
BY BoundsAssumption

\* The parts of IInv, and of the types, that most steps use.
LEMMA Parts ==
  ASSUME IInv
  PROVE  /\ StateOK /\ FreshOK /\ ServedOK /\ InfoOK /\ QueueOK /\ IsFiniteSet(subscriptions)
         /\ InOrder(toClient, Given, sent)
         /\ toBroker \in Seq(Requests) /\ toClient \in Seq(Replies)
         /\ Len(toClient) \in Nat /\ batch \in 0 .. Len(toClient)
         /\ pending \in Seq(Numbers) /\ got \in Seq(Numbers)
         /\ subscriptions \subseteq Chans /\ inForce \subseteq Chans
         /\ authed \in BOOLEAN /\ protocol \in BOOLEAN /\ whenConnected \in BOOLEAN
         /\ sent \in Nat
<1>1. toClient \in Seq(Replies) /\ sent \in 0 .. MaxSent
  BY DEF IInv, TypeOK
<1>2. Len(toClient) \in Nat /\ sent \in Nat
  BY <1>1, Bounds, LenProperties
<1> QED
  BY <1>2 DEF IInv, TypeOK, Numbers

LEMMA ReplyKinds ==
  /\ \A op \in {"INFO", "ERROR", "UNEXPECTED", "UNDECODABLE"} :
       [op |-> op] \in Replies /\ [op |-> op].op = op
  /\ \A n \in Numbers : /\ [op |-> "PUBLISH", n |-> n] \in Replies
                        /\ [op |-> "PUBLISH", n |-> n].op = "PUBLISH"
                        /\ [op |-> "PUBLISH", n |-> n].n = n
  /\ \A r \in Replies : r.op = "PUBLISH" => r.n \in Numbers
BY DEF Replies, Numbers

\* The last reply is one more.
LEMMA Replied ==
  ASSUME IInv, NEW r \in Replies, toClient' = Append(toClient, r)
  PROVE  /\ toClient' \in Seq(Replies) /\ Len(toClient') = Len(toClient) + 1
         /\ r.op # "INFO" /\ (\A i \in DOMAIN toClient : toClient[i].op # "INFO")
              => \A i \in DOMAIN toClient' : toClient'[i].op # "INFO"
<1>1. toClient \in Seq(Replies)
  BY Parts
<1>2. /\ toClient' \in Seq(Replies) /\ Len(toClient) \in Nat /\ Len(toClient') = Len(toClient) + 1
      /\ DOMAIN toClient = 1 .. Len(toClient) /\ DOMAIN toClient' = 1 .. Len(toClient) + 1
      /\ \A i \in 1 .. Len(toClient) : toClient'[i] = toClient[i]
      /\ toClient'[Len(toClient) + 1] = r
  BY <1>1, AppendProperties, LenProperties
<1> QED
  BY <1>2

\* The first reply of a batch.
LEMMA FirstReply ==
  ASSUME IInv, batch > 0
  PROVE  /\ toClient # << >> /\ Head(toClient) \in Replies /\ conn # "none"
         /\ Tail(toClient) \in Seq(Replies) /\ Len(Tail(toClient)) = Len(toClient) - 1
         /\ batch - 1 \in 0 .. Len(toClient) - 1
         /\ protocol => /\ Head(toClient).op # "INFO"
                        /\ \A i \in DOMAIN Tail(toClient) : Tail(toClient)[i].op # "INFO"
         /\ ~protocol => /\ Head(toClient).op = "INFO" /\ Tail(toClient) = << >>
                         /\ toBroker = << >> /\ authed = FALSE /\ inForce = {}
<1>1. /\ toClient \in Seq(Replies) /\ Len(toClient) \in Nat /\ batch \in 0 .. Len(toClient)
      /\ StateOK /\ FreshOK /\ InfoOK /\ authed \in BOOLEAN
  BY Parts
<1>2. toClient # << >> /\ conn # "none"
  BY <1>1 DEF StateOK
<1>3. /\ Tail(toClient) \in Seq(Replies) /\ Head(toClient) \in Replies
      /\ DOMAIN toClient = 1 .. Len(toClient)
      /\ Len(Tail(toClient)) = Len(toClient) - 1
      /\ DOMAIN Tail(toClient) = 1 .. Len(toClient) - 1
      /\ \A i \in 1 .. Len(toClient) - 1 : Tail(toClient)[i] = toClient[i + 1]
      /\ Head(toClient) = toClient[1]
  BY <1>1, <1>2, HeadTailProperties, LenProperties
<1>4. 1 \in DOMAIN toClient /\ \A i \in DOMAIN Tail(toClient) : i + 1 \in DOMAIN toClient
  BY <1>1, <1>2, <1>3
<1>5. batch - 1 \in 0 .. Len(toClient) - 1
  BY <1>1
<1>6. protocol => /\ Head(toClient).op # "INFO"
                  /\ \A i \in DOMAIN Tail(toClient) : Tail(toClient)[i].op # "INFO"
  BY <1>1, <1>3, <1>4 DEF InfoOK
<1>7. ~protocol => /\ Head(toClient).op = "INFO" /\ Tail(toClient) = << >>
                   /\ toBroker = << >> /\ authed = FALSE /\ inForce = {}
  <2> SUFFICES ASSUME ~protocol
               PROVE  /\ Head(toClient).op = "INFO" /\ Tail(toClient) = << >>
                      /\ toBroker = << >> /\ authed = FALSE /\ inForce = {}
    OBVIOUS
  <2>1. toClient = <<[op |-> "INFO"]>> /\ toBroker = << >> /\ authed = FALSE /\ inForce = {}
    BY <1>1, <1>2 DEF FreshOK
  <2>2. Len(toClient) = 1 /\ toClient[1].op = "INFO"
    BY <2>1
  <2>3. Len(Tail(toClient)) = 0
    BY <1>3, <2>2
  <2>4. Tail(toClient) = << >>
    BY <1>3, <2>3, EmptySeq
  <2> QED
    BY <1>3, <2>1, <2>2, <2>4
<1> QED
  BY <1>2, <1>3, <1>5, <1>6, <1>7

\* The broker has heard of a connection, or says more than INFO: INFO was handled.
LEMMA Heard ==
  ASSUME IInv, conn # "none", authed \/ toBroker # << >> \/ inForce # {}
  PROVE  protocol
BY Parts DEF FreshOK

\* Where INFO is handled nothing was said before.
LEMMA InfoFirst ==
  ASSUME IInv, Handling("INFO")
  PROVE  ~protocol /\ ~whenConnected
BY Parts, FirstReply DEF Handling, StateOK

LEMMA OthersLater ==
  ASSUME IInv, batch > 0, Head(toClient).op # "INFO"
  PROVE  protocol
BY Parts, FirstReply

-----------------------------------------------------------------------------
(* Types *)

ServiceOK ==
  /\ state \in {"stopped", "connecting", "waiting", "connected", "disconnecting", "restarting"}
  /\ protocol \in BOOLEAN /\ whenConnected \in BOOLEAN
  /\ waiter \in {"none", "added", "orphan", "called"}
  /\ conn \in {"none", "open", "losing", "broken", "ended"}
  /\ fired \in BOOLEAN

ReadersOK ==
  pending \in Seq(Numbers) /\ got \in Seq(Numbers) /\ waiting \in 0 .. MaxReaders

WireOK ==
  /\ toBroker \in Seq(Requests)
  /\ authed \in BOOLEAN /\ inForce \in SUBSET Chans

BatchOK == toClient \in Seq(Replies) /\ batch \in 0 .. Len(toClient)

CountersOK == /\ subscriptions \in SUBSET Chans /\ IsFiniteSet(subscriptions)
              /\ made \in 0 .. MaxConns /\ calls \in 0 .. MaxCalls /\ sent \in 0 .. MaxSent

LEMMA TypeParts ==
  TypeOK /\ IsFiniteSet(subscriptions)
    <=> ServiceOK /\ ReadersOK /\ WireOK /\ BatchOK /\ CountersOK
BY DEF TypeOK, ServiceOK, ReadersOK, WireOK, BatchOK, CountersOK, Numbers

\* The kinds of steps.
LEMMA Kinds ==
  ASSUME Next
  PROVE  \/ Connected \/ ConnectFails \/ Retry
         \/ DataReceived \/ OnInfo \/ OnPublish \/ OnUnexpected \/ Undecodable
         \/ Raises \/ ConnectionLost
         \/ StartService \/ StopService \/ Read \/ Await
         \/ (\E ch \in Chans : Subscribe(ch) \/ Unsubscribe(ch) \/ Publish(ch))
         \/ BrokerTakes \/ BrokerPublishes \/ BrokerMisspeaks \/ Break
BY DEF Next, Reactor, Calls, Broker

\* A connection goes with everything on it.
LEMMA Gone ==
  ASSUME Raises \/ ConnectionLost
  PROVE  /\ Goes
         /\ protocol' = FALSE /\ whenConnected' = FALSE
         /\ conn' = "none" /\ batch' = 0 /\ fired' = FALSE
         /\ toBroker' = << >> /\ toClient' = << >>
         /\ state' \in {"waiting", "stopped", "connecting"}
         /\ waiter' \in {waiter, "orphan"}
         /\ UNCHANGED <<subscriptions, pending, waiting, got, authed, inForce, made, calls, sent>>
BY DEF Raises, ConnectionLost, Goes, Lost, queueVars, brokerVars, counters

\* A call of the user about a channel.
LEMMA Told ==
  ASSUME NEW ch \in Chans, Subscribe(ch) \/ Unsubscribe(ch) \/ Publish(ch)
  PROVE  /\ \E op \in {"SUBSCRIBE", "UNSUBSCRIBE", "PUBLISH"} :
              /\ toBroker' = IF protocol /\ conn \in {"open", "losing"}
                             THEN toBroker \o <<Request(op, ch)>> ELSE toBroker
              /\ subscriptions' = CASE op = "SUBSCRIBE"   -> subscriptions \cup {ch}
                                    [] op = "UNSUBSCRIBE" -> subscriptions \ {ch}
                                    [] OTHER              -> subscriptions
              /\ op = "SUBSCRIBE" => ch \notin subscriptions
              /\ op = "UNSUBSCRIBE" => ch \in subscriptions
         /\ calls < MaxCalls /\ calls' = calls + 1
         /\ UNCHANGED <<state, protocol, whenConnected, waiter, pending, waiting, got, conn,
                        batch, fired, toClient, authed, inForce, made, sent>>
<1>1. ASSUME NEW op \in {"SUBSCRIBE", "UNSUBSCRIBE", "PUBLISH"}, Tells(op, ch)
      PROVE  /\ toBroker' = IF protocol /\ conn \in {"open", "losing"}
                            THEN toBroker \o <<Request(op, ch)>> ELSE toBroker
             /\ calls < MaxCalls /\ calls' = calls + 1
             /\ UNCHANGED <<state, protocol, whenConnected, waiter, pending, waiting, got, conn,
                            batch, fired, toClient, authed, inForce, made, sent>>
  BY <1>1 DEF Tells, Sends, queueVars, brokerVars
<1>2. CASE Subscribe(ch)
  BY <1>1, <1>2 DEF Subscribe
<1>3. CASE Unsubscribe(ch)
  BY <1>1, <1>3 DEF Unsubscribe
<1>4. CASE Publish(ch)
  BY <1>1, <1>4 DEF Publish
<1> QED
  BY <1>2, <1>3, <1>4

\* The ClientService, what it makes of its connection, and its Deferred.
LEMMA ServiceStep ==
  ASSUME IInv, Next
  PROVE  ServiceOK' /\ StateOK'
<1>0. ServiceOK /\ StateOK
  BY Parts, TypeParts DEF IInv
<1> USE <1>0 DEF ServiceOK, StateOK, serviceVars, queueVars, brokerVars, counters
<1>1. CASE Connected \/ ConnectFails \/ Retry
  BY <1>1 DEF Connected, ConnectFails, Retry
<1>2. CASE DataReceived
  BY <1>2 DEF DataReceived
<1>3. CASE OnInfo
  <2>1. conn # "none"
    BY <1>3, FirstReply DEF OnInfo, Handling
  <2>2. /\ protocol' = TRUE /\ whenConnected' = TRUE /\ fired' \in BOOLEAN
        /\ waiter' \in {waiter, "called"} /\ UNCHANGED <<state, conn>>
    BY <1>3 DEF OnInfo, Ready
  <2> QED
    BY <2>1, <2>2
<1>4. CASE OnPublish
  <2>1. conn # "none"
    BY <1>4, FirstReply DEF OnPublish, Handling
  <2> QED
    BY <1>4, <2>1 DEF OnPublish
<1>5. CASE OnUnexpected \/ Undecodable
  <2>1. conn # "none"
    BY <1>5, FirstReply DEF OnUnexpected, Undecodable, Handling
  <2>2. /\ conn' \in {"losing", "ended"} /\ fired' = FALSE
        /\ UNCHANGED <<state, protocol, whenConnected, waiter>>
    BY <1>5 DEF OnUnexpected, Undecodable, Losing
  <2> QED
    BY <2>1, <2>2
<1>6. CASE Raises \/ ConnectionLost
  <2>1. /\ ~protocol' /\ ~whenConnected' /\ conn' = "none" /\ batch' = 0 /\ ~fired'
        /\ protocol' \in BOOLEAN /\ whenConnected' \in BOOLEAN /\ fired' \in BOOLEAN
        /\ state' \in {"waiting", "stopped", "connecting"} /\ waiter' \in {waiter, "orphan"}
    BY <1>6, Gone
  <2> QED
    BY <2>1
<1>7. CASE StartService \/ StopService
  BY <1>7 DEF StartService, StopService, Losing
<1>8. CASE Read \/ Await
  BY <1>8 DEF Read, Await
<1>9. ASSUME NEW ch \in Chans, Subscribe(ch) \/ Unsubscribe(ch) \/ Publish(ch)
      PROVE  ServiceOK' /\ StateOK'
  BY <1>9, Told
<1>10. CASE BrokerTakes \/ BrokerPublishes \/ BrokerMisspeaks \/ Break
  BY <1>10 DEF BrokerTakes, BrokerPublishes, BrokerMisspeaks, Break
<1> QED
  BY <1>1, <1>2, <1>3, <1>4, <1>5, <1>6, <1>7, <1>8, <1>9, <1>10, Kinds

\* Readers and messages.
LEMMA ReadersStep ==
  ASSUME IInv, Next
  PROVE  ReadersOK' /\ QueueOK'
<1>0. ReadersOK /\ QueueOK
  BY Parts, TypeParts DEF IInv
<1>1. ASSUME UNCHANGED <<pending, waiting, got>>
      PROVE  ReadersOK' /\ QueueOK'
  BY <1>0, <1>1 DEF ReadersOK, QueueOK
<1>2. CASE OnPublish
  <2>1. Head(toClient).n \in Numbers /\ Put(Head(toClient).n)
    BY <1>2, FirstReply, ReplyKinds DEF OnPublish, Handling
  <2>2. /\ Append(got, Head(toClient).n) \in Seq(Numbers)
        /\ Append(pending, Head(toClient).n) \in Seq(Numbers)
    BY <2>1, <1>0, AppendProperties DEF ReadersOK
  <2>3. waiting > 0 => waiting - 1 \in 0 .. MaxReaders
    BY <1>0, Bounds DEF ReadersOK
  <2>4. CASE waiting > 0
    <3>1. /\ waiting' = waiting - 1 /\ got' = Append(got, Head(toClient).n)
          /\ pending' = pending
      BY <2>1, <2>4 DEF Put
    <3> QED
      BY <1>0, <2>2, <2>3, <2>4, <3>1 DEF ReadersOK, QueueOK
  <2>5. CASE ~(waiting > 0)
    <3>1. waiting = 0 /\ waiting' = waiting /\ got' = got
          /\ pending' = Append(pending, Head(toClient).n)
      BY <2>1, <2>5 DEF Put
    <3> QED
      BY <1>0, <2>2, <3>1 DEF ReadersOK, QueueOK
  <2> QED
    BY <2>4, <2>5
<1>3. CASE Read
  <2>1. CASE pending # << >>
    <3>1. pending' = Tail(pending) /\ got' = Append(got, Head(pending)) /\ waiting' = waiting
      BY <1>3, <2>1 DEF Read
    <3>2. pending' \in Seq(Numbers) /\ got' \in Seq(Numbers)
      BY <1>0, <2>1, <3>1, HeadTailProperties, AppendProperties DEF ReadersOK
    <3> QED
      BY <1>0, <2>1, <3>1, <3>2 DEF ReadersOK, QueueOK
  <2>2. CASE pending = << >>
    BY <1>0, <1>3, <2>2, Bounds DEF Read, ReadersOK, QueueOK
  <2> QED
    BY <2>1, <2>2
<1>4. CASE Raises \/ ConnectionLost
  BY <1>1, <1>4, Gone
<1>5. ASSUME NEW ch \in Chans, Subscribe(ch) \/ Unsubscribe(ch) \/ Publish(ch)
      PROVE  ReadersOK' /\ QueueOK'
  BY <1>1, <1>5, Told
<1>6. CASE \/ Connected \/ ConnectFails \/ Retry \/ DataReceived \/ OnInfo
           \/ OnUnexpected \/ Undecodable \/ StartService \/ StopService \/ Await
           \/ BrokerTakes \/ BrokerPublishes \/ BrokerMisspeaks \/ Break
  BY <1>1, <1>6 DEF Connected, ConnectFails, Retry, DataReceived, OnInfo, OnUnexpected,
       Undecodable, StartService, StopService, Await, BrokerTakes, BrokerPublishes,
       BrokerMisspeaks, Break, queueVars
<1> QED
  BY <1>2, <1>3, <1>4, <1>5, <1>6, Kinds

\* What is under way to the broker, and what it knows.
LEMMA WireStep ==
  ASSUME IInv, Next
  PROVE  WireOK'
<1>0. WireOK /\ << >> \in Seq(Requests)
  BY TypeParts DEF IInv
<1>1. ASSUME UNCHANGED <<authed, inForce>>, toBroker' = toBroker \/ toBroker' = << >>
      PROVE  WireOK'
  BY <1>0, <1>1 DEF WireOK
<1>2. CASE Connected
  BY <1>0, <1>2 DEF Connected, WireOK
<1>3. CASE OnInfo
  <2>1. PICK order \in Orders(subscriptions) :
          toBroker' = Sends(<<Auth>> \o Resubscribed(order))
    BY <1>3 DEF OnInfo, Ready
  <2>2. <<Auth>> \o Resubscribed(order) \in Seq(Requests)
    BY Parts, ReadyServes
  <2>3. toBroker' \in Seq(Requests)
    BY <1>0, <2>1, <2>2, ConcatProperties DEF Sends, WireOK
  <2>4. UNCHANGED <<authed, inForce>>
    BY <1>3 DEF OnInfo, brokerVars
  <2> QED
    BY <1>0, <2>3, <2>4 DEF WireOK
<1>4. CASE Raises \/ ConnectionLost
  BY <1>1, <1>4, Gone
<1>5. ASSUME NEW ch \in Chans, Subscribe(ch) \/ Unsubscribe(ch) \/ Publish(ch)
      PROVE  WireOK'
  <2>1. PICK op \in {"SUBSCRIBE", "UNSUBSCRIBE", "PUBLISH"} :
          toBroker' = toBroker \/ toBroker' = toBroker \o <<Request(op, ch)>>
    BY <1>5, Told
  <2>2. <<Request(op, ch)>> \in Seq(Requests)
    BY RequestKinds
  <2>3. toBroker' \in Seq(Requests)
    BY <1>0, <2>1, <2>2, ConcatProperties DEF WireOK
  <2> QED
    BY <1>0, <1>5, <2>3, Told DEF WireOK
<1>6. CASE BrokerTakes
  <2>1. /\ toBroker # << >> /\ toBroker' = Tail(toBroker)
        /\ authed' = (authed \/ Head(toBroker) = Auth)
        /\ inForce' = IF authed THEN Serving(inForce, Head(toBroker)) ELSE inForce
    BY <1>6 DEF BrokerTakes
  <2>2. Head(toBroker) \in Requests /\ toBroker' \in Seq(Requests)
    BY <1>0, <2>1, HeadTailProperties DEF WireOK
  <2>3. Serving(inForce, Head(toBroker)) \subseteq Chans
    BY <1>0, <2>2, RequestKinds DEF Serving, WireOK
  <2> QED
    BY <1>0, <2>1, <2>2, <2>3 DEF WireOK
<1>7. CASE \/ ConnectFails \/ Retry \/ DataReceived \/ OnPublish
           \/ OnUnexpected \/ Undecodable \/ StartService \/ StopService \/ Read \/ Await
           \/ BrokerPublishes \/ BrokerMisspeaks \/ Break
  BY <1>1, <1>7 DEF ConnectFails, Retry, DataReceived, OnPublish, OnUnexpected,
       Undecodable, StartService, StopService, Read, Await, BrokerPublishes,
       BrokerMisspeaks, Break, brokerVars
<1> QED
  BY <1>2, <1>3, <1>4, <1>5, <1>6, <1>7, Kinds

\* What the broker said, and how much of it is being handled.
LEMMA BatchStep ==
  ASSUME IInv, Next
  PROVE  BatchOK'
<1>0. BatchOK /\ Len(toClient) \in Nat /\ << >> \in Seq(Replies)
  BY Parts, TypeParts DEF IInv
<1>1. ASSUME UNCHANGED <<toClient, batch>> PROVE BatchOK'
  BY <1>0, <1>1 DEF BatchOK
<1>2. ASSUME UNCHANGED batch, NEW r \in Replies, toClient' = Append(toClient, r) PROVE BatchOK'
  BY <1>0, <1>2, Replied DEF BatchOK
<1>3. ASSUME toClient' = Tail(toClient), batch > 0, batch' = batch - 1 PROVE BatchOK'
  BY <1>0, <1>3, FirstReply DEF BatchOK
<1>4. CASE Connected
  <2>1. batch = 0 /\ batch' = 0 /\ toClient' = <<[op |-> "INFO"]>>
    BY <1>4, Parts DEF Connected, StateOK
  <2>2. toClient' \in Seq(Replies) /\ Len(toClient') = 1
    BY <2>1, ReplyKinds
  <2> QED
    BY <2>1, <2>2 DEF BatchOK
<1>5. CASE DataReceived
  BY <1>0, <1>5 DEF DataReceived, BatchOK
<1>6. CASE OnInfo \/ OnPublish \/ OnUnexpected
  BY <1>3, <1>6 DEF OnInfo, OnPublish, OnUnexpected, Handling, Handled
<1>7. CASE Undecodable
  BY <1>0, <1>7 DEF Undecodable, BatchOK
<1>8. CASE Raises \/ ConnectionLost
  <2>1. toClient' = << >> /\ batch' = 0
    BY <1>8, Gone
  <2>2. Len(toClient') = 0
    BY <2>1
  <2> QED
    BY <1>0, <2>1, <2>2 DEF BatchOK
<1>9. ASSUME NEW ch \in Chans, Subscribe(ch) \/ Unsubscribe(ch) \/ Publish(ch)
      PROVE  BatchOK'
  BY <1>1, <1>9, Told
<1>10. CASE BrokerTakes
  <2>1. batch' = batch /\ (toClient' = toClient \/ toClient' = Append(toClient, [op |-> "ERROR"]))
    BY <1>10 DEF BrokerTakes
  <2>2. [op |-> "ERROR"] \in Replies
    BY ReplyKinds
  <2> QED
    BY <2>1, <2>2, <1>1, <1>2
<1>11. CASE BrokerPublishes
  <2>1. /\ batch' = batch /\ sent' \in Numbers
        /\ toClient' = Append(toClient, [op |-> "PUBLISH", n |-> sent'])
    BY <1>11, TypeParts, Bounds DEF BrokerPublishes, IInv, CountersOK, Numbers
  <2> QED
    BY <2>1, <1>2, ReplyKinds
<1>12. CASE BrokerMisspeaks
  <2>1. PICK op \in {"ERROR", "UNEXPECTED", "UNDECODABLE"} : toClient' = Append(toClient, [op |-> op])
    BY <1>12 DEF BrokerMisspeaks
  <2>2. [op |-> op] \in Replies /\ batch' = batch
    BY <1>12, ReplyKinds DEF BrokerMisspeaks
  <2> QED
    BY <2>1, <2>2, <1>2
<1>13. CASE \/ ConnectFails \/ Retry \/ StartService \/ StopService \/ Read \/ Await \/ Break
  BY <1>1, <1>13 DEF ConnectFails, Retry, StartService, StopService, Read, Await, Break
<1> QED
  BY <1>4, <1>5, <1>6, <1>7, <1>8, <1>9, <1>10, <1>11, <1>12, <1>13, Kinds

\* The subscriptions and the bounds.
LEMMA CountersStep ==
  ASSUME IInv, Next
  PROVE  CountersOK'
<1>0. CountersOK
  BY TypeParts DEF IInv
<1>1. ASSUME UNCHANGED <<subscriptions, made, calls, sent>> PROVE CountersOK'
  BY <1>0, <1>1 DEF CountersOK
<1>2. CASE Connected
  BY <1>0, <1>2, Bounds DEF Connected, CountersOK, serviceVars
<1>3. CASE BrokerPublishes
  BY <1>0, <1>3, Bounds DEF BrokerPublishes, CountersOK, serviceVars
<1>4. ASSUME NEW ch \in Chans, Subscribe(ch) \/ Unsubscribe(ch) \/ Publish(ch)
      PROVE  CountersOK'
  <2>1. /\ subscriptions' \in {subscriptions, subscriptions \cup {ch}, subscriptions \ {ch}}
        /\ UNCHANGED <<made, sent>> /\ calls < MaxCalls /\ calls' = calls + 1
    BY <1>4, Told
  <2>2. subscriptions' \subseteq Chans /\ IsFiniteSet(subscriptions')
    BY <1>0, <2>1, FS_AddElement, FS_RemoveElement DEF CountersOK
  <2> QED
    BY <1>0, <2>1, <2>2, Bounds DEF CountersOK
<1>5. CASE Raises \/ ConnectionLost
  BY <1>1, <1>5, Gone
<1>6. CASE \/ ConnectFails \/ Retry \/ DataReceived \/ OnInfo \/ OnPublish
           \/ OnUnexpected \/ Undecodable \/ StartService \/ StopService \/ Read \/ Await
           \/ BrokerTakes \/ BrokerMisspeaks \/ Break
  BY <1>1, <1>6 DEF ConnectFails, Retry, DataReceived, OnInfo, OnPublish, OnUnexpected,
       Undecodable, StartService, StopService, Read, Await, BrokerTakes,
       BrokerMisspeaks, Break, serviceVars, counters
<1> QED
  BY <1>2, <1>3, <1>4, <1>5, <1>6, Kinds

-----------------------------------------------------------------------------
(* The connection *)

LEMMA FreshStep ==
  ASSUME IInv, Next
  PROVE  FreshOK' /\ InfoOK'
<1>0. StateOK /\ FreshOK /\ InfoOK
  BY Parts
<1>1. ASSUME UNCHANGED <<protocol, toBroker, toClient, authed, inForce>>,
             conn # "none" \/ conn' = conn
      PROVE  FreshOK' /\ InfoOK'
  BY <1>0, <1>1 DEF FreshOK, InfoOK
<1> USE DEF serviceVars, brokerVars
<1>2. CASE Connected
  <2>1. ~protocol
    BY <1>0, <1>2 DEF StateOK, Connected
  <2> QED
    BY <1>2, <2>1 DEF Connected, FreshOK, InfoOK
<1>3. CASE OnInfo
  <2>1. /\ protocol' = TRUE /\ toClient' = Tail(toClient) /\ batch > 0 /\ ~protocol
    BY <1>3, InfoFirst DEF OnInfo, Ready, Handled, Handling
  <2>2. toClient' = << >>
    BY <2>1, FirstReply
  <2> QED
    BY <2>1, <2>2 DEF FreshOK, InfoOK
<1>4. CASE OnPublish \/ OnUnexpected
  <2>1. batch > 0 /\ Head(toClient).op # "INFO" /\ toClient' = Tail(toClient)
        /\ protocol' = protocol
    BY <1>4 DEF OnPublish, OnUnexpected, Handled, Handling
  <2>2. protocol
    BY <2>1, OthersLater
  <2> QED
    BY <2>1, <2>2, FirstReply DEF FreshOK, InfoOK
<1>5. CASE Undecodable
  <2>1. protocol
    BY <1>5, OthersLater DEF Undecodable, Handling
  <2> QED
    BY <1>0, <1>5, <2>1 DEF Undecodable, FreshOK, InfoOK
<1>6. CASE Raises \/ ConnectionLost
  BY <1>6, Gone DEF FreshOK, InfoOK
<1>7. ASSUME NEW ch \in Chans, Subscribe(ch) \/ Unsubscribe(ch) \/ Publish(ch)
      PROVE  FreshOK' /\ InfoOK'
  <2>1. /\ UNCHANGED <<protocol, toClient, authed, inForce, conn>>
        /\ ~protocol => toBroker' = toBroker
    BY <1>7, Told
  <2> QED
    BY <1>0, <2>1 DEF FreshOK, InfoOK
<1>8. CASE BrokerTakes \/ BrokerPublishes \/ BrokerMisspeaks
  <2>1. protocol /\ protocol' = protocol
    BY <1>8, Heard DEF BrokerTakes, BrokerPublishes, BrokerMisspeaks
  <2>2. \/ toClient' = toClient
        \/ \E r \in Replies : r.op # "INFO" /\ toClient' = Append(toClient, r)
    <3>1. CASE BrokerTakes
      BY <3>1, ReplyKinds DEF BrokerTakes
    <3>2. CASE BrokerPublishes
      <4>1. /\ sent' \in Numbers /\ toClient' = Append(toClient, [op |-> "PUBLISH", n |-> sent'])
        BY <3>2, TypeParts, Bounds DEF BrokerPublishes, IInv, CountersOK, Numbers
      <4> QED
        BY <4>1, ReplyKinds
    <3>3. CASE BrokerMisspeaks
      <4>1. PICK op \in {"ERROR", "UNEXPECTED", "UNDECODABLE"} :
              toClient' = Append(toClient, [op |-> op])
        BY <3>3 DEF BrokerMisspeaks
      <4> QED
        BY <4>1, ReplyKinds
    <3> QED
      BY <1>8, <3>1, <3>2, <3>3
  <2>3. InfoOK'
    BY <1>0, <2>1, <2>2, Replied DEF InfoOK
  <2> QED
    BY <2>1, <2>3 DEF FreshOK
<1>9. CASE StartService \/ StopService
  <2>1. conn # "none" \/ conn' = conn
    BY <1>0, <1>9 DEF StateOK, StartService, StopService
  <2>2. UNCHANGED <<protocol, toBroker, toClient, authed, inForce>>
    BY <1>9 DEF StartService, StopService
  <2> QED
    BY <1>1, <2>1, <2>2
<1>10. CASE ConnectFails \/ Retry \/ DataReceived \/ Read \/ Await \/ Break
  BY <1>1, <1>10 DEF ConnectFails, Retry, DataReceived, Read, Await, Break
<1> QED
  BY <1>2, <1>3, <1>4, <1>5, <1>6, <1>7, <1>8, <1>9, <1>10, Kinds

\* What the broker will serve keeps up with the service's subscriptions.
LEMMA ServeStep ==
  ASSUME IInv, Next
  PROVE  ServedOK'
<1> SUFFICES ASSUME IsReady'
             PROVE  /\ MayFollow(authed, toBroker)'
                    /\ WillServe(authed, inForce, toBroker)' = subscriptions'
  BY DEF ServedOK
<1>0. /\ toBroker \in Seq(Requests) /\ authed \in BOOLEAN
      /\ IsReady => /\ MayFollow(authed, toBroker)
                    /\ WillServe(authed, inForce, toBroker) = subscriptions
  BY Parts DEF ServedOK
<1>1. ASSUME IsReady, UNCHANGED <<authed, inForce, toBroker, subscriptions>>
      PROVE  /\ MayFollow(authed, toBroker)'
             /\ WillServe(authed, inForce, toBroker)' = subscriptions'
  BY <1>0, <1>1
<1> USE DEF serviceVars, brokerVars
<1>2. CASE Connected
  <2>1. ~protocol /\ protocol' = protocol
    BY <1>2, Parts DEF Connected, StateOK
  <2> QED
    BY <2>1 DEF IsReady
<1>3. CASE OnInfo
  <2>1. conn = "open" /\ batch > 0 /\ ~protocol
    BY <1>3, InfoFirst DEF OnInfo, Handling, IsReady
  <2>2. toBroker = << >> /\ authed = FALSE /\ inForce = {}
    BY <2>1, FirstReply
  <2>3. PICK order \in Orders(subscriptions) :
          toBroker' = toBroker \o (<<Auth>> \o Resubscribed(order))
    BY <1>3, <2>1 DEF OnInfo, Ready, Sends
  <2>4. /\ <<Auth>> \o Resubscribed(order) \in Seq(Requests)
        /\ MayFollow(FALSE, <<Auth>> \o Resubscribed(order))
        /\ WillServe(FALSE, {}, <<Auth>> \o Resubscribed(order)) = subscriptions
    BY Parts, ReadyServes
  <2>5. toBroker' = <<Auth>> \o Resubscribed(order)
    BY <2>2, <2>3, <2>4, ConcatEmptySeq
  <2>6. authed' = FALSE /\ inForce' = {} /\ subscriptions' = subscriptions
    BY <1>3, <2>2 DEF OnInfo
  <2> QED
    BY <2>4, <2>5, <2>6
<1>4. CASE OnPublish \/ OnUnexpected \/ Undecodable
  BY <1>1, <1>4 DEF OnPublish, OnUnexpected, Undecodable, Losing, IsReady
<1>5. CASE Raises \/ ConnectionLost
  BY <1>5, Gone DEF IsReady
<1>6. ASSUME NEW ch \in Chans, Subscribe(ch) \/ Unsubscribe(ch) \/ Publish(ch)
      PROVE  /\ MayFollow(authed, toBroker)'
             /\ WillServe(authed, inForce, toBroker)' = subscriptions'
  <2>1. IsReady /\ UNCHANGED <<authed, inForce>>
    BY <1>6, Told DEF IsReady
  <2>2. PICK op \in {"SUBSCRIBE", "UNSUBSCRIBE", "PUBLISH"} :
          /\ toBroker' = toBroker \o <<Request(op, ch)>>
          /\ subscriptions' = CASE op = "SUBSCRIBE"   -> subscriptions \cup {ch}
                                [] op = "UNSUBSCRIBE" -> subscriptions \ {ch}
                                [] OTHER              -> subscriptions
    BY <1>6, <2>1, Told DEF IsReady
  <2> DEFINE m == Request(op, ch)
  <2>3. m \in Requests /\ subscriptions' = Serving(subscriptions, m)
    <3>1. m \in Requests /\ m.op = op /\ m.chan = ch
      BY RequestKinds
    <3> QED
      BY <2>2, <3>1 DEF Serving
  <2>4. toBroker' = Append(toBroker, m)
    BY <1>0, <2>2, <2>3, AppendIsConcat
  <2>5. /\ MayFollow(authed, Append(toBroker, m))
        /\ WillServe(authed, inForce, Append(toBroker, m)) = Serving(subscriptions, m)
    BY <1>0, <2>1, <2>3, AppendServes
  <2> QED
    BY <2>1, <2>3, <2>4, <2>5
<1>7. CASE BrokerTakes
  <2>1. IsReady /\ toBroker # << >>
    BY <1>7 DEF BrokerTakes, IsReady
  <2>2. /\ authed' = (authed \/ Head(toBroker) = Auth) /\ toBroker' = Tail(toBroker)
        /\ inForce' = IF authed THEN Serving(inForce, Head(toBroker)) ELSE inForce
        /\ subscriptions' = subscriptions
    BY <1>7 DEF BrokerTakes
  <2>3. MayFollow(authed', toBroker')
    BY <1>0, <2>1, <2>2 DEF MayFollow
  <2> QED
    BY <1>0, <2>1, <2>2, <2>3, TakeServes
<1>8. CASE StartService \/ StopService
  BY <1>1, <1>8 DEF StartService, StopService, Losing, IsReady
<1>9. CASE \/ ConnectFails \/ Retry \/ DataReceived \/ Read \/ Await
           \/ BrokerPublishes \/ BrokerMisspeaks \/ Break
  BY <1>1, <1>9 DEF ConnectFails, Retry, DataReceived, Read, Await, BrokerPublishes,
       BrokerMisspeaks, Break, IsReady
<1> QED
  BY <1>2, <1>3, <1>4, <1>5, <1>6, <1>7, <1>8, <1>9, Kinds

-----------------------------------------------------------------------------
(* The order of the messages *)

LEMMA GivenType ==
  ASSUME IInv
  PROVE  /\ Given \in SUBSET Nat
         /\ \A i \in DOMAIN toClient : toClient[i].op = "PUBLISH" => toClient[i].n \in Nat
<1>1. pending \in Seq(Nat) /\ got \in Seq(Nat)
  BY Parts, Bounds DEF Numbers
<1>2. Members(pending) \subseteq Nat /\ Members(got) \subseteq Nat
  <2>1. /\ \A i \in DOMAIN pending : pending[i] \in Nat
        /\ \A i \in DOMAIN got : got[i] \in Nat
    BY <1>1, ElementOfSeq, LenProperties
  <2> QED
    BY <2>1 DEF Members
<1>3. \A i \in DOMAIN toClient : toClient[i] \in Replies
  BY Parts, ElementOfSeq, LenProperties
<1> QED
  BY <1>2, <1>3, ReplyKinds, Bounds DEF Given, Numbers

\* A message is given to a reader, or waits for one.
LEMMA PutGives ==
  ASSUME IInv, NEW m \in Numbers, Put(m)
  PROVE  Given' = Given \cup {m}
<1>1. CASE got' = Append(got, m) /\ pending' = pending
  BY <1>1, Parts, MembersAppend DEF Given
<1>2. CASE pending' = Append(pending, m) /\ got' = got
  BY <1>2, Parts, MembersAppend DEF Given
<1> QED
  BY <1>1, <1>2 DEF Put

LEMMA OrderStep ==
  ASSUME IInv, Next
  PROVE  InOrder(toClient, Given, sent)'
<1>0. /\ InOrder(toClient, Given, sent) /\ Given \in SUBSET Nat /\ sent \in Nat
      /\ toClient \in Seq(Replies)
  BY Parts, GivenType
<1>1. ASSUME UNCHANGED <<toClient, got, pending, sent>>
      PROVE  InOrder(toClient, Given, sent)'
  BY <1>0, <1>1 DEF Given
<1>2. ASSUME UNCHANGED <<got, pending, sent>>, toClient' = << >> \/ toClient' = <<[op |-> "INFO"]>>
      PROVE  InOrder(toClient, Given, sent)'
  <2>1. \A i \in DOMAIN toClient' : toClient'[i].op # "PUBLISH"
    BY <1>2
  <2> QED
    BY <1>0, <1>2, <2>1 DEF InOrder, Given
<1>3. ASSUME UNCHANGED <<got, pending, sent>>, NEW r \in Replies, r.op # "PUBLISH",
             toClient' = Append(toClient, r)
      PROVE  InOrder(toClient, Given, sent)'
  BY <1>0, <1>3, InOrderReply DEF Given
<1>4. ASSUME UNCHANGED <<got, pending, sent>>, toClient # << >>, toClient' = Tail(toClient)
      PROVE  InOrder(toClient, Given, sent)'
  BY <1>0, <1>4, InOrderTail DEF Given
<1> USE DEF queueVars, counters
<1>5. CASE Connected
  BY <1>2, <1>5 DEF Connected
<1>6. CASE Raises \/ ConnectionLost
  BY <1>2, <1>6, Gone
<1>7. CASE OnInfo \/ OnUnexpected
  BY <1>4, <1>7, FirstReply DEF OnInfo, OnUnexpected, Handled, Handling
<1>8. CASE OnPublish
  <2>1. /\ batch > 0 /\ Head(toClient).op = "PUBLISH" /\ toClient' = Tail(toClient)
        /\ Put(Head(toClient).n) /\ sent' = sent
    BY <1>8 DEF OnPublish, Handled, Handling
  <2>2. toClient # << >> /\ Head(toClient).n \in Numbers
    BY <2>1, FirstReply, ReplyKinds
  <2>3. Given' = Given \cup {Head(toClient).n}
    BY <2>1, <2>2, PutGives
  <2> QED
    BY <1>0, <2>1, <2>2, <2>3, InOrderTail
<1>9. CASE Read
  <2>1. CASE pending # << >>
    <3>1. /\ pending' = Tail(pending) /\ got' = Append(got, Head(pending))
          /\ toClient' = toClient /\ sent' = sent
      BY <1>9, <2>1 DEF Read
    <3>2. pending \in Seq(Numbers) /\ got \in Seq(Numbers) /\ Head(pending) \in Numbers
      BY <2>1, Parts, HeadTailProperties
    <3>3. Given' = Given
      BY <2>1, <3>1, <3>2, MembersAppend, MembersTail DEF Given
    <3> QED
      BY <1>0, <3>1, <3>3
  <2>2. CASE pending = << >>
    BY <1>1, <1>9, <2>2 DEF Read
  <2> QED
    BY <2>1, <2>2
<1>10. ASSUME NEW ch \in Chans, Subscribe(ch) \/ Unsubscribe(ch) \/ Publish(ch)
       PROVE  InOrder(toClient, Given, sent)'
  BY <1>1, <1>10, Told
<1>11. CASE BrokerTakes
  <2>1. toClient' = toClient \/ toClient' = Append(toClient, [op |-> "ERROR"])
    BY <1>11 DEF BrokerTakes
  <2>2. UNCHANGED <<got, pending, sent>>
    BY <1>11 DEF BrokerTakes
  <2> QED
    BY <2>1, <2>2, <1>1, <1>3, ReplyKinds
<1>12. CASE BrokerMisspeaks
  <2>1. PICK op \in {"ERROR", "UNEXPECTED", "UNDECODABLE"} :
          toClient' = Append(toClient, [op |-> op])
    BY <1>12 DEF BrokerMisspeaks
  <2>2. UNCHANGED <<got, pending, sent>>
    BY <1>12 DEF BrokerMisspeaks
  <2>3. [op |-> op] \in Replies /\ [op |-> op].op # "PUBLISH"
    BY ReplyKinds
  <2> QED
    BY <2>1, <2>2, <2>3, <1>3
<1>13. CASE BrokerPublishes
  <2>1. /\ toClient' = Append(toClient, [op |-> "PUBLISH", n |-> sent + 1])
        /\ UNCHANGED <<got, pending>> /\ sent' = sent + 1 /\ sent + 1 \in Numbers
    BY <1>13, <1>0, Bounds DEF BrokerPublishes, Numbers
  <2> QED
    BY <1>0, <2>1, GivenType, ReplyKinds, InOrderPublish DEF Given
<1>14. CASE \/ ConnectFails \/ Retry \/ DataReceived \/ Undecodable \/ StartService
            \/ StopService \/ Await \/ Break
  BY <1>1, <1>14 DEF ConnectFails, Retry, DataReceived, Undecodable, StartService,
       StopService, Await, Break
<1> QED
  BY <1>5, <1>6, <1>7, <1>8, <1>9, <1>10, <1>11, <1>12, <1>13, <1>14, Kinds

-----------------------------------------------------------------------------
(* The invariant *)

LEMMA Initial == Init => IInv
<1> SUFFICES ASSUME Init PROVE IInv
  OBVIOUS
<1>1. TypeOK /\ IsFiniteSet(subscriptions)
  <2>1. << >> \in Seq(Requests) /\ << >> \in Seq(Replies) /\ << >> \in Seq(Numbers) /\ Len(<< >>) = 0
    OBVIOUS
  <2>2. ServiceOK /\ WireOK
    BY <2>1 DEF Init, ServiceOK, WireOK
  <2>4. 0 \in 0 .. MaxReaders /\ 0 \in 0 .. 0
    BY Bounds
  <2>5. ReadersOK /\ BatchOK
    BY <2>1, <2>4 DEF Init, ReadersOK, BatchOK
  <2>3. CountersOK
    BY Bounds, FS_EmptySet DEF Init, CountersOK
  <2> QED
    BY <2>2, <2>3, <2>5, TypeParts
<1>2. StateOK /\ FreshOK /\ ServedOK /\ InfoOK /\ QueueOK
  BY DEF Init, StateOK, FreshOK, ServedOK, InfoOK, QueueOK, IsReady
<1>3. InOrder(toClient, Given, sent)
  BY DEF Init, InOrder, Given, Members
<1> QED
  BY <1>1, <1>2, <1>3 DEF IInv

LEMMA Inductive == IInv /\ [Next]_vars => IInv'
<1> SUFFICES ASSUME IInv, [Next]_vars PROVE IInv'
  OBVIOUS
<1>1. CASE Next
  <2>1. ServiceOK' /\ ReadersOK' /\ WireOK' /\ BatchOK' /\ CountersOK'
    BY <1>1, ServiceStep, ReadersStep, WireStep, BatchStep, CountersStep
  <2>2. TypeOK' /\ IsFiniteSet(subscriptions)'
    BY <2>1 DEF TypeOK, ServiceOK, ReadersOK, WireOK, BatchOK, CountersOK, Numbers
  <2>3. StateOK' /\ FreshOK' /\ ServedOK' /\ InfoOK' /\ QueueOK'
    BY <1>1, ServiceStep, FreshStep, ServeStep, ReadersStep
  <2> QED
    BY <1>1, <2>2, <2>3, OrderStep DEF IInv
<1>2. CASE UNCHANGED vars
  BY <1>2 DEF vars, serviceVars, queueVars, brokerVars, counters, IInv, TypeOK, StateOK,
       FreshOK, ServedOK, InfoOK, QueueOK, Given, IsReady
<1> QED
  BY <1>1, <1>2

LEMMA Invariant == Spec => []IInv
BY Initial, Inductive, PTL DEF Spec

\* The types of the service, of the connection and of what is under way.
THEOREM TypeCorrect == Spec => []TypeOK
<1>1. IInv => TypeOK
  BY DEF IInv
<1> QED
  BY <1>1, Invariant, PTL

\* connectionReady finds whenConnected not fired (service.py 23-38): only ERROR makes
\* dataReceived raise, never AlreadyCalledError.
THEOREM FiredOnce == Spec => []InfoFindsUnfired
<1>1. IInv => InfoFindsUnfired
  BY InfoFirst DEF InfoFindsUnfired
<1> QED
  BY <1>1, Invariant, PTL

-----------------------------------------------------------------------------
(* The requests are proper *)

\* A connection that was ready and on which the broker still takes messages.
Live == conn \in {"open", "losing"} /\ protocol

\* AUTH was sent on it; what is under way is proper, and leads to the service's
\* subscriptions.
ProperOK ==
  Live => /\ authed \/ toBroker # << >>
          /\ AllProper(authed, inForce, toBroker, subscriptions)

LEMMA ProperStep ==
  ASSUME IInv, ProperOK, Next
  PROVE  ProperOK'
<1> SUFFICES ASSUME Live'
             PROVE  /\ authed' \/ toBroker' # << >>
                    /\ AllProper(authed, inForce, toBroker, subscriptions)'
  BY DEF ProperOK
<1>0. toBroker \in Seq(Requests) /\ authed \in BOOLEAN
  BY Parts
<1>1. ASSUME Live, UNCHANGED <<authed, inForce, toBroker, subscriptions>>
      PROVE  /\ authed' \/ toBroker' # << >>
             /\ AllProper(authed, inForce, toBroker, subscriptions)'
  BY <1>1 DEF ProperOK
<1> USE DEF serviceVars, brokerVars
<1>2. CASE Connected
  <2>1. ~protocol /\ protocol' = protocol
    BY <1>2, Parts DEF Connected, StateOK
  <2> QED
    BY <2>1 DEF Live
<1>3. CASE OnInfo
  <2>1. conn \in {"open", "losing"} /\ batch > 0 /\ ~protocol
    BY <1>3, InfoFirst DEF OnInfo, Handling, Live
  <2>2. toBroker = << >> /\ authed = FALSE /\ inForce = {}
    BY <2>1, FirstReply
  <2>3. PICK order \in Orders(subscriptions) :
          toBroker' = toBroker \o (<<Auth>> \o Resubscribed(order))
    BY <1>3, <2>1 DEF OnInfo, Ready, Sends
  <2>4. /\ <<Auth>> \o Resubscribed(order) \in Seq(Requests)
        /\ MayFollow(FALSE, <<Auth>> \o Resubscribed(order))
    BY Parts, ReadyServes
  <2>5. AllProper(FALSE, {}, <<Auth>> \o Resubscribed(order), subscriptions)
    BY Parts, ReadyProper
  <2>6. toBroker' = <<Auth>> \o Resubscribed(order)
    BY <2>2, <2>3, <2>4, ConcatEmptySeq
  <2>7. authed' = FALSE /\ inForce' = {} /\ subscriptions' = subscriptions
    BY <1>3, <2>2 DEF OnInfo
  <2>8. toBroker' # << >>
    BY <2>4, <2>6 DEF MayFollow
  <2> QED
    BY <2>5, <2>6, <2>7, <2>8
<1>4. CASE OnPublish \/ OnUnexpected \/ Undecodable
  BY <1>1, <1>4 DEF OnPublish, OnUnexpected, Undecodable, Losing, Live
<1>5. CASE Raises \/ ConnectionLost
  BY <1>5, Gone DEF Live
<1>6. ASSUME NEW ch \in Chans, Subscribe(ch) \/ Unsubscribe(ch) \/ Publish(ch)
      PROVE  /\ authed' \/ toBroker' # << >>
             /\ AllProper(authed, inForce, toBroker, subscriptions)'
  <2>1. Live /\ UNCHANGED <<authed, inForce>>
    BY <1>6, Told DEF Live
  <2>2. PICK op \in {"SUBSCRIBE", "UNSUBSCRIBE", "PUBLISH"} :
          /\ toBroker' = toBroker \o <<Request(op, ch)>>
          /\ subscriptions' = CASE op = "SUBSCRIBE"   -> subscriptions \cup {ch}
                                [] op = "UNSUBSCRIBE" -> subscriptions \ {ch}
                                [] OTHER              -> subscriptions
          /\ op = "SUBSCRIBE" => ch \notin subscriptions
          /\ op = "UNSUBSCRIBE" => ch \in subscriptions
    BY <1>6, <2>1, Told DEF Live
  <2> DEFINE m == Request(op, ch)
  <2>3. /\ m \in Requests /\ subscriptions' = Serving(subscriptions, m)
        /\ Proper(TRUE, subscriptions, m)
    <3>1. m \in Requests /\ m # Auth /\ m.op = op /\ m.chan = ch
      BY RequestKinds
    <3> QED
      BY <2>2, <3>1 DEF Serving, Proper
  <2>4. toBroker' = Append(toBroker, m)
    BY <1>0, <2>2, <2>3, AppendIsConcat
  <2>5. (authed \/ toBroker # << >>) <=> TRUE
    BY <2>1 DEF ProperOK
  <2>6. Proper(authed \/ toBroker # << >>, subscriptions, m)
    BY <2>3, <2>5 DEF Proper
  <2> HIDE DEF m
  <2>7. AllProper(authed, inForce, Append(toBroker, m), Serving(subscriptions, m))
    BY <1>0, <2>1, <2>3, <2>6, ProperAppend DEF ProperOK
  <2>8. toBroker' # << >>
    BY <1>0, <2>3, <2>4, AppendProperties
  <2> QED
    BY <2>1, <2>3, <2>4, <2>7, <2>8
<1>7. CASE BrokerTakes
  <2>1. Live /\ toBroker # << >>
    BY <1>7 DEF BrokerTakes, Live
  <2>2. /\ authed' = (authed \/ Head(toBroker) = Auth) /\ toBroker' = Tail(toBroker)
        /\ inForce' = IF authed THEN Serving(inForce, Head(toBroker)) ELSE inForce
        /\ subscriptions' = subscriptions
    BY <1>7 DEF BrokerTakes
  <2>3. /\ authed \/ Head(toBroker) = Auth
        /\ AllProper(TRUE, IF authed THEN Serving(inForce, Head(toBroker)) ELSE inForce,
                     Tail(toBroker), subscriptions)
    BY <1>0, <2>1, ProperTake DEF ProperOK
  <2> QED
    BY <2>2, <2>3
<1>8. CASE StartService \/ StopService
  BY <1>1, <1>8 DEF StartService, StopService, Losing, Live
<1>9. CASE \/ ConnectFails \/ Retry \/ DataReceived \/ Read \/ Await
           \/ BrokerPublishes \/ BrokerMisspeaks \/ Break
  BY <1>1, <1>9 DEF ConnectFails, Retry, DataReceived, Read, Await, BrokerPublishes,
       BrokerMisspeaks, Break, Live
<1> QED
  BY <1>2, <1>3, <1>4, <1>5, <1>6, <1>7, <1>8, <1>9, Kinds

\* Each message finds the broker in a state where a proper client sends it
\* (service.py 23-38, 94-106), also while a connection that was told to close still
\* sends: the service does what GaugeExact and KeepsProper of BrokerProofs ask of a
\* peer's subscriptions.
THEOREM Asks == Spec => []AsksProperly
<1>1. Init => ProperOK
  BY DEF Init, ProperOK, Live
<1>2. IInv /\ ProperOK /\ [Next]_vars => ProperOK'
  <2>1. ASSUME UNCHANGED vars, ProperOK PROVE ProperOK'
    BY <2>1 DEF vars, serviceVars, brokerVars, ProperOK, Live
  <2> QED
    BY <2>1, ProperStep
<1>3. IInv /\ ProperOK => AsksProperly
  <2> SUFFICES ASSUME IInv, ProperOK, conn \in {"open", "losing"}, toBroker # << >>
               PROVE  Proper(authed, inForce, Head(toBroker))
    BY DEF AsksProperly
  <2>1. Live
    BY Heard DEF Live
  <2> QED
    BY <2>1, Parts, ProperTake DEF ProperOK
<1> QED
  BY <1>1, <1>2, <1>3, Invariant, PTL DEF Spec

-----------------------------------------------------------------------------
(* The promise *)

\* The session's history only tells which messages were given.
LEMMA PromiseGiven == Promise!ToSet(got) \cup Promise!ToSet(pending) = Given
BY DEF Promise!ToSet, Given, Members

LEMMA PromiseStep ==
  ASSUME IInv, IInv', Next
  PROVE  [Promise!Next]_(Promise!vars)
<1>0. /\ Agreed = IF IsReady THEN subscriptions ELSE {}
      /\ Agreed' = IF IsReady' THEN subscriptions' ELSE {}
      /\ IsReady \in BOOLEAN /\ IsReady' \in BOOLEAN
  <2>1. Agreed = IF IsReady THEN subscriptions ELSE {}
    BY DEF IInv, ServedOK, Agreed
  <2>2. Agreed' = IF IsReady' THEN subscriptions' ELSE {}
    BY DEF IInv, ServedOK, Agreed
  <2>3. protocol' \in BOOLEAN
    BY DEF IInv, TypeOK
  <2> QED
    BY <2>1, <2>2, <2>3, Parts DEF IsReady
<1>1. ASSUME UNCHANGED <<subscriptions, pending, got>>, IsReady' = IsReady
      PROVE  UNCHANGED Promise!vars
  BY <1>0, <1>1 DEF Promise!vars
<1>2. ASSUME UNCHANGED <<subscriptions, pending, got>>, ~IsReady, IsReady'
      PROVE  Promise!GetReady
  BY <1>0, <1>2 DEF Promise!GetReady
<1>3. ASSUME UNCHANGED <<subscriptions, pending, got>>, IsReady, ~IsReady'
      PROVE  Promise!Lose
  BY <1>0, <1>3 DEF Promise!Lose
<1>4. ASSUME UNCHANGED <<subscriptions, pending, got>>
      PROVE  [Promise!Next]_(Promise!vars)
  BY <1>0, <1>1, <1>2, <1>3, <1>4 DEF Promise!Next
<1> USE DEF serviceVars, queueVars
<1>5. CASE \/ Connected \/ ConnectFails \/ Retry \/ DataReceived \/ OnInfo \/ OnUnexpected
           \/ Undecodable \/ StartService \/ StopService \/ Await
           \/ BrokerTakes \/ BrokerPublishes \/ BrokerMisspeaks \/ Break
  BY <1>4, <1>5 DEF Connected, ConnectFails, Retry, DataReceived, OnInfo, OnUnexpected,
       Undecodable, StartService, StopService, Await, BrokerTakes, BrokerPublishes,
       BrokerMisspeaks, Break
<1>6. CASE Raises \/ ConnectionLost
  BY <1>4, <1>6, Gone
<1>7. CASE OnPublish
  <2>1. /\ batch > 0 /\ Head(toClient).op = "PUBLISH" /\ Put(Head(toClient).n)
        /\ UNCHANGED <<subscriptions, IsReady>>
    BY <1>7 DEF OnPublish, Handling, IsReady
  <2>2. toClient # << >> /\ Head(toClient).n \in Numbers
    BY <2>1, FirstReply, ReplyKinds
  <2>3. \A g \in Given : g < Head(toClient).n
    BY <2>1, <2>2, Parts, InOrderTail
  <2>4. \/ pending' = Append(pending, Head(toClient).n) /\ got' = got
        \/ pending = << >> /\ got' = Append(got, Head(toClient).n) /\ pending' = pending
    BY <2>1, Parts DEF Put, QueueOK
  <2>5. Promise!Arrive(Head(toClient).n)
    BY <1>0, <2>1, <2>3, <2>4, PromiseGiven DEF Promise!Arrive
  <2> QED
    BY <2>2, <2>5 DEF Promise!Next, Numbers
<1>8. CASE Read
  <2>1. UNCHANGED <<subscriptions, IsReady>>
    BY <1>8 DEF Read, IsReady
  <2>2. CASE pending # << >>
    <3>1. Promise!Read
      BY <1>0, <1>8, <2>1, <2>2 DEF Read, Promise!Read
    <3> QED
      BY <3>1 DEF Promise!Next
  <2>3. CASE pending = << >>
    BY <1>4, <1>8, <2>1, <2>3 DEF Read
  <2> QED
    BY <2>2, <2>3
<1>9. ASSUME NEW ch \in Chans, Subscribe(ch)
      PROVE  Promise!Subscribe(ch)
  <2>1. UNCHANGED <<protocol, conn, pending, got>>
    BY <1>9, Told
  <2>2. IsReady' = IsReady
    BY <2>1 DEF IsReady
  <2> QED
    BY <1>0, <1>9, <2>1, <2>2 DEF Subscribe, Promise!Subscribe, Promise!Want
<1>10. ASSUME NEW ch \in Chans, Unsubscribe(ch)
       PROVE  Promise!Unsubscribe(ch)
  <2>1. UNCHANGED <<protocol, conn, pending, got>>
    BY <1>10, Told
  <2>2. IsReady' = IsReady
    BY <2>1 DEF IsReady
  <2> QED
    BY <1>0, <1>10, <2>1, <2>2 DEF Unsubscribe, Promise!Unsubscribe, Promise!Want
<1>11. ASSUME NEW ch \in Chans, Publish(ch)
       PROVE  [Promise!Next]_(Promise!vars)
  BY <1>4, <1>11, Told DEF Publish
<1> QED
  BY <1>5, <1>6, <1>7, <1>8, <1>9, <1>10, <1>11, Kinds DEF Promise!Next

\* The service keeps a session's promise (service.py 23-107): a connection that is ready
\* will serve exactly what is subscribed to, and messages are read in order and once,
\* wherever in a batch the calls come and whatever connections are lost meanwhile.
THEOREM KeepsPromise == Spec => ImplementsSession
<1>1. Init => Promise!Init
  BY DEF Init, Promise!Init, IsReady, Agreed
<1>2. IInv /\ IInv' /\ [Next]_vars => [Promise!Next]_(Promise!vars)
  <2> SUFFICES ASSUME IInv, IInv', [Next]_vars PROVE [Promise!Next]_(Promise!vars)
    OBVIOUS
  <2>1. CASE UNCHANGED vars
    BY <2>1 DEF vars, serviceVars, queueVars, brokerVars, Promise!vars, IsReady, Agreed
  <2> QED
    BY <2>1, PromiseStep
<1> QED
  BY <1>1, <1>2, Invariant, PTL DEF Spec, ImplementsSession, Promise!Spec
=============================================================================
