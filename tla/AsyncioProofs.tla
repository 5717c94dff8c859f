---------------------------- MODULE AsyncioProofs ----------------------------
(***************************************************************************)
(* Proofs about the asyncio client, for any channels and bounds: its types, *)
(* that no future is resolved twice, and that it implements Session.       *)
(***************************************************************************)
EXTENDS AsyncioClient, FiniteSetTheorems, SequenceTheorems, TLAPS

Members(s) == {s[i] : i \in DOMAIN s}

\* The messages in q are numbered in ascending order, after those in `given`, up
\* to `top`.
InOrder(q, given, top) ==
  /\ \A g \in given : g <= top
  /\ \A i \in DOMAIN q : q[i].op = "PUBLISH" => /\ q[i].n <= top
                                                /\ \A g \in given : g < q[i].n
  /\ \A i, j \in DOMAIN q : i < j /\ q[i].op = "PUBLISH" /\ q[j].op = "PUBLISH"
                              => q[i].n < q[j].n

\* Where the task is, and what became of the connection it made.
TaskOK ==
  /\ task \in {"scheduled", "connecting", "sleeping"} => conn = "none"
  /\ conn \in {"open", "closing"} => task = "awaiting"
  /\ closedDone <=> conn = "lost"
  /\ conn = "none" => ~protocol /\ ~connectedDone

\* Nothing was said on a connection whose INFO was not handled.
FreshOK ==
  conn = "open" /\ ~protocol =>
    /\ toBroker = << >> /\ toClient = <<[op |-> "INFO"]>>
    /\ ~authed /\ inForce = {} /\ ~connectedDone

\* A connection that is ready has been or will be authenticated, will serve the
\* subscriptions, and hears no INFO again.
ReadyOK ==
  Up => /\ MayFollow(authed, toBroker)
        /\ WillServe(authed, inForce, toBroker) = subscriptions
        /\ \A i \in DOMAIN toClient : toClient[i].op # "INFO"

IInv == /\ TypeOK /\ IsFiniteSet(subscriptions)
        /\ TaskOK /\ FreshOK /\ ReadyOK
        /\ InOrder(toClient, Members(got) \cup Members(readQueue), sent)

\* Steps that leave the connection and the session's promise alone.
Quiet == ConnectFails \/ Retry \/ ConnectRaises \/ Enter \/ Entered \/ Closed

Numbers == 1 .. MaxSent

-----------------------------------------------------------------------------
(* Requests under way to the broker *)

\* A request is AUTH or about a channel, never both.
LEMMA RequestKinds ==
  /\ \A m \in Requests : m = Auth <=> m.op = "AUTH"
  /\ \A m \in Requests \ {Auth} :
       /\ m.chan \in Chans /\ m.op \in {"SUBSCRIBE", "UNSUBSCRIBE", "PUBLISH"}
       /\ m = Request(m.op, m.chan)
  /\ Auth \in Requests
  /\ \A ch \in Chans, op \in {"SUBSCRIBE", "UNSUBSCRIBE", "PUBLISH"} :
       /\ Request(op, ch) \in Requests /\ Request(op, ch) # Auth
       /\ Request(op, ch).op = op /\ Request(op, ch).chan = ch
BY DEF Requests, Request, Auth

\* Which requests of Append(q, m) are about channel c.
LEMMA AboutAppended ==
  ASSUME NEW q \in Seq(Requests), NEW m \in Requests, NEW c \in Chans
  PROVE  /\ About(Append(q, m), c) =
              IF m \in {Request("SUBSCRIBE", c), Request("UNSUBSCRIBE", c)}
              THEN About(q, c) \cup {Len(q) + 1} ELSE About(q, c)
         /\ About(q, c) \subseteq 1 .. Len(q)
<1> DEFINE r == Append(q, m)
<1>1. /\ Len(q) \in Nat /\ DOMAIN q = 1 .. Len(q)
      /\ r \in Seq(Requests) /\ DOMAIN r = 1 .. Len(q) + 1
      /\ \A i \in 1 .. Len(q) : r[i] = q[i]
      /\ r[Len(q) + 1] = m
  BY AppendProperties, LenProperties
<1> HIDE DEF r
<1>2. About(q, c) \subseteq 1 .. Len(q)
  BY <1>1 DEF About
<1>3. About(r, c) \ {Len(q) + 1} = About(q, c)
  BY <1>1 DEF About
<1>4. Len(q) + 1 \in About(r, c) <=> m \in {Request("SUBSCRIBE", c), Request("UNSUBSCRIBE", c)}
  BY <1>1 DEF About
<1> QED
  BY <1>1, <1>2, <1>3, <1>4 DEF r

\* One more request: what will be served is served, and then that request.
LEMMA AppendServes ==
  ASSUME NEW a \in BOOLEAN, NEW f, NEW q \in Seq(Requests), NEW m \in Requests, MayFollow(a, q)
  PROVE  /\ MayFollow(a, Append(q, m))
         /\ WillServe(a, f, Append(q, m)) = Serving(WillServe(a, f, q), m)
<1> DEFINE r == Append(q, m)
<1>1. /\ Len(q) \in Nat /\ DOMAIN q = 1 .. Len(q)
      /\ DOMAIN r = 1 .. Len(q) + 1
      /\ \A i \in 1 .. Len(q) : r[i] = q[i]
      /\ r[Len(q) + 1] = m
      /\ r # << >> /\ (q # << >> => Head(r) = Head(q))
  BY AppendProperties, LenProperties, HeadTailAppend
<1>2. MayFollow(a, r)
  BY <1>1 DEF MayFollow
<1> HIDE DEF r
<1>3. WillServe(a, f, r) \subseteq Chans /\ Serving(WillServe(a, f, q), m) \subseteq Chans
  BY RequestKinds DEF WillServe, Serving
<1>4. ASSUME NEW c \in Chans
      PROVE  c \in WillServe(a, f, r) <=> c \in Serving(WillServe(a, f, q), m)
  <2>1. CASE m \in {Request("SUBSCRIBE", c), Request("UNSUBSCRIBE", c)}
    <3>1. /\ About(r, c) = About(q, c) \cup {Len(q) + 1}
          /\ About(q, c) \subseteq 1 .. Len(q)
      BY <2>1, <1>1, AboutAppended DEF r
    <3>2. ASSUME NEW i \in About(r, c)
          PROVE  (\A j \in About(r, c) : j <= i) <=> i = Len(q) + 1
      <4>1. i \in 1 .. Len(q) + 1 /\ Len(q) + 1 \in About(r, c)
        BY <3>1, <1>1
      <4>2. \A j \in About(r, c) : j <= Len(q) + 1
        BY <3>1, <1>1
      <4> QED
        BY <4>1, <4>2, <1>1
    <3>3. c \in WillServe(a, f, r) <=> m.op = "SUBSCRIBE"
      BY <3>1, <3>2, <1>1, <1>2 DEF WillServe
    <3> QED
      BY <3>3, <2>1, RequestKinds DEF Serving
  <2>2. CASE m \notin {Request("SUBSCRIBE", c), Request("UNSUBSCRIBE", c)}
    <3>1. About(r, c) = About(q, c) /\ \A i \in About(q, c) : r[i] = q[i]
      BY <2>2, <1>1, AboutAppended DEF r
    <3>2. c \in WillServe(a, f, r) <=> c \in WillServe(a, f, q)
      BY <3>1, <1>2 DEF WillServe
    <3>3. ~(m.op \in {"SUBSCRIBE", "UNSUBSCRIBE"} /\ m.chan = c)
      BY <2>2, RequestKinds
    <3> QED
      BY <3>2, <3>3 DEF Serving
  <2> QED
    BY <2>1, <2>2
<1> QED
  BY <1>2, <1>3, <1>4 DEF r

\* The broker takes a request that it may take: what it will serve stays the same.
LEMMA TakeServes ==
  ASSUME NEW a \in BOOLEAN, NEW f, NEW q \in Seq(Requests), q # << >>, MayFollow(a, q)
  PROVE  LET m == Head(q) IN
         WillServe(a \/ m = Auth, IF a THEN Serving(f, m) ELSE f, Tail(q)) = WillServe(a, f, q)
<1> DEFINE m == Head(q)
           t == Tail(q)
           g == IF a THEN Serving(f, m) ELSE f
<1>1. /\ m \in Requests /\ Len(q) \in Nat \ {0} /\ DOMAIN q = 1 .. Len(q) /\ q[1] = m
      /\ DOMAIN t = 1 .. Len(q) - 1
      /\ \A i \in 1 .. Len(q) - 1 : t[i] = q[i + 1]
  BY HeadTailProperties, LenProperties, EmptySeq
<1> HIDE DEF t
<1>2. MayFollow(a \/ m = Auth, t)
  BY DEF MayFollow
<1>3. ASSUME NEW c \in Chans
      PROVE  c \in WillServe(a \/ m = Auth, g, t) <=> c \in WillServe(a, f, q)
  <2>1. /\ About(t, c) \subseteq 1 .. Len(q) - 1
        /\ \A i \in 1 .. Len(q) - 1 : i \in About(t, c) <=> i + 1 \in About(q, c)
        /\ About(q, c) \subseteq 1 .. Len(q)
        /\ 1 \in About(q, c) <=> m \in {Request("SUBSCRIBE", c), Request("UNSUBSCRIBE", c)}
    BY <1>1 DEF About
  <2>2. CASE About(t, c) # {}
    <3>1. About(q, c) # {}
      BY <2>1, <2>2
    <3>2. (\E i \in About(t, c) : (\A j \in About(t, c) : j <= i) /\ t[i].op = "SUBSCRIBE")
          <=> (\E i \in About(q, c) : (\A j \in About(q, c) : j <= i) /\ q[i].op = "SUBSCRIBE")
      <4>1. ASSUME NEW i \in About(t, c), \A j \in About(t, c) : j <= i, t[i].op = "SUBSCRIBE"
            PROVE  /\ i + 1 \in About(q, c) /\ q[i + 1].op = "SUBSCRIBE"
                   /\ \A j \in About(q, c) : j <= i + 1
        <5>1. i + 1 \in About(q, c) /\ q[i + 1].op = "SUBSCRIBE" /\ i \in 1 .. Len(q) - 1
          BY <4>1, <2>1, <1>1
        <5>2. ASSUME NEW j \in About(q, c) PROVE j <= i + 1
          <6>1. j = 1 \/ j - 1 \in About(t, c)
            BY <2>1, <1>1
          <6> QED
            BY <6>1, <4>1, <5>1, <2>1, <1>1
        <5> QED
          BY <5>1, <5>2
      <4>2. ASSUME NEW i \in About(q, c), \A j \in About(q, c) : j <= i, q[i].op = "SUBSCRIBE"
            PROVE  /\ i - 1 \in About(t, c) /\ t[i - 1].op = "SUBSCRIBE"
                   /\ \A j \in About(t, c) : j <= i - 1
        <5>1. PICK k \in About(t, c) : TRUE
          BY <2>2
        <5>2. i \in 2 .. Len(q)
          BY <5>1, <4>2, <2>1, <1>1
        <5> QED
          BY <5>2, <4>2, <2>1, <1>1
      <4> QED
        BY <4>1, <4>2
    <3> QED
      BY <3>1, <3>2, <2>2, <1>2 DEF WillServe
  <2>3. CASE About(t, c) = {}
    <3>1. ASSUME NEW j \in About(q, c), j # 1 PROVE FALSE
      <4>1. j - 1 \in 1 .. Len(q) - 1 /\ (j - 1) + 1 = j
        BY <3>1, <2>1, <1>1
      <4> QED
        BY <4>1, <2>1, <2>3
    <3>2. c \in WillServe(a \/ m = Auth, g, t) <=> c \in g
      BY <2>3, <1>2 DEF WillServe
    <3>3. CASE m \in {Request("SUBSCRIBE", c), Request("UNSUBSCRIBE", c)}
      <4>1. About(q, c) = {1} /\ a
        BY <3>1, <3>3, <2>1, RequestKinds DEF MayFollow
      <4>2. c \in WillServe(a, f, q) <=> m.op = "SUBSCRIBE"
        BY <4>1, <1>1 DEF WillServe
      <4>3. m.op \in {"SUBSCRIBE", "UNSUBSCRIBE"} /\ m.chan = c
        BY <3>3, RequestKinds
      <4>4. c \in Serving(f, m) <=> m.op = "SUBSCRIBE"
        BY <4>3 DEF Serving
      <4> QED
        BY <3>2, <4>1, <4>2, <4>4
    <3>4. CASE m \notin {Request("SUBSCRIBE", c), Request("UNSUBSCRIBE", c)}
      <4>1. About(q, c) = {}
        BY <3>1, <3>4, <2>1
      <4>2. c \in WillServe(a, f, q) <=> c \in f
        BY <4>1 DEF WillServe
      <4>3. ~(m.op \in {"SUBSCRIBE", "UNSUBSCRIBE"} /\ m.chan = c)
        BY <3>4, <1>1, RequestKinds
      <4> QED
        BY <3>2, <4>2, <4>3 DEF Serving
    <3> QED
      BY <3>3, <3>4
  <2> QED
    BY <2>2, <2>3
<1> QED
  BY <1>3 DEF WillServe, t

\* An order of a finite set names each member once.
LEMMA OrdersOnce ==
  ASSUME NEW S, IsFiniteSet(S), NEW order \in Orders(S)
  PROVE  /\ Cardinality(S) \in Nat /\ order \in [1 .. Cardinality(S) -> S]
         /\ \A x \in S : \E i \in 1 .. Cardinality(S) : order[i] = x
         /\ \A i, j \in 1 .. Cardinality(S) : order[i] = order[j] => i = j
<1> DEFINE n == Cardinality(S)
<1>1. n \in Nat
  BY FS_CardinalityType
<1>2. order \in [1 .. n -> S] /\ \A x \in S : \E i \in 1 .. n : order[i] = x
  BY DEF Orders
<1>3. order \in Surjection(1 .. n, S)
  BY <1>2 DEF Surjection
<1>4. IsFiniteSet(1 .. n) /\ Cardinality(1 .. n) = n
  BY <1>1, FS_Interval
<1>5. order \in Injection(1 .. n, S)
  BY <1>3, <1>4, FS_SurjSameCardinalityImpliesInj
<1> QED
  BY <1>1, <1>2, <1>5 DEF Injection, IsInjective

\* A connection that becomes ready will be served all that was subscribed to.
LEMMA ReadyServes ==
  ASSUME NEW S \in SUBSET Chans, IsFiniteSet(S), NEW order \in Orders(S)
  PROVE  LET q == <<Auth>> \o Resubscribed(order) IN
         /\ Resubscribed(order) \in Seq(Requests) /\ q \in Seq(Requests) /\ MayFollow(FALSE, q)
         /\ WillServe(FALSE, {}, q) = S
<1> DEFINE n == Cardinality(S)
           p == Resubscribed(order)
           q == <<Auth>> \o p
<1>1. /\ n \in Nat /\ order \in [1 .. n -> S]
      /\ \A x \in S : \E i \in 1 .. n : order[i] = x
      /\ \A i, j \in 1 .. n : order[i] = order[j] => i = j
  BY OrdersOnce
<1>2. /\ p \in Seq(Requests) /\ Len(p) = n
      /\ \A i \in 1 .. n : p[i] = Request("SUBSCRIBE", order[i])
  BY <1>1, RequestKinds DEF Resubscribed
<1>3. <<Auth>> \in Seq(Requests) /\ Len(<<Auth>>) = 1
  BY RequestKinds
<1> HIDE DEF p
<1>4. /\ q \in Seq(Requests) /\ Len(q) = n + 1 /\ DOMAIN q = 1 .. n + 1
      /\ q[1] = Auth
      /\ \A i \in 1 .. n : q[i + 1] = Request("SUBSCRIBE", order[i])
  BY <1>1, <1>2, <1>3, ConcatProperties, LenProperties
<1> HIDE DEF q
<1>5. q # << >> /\ Head(q) = Auth
  BY <1>1, <1>4
<1>6. ASSUME NEW c \in Chans
      PROVE  c \in WillServe(FALSE, {}, q) <=> c \in S
  <2>1. /\ About(q, c) \subseteq 1 .. n + 1 /\ 1 \notin About(q, c)
        /\ \A i \in 1 .. n : i + 1 \in About(q, c) <=> order[i] = c
    <3>1. \A i \in 1 .. n : Request("SUBSCRIBE", order[i])
                              \in {Request("SUBSCRIBE", c), Request("UNSUBSCRIBE", c)} <=> order[i] = c
      BY <1>1, RequestKinds
    <3> QED
      BY <3>1, <1>1, <1>4, RequestKinds DEF About
  <2>2. CASE c \in S
    <3>1. PICK i \in 1 .. n : order[i] = c
      BY <2>2, <1>1
    <3>2. ASSUME NEW j \in About(q, c) PROVE j = i + 1
      <4>1. j - 1 \in 1 .. n /\ order[j - 1] = c
        BY <2>1, <1>1
      <4> QED
        BY <4>1, <3>1, <2>1, <1>1
    <3>3. About(q, c) = {i + 1} /\ q[i + 1].op = "SUBSCRIBE"
      BY <3>1, <3>2, <2>1, <1>4, <2>2, RequestKinds
    <3> QED
      BY <3>3, <2>2, <1>5, <1>1 DEF WillServe, MayFollow
  <2>3. CASE c \notin S
    <3>1. ASSUME NEW j \in About(q, c) PROVE FALSE
      <4>1. j - 1 \in 1 .. n /\ order[j - 1] = c
        BY <2>1, <1>1
      <4> QED
        BY <4>1, <2>3, <1>1
    <3> QED
      BY <3>1, <2>3 DEF WillServe
  <2> QED
    BY <2>2, <2>3
<1>7. WillServe(FALSE, {}, q) = S
  BY <1>6 DEF WillServe
<1> QED
  BY <1>2, <1>4, <1>5, <1>7 DEF MayFollow, q, p

\* The requests of q are proper, for a broker that has seen AUTH or not and serves
\* f; after them it serves s.  v[i] is what it serves after i of them.
Course(v, a, f, q, s) ==
  /\ v[0] = f /\ v[Len(q)] = s
  /\ \A i \in 1 .. Len(q) : /\ Proper(a \/ i > 1, v[i - 1], q[i])
                            /\ v[i] = Serving(v[i - 1], q[i])

AllProper(a, f, q, s) == \E v \in [Nat -> SUBSET Chans] : Course(v, a, f, q, s)

LEMMA ServingType ==
  ASSUME NEW f \in SUBSET Chans, NEW m \in Requests
  PROVE  Serving(f, m) \in SUBSET Chans
BY RequestKinds DEF Serving

\* One more proper request.
LEMMA ProperAppend ==
  ASSUME NEW a \in BOOLEAN, NEW f, NEW s, NEW q \in Seq(Requests), NEW m \in Requests,
         AllProper(a, f, q, s), Proper(a \/ q # << >>, s, m)
  PROVE  AllProper(a, f, Append(q, m), Serving(s, m))
<1> DEFINE r == Append(q, m)
           n == Len(q)
<1>1. /\ n \in Nat /\ r \in Seq(Requests) /\ Len(r) = n + 1
      /\ \A i \in 1 .. n : r[i] = q[i]
      /\ r[n + 1] = m /\ (q # << >> <=> n > 0)
  BY AppendProperties, LenProperties, EmptySeq
<1>2. PICK v \in [Nat -> SUBSET Chans] : Course(v, a, f, q, s)
  BY DEF AllProper
<1> DEFINE u == [v EXCEPT ![n + 1] = Serving(s, m)]
<1> HIDE DEF r
<1>3. v[0] = f /\ v[n] = s
  BY <1>2 DEF Course
<1>4. \A i \in 1 .. n : Proper(a \/ i > 1, v[i - 1], q[i]) /\ v[i] = Serving(v[i - 1], q[i])
  BY <1>2 DEF Course
<1> HIDE DEF n
<1>5. s \in SUBSET Chans /\ Serving(s, m) \in SUBSET Chans
  BY <1>1, <1>2, <1>3, ServingType
<1>6. /\ u \in [Nat -> SUBSET Chans]
      /\ \A i \in Nat : i # n + 1 => u[i] = v[i]
      /\ u[n + 1] = Serving(s, m)
  BY <1>1, <1>2, <1>5
<1> HIDE DEF u
<1>7. u[0] = f /\ u[n] = s /\ u[Len(r)] = Serving(s, m)
  BY <1>1, <1>3, <1>6
<1>8. ASSUME NEW i \in 1 .. Len(r)
      PROVE  Proper(a \/ i > 1, u[i - 1], r[i]) /\ u[i] = Serving(u[i - 1], r[i])
  <2>1. CASE i = n + 1
    <3>1. u[i - 1] = s /\ r[i] = m /\ u[i] = Serving(s, m)
      BY <1>1, <1>6, <1>7, <2>1
    <3>2. i > 1 <=> q # << >>
      BY <1>1, <2>1
    <3> QED
      BY <3>1, <3>2
  <2>2. CASE i # n + 1
    <3>1. i \in 1 .. n /\ i - 1 \in Nat /\ i \in Nat /\ i - 1 # n + 1
      BY <1>1, <2>2
    <3>2. u[i - 1] = v[i - 1] /\ u[i] = v[i] /\ r[i] = q[i]
      BY <1>1, <1>6, <2>2, <3>1
    <3> QED
      BY <1>4, <3>1, <3>2
  <2> QED
    BY <2>1, <2>2
<1>9. Course(u, a, f, r, Serving(s, m))
  BY <1>7, <1>8 DEF Course
<1> QED
  BY <1>6, <1>9 DEF AllProper, r

\* The broker takes the first of them.
LEMMA ProperTake ==
  ASSUME NEW a \in BOOLEAN, NEW f, NEW s, NEW q \in Seq(Requests), q # << >>,
         AllProper(a, f, q, s)
  PROVE  /\ Proper(a, f, Head(q)) /\ (a \/ Head(q) = Auth)
         /\ AllProper(TRUE, IF a THEN Serving(f, Head(q)) ELSE f, Tail(q), s)
<1> DEFINE m == Head(q)
           t == Tail(q)
<1>1. /\ m \in Requests /\ Len(q) \in Nat \ {0} /\ q[1] = m
      /\ Len(t) = Len(q) - 1
      /\ \A i \in 1 .. Len(q) - 1 : t[i] = q[i + 1]
  BY HeadTailProperties, LenProperties, EmptySeq
<1> HIDE DEF m, t
<1>2. PICK v \in [Nat -> SUBSET Chans] : Course(v, a, f, q, s)
  BY DEF AllProper
<1>3. v[0] = f /\ v[Len(q)] = s
  BY <1>2 DEF Course
<1>4. \A i \in 1 .. Len(q) : Proper(a \/ i > 1, v[i - 1], q[i]) /\ v[i] = Serving(v[i - 1], q[i])
  BY <1>2 DEF Course
<1>5. Proper(a, f, m) /\ v[1] = Serving(f, m)
  <2>1. 1 \in 1 .. Len(q) /\ 1 - 1 = 0 /\ ~(1 > 1)
    BY <1>1
  <2> QED
    BY <1>1, <1>3, <1>4, <2>1
<1>6. a \/ m = Auth
  BY <1>5 DEF Proper
<1>7. v[1] = IF a THEN Serving(f, m) ELSE f
  <2>1. CASE a
    BY <1>5, <2>1
  <2>2. CASE ~a
    <3>1. Serving(f, Auth) = f
      BY DEF Serving, Auth
    <3> QED
      BY <1>5, <1>6, <2>2, <3>1
  <2> QED
    BY <2>1, <2>2
<1>8. \E u \in [Nat -> SUBSET Chans] : \A i \in Nat : u[i] = v[i + 1]
  <2>1. [i \in Nat |-> v[i + 1]] \in [Nat -> SUBSET Chans]
    BY <1>2
  <2> QED
    BY <2>1
<1>9. PICK u \in [Nat -> SUBSET Chans] : \A i \in Nat : u[i] = v[i + 1]
  BY <1>8
<1>10. u[0] = v[1] /\ u[Len(t)] = s
  <2>1. Len(t) \in Nat /\ Len(t) + 1 = Len(q)
    BY <1>1
  <2> QED
    BY <1>3, <1>9, <2>1
<1>11. ASSUME NEW i \in 1 .. Len(t)
       PROVE  Proper(TRUE \/ i > 1, u[i - 1], t[i]) /\ u[i] = Serving(u[i - 1], t[i])
  <2>1. /\ i + 1 \in 1 .. Len(q) /\ (i + 1) - 1 = i /\ i + 1 > 1 /\ i \in Nat
        /\ i - 1 \in Nat /\ (i - 1) + 1 = i /\ i \in 1 .. Len(q) - 1
    BY <1>1
  <2>2. u[i - 1] = v[i] /\ u[i] = v[i + 1] /\ t[i] = q[i + 1]
    BY <1>1, <1>9, <2>1
  <2>3. /\ Proper(a \/ i + 1 > 1, v[(i + 1) - 1], q[i + 1])
        /\ v[i + 1] = Serving(v[(i + 1) - 1], q[i + 1])
    BY <1>4, <2>1
  <2>4. (a \/ i + 1 > 1) <=> (TRUE \/ i > 1)
    BY <2>1
  <2> QED
    BY <2>1, <2>2, <2>3, <2>4 DEF Proper
<1>12. Course(u, TRUE, v[1], t, s)
  BY <1>10, <1>11 DEF Course
<1>13. AllProper(TRUE, v[1], t, s)
  BY <1>12 DEF AllProper
<1> QED
  BY <1>5, <1>6, <1>7, <1>13 DEF m, t

\* What a connection says when it becomes ready.
LEMMA ReadyProper ==
  ASSUME NEW S \in SUBSET Chans, IsFiniteSet(S), NEW order \in Orders(S)
  PROVE  AllProper(FALSE, {}, <<Auth>> \o Resubscribed(order), S)
<1> DEFINE n == Cardinality(S)
           p == Resubscribed(order)
           q == <<Auth>> \o p
<1>1. /\ n \in Nat /\ order \in [1 .. n -> S]
      /\ \A x \in S : \E i \in 1 .. n : order[i] = x
      /\ \A i, j \in 1 .. n : order[i] = order[j] => i = j
  BY OrdersOnce
<1>2. /\ p \in Seq(Requests) /\ Len(p) = n
      /\ \A i \in 1 .. n : p[i] = Request("SUBSCRIBE", order[i])
  BY <1>1, RequestKinds DEF Resubscribed
<1>3. <<Auth>> \in Seq(Requests) /\ Len(<<Auth>>) = 1
  BY RequestKinds
<1> HIDE DEF p
<1>4. /\ Len(q) = n + 1 /\ q[1] = Auth
      /\ \A i \in 1 .. n : q[i + 1] = Request("SUBSCRIBE", order[i])
  BY <1>1, <1>2, <1>3, ConcatProperties, LenProperties
<1> HIDE DEF q
<1> DEFINE u == [i \in Nat |-> {order[j] : j \in {k \in 1 .. n : k < i}}]
<1> HIDE DEF n
<1>5. u \in [Nat -> SUBSET Chans]
  BY <1>1
<1>6. u[0] = {} /\ u[1] = {} /\ u[n + 1] = S
  <2>1. \A k \in 1 .. n : ~(k < 0) /\ ~(k < 1) /\ k < n + 1
    BY <1>1
  <2>2. 0 \in Nat /\ 1 \in Nat /\ n + 1 \in Nat
    BY <1>1
  <2> QED
    BY <1>1, <2>1, <2>2
<1>7. ASSUME NEW i \in 1 .. n + 1
      PROVE  Proper(FALSE \/ i > 1, u[i - 1], q[i]) /\ u[i] = Serving(u[i - 1], q[i])
  <2>1. CASE i = 1
    <3>1. Serving({}, Auth) = {}
      BY DEF Serving, Auth
    <3>2. Proper(FALSE, {}, Auth)
      BY DEF Proper, Auth
    <3>3. i - 1 = 0 /\ ~(i > 1)
      BY <2>1
    <3> HIDE DEF u
    <3> QED
      BY <1>4, <1>6, <2>1, <3>1, <3>2, <3>3
  <2>2. CASE i # 1
    <3> DEFINE k == i - 1
    <3>1. k \in 1 .. n /\ k + 1 = i /\ i > 1 /\ k \in Nat /\ i \in Nat
      BY <1>1, <2>2
    <3>2. q[i] = Request("SUBSCRIBE", order[k]) /\ order[k] \in Chans
      BY <1>1, <1>4, <3>1
    <3>3. order[k] \notin u[k]
      BY <1>1, <3>1
    <3>4. u[i] = u[k] \cup {order[k]}
      <4>1. \A j \in 1 .. n : j < i <=> j < k \/ j = k
        BY <3>1
      <4> QED
        BY <3>1, <4>1
    <3> HIDE DEF u
    <3>5. q[i] # Auth /\ q[i].op = "SUBSCRIBE" /\ q[i].chan = order[k]
      BY <3>2, RequestKinds
    <3> QED
      BY <3>1, <3>3, <3>4, <3>5 DEF Proper, Serving
  <2> QED
    BY <2>1, <2>2
<1> HIDE DEF u
<1>8. Course(u, FALSE, {}, q, S)
  BY <1>4, <1>6, <1>7 DEF Course
<1> QED
  BY <1>5, <1>8 DEF AllProper, q, p

-----------------------------------------------------------------------------
(* Numbered messages on their way from the broker *)

\* A reply that is no message.
LEMMA InOrderReply ==
  ASSUME NEW R, NEW q \in Seq(R), NEW r \in R, NEW given, NEW top,
         r.op # "PUBLISH", InOrder(q, given, top)
  PROVE  InOrder(Append(q, r), given, top)
<1> DEFINE p == Append(q, r)
<1>1. /\ Len(q) \in Nat /\ DOMAIN q = 1 .. Len(q) /\ DOMAIN p = 1 .. Len(q) + 1
      /\ \A i \in 1 .. Len(q) : p[i] = q[i]
      /\ p[Len(q) + 1].op # "PUBLISH"
  BY AppendProperties, LenProperties
<1>2. \A i \in DOMAIN p : p[i].op = "PUBLISH" => i \in DOMAIN q /\ p[i] = q[i]
  BY <1>1
<1> HIDE DEF p
<1> QED
  BY <1>2 DEF InOrder, p

\* The next message.
LEMMA InOrderPublish ==
  ASSUME NEW R, NEW q \in Seq(R), NEW r \in R, NEW given \in SUBSET Nat, NEW top \in Nat,
         \A i \in DOMAIN q : q[i].op = "PUBLISH" => q[i].n \in Nat,
         r.op = "PUBLISH", r.n = top + 1, InOrder(q, given, top)
  PROVE  InOrder(Append(q, r), given, top + 1)
<1> DEFINE p == Append(q, r)
<1>1. /\ Len(q) \in Nat /\ DOMAIN q = 1 .. Len(q) /\ DOMAIN p = 1 .. Len(q) + 1
      /\ \A i \in 1 .. Len(q) : p[i] = q[i]
      /\ p[Len(q) + 1] = r
  BY AppendProperties, LenProperties
<1> HIDE DEF p
<1>2. \A i \in DOMAIN p : (i \in DOMAIN q /\ p[i] = q[i]) \/ (i = Len(q) + 1 /\ p[i] = r)
  BY <1>1
<1>3. ASSUME NEW g \in given PROVE g <= top + 1 /\ g < r.n
  <2>1. g \in Nat /\ g <= top
    BY DEF InOrder
  <2> QED
    BY <2>1
<1>4. ASSUME NEW i \in DOMAIN p, p[i].op = "PUBLISH"
      PROVE  p[i].n <= top + 1 /\ \A g \in given : g < p[i].n
  BY <1>2, <1>3, <1>4 DEF InOrder
<1>5. ASSUME NEW i \in DOMAIN p, NEW j \in DOMAIN p, i < j,
             p[i].op = "PUBLISH", p[j].op = "PUBLISH"
      PROVE  p[i].n < p[j].n
  <2>1. i \in DOMAIN q /\ p[i] = q[i]
    BY <1>1, <1>5
  <2>2. CASE j \in DOMAIN q /\ p[j] = q[j]
    BY <2>1, <2>2, <1>5 DEF InOrder
  <2>3. CASE j = Len(q) + 1 /\ p[j] = r
    BY <2>1, <2>3, <1>5 DEF InOrder
  <2> QED
    BY <2>2, <2>3, <1>2
<1> QED
  BY <1>3, <1>4, <1>5 DEF InOrder, p

\* The first reply is handled; if it is a message, it is given.
LEMMA InOrderTail ==
  ASSUME NEW R, NEW q \in Seq(R), q # << >>, NEW given, NEW top, InOrder(q, given, top)
  PROVE  /\ InOrder(Tail(q), given, top)
         /\ Head(q).op = "PUBLISH" =>
              /\ \A g \in given : g < Head(q).n
              /\ InOrder(Tail(q), given \cup {Head(q).n}, top)
<1> DEFINE p == Tail(q)
<1>1. /\ Len(q) \in Nat \ {0} /\ DOMAIN q = 1 .. Len(q) /\ DOMAIN p = 1 .. Len(q) - 1
      /\ \A i \in 1 .. Len(q) - 1 : p[i] = q[i + 1]
      /\ Head(q) = q[1]
  BY HeadTailProperties, LenProperties, EmptySeq
<1> HIDE DEF p
<1>2. \A i \in DOMAIN p : i + 1 \in DOMAIN q /\ p[i] = q[i + 1] /\ 1 < i + 1
  BY <1>1
<1>3. 1 \in DOMAIN q
  BY <1>1
<1>4. \A i, j \in DOMAIN p : i < j => i + 1 < j + 1
  BY <1>1
<1>5. InOrder(p, given, top)
  BY <1>2, <1>4 DEF InOrder
<1>6. ASSUME Head(q).op = "PUBLISH"
      PROVE  (\A g \in given : g < Head(q).n) /\ InOrder(p, given \cup {Head(q).n}, top)
  <2>1. /\ \A g \in given : g < Head(q).n
        /\ \A g \in given \cup {Head(q).n} : g <= top
    BY <1>1, <1>3, <1>6 DEF InOrder
  <2>2. \A i \in DOMAIN p : p[i].op = "PUBLISH" => Head(q).n < p[i].n
    BY <1>1, <1>2, <1>3, <1>6 DEF InOrder
  <2> QED
    BY <2>1, <2>2, <1>5 DEF InOrder
<1> QED
  BY <1>5, <1>6 DEF p

\* Members of a sequence that grows at the end, or shrinks at the front.
LEMMA MembersAppend ==
  ASSUME NEW R, NEW q \in Seq(R), NEW r \in R
  PROVE  Members(Append(q, r)) = Members(q) \cup {r} /\ Members(q) \subseteq R
<1>1. /\ Len(q) \in Nat /\ DOMAIN q = 1 .. Len(q) /\ DOMAIN Append(q, r) = 1 .. Len(q) + 1
      /\ \A i \in 1 .. Len(q) : Append(q, r)[i] = q[i] /\ q[i] \in R
      /\ Append(q, r)[Len(q) + 1] = r
  BY AppendProperties, LenProperties, ElementOfSeq
<1>2. \A i \in 1 .. Len(q) + 1 : i \in 1 .. Len(q) \/ i = Len(q) + 1
  BY <1>1
<1> QED
  BY <1>1, <1>2 DEF Members

LEMMA MembersTail ==
  ASSUME NEW R, NEW q \in Seq(R), q # << >>
  PROVE  Members(q) = Members(Tail(q)) \cup {Head(q)}
<1>1. /\ Len(q) \in Nat \ {0} /\ DOMAIN q = 1 .. Len(q)
      /\ DOMAIN Tail(q) = 1 .. Len(q) - 1
      /\ \A i \in 1 .. Len(q) - 1 : Tail(q)[i] = q[i + 1]
      /\ Head(q) = q[1]
  BY HeadTailProperties, LenProperties, EmptySeq
<1>2. \A i \in 1 .. Len(q) : i = 1 \/ (i - 1 \in 1 .. Len(q) - 1 /\ (i - 1) + 1 = i)
  BY <1>1
<1>3. 1 \in DOMAIN q /\ \A i \in 1 .. Len(q) - 1 : i + 1 \in DOMAIN q
  BY <1>1
<1>4. Members(q) \subseteq Members(Tail(q)) \cup {Head(q)}
  <2>1. ASSUME NEW i \in 1 .. Len(q) PROVE q[i] \in Members(Tail(q)) \cup {Head(q)}
    <3>1. CASE i = 1
      BY <3>1, <1>1
    <3>2. CASE i - 1 \in DOMAIN Tail(q) /\ Tail(q)[i - 1] = q[i]
      BY <3>2 DEF Members
    <3> QED
      BY <3>1, <3>2, <1>1, <1>2
  <2> QED
    BY <2>1, <1>1 DEF Members
<1>5. Members(Tail(q)) \cup {Head(q)} \subseteq Members(q)
  BY <1>1, <1>3 DEF Members
<1> QED
  BY <1>4, <1>5

-----------------------------------------------------------------------------
(* Building blocks *)

LEMMA Bounds == MaxConns \in Nat /\ MaxCalls \in Nat /\ MaxSent \in Nat
BY BoundsAssumption

\* The parts of IInv, and of the types, that most steps use.
LEMMA Parts ==
  ASSUME IInv
  PROVE  /\ TypeOK /\ TaskOK /\ FreshOK /\ ReadyOK /\ IsFiniteSet(subscriptions)
         /\ InOrder(toClient, Members(got) \cup Members(readQueue), sent)
         /\ toBroker \in Seq(Requests) /\ toClient \in Seq(Replies)
         /\ readQueue \in Seq(Numbers) /\ got \in Seq(Numbers)
         /\ subscriptions \subseteq Chans /\ inForce \subseteq Chans
         /\ authed \in BOOLEAN /\ protocol \in BOOLEAN
         /\ sent \in 0 .. MaxSent
BY DEF IInv, TypeOK, Numbers

LEMMA ReplyKinds ==
  /\ [op |-> "INFO"] \in Replies /\ [op |-> "INFO"].op = "INFO"
  /\ [op |-> "ERROR"] \in Replies /\ [op |-> "ERROR"].op = "ERROR"
  /\ \A n \in Numbers : /\ [op |-> "PUBLISH", n |-> n] \in Replies
                        /\ [op |-> "PUBLISH", n |-> n].op = "PUBLISH"
                        /\ [op |-> "PUBLISH", n |-> n].n = n
  /\ \A r \in Replies : r.op = "PUBLISH" => r.n \in Numbers
BY DEF Replies, Numbers

\* A connection on which the broker hears nothing is not ready, and is fresh.
LEMMA Heard ==
  ASSUME IInv, conn = "open", authed \/ toBroker # << >> \/ inForce # {}
  PROVE  Up
BY DEF IInv, FreshOK, Up, TypeOK

\* The last reply is one more.
LEMMA Replied ==
  ASSUME IInv, NEW r \in Replies, toClient' = Append(toClient, r)
  PROVE  /\ toClient' \in Seq(Replies)
         /\ r.op # "INFO" /\ (\A i \in DOMAIN toClient : toClient[i].op # "INFO")
              => \A i \in DOMAIN toClient' : toClient'[i].op # "INFO"
<1>1. toClient \in Seq(Replies)
  BY Parts
<1>2. /\ toClient' \in Seq(Replies) /\ Len(toClient) \in Nat
      /\ DOMAIN toClient = 1 .. Len(toClient) /\ DOMAIN toClient' = 1 .. Len(toClient) + 1
      /\ \A i \in 1 .. Len(toClient) : toClient'[i] = toClient[i]
      /\ toClient'[Len(toClient) + 1] = r
  BY <1>1, AppendProperties, LenProperties
<1> QED
  BY <1>2

\* The first reply is taken.
LEMMA Handled ==
  ASSUME IInv, toClient # << >>, toClient' = Tail(toClient)
  PROVE  /\ toClient' \in Seq(Replies) /\ Head(toClient) \in Replies
         /\ (\A i \in DOMAIN toClient : toClient[i].op # "INFO")
              => /\ Head(toClient).op # "INFO"
                 /\ \A i \in DOMAIN toClient' : toClient'[i].op # "INFO"
<1>1. toClient \in Seq(Replies)
  BY Parts
<1>2. /\ toClient' \in Seq(Replies) /\ Head(toClient) \in Replies
      /\ Len(toClient) \in Nat \ {0} /\ DOMAIN toClient = 1 .. Len(toClient)
      /\ DOMAIN toClient' = 1 .. Len(toClient) - 1
      /\ \A i \in 1 .. Len(toClient) - 1 : toClient'[i] = toClient[i + 1]
      /\ Head(toClient) = toClient[1]
  BY <1>1, HeadTailProperties, LenProperties, EmptySeq
<1>3. 1 \in DOMAIN toClient /\ \A i \in DOMAIN toClient' : i + 1 \in DOMAIN toClient
  BY <1>2
<1> QED
  BY <1>2, <1>3

-----------------------------------------------------------------------------
(* Types *)

SessionOK ==
  /\ task \in {"scheduled", "connecting", "sleeping", "awaiting", "done"}
  /\ closing \in BOOLEAN /\ protocol \in BOOLEAN
  /\ connectedDone \in BOOLEAN /\ closedDone \in BOOLEAN
  /\ enter \in {"out", "waiting", "orphan", "woken", "in"}
  /\ closer \in {"out", "waiting", "raised", "returned"}

WireOK ==
  /\ conn \in {"none", "open", "closing", "lost"}
  /\ toBroker \in Seq(Requests) /\ toClient \in Seq(Replies)
  /\ authed \in BOOLEAN /\ inForce \in SUBSET Chans

UserOK ==
  /\ subscriptions \in SUBSET Chans
  /\ readQueue \in Seq(1 .. MaxSent) /\ got \in Seq(1 .. MaxSent)

CountersOK == made \in 0 .. MaxConns /\ calls \in 0 .. MaxCalls /\ sent \in 0 .. MaxSent

LEMMA TypeParts == TypeOK <=> SessionOK /\ WireOK /\ UserOK /\ CountersOK
BY DEF TypeOK, SessionOK, WireOK, UserOK, CountersOK

\* The task.
LEMMA TaskType ==
  ASSUME IInv, Start \/ Connected \/ Quiet \/ Reconnect
  PROVE  TypeOK' /\ IsFiniteSet(subscriptions)'
<1>0. SessionOK /\ WireOK /\ UserOK /\ CountersOK /\ IsFiniteSet(subscriptions)
  BY Parts, TypeParts
<1> USE DEF Quiet, Start, Connected, ConnectFails, Retry, ConnectRaises, Reconnect,
        Enter, Entered, Closed, Attempt, Renewed, sessionVars, wireVars, userVars
<1>1. SessionOK'
  <2>1. CASE Start \/ Reconnect
    <3>1. task' \in {"done", "connecting"} /\ closer' = closer /\ closing' = closing
      BY <2>1
    <3>2. protocol' \in BOOLEAN /\ closedDone' \in BOOLEAN
      BY <1>0, <2>1 DEF SessionOK
    <3>3. connectedDone' \in BOOLEAN /\ enter' \in {enter, "orphan"}
      BY <1>0, <2>1 DEF SessionOK
    <3> HIDE DEF Start, Reconnect
    <3> QED
      BY <1>0, <3>1, <3>2, <3>3 DEF SessionOK
  <2>2. CASE Connected \/ Quiet
    BY <1>0, <2>2 DEF SessionOK
  <2> QED
    BY <2>1, <2>2
<1>a. Connected => toBroker' \in Seq(Requests) /\ toClient' \in Seq(Replies)
  BY ReplyKinds
<1>2. WireOK'
  BY <1>0, ReplyKinds, <1>a DEF WireOK
<1>3. UserOK'
  BY <1>0 DEF UserOK
<1>4. CountersOK'
  BY <1>0, Bounds DEF CountersOK
<1> QED
  BY <1>0, <1>1, <1>2, <1>3, <1>4 DEF TypeOK, SessionOK, WireOK, UserOK, CountersOK

\* Callbacks.
LEMMA CallbackType ==
  ASSUME IInv, Callbacks
  PROVE  TypeOK' /\ IsFiniteSet(subscriptions)'
<1>0. SessionOK /\ WireOK /\ UserOK /\ CountersOK /\ IsFiniteSet(subscriptions)
  BY Parts, TypeParts
<1> USE DEF Callbacks, OnInfo, OnPublish, OnError, ConnectionLost, Resolved,
        sessionVars, wireVars, userVars
<1>1. SessionOK'
  BY <1>0 DEF SessionOK
<1>2. toClient' \in Seq(Replies)
  <2>1. (toClient # << >> /\ toClient' = Tail(toClient)) \/ toClient' = << >>
    OBVIOUS
  <2>2. << >> \in Seq(Replies)
    OBVIOUS
  <2> QED
    BY <2>1, <2>2, Handled
<1>3. toBroker' \in Seq(Requests)
  <2>1. CASE OnInfo
    <3>1. PICK order \in Orders(subscriptions) :
            toBroker' = (toBroker \o <<Auth>>) \o Resubscribed(order)
      BY <1>0, <2>1
    <3>2. Resubscribed(order) \in Seq(Requests)
      BY Parts, ReadyServes
    <3>3. toBroker \in Seq(Requests) /\ <<Auth>> \in Seq(Requests)
      BY Parts, RequestKinds
    <3> HIDE DEF OnInfo
    <3> QED
      BY <3>1, <3>2, <3>3, ConcatProperties
  <2>2. ~OnInfo => toBroker' = toBroker \/ toBroker' = << >>
    BY DEF OnInfo
  <2>3. toBroker \in Seq(Requests) /\ << >> \in Seq(Requests)
    BY Parts
  <2> QED
    BY <2>1, <2>2, <2>3
<1>4. WireOK'
  BY <1>0, <1>2, <1>3 DEF WireOK
<1>5. UserOK'
  <2>1. CASE OnPublish
    <3>1. Head(toClient).n \in Numbers
      BY <1>0, <2>1, Handled, ReplyKinds
    <3> QED
      BY <1>0, <2>1, <3>1, AppendProperties DEF UserOK, Queued, Numbers
  <2> QED
    BY <1>0, <2>1 DEF UserOK
<1>6. CountersOK'
  BY <1>0 DEF CountersOK
<1> QED
  BY <1>0, <1>1, <1>4, <1>5, <1>6 DEF TypeOK, SessionOK, WireOK, UserOK, CountersOK

\* Calls of the user.
LEMMA CallType ==
  ASSUME IInv, Calls
  PROVE  TypeOK' /\ IsFiniteSet(subscriptions)'
<1>0. SessionOK /\ WireOK /\ UserOK /\ CountersOK /\ IsFiniteSet(subscriptions)
  BY Parts, TypeParts
<1>1. ASSUME NEW ch \in Chans, Subscribe(ch) \/ Unsubscribe(ch) \/ Publish(ch)
      PROVE  TypeOK' /\ IsFiniteSet(subscriptions)'
  <2> USE <1>1 DEF Subscribe, Unsubscribe, Publish, sessionVars, userVars
  <2>1. SessionOK'
    BY <1>0 DEF SessionOK
  <2>2. UserOK' /\ IsFiniteSet(subscriptions)'
    BY <1>0, FS_AddElement, FS_RemoveElement DEF UserOK
  <2>3. \E op \in {"SUBSCRIBE", "UNSUBSCRIBE", "PUBLISH"} :
          toBroker' = toBroker \/ toBroker' = toBroker \o <<Request(op, ch)>>
    BY <1>0 DEF Sends
  <2>4. toBroker' \in Seq(Requests)
    <3>1. toBroker \in Seq(Requests)
      BY Parts
    <3>2. \A op \in {"SUBSCRIBE", "UNSUBSCRIBE", "PUBLISH"} : <<Request(op, ch)>> \in Seq(Requests)
      BY RequestKinds
    <3> QED
      BY <2>3, <3>1, <3>2, ConcatProperties
  <2>5. WireOK'
    BY <1>0, <2>4 DEF WireOK
  <2>6. CountersOK'
    BY <1>0, Bounds DEF CountersOK
  <2> QED
    BY <2>1, <2>2, <2>5, <2>6 DEF TypeOK, SessionOK, WireOK, UserOK, CountersOK
<1>2. CASE Read
  <2> USE <1>2 DEF Read, sessionVars, wireVars
  <2>1. SessionOK' /\ WireOK' /\ CountersOK' /\ IsFiniteSet(subscriptions)'
    BY <1>0 DEF SessionOK, WireOK, CountersOK
  <2>2. readQueue' \in Seq(Numbers) /\ got' \in Seq(Numbers)
    BY Parts, HeadTailProperties, AppendProperties
  <2>3. UserOK'
    BY <1>0, <2>2 DEF UserOK, Numbers
  <2> QED
    BY <2>1, <2>3 DEF TypeOK, SessionOK, WireOK, UserOK, CountersOK
<1>3. CASE Close
  <2> USE <1>3 DEF Close
  <2>1. UserOK' /\ CountersOK' /\ IsFiniteSet(subscriptions)'
    BY <1>0 DEF UserOK, CountersOK
  <2>2. SessionOK' /\ WireOK'
    BY <1>0 DEF SessionOK, WireOK
  <2> QED
    BY <2>1, <2>2 DEF TypeOK, SessionOK, WireOK, UserOK, CountersOK
<1> QED
  BY <1>0, <1>1, <1>2, <1>3, TaskType DEF Calls, Quiet

\* The broker.
LEMMA BrokerType ==
  ASSUME IInv, Broker
  PROVE  TypeOK' /\ IsFiniteSet(subscriptions)'
<1>0. SessionOK /\ WireOK /\ UserOK /\ CountersOK /\ IsFiniteSet(subscriptions)
  BY Parts, TypeParts
<1> USE DEF Broker, BrokerTakes, BrokerPublishes, BrokerRefuses, Break,
        sessionVars, userVars
<1>1. SessionOK' /\ UserOK' /\ IsFiniteSet(subscriptions)'
  BY <1>0 DEF SessionOK, UserOK
<1>2. CountersOK'
  BY <1>0, Bounds DEF CountersOK
<1>3. toClient' \in Seq(Replies)
  <2>1. CASE BrokerPublishes
    <3>1. sent' \in Numbers /\ toClient' = Append(toClient, [op |-> "PUBLISH", n |-> sent'])
      BY <2>1, Parts, Bounds DEF Numbers
    <3> HIDE DEF BrokerPublishes
    <3> QED
      BY <3>1, ReplyKinds, Replied
  <2>2. ~BrokerPublishes => \/ toClient' = toClient
                            \/ toClient' = Append(toClient, [op |-> "ERROR"])
    BY DEF BrokerPublishes
  <2> QED
    BY <2>1, <2>2, Parts, ReplyKinds, Replied
<1>4. toBroker' \in Seq(Requests) /\ authed' \in BOOLEAN /\ inForce' \subseteq Chans
  <2>1. CASE BrokerTakes
    <3>1. Head(toBroker) \in Requests /\ toBroker' \in Seq(Requests)
      BY Parts, <2>1, HeadTailProperties
    <3>2. Serving(inForce, Head(toBroker)) \subseteq Chans
      BY Parts, <3>1, RequestKinds DEF Serving
    <3> QED
      BY Parts, <2>1, <3>1, <3>2
  <2> QED
    BY Parts, <2>1
<1>5. WireOK'
  BY <1>0, <1>3, <1>4 DEF WireOK
<1> QED
  BY <1>0, <1>1, <1>2, <1>5 DEF TypeOK, SessionOK, WireOK, UserOK, CountersOK

-----------------------------------------------------------------------------
(* The connection *)

\* INFO is handled once on a connection: only a fresh one has it under way.
LEMMA InfoOnce ==
  ASSUME IInv, conn = "open", toClient # << >>, Head(toClient).op = "INFO"
  PROVE  ~protocol
<1>1. toClient \in Seq(Replies)
  BY Parts
<1>2. Head(toClient) = toClient[1] /\ 1 \in DOMAIN toClient
  BY <1>1, LenProperties, EmptySeq, HeadTailProperties
<1> QED
  BY <1>2, Parts DEF ReadyOK, Up

\* A fresh connection has nothing but INFO to handle.
LEMMA InfoFirst ==
  ASSUME IInv, conn = "open", toClient # << >>, Head(toClient).op # "INFO"
  PROVE  Up
BY Parts DEF FreshOK, Up

LEMMA TaskStep ==
  ASSUME IInv, Next
  PROVE  TaskOK'
<1>0. TaskOK /\ SessionOK
  BY Parts, TypeParts
<1> USE <1>0 DEF TaskOK, SessionOK, sessionVars, wireVars, userVars
<1>1. CASE Task \/ Connected \/ ConnectFails \/ ConnectRaises
  BY <1>1 DEF Task, Start, Retry, Reconnect, Attempt, Renewed, Connected, ConnectFails,
              ConnectRaises
<1>2. CASE Callbacks
  BY <1>2 DEF Callbacks, OnInfo, OnPublish, OnError, ConnectionLost, Resolved
<1>3. CASE Calls
  <2>1. ASSUME NEW ch \in Chans, Subscribe(ch) \/ Unsubscribe(ch) \/ Publish(ch)
        PROVE  UNCHANGED <<task, conn, protocol, connectedDone, closedDone>>
    BY <2>1 DEF Subscribe, Unsubscribe, Publish
  <2>2. CASE Read \/ Enter \/ Close
    BY <2>2 DEF Read, Enter, Close, Up
  <2> QED
    BY <2>1, <2>2, <1>3 DEF Calls
<1>4. CASE Entered \/ Closed
  BY <1>4 DEF Entered, Closed
<1>5. CASE Broker
  BY <1>5 DEF Broker, BrokerTakes, BrokerPublishes, BrokerRefuses, Break
<1> QED
  BY <1>1, <1>2, <1>3, <1>4, <1>5 DEF Next

LEMMA FreshStep ==
  ASSUME IInv, Next
  PROVE  FreshOK'
<1>0. TaskOK /\ FreshOK
  BY Parts
<1> USE <1>0 DEF FreshOK, sessionVars, wireVars, userVars
<1>1. CASE Task \/ ConnectFails \/ ConnectRaises
  BY <1>1 DEF TaskOK, Task, Start, Retry, Reconnect, Attempt, Renewed, ConnectFails,
              ConnectRaises
<1>2. CASE Connected
  BY <1>2 DEF TaskOK, Connected
<1>3. CASE OnInfo \/ ConnectionLost
  BY <1>3 DEF OnInfo, ConnectionLost
<1>4. CASE OnPublish \/ OnError
  BY <1>4, InfoFirst DEF OnPublish, OnError, Up
<1>5. CASE Calls
  BY <1>5 DEF Calls, Subscribe, Unsubscribe, Publish, Read, Enter, Close
<1>6. CASE Entered \/ Closed
  BY <1>6 DEF Entered, Closed
<1>7. CASE Broker
  BY <1>7, Heard DEF Broker, BrokerTakes, BrokerPublishes, BrokerRefuses, Break, Up
<1> QED
  BY <1>1, <1>2, <1>3, <1>4, <1>5, <1>6, <1>7 DEF Next, Callbacks

\* What the broker will serve keeps up with the session's subscriptions.
LEMMA ServeStep ==
  ASSUME IInv, Next, Up'
  PROVE  /\ MayFollow(authed, toBroker)'
         /\ WillServe(authed, inForce, toBroker)' = subscriptions'
<1>0. /\ toBroker \in Seq(Requests) /\ authed \in BOOLEAN /\ TaskOK
      /\ Up => /\ MayFollow(authed, toBroker)
               /\ WillServe(authed, inForce, toBroker) = subscriptions
  BY Parts DEF ReadyOK
<1>1. ASSUME Up, UNCHANGED <<authed, inForce>>, NEW m \in Requests,
             toBroker' = toBroker \o <<m>>, subscriptions' = Serving(subscriptions, m)
      PROVE  /\ MayFollow(authed, toBroker)'
             /\ WillServe(authed, inForce, toBroker)' = subscriptions'
  <2>1. toBroker \o <<m>> = Append(toBroker, m)
    BY <1>0, AppendIsConcat
  <2>2. /\ MayFollow(authed, toBroker)
        /\ WillServe(authed, inForce, toBroker) = subscriptions
    BY <1>0, <1>1
  <2>3. /\ MayFollow(authed, Append(toBroker, m))
        /\ WillServe(authed, inForce, Append(toBroker, m)) = Serving(subscriptions, m)
    BY <1>0, <2>2, AppendServes
  <2> QED
    BY <1>1, <2>1, <2>3
<1>2. ASSUME Up, UNCHANGED <<authed, inForce, toBroker, subscriptions>>
      PROVE  /\ MayFollow(authed, toBroker)'
             /\ WillServe(authed, inForce, toBroker)' = subscriptions'
  BY <1>0, <1>2
<1> USE DEF sessionVars, wireVars, userVars
<1>3. CASE Task \/ Connected \/ ConnectFails \/ ConnectRaises
  <2>1. ~Up'
    BY <1>0, <1>3 DEF TaskOK, Task, Start, Retry, Reconnect, Attempt, Renewed,
                      ConnectFails, ConnectRaises, Connected, Up
  <2> QED
    BY <2>1
<1>4. CASE OnInfo
  <2>1. ~protocol /\ conn = "open"
    BY <1>4, InfoOnce DEF OnInfo
  <2>2. toBroker = << >> /\ authed = FALSE /\ inForce = {}
    BY <2>1, <1>0, Parts DEF FreshOK
  <2>3. PICK order \in Orders(subscriptions) :
          toBroker' = (toBroker \o <<Auth>>) \o Resubscribed(order)
    BY <1>4 DEF OnInfo
  <2>4. toBroker' = <<Auth>> \o Resubscribed(order)
    <3>1. <<Auth>> \in Seq(Requests)
      BY RequestKinds
    <3>2. toBroker \o <<Auth>> = <<Auth>>
      BY <3>1, <2>2, ConcatEmptySeq
    <3> QED
      BY <2>3, <3>2
  <2>5. authed' = FALSE /\ inForce' = {} /\ subscriptions' = subscriptions
    BY <1>4, <2>2 DEF OnInfo
  <2> QED
    BY <2>4, <2>5, Parts, ReadyServes
<1>5. CASE OnPublish \/ OnError \/ ConnectionLost \/ Entered \/ Closed
  BY <1>2, <1>5 DEF OnPublish, OnError, ConnectionLost, Entered, Closed, Up
<1>6. ASSUME NEW ch \in Chans, Subscribe(ch) \/ Unsubscribe(ch) \/ Publish(ch)
      PROVE  /\ MayFollow(authed, toBroker)'
             /\ WillServe(authed, inForce, toBroker)' = subscriptions'
  <2>1. Up /\ UNCHANGED <<authed, inForce>>
    BY <1>6 DEF Subscribe, Unsubscribe, Publish, Up
  <2>2. PICK op \in {"SUBSCRIBE", "UNSUBSCRIBE", "PUBLISH"} :
          /\ toBroker' = toBroker \o <<Request(op, ch)>>
          /\ subscriptions' = CASE op = "SUBSCRIBE"   -> subscriptions \cup {ch}
                                [] op = "UNSUBSCRIBE" -> subscriptions \ {ch}
                                [] OTHER              -> subscriptions
    BY <1>6, <2>1 DEF Subscribe, Unsubscribe, Publish, Up, Sends
  <2>3. /\ Request(op, ch) \in Requests
        /\ subscriptions' = Serving(subscriptions, Request(op, ch))
    <3>1. /\ Request(op, ch) \in Requests
          /\ Request(op, ch).op = op /\ Request(op, ch).chan = ch
      BY RequestKinds
    <3> QED
      BY <2>2, <3>1 DEF Serving
  <2> QED
    BY <1>1, <2>1, <2>2, <2>3
<1>7. CASE Read \/ Enter \/ Close
  BY <1>2, <1>7 DEF Read, Enter, Close, Up
<1>8. CASE BrokerTakes
  <2>1. Up /\ toBroker # << >>
    BY <1>8, Heard DEF BrokerTakes
  <2>2. MayFollow(authed', toBroker')
    BY <1>0, <1>8, <2>1 DEF MayFollow, BrokerTakes
  <2>3. /\ authed' = (authed \/ Head(toBroker) = Auth) /\ toBroker' = Tail(toBroker)
        /\ inForce' = IF authed THEN Serving(inForce, Head(toBroker)) ELSE inForce
        /\ subscriptions' = subscriptions
    BY <1>8 DEF BrokerTakes
  <2> QED
    BY <1>0, <2>1, <2>2, <2>3, TakeServes
<1>9. CASE BrokerPublishes \/ BrokerRefuses \/ Break
  BY <1>2, <1>9 DEF BrokerPublishes, BrokerRefuses, Break, Up
<1> QED
  BY <1>3, <1>4, <1>5, <1>6, <1>7, <1>8, <1>9 DEF Next, Task, Callbacks, Calls, Broker

\* No second INFO is on its way.
LEMMA InfoStep ==
  ASSUME IInv, Next, Up'
  PROVE  \A i \in DOMAIN toClient' : toClient'[i].op # "INFO"
<1>0. TaskOK /\ (Up => \A i \in DOMAIN toClient : toClient[i].op # "INFO")
  BY Parts DEF ReadyOK
<1> USE DEF sessionVars, wireVars, userVars
<1>1. CASE Task \/ Connected \/ ConnectFails \/ ConnectRaises
  <2>1. ~Up'
    BY <1>0, <1>1 DEF TaskOK, Task, Start, Retry, Reconnect, Attempt, Renewed,
                      ConnectFails, ConnectRaises, Connected, Up
  <2> QED
    BY <2>1
<1>2. CASE OnInfo
  <2>1. conn = "open" /\ ~protocol
    BY <1>2, InfoOnce DEF OnInfo
  <2>2. toClient' = << >>
    BY <1>2, <2>1, Parts DEF FreshOK, OnInfo
  <2> QED
    BY <2>2
<1>3. CASE OnPublish \/ OnError
  <2>1. Up /\ toClient # << >> /\ toClient' = Tail(toClient)
    BY <1>3 DEF OnPublish, OnError, Up
  <2> QED
    BY <1>0, <2>1, Handled
<1>4. CASE ConnectionLost \/ Entered \/ Closed \/ Read \/ Enter \/ Close \/ Break
  BY <1>0, <1>4 DEF ConnectionLost, Entered, Closed, Read, Enter, Close, Break, Up
<1>5. ASSUME NEW ch \in Chans, Subscribe(ch) \/ Unsubscribe(ch) \/ Publish(ch)
      PROVE  Up /\ toClient' = toClient
  BY <1>5 DEF Subscribe, Unsubscribe, Publish, Up
<1>6. CASE BrokerTakes \/ BrokerRefuses
  <2>1. Up /\ (toClient' = toClient \/ toClient' = Append(toClient, [op |-> "ERROR"]))
    BY <1>6 DEF BrokerTakes, BrokerRefuses, Up
  <2> QED
    BY <1>0, <2>1, ReplyKinds, Replied
<1>7. CASE BrokerPublishes
  <2>1. Up /\ toClient' = Append(toClient, [op |-> "PUBLISH", n |-> sent']) /\ sent' \in Numbers
    BY <1>7, Parts, Bounds DEF BrokerPublishes, Up, Numbers
  <2> QED
    BY <1>0, <2>1, ReplyKinds, Replied
<1> QED
  BY <1>0, <1>1, <1>2, <1>3, <1>4, <1>5, <1>6, <1>7 DEF Next, Task, Callbacks, Calls, Broker

-----------------------------------------------------------------------------
(* The order of the messages *)

Given == Members(got) \cup Members(readQueue)

LEMMA GivenType ==
  ASSUME IInv
  PROVE  /\ Given \in SUBSET Nat /\ InOrder(toClient, Given, sent) /\ sent \in Nat
         /\ \A i \in DOMAIN toClient : toClient[i].op = "PUBLISH" => toClient[i].n \in Nat
<1>1. readQueue \in Seq(Nat) /\ got \in Seq(Nat) /\ sent \in Nat
  BY Parts, Bounds DEF Numbers
<1>2. Members(readQueue) \subseteq Nat /\ Members(got) \subseteq Nat
  <2>1. /\ \A i \in DOMAIN readQueue : readQueue[i] \in Nat
        /\ \A i \in DOMAIN got : got[i] \in Nat
    BY <1>1, ElementOfSeq, LenProperties
  <2> QED
    BY <2>1 DEF Members
<1>3. \A i \in DOMAIN toClient : toClient[i] \in Replies
  BY Parts, ElementOfSeq, LenProperties
<1> QED
  BY <1>1, <1>2, <1>3, Parts, ReplyKinds, Bounds DEF Given, Numbers

LEMMA OrderStep ==
  ASSUME IInv, Next
  PROVE  InOrder(toClient, Given, sent)'
<1>0. /\ InOrder(toClient, Given, sent) /\ Given \in SUBSET Nat /\ sent \in Nat
      /\ toClient \in Seq(Replies)
  BY Parts, GivenType
<1>1. ASSUME UNCHANGED <<toClient, got, readQueue, sent>>
      PROVE  InOrder(toClient, Given, sent)'
  BY <1>0, <1>1 DEF Given
<1>2. ASSUME UNCHANGED <<got, readQueue, sent>>, toClient' = << >> \/ toClient' = <<[op |-> "INFO"]>>
      PROVE  InOrder(toClient, Given, sent)'
  <2>1. \A i \in DOMAIN toClient' : toClient'[i].op # "PUBLISH"
    BY <1>2
  <2> QED
    BY <1>0, <1>2, <2>1 DEF InOrder, Given
<1>3. ASSUME UNCHANGED <<got, readQueue, sent>>, toClient' = Append(toClient, [op |-> "ERROR"])
      PROVE  InOrder(toClient, Given, sent)'
  BY <1>0, <1>3, ReplyKinds, InOrderReply DEF Given
<1>4. ASSUME UNCHANGED <<got, readQueue, sent>>, toClient # << >>, toClient' = Tail(toClient)
      PROVE  InOrder(toClient, Given, sent)'
  BY <1>0, <1>4, InOrderTail DEF Given
<1> USE DEF sessionVars, wireVars, userVars
<1>5. CASE Task \/ ConnectFails \/ ConnectRaises
  BY <1>1, <1>5 DEF Task, Start, Retry, Reconnect, Attempt, Renewed, ConnectFails, ConnectRaises
<1>6. CASE Connected \/ ConnectionLost
  BY <1>2, <1>6 DEF Connected, ConnectionLost
<1>7. CASE OnInfo \/ OnError
  BY <1>4, <1>7 DEF OnInfo, OnError
<1>8. CASE OnPublish
  <2>1. /\ toClient # << >> /\ Head(toClient).op = "PUBLISH" /\ toClient' = Tail(toClient)
        /\ readQueue' = Append(readQueue, Head(toClient).n)
        /\ got' = got /\ sent' = sent
    BY <1>8 DEF OnPublish, Queued
  <2>2. Head(toClient).n \in Numbers
    BY <2>1, Handled, ReplyKinds
  <2>3. Given' = Given \cup {Head(toClient).n}
    BY <2>1, <2>2, Parts, MembersAppend DEF Given
  <2> QED
    BY <1>0, <2>1, <2>3, InOrderTail
<1>9. CASE Calls
  <2>1. CASE Read
    <3>1. /\ readQueue # << >> /\ readQueue' = Tail(readQueue)
          /\ got' = Append(got, Head(readQueue)) /\ toClient' = toClient /\ sent' = sent
      BY <2>1 DEF Read
    <3>2. readQueue \in Seq(Numbers) /\ got \in Seq(Numbers) /\ Head(readQueue) \in Numbers
      BY <3>1, Parts, HeadTailProperties
    <3>3. Given' = Given
      BY <3>1, <3>2, MembersAppend, MembersTail DEF Given
    <3> QED
      BY <1>0, <3>1, <3>3
  <2> QED
    BY <2>1, <1>1, <1>9 DEF Calls, Subscribe, Unsubscribe, Publish, Enter, Close
<1>10. CASE Entered \/ Closed \/ Break
  BY <1>1, <1>10 DEF Entered, Closed, Break
<1>11. CASE BrokerTakes \/ BrokerRefuses
  BY <1>1, <1>3, <1>11 DEF BrokerTakes, BrokerRefuses
<1>12. CASE BrokerPublishes
  <2>1. /\ toClient' = Append(toClient, [op |-> "PUBLISH", n |-> sent + 1])
        /\ UNCHANGED <<got, readQueue>> /\ sent' = sent + 1 /\ sent + 1 \in Numbers
    BY <1>12, <1>0, Bounds DEF BrokerPublishes, Numbers
  <2> QED
    BY <1>0, <2>1, GivenType, ReplyKinds, InOrderPublish DEF Given
<1> QED
  BY <1>5, <1>6, <1>7, <1>8, <1>9, <1>10, <1>11, <1>12 DEF Next, Callbacks, Broker

-----------------------------------------------------------------------------
(* The invariant *)

LEMMA Initial == Init => IInv
<1> SUFFICES ASSUME Init PROVE IInv
  OBVIOUS
<1>1. TypeOK
  <2>1. SessionOK
    BY DEF Init, SessionOK
  <2>2. << >> \in Seq(Requests) /\ << >> \in Seq(Replies) /\ << >> \in Seq(1 .. MaxSent)
    OBVIOUS
  <2>3. WireOK /\ UserOK
    BY <2>2 DEF Init, WireOK, UserOK
  <2>4. CountersOK
    BY Bounds DEF Init, CountersOK
  <2> QED
    BY <2>1, <2>3, <2>4, TypeParts
<1>2. IsFiniteSet(subscriptions)
  BY FS_EmptySet DEF Init
<1>3. TaskOK /\ FreshOK /\ ReadyOK
  BY DEF Init, TaskOK, FreshOK, ReadyOK, Up
<1>4. InOrder(toClient, Members(got) \cup Members(readQueue), sent)
  BY DEF Init, InOrder, Members
<1> QED
  BY <1>1, <1>2, <1>3, <1>4 DEF IInv

LEMMA Inductive == IInv /\ [Next]_vars => IInv'
<1> SUFFICES ASSUME IInv, [Next]_vars PROVE IInv'
  OBVIOUS
<1>1. CASE Next
  <2>1. TypeOK' /\ IsFiniteSet(subscriptions)'
    BY <1>1, TaskType, CallbackType, CallType, BrokerType DEF Next, Task, Quiet
  <2>2. TaskOK' /\ FreshOK'
    BY <1>1, TaskStep, FreshStep
  <2>3. ReadyOK'
    BY <1>1, ServeStep, InfoStep DEF ReadyOK
  <2> QED
    BY <1>1, <2>1, <2>2, <2>3, OrderStep DEF IInv, Given
<1>2. CASE UNCHANGED vars
  BY <1>2 DEF vars, sessionVars, wireVars, userVars, IInv, TypeOK, TaskOK, FreshOK, ReadyOK, Up
<1> QED
  BY <1>1, <1>2

LEMMA Invariant == Spec => []IInv
BY Initial, Inductive, PTL DEF Spec

\* The types of the session, of the connection and of what is under way.
THEOREM TypeCorrect == Spec => []TypeOK
<1>1. IInv => TypeOK
  BY DEF IInv
<1> QED
  BY <1>1, Invariant, PTL

\* connection_ready and connection_lost find the future that they resolve
\* unresolved: InvalidStateError never stops a callback (client.py 41, 88).
THEOREM Unresolved == Spec => []ResolvedOnce
<1>1. IInv => ResolvedOnce
  BY InfoOnce, Parts DEF ResolvedOnce, FreshOK, TaskOK
<1> QED
  BY <1>1, Invariant, PTL

-----------------------------------------------------------------------------
(* The requests are proper *)

\* What is under way is proper, and leads to the session's subscriptions.
ProperOK == Up => AllProper(authed, inForce, toBroker, subscriptions)

LEMMA ProperStep ==
  ASSUME IInv, ProperOK, Next
  PROVE  ProperOK'
<1> SUFFICES ASSUME Up' PROVE AllProper(authed, inForce, toBroker, subscriptions)'
  BY DEF ProperOK
<1>0. /\ toBroker \in Seq(Requests) /\ authed \in BOOLEAN /\ TaskOK
      /\ Up => MayFollow(authed, toBroker)
  BY Parts DEF ReadyOK
<1>1. ASSUME Up, UNCHANGED <<authed, inForce>>, NEW m \in Requests, m # Auth,
             toBroker' = toBroker \o <<m>>, subscriptions' = Serving(subscriptions, m),
             Proper(TRUE, subscriptions, m)
      PROVE  AllProper(authed, inForce, toBroker, subscriptions)'
  <2>1. toBroker \o <<m>> = Append(toBroker, m)
    BY <1>0, AppendIsConcat
  <2>2. (authed \/ toBroker # << >>) <=> TRUE
    BY <1>0, <1>1 DEF MayFollow
  <2>3. Proper(authed \/ toBroker # << >>, subscriptions, m)
    BY <1>1, <2>2 DEF Proper
  <2>4. AllProper(authed, inForce, Append(toBroker, m), Serving(subscriptions, m))
    BY <1>0, <1>1, <2>3, ProperAppend DEF ProperOK
  <2> QED
    BY <1>1, <2>1, <2>4
<1>2. ASSUME Up, UNCHANGED <<authed, inForce, toBroker, subscriptions>>
      PROVE  AllProper(authed, inForce, toBroker, subscriptions)'
  BY <1>2 DEF ProperOK
<1> USE DEF sessionVars, wireVars, userVars
<1>3. CASE Task \/ Connected \/ ConnectFails \/ ConnectRaises
  <2>1. ~Up'
    BY <1>0, <1>3 DEF TaskOK, Task, Start, Retry, Reconnect, Attempt, Renewed,
                      ConnectFails, ConnectRaises, Connected, Up
  <2> QED
    BY <2>1
<1>4. CASE OnInfo
  <2>1. ~protocol /\ conn = "open"
    BY <1>4, InfoOnce DEF OnInfo
  <2>2. toBroker = << >> /\ authed = FALSE /\ inForce = {}
    BY <2>1, <1>0, Parts DEF FreshOK
  <2>3. PICK order \in Orders(subscriptions) :
          toBroker' = (toBroker \o <<Auth>>) \o Resubscribed(order)
    BY <1>4 DEF OnInfo
  <2>4. toBroker' = <<Auth>> \o Resubscribed(order)
    <3>1. <<Auth>> \in Seq(Requests)
      BY RequestKinds
    <3>2. toBroker \o <<Auth>> = <<Auth>>
      BY <3>1, <2>2, ConcatEmptySeq
    <3> QED
      BY <2>3, <3>2
  <2>5. authed' = FALSE /\ inForce' = {} /\ subscriptions' = subscriptions
    BY <1>4, <2>2 DEF OnInfo
  <2> QED
    BY <2>4, <2>5, Parts, ReadyProper
<1>5. CASE OnPublish \/ OnError \/ ConnectionLost \/ Entered \/ Closed
  BY <1>2, <1>5 DEF OnPublish, OnError, ConnectionLost, Entered, Closed, Up
<1>6. ASSUME NEW ch \in Chans, Subscribe(ch) \/ Unsubscribe(ch) \/ Publish(ch)
      PROVE  AllProper(authed, inForce, toBroker, subscriptions)'
  <2>1. Up /\ UNCHANGED <<authed, inForce>>
    BY <1>6 DEF Subscribe, Unsubscribe, Publish, Up
  <2>2. PICK op \in {"SUBSCRIBE", "UNSUBSCRIBE", "PUBLISH"} :
          /\ toBroker' = toBroker \o <<Request(op, ch)>>
          /\ subscriptions' = CASE op = "SUBSCRIBE"   -> subscriptions \cup {ch}
                                [] op = "UNSUBSCRIBE" -> subscriptions \ {ch}
                                [] OTHER              -> subscriptions
          /\ op = "SUBSCRIBE" => ch \notin subscriptions
          /\ op = "UNSUBSCRIBE" => ch \in subscriptions
    BY <1>6, <2>1 DEF Subscribe, Unsubscribe, Publish, Up, Sends
  <2>3. /\ Request(op, ch) \in Requests /\ Request(op, ch) # Auth
        /\ subscriptions' = Serving(subscriptions, Request(op, ch))
        /\ Proper(TRUE, subscriptions, Request(op, ch))
    <3>1. /\ Request(op, ch) \in Requests /\ Request(op, ch) # Auth
          /\ Request(op, ch).op = op /\ Request(op, ch).chan = ch
      BY RequestKinds
    <3> QED
      BY <2>2, <3>1 DEF Serving, Proper
  <2> QED
    BY <1>1, <2>1, <2>2, <2>3
<1>7. CASE Read \/ Enter \/ Close
  BY <1>2, <1>7 DEF Read, Enter, Close, Up
<1>8. CASE BrokerTakes
  <2>1. Up /\ toBroker # << >>
    BY <1>8, Heard DEF BrokerTakes
  <2>2. /\ authed' = (authed \/ Head(toBroker) = Auth) /\ toBroker' = Tail(toBroker)
        /\ inForce' = IF authed THEN Serving(inForce, Head(toBroker)) ELSE inForce
        /\ subscriptions' = subscriptions
    BY <1>8 DEF BrokerTakes
  <2>3. /\ authed \/ Head(toBroker) = Auth
        /\ AllProper(TRUE, IF authed THEN Serving(inForce, Head(toBroker)) ELSE inForce,
                     Tail(toBroker), subscriptions)
    BY <1>0, <2>1, ProperTake DEF ProperOK
  <2> QED
    BY <2>2, <2>3
<1>9. CASE BrokerPublishes \/ BrokerRefuses \/ Break
  BY <1>2, <1>9 DEF BrokerPublishes, BrokerRefuses, Break, Up
<1> QED
  BY <1>3, <1>4, <1>5, <1>6, <1>7, <1>8, <1>9 DEF Next, Task, Callbacks, Calls, Broker

\* Each message finds the broker in a state where a proper client sends it
\* (client.py 29-43, 117-128): the session does what GaugeExact and
\* KeepsProper of BrokerProofs ask of a peer's subscriptions.
THEOREM Asks == Spec => []AsksProperly
<1>1. Init => ProperOK
  BY DEF Init, ProperOK, Up
<1>2. IInv /\ ProperOK /\ [Next]_vars => ProperOK'
  <2>1. ASSUME UNCHANGED vars, ProperOK PROVE ProperOK'
    BY <2>1 DEF vars, sessionVars, wireVars, ProperOK, Up
  <2> QED
    BY <2>1, ProperStep
<1>3. IInv /\ ProperOK => AsksProperly
  <2> SUFFICES ASSUME IInv, ProperOK, conn = "open", toBroker # << >>
               PROVE  Proper(authed, inForce, Head(toBroker))
    BY DEF AsksProperly
  <2>1. Up
    BY Heard
  <2> QED
    BY <2>1, Parts, ProperTake DEF ProperOK
<1> QED
  BY <1>1, <1>2, <1>3, Invariant, PTL DEF Spec

-----------------------------------------------------------------------------
(* The promise *)

\* The session's history only tells which messages were given.
LEMMA PromiseGiven == Promise!ToSet(got) \cup Promise!ToSet(readQueue) = Given
BY DEF Promise!ToSet, Given, Members

\* What is agreed on.
LEMMA AgreedOn ==
  ASSUME IInv
  PROVE  Agreed = IF Up THEN subscriptions ELSE {}
BY Parts DEF ReadyOK, Agreed

LEMMA PromiseStep ==
  ASSUME IInv, IInv', Next
  PROVE  [Promise!Next]_(Promise!vars)
<1>0. /\ Agreed = IF Up THEN subscriptions ELSE {}
      /\ Agreed' = IF Up' THEN subscriptions' ELSE {}
      /\ TaskOK /\ Up \in BOOLEAN /\ Up' \in BOOLEAN
  <2>1. Agreed' = IF Up' THEN subscriptions' ELSE {}
    BY DEF IInv, ReadyOK, Agreed
  <2> QED
    BY <2>1, Parts, AgreedOn DEF Up
<1> USE DEF sessionVars, wireVars, userVars
<1>1. ASSUME UNCHANGED <<subscriptions, readQueue, got>>, Up' = Up
      PROVE  UNCHANGED Promise!vars
  BY <1>0, <1>1 DEF Promise!vars
<1>2. ASSUME UNCHANGED <<subscriptions, readQueue, got>>, ~Up, Up'
      PROVE  Promise!GetReady
  BY <1>0, <1>2 DEF Promise!GetReady
<1>3. ASSUME UNCHANGED <<subscriptions, readQueue, got>>, Up, ~Up'
      PROVE  Promise!Lose
  BY <1>0, <1>3 DEF Promise!Lose
<1>4. ASSUME UNCHANGED <<subscriptions, readQueue, got>>
      PROVE  [Promise!Next]_(Promise!vars)
  BY <1>0, <1>1, <1>2, <1>3, <1>4 DEF Promise!Next
<1>5. CASE Task \/ Connected \/ ConnectFails \/ ConnectRaises \/ Entered \/ Closed
  BY <1>4, <1>5 DEF Task, Start, Retry, Reconnect, Attempt, Renewed, Connected, ConnectFails,
                    ConnectRaises, Entered, Closed
<1>6. CASE OnInfo \/ OnError \/ ConnectionLost
  BY <1>4, <1>6 DEF OnInfo, OnError, ConnectionLost
<1>7. CASE Broker
  BY <1>4, <1>7 DEF Broker, BrokerTakes, BrokerPublishes, BrokerRefuses, Break
<1>8. CASE OnPublish
  <2>1. /\ toClient # << >> /\ Head(toClient).op = "PUBLISH" /\ toClient' = Tail(toClient)
        /\ readQueue' = Append(readQueue, Head(toClient).n)
        /\ UNCHANGED <<subscriptions, got, Up>>
    BY <1>8 DEF OnPublish, Queued, Up
  <2>2. Head(toClient).n \in 1 .. MaxSent
    BY <2>1, Handled, ReplyKinds DEF Numbers
  <2>3. \A g \in Given : g < Head(toClient).n
    BY <2>1, GivenType, Parts, InOrderTail
  <2>4. Promise!Arrive(Head(toClient).n)
    BY <1>0, <2>1, <2>3, PromiseGiven DEF Promise!Arrive
  <2> QED
    BY <2>2, <2>4 DEF Promise!Next
<1>9. CASE Read
  <2>1. Up' = Up /\ subscriptions' = subscriptions
    BY <1>9 DEF Read, Up
  <2>2. Promise!Read
    BY <1>0, <1>9, <2>1 DEF Read, Promise!Read
  <2> QED
    BY <2>2 DEF Promise!Next
<1>10. ASSUME NEW ch \in Chans, Subscribe(ch)
       PROVE  Promise!Subscribe(ch)
  BY <1>0, <1>10 DEF Subscribe, Up, Promise!Subscribe, Promise!Want
<1>11. ASSUME NEW ch \in Chans, Unsubscribe(ch)
       PROVE  Promise!Unsubscribe(ch)
  BY <1>0, <1>11 DEF Unsubscribe, Up, Promise!Unsubscribe, Promise!Want
<1>12. ASSUME NEW ch \in Chans, Publish(ch)
       PROVE  [Promise!Next]_(Promise!vars)
  BY <1>4, <1>12 DEF Publish
<1>13. CASE Enter \/ Close
  BY <1>4, <1>13 DEF Enter, Close
<1> QED
  BY <1>5, <1>6, <1>7, <1>8, <1>9, <1>10, <1>11, <1>12, <1>13
     DEF Next, Callbacks, Calls, Promise!Next

\* The session keeps its promise (client.py 24-140): once ready the broker will
\* serve exactly what is subscribed to, and messages are read in order and once,
\* whatever connections are lost meanwhile.
THEOREM KeepsPromise == Spec => ImplementsSession
<1>1. Init => Promise!Init
  BY DEF Init, Promise!Init, Up, Agreed
<1>2. IInv /\ IInv' /\ [Next]_vars => [Promise!Next]_(Promise!vars)
  <2> SUFFICES ASSUME IInv, IInv', [Next]_vars PROVE [Promise!Next]_(Promise!vars)
    OBVIOUS
  <2>1. CASE UNCHANGED vars
    BY <2>1 DEF vars, sessionVars, wireVars, userVars, Promise!vars, Up, Agreed
  <2> QED
    BY <2>1, PromiseStep
<1> QED
  BY <1>1, <1>2, Invariant, PTL DEF Spec, ImplementsSession, Promise!Spec
=============================================================================
