---------------------------- MODULE BlockingProofs ----------------------------
(***************************************************************************)
(* Proofs about the blocking client, for any threads, capacity of a socket *)
(* pair and bounds: that get() finds an item, that what is on the wire is  *)
(* what was written, and that what is read is what was published.          *)
(***************************************************************************)
EXTENDS BlockingClient, FiniteSetTheorems, SequenceTheorems, TLAPS

Members(s) == {s[i] : i \in DOMAIN s}

\* The messages in q are numbered in ascending order, after those in `given`, up
\* to `top`.
InOrder(q, given, top) ==
  /\ \A g \in given : g <= top
  /\ \A i \in DOMAIN q : q[i].op = "PUBLISH" => /\ q[i].n <= top
                                                /\ \A g \in given : g < q[i].n
  /\ \A i, j \in DOMAIN q : i < j /\ q[i].op = "PUBLISH" /\ q[j].op = "PUBLISH"
                              => q[i].n < q[j].n

\* Who has put an item into outbox g and not its byte, and who has taken a byte
\* and not the item.
Wakers(g) == {u \in Users : call[u].at = "waking" /\ call[u].gen = g}
Takers    == {u \in Users : call[u].at = "taking"}

One(b) == IF b THEN 1 ELSE 0

\* Each item of a queue has its byte, or a thread that is about to put it there
\* or has taken it already.
OutboxOK ==
  \A g \in 0 .. MaxConns :
    Len(outbox[g].items) = outbox[g].wakes + Cardinality(Wakers(g))
                             + One(rpc = "wakeOutbox" /\ gen = g)

ReaderOK ==
  Len(readQueue.items) = readQueue.wakes + Cardinality(Takers) + One(rpc = "wakeReader")

\* Only the reactor takes bytes of an outbox, so what select() found still holds.
ReadyOK ==
  /\ rpc = "get" \/ "outbox" \in ready => outbox[gen].wakes > 0
  /\ rpc \in {"new", "connecting", "select", "get", "send", "done"} => ready = {}
  /\ rpc = "handle" => pending # << >>

\* Nobody knows the outbox of a connection that is still to be made.
FreshOK ==
  /\ gen = made
  /\ \A u \in Users : call[u].gen <= made
  /\ \A g \in 0 .. MaxConns : g > made => log[g] = << >> /\ outbox[g] = EmptyQueue

Rising(s) == \A i, j \in DOMAIN s : i < j => s[i] < s[j]

Given == got \o readQueue.items

\* What was or can be read is older than what is still to come.
OrderOK ==
  /\ Rising(Given)
  /\ InOrder(pending \o toClient, Members(Given), sent)

IInv == TypeOK /\ OutboxOK /\ ReaderOK /\ ReadyOK /\ FreshOK /\ WireInOrder /\ OrderOK

-----------------------------------------------------------------------------
(* Numbered messages on their way from the broker *)

\* A reply that is no message.
LEMMA InOrderReply ==
  ASSUME NEW R, NEW q \in Seq(R), NEW r \in R, NEW given, NEW top,
         r.op # "PUBLISH", InOrder(q, given, top)
  PROVE  InOrder(Append(q, r), given, top)
<1> DEFINE p == Append(q, r)
<1>1. /\ Len(q) \in Nat /\ DOMAIN q = 1 .. Len(q) /\ DOMAIN p = 1 .. Len(q) + 1
      /\ \A i \in 1 .. Len(q) : p[i] = q[i]
      /\ p[Len(q) + 1].op # "PUBLISH"
  BY AppendProperties, LenProperties
<1>2. \A i \in DOMAIN p : p[i].op = "PUBLISH" => i \in DOMAIN q /\ p[i] = q[i]
  BY <1>1
<1> HIDE DEF p
<1> QED
  BY <1>2 DEF InOrder, p

\* The next message.
LEMMA InOrderPublish ==
  ASSUME NEW R, NEW q \in Seq(R), NEW r \in R, NEW given \in SUBSET Nat, NEW top \in Nat,
         \A i \in DOMAIN q : q[i].op = "PUBLISH" => q[i].n \in Nat,
         r.op = "PUBLISH", r.n = top + 1, InOrder(q, given, top)
  PROVE  InOrder(Append(q, r), given, top + 1)
<1> DEFINE p == Append(q, r)
<1>1. /\ Len(q) \in Nat /\ DOMAIN q = 1 .. Len(q) /\ DOMAIN p = 1 .. Len(q) + 1
      /\ \A i \in 1 .. Len(q) : p[i] = q[i]
      /\ p[Len(q) + 1] = r
  BY AppendProperties, LenProperties
<1> HIDE DEF p
<1>2. \A i \in DOMAIN p : (i \in DOMAIN q /\ p[i] = q[i]) \/ (i = Len(q) + 1 /\ p[i] = r)
  BY <1>1
<1>3. ASSUME NEW g \in given PROVE g <= top + 1 /\ g < r.n
  <2>1. g \in Nat /\ g <= top
    BY DEF InOrder
  <2> QED
    BY <2>1
<1>4. ASSUME NEW i \in DOMAIN p, p[i].op = "PUBLISH"
      PROVE  p[i].n <= top + 1 /\ \A g \in given : g < p[i].n
  BY <1>2, <1>3, <1>4 DEF InOrder
<1>5. ASSUME NEW i \in DOMAIN p, NEW j \in DOMAIN p, i < j,
             p[i].op = "PUBLISH", p[j].op = "PUBLISH"
      PROVE  p[i].n < p[j].n
  <2>1. i \in DOMAIN q /\ p[i] = q[i]
    BY <1>1, <1>5
  <2>2. CASE j \in DOMAIN q /\ p[j] = q[j]
    BY <2>1, <2>2, <1>5 DEF InOrder
  <2>3. CASE j = Len(q) + 1 /\ p[j] = r
    BY <2>1, <2>3, <1>5 DEF InOrder
  <2> QED
    BY <2>2, <2>3, <1>2
<1> QED
  BY <1>3, <1>4, <1>5 DEF InOrder, p

\* The first reply is handled; if it is a message, it is given.
LEMMA InOrderTail ==
  ASSUME NEW R, NEW q \in Seq(R), q # << >>, NEW given, NEW top, InOrder(q, given, top)
  PROVE  /\ InOrder(Tail(q), given, top)
         /\ Head(q).op = "PUBLISH" =>
              /\ \A g \in given : g < Head(q).n
              /\ InOrder(Tail(q), given \cup {Head(q).n}, top)
<1> DEFINE p == Tail(q)
<1>1. /\ Len(q) \in Nat \ {0} /\ DOMAIN q = 1 .. Len(q) /\ DOMAIN p = 1 .. Len(q) - 1
      /\ \A i \in 1 .. Len(q) - 1 : p[i] = q[i + 1]
      /\ Head(q) = q[1]
  BY HeadTailProperties, LenProperties, EmptySeq
<1> HIDE DEF p
<1>2. \A i \in DOMAIN p : i + 1 \in DOMAIN q /\ p[i] = q[i + 1] /\ 1 < i + 1
  BY <1>1
<1>3. 1 \in DOMAIN q
  BY <1>1
<1>4. \A i, j \in DOMAIN p : i < j => i + 1 < j + 1
  BY <1>1
<1>5. InOrder(p, given, top)
  BY <1>2, <1>4 DEF InOrder
<1>6. ASSUME Head(q).op = "PUBLISH"
      PROVE  (\A g \in given : g < Head(q).n) /\ InOrder(p, given \cup {Head(q).n}, top)
  <2>1. /\ \A g \in given : g < Head(q).n
        /\ \A g \in given \cup {Head(q).n} : g <= top
    BY <1>1, <1>3, <1>6 DEF InOrder
  <2>2. \A i \in DOMAIN p : p[i].op = "PUBLISH" => Head(q).n < p[i].n
    BY <1>1, <1>2, <1>3, <1>6 DEF InOrder
  <2> QED
    BY <2>1, <2>2, <1>5 DEF InOrder
<1> QED
  BY <1>5, <1>6 DEF p

\* Members of a sequence that grows at the end, or shrinks at the front.
LEMMA MembersAppend ==
  ASSUME NEW R, NEW q \in Seq(R), NEW r \in R
  PROVE  Members(Append(q, r)) = Members(q) \cup {r} /\ Members(q) \subseteq R
<1>1. /\ Len(q) \in Nat /\ DOMAIN q = 1 .. Len(q) /\ DOMAIN Append(q, r) = 1 .. Len(q) + 1
      /\ \A i \in 1 .. Len(q) : Append(q, r)[i] = q[i] /\ q[i] \in R
      /\ Append(q, r)[Len(q) + 1] = r
  BY AppendProperties, LenProperties, ElementOfSeq
<1>2. \A i \in 1 .. Len(q) + 1 : i \in 1 .. Len(q) \/ i = Len(q) + 1
  BY <1>1
<1> QED
  BY <1>1, <1>2 DEF Members

-----------------------------------------------------------------------------
(* Sequences *)

\* A message moves from the front of one sequence to the end of another.
LEMMA MovedOver ==
  ASSUME NEW S, NEW p \in Seq(S), NEW q \in Seq(S), q # << >>
  PROVE  Append(p, Head(q)) \o Tail(q) = p \o q
<1>1. /\ Head(q) \in S /\ Tail(q) \in Seq(S) /\ <<Head(q)>> \in Seq(S)
  BY HeadTailProperties
<1>2. q = <<Head(q)>> \o Tail(q)
  <2>1. /\ Len(q) \in Nat \ {0} /\ Len(<<Head(q)>>) = 1 /\ Len(Tail(q)) = Len(q) - 1
        /\ Head(q) = q[1] /\ \A i \in 1 .. Len(q) - 1 : Tail(q)[i] = q[i + 1]
    BY HeadTailProperties, LenProperties, EmptySeq
  <2>2. /\ <<Head(q)>> \o Tail(q) \in Seq(S) /\ Len(<<Head(q)>> \o Tail(q)) = Len(q)
        /\ \A i \in 1 .. Len(q) : (<<Head(q)>> \o Tail(q))[i]
                                    = IF i <= 1 THEN <<Head(q)>>[i] ELSE Tail(q)[i - 1]
    BY <1>1, <2>1, ConcatProperties
  <2>3. \A i \in 1 .. Len(q) : (<<Head(q)>> \o Tail(q))[i] = q[i]
    <3> SUFFICES ASSUME NEW i \in 1 .. Len(q) PROVE (<<Head(q)>> \o Tail(q))[i] = q[i]
      OBVIOUS
    <3>1. CASE i = 1
      BY <3>1, <2>1, <2>2
    <3>2. CASE i # 1
      <4>1. i - 1 \in 1 .. Len(q) - 1 /\ (i - 1) + 1 = i /\ ~(i <= 1)
        BY <3>2, <2>1
      <4> QED
        BY <4>1, <2>1, <2>2
    <3> QED
      BY <3>1, <3>2
  <2> QED
    BY <2>2, <2>3, SeqEqual
<1>3. Append(p, Head(q)) = p \o <<Head(q)>>
  BY <1>1, AppendIsConcat
<1> QED
  BY <1>1, <1>2, <1>3, ConcatAssociative

\* The same, when it only leaves the front.
LEMMA TailOfConcat ==
  ASSUME NEW S, NEW p \in Seq(S), NEW q \in Seq(S), p # << >>
  PROVE  /\ p \o q \in Seq(S) /\ p \o q # << >>
         /\ Head(p \o q) = Head(p) /\ Tail(p \o q) = Tail(p) \o q
<1>1. /\ Len(p) \in Nat \ {0} /\ Len(q) \in Nat
      /\ Head(p) = p[1] /\ Tail(p) \in Seq(S) /\ Len(Tail(p)) = Len(p) - 1
      /\ \A i \in 1 .. Len(p) - 1 : Tail(p)[i] = p[i + 1]
  BY HeadTailProperties, LenProperties, EmptySeq
<1>2. /\ p \o q \in Seq(S) /\ Len(p \o q) = Len(p) + Len(q)
      /\ \A i \in 1 .. Len(p) + Len(q) :
           (p \o q)[i] = IF i <= Len(p) THEN p[i] ELSE q[i - Len(p)]
  BY ConcatProperties
<1> DEFINE r == p \o q
<1> HIDE DEF r
<1>3. /\ r \in Seq(S) /\ r # << >> /\ Len(r) \in Nat \ {0}
  BY <1>1, <1>2, EmptySeq DEF r
<1>4. /\ Head(r) = r[1] /\ Tail(r) \in Seq(S) /\ Len(Tail(r)) = Len(r) - 1
      /\ \A i \in 1 .. Len(r) - 1 : Tail(r)[i] = r[i + 1]
  BY <1>3, HeadTailProperties
<1>5. Head(r) = Head(p)
  BY <1>1, <1>2, <1>4 DEF r
<1>6. /\ Tail(p) \o q \in Seq(S) /\ Len(Tail(p) \o q) = Len(r) - 1
      /\ \A i \in 1 .. Len(r) - 1 :
           (Tail(p) \o q)[i] = IF i <= Len(p) - 1 THEN Tail(p)[i] ELSE q[i - (Len(p) - 1)]
  BY <1>1, <1>2, ConcatProperties DEF r
<1>7. \A i \in 1 .. Len(r) - 1 : Tail(r)[i] = (Tail(p) \o q)[i]
  <2> SUFFICES ASSUME NEW i \in 1 .. Len(r) - 1 PROVE Tail(r)[i] = (Tail(p) \o q)[i]
    OBVIOUS
  <2>1. i + 1 \in 1 .. Len(p) + Len(q) /\ Tail(r)[i] = r[i + 1]
    BY <1>1, <1>2, <1>3, <1>4 DEF r
  <2>2. CASE i <= Len(p) - 1
    <3>1. i \in 1 .. Len(p) - 1 /\ i + 1 <= Len(p)
      BY <1>1, <1>3, <2>2
    <3> QED
      BY <1>1, <1>2, <1>6, <2>1, <2>2, <3>1 DEF r
  <2>3. CASE ~(i <= Len(p) - 1)
    <3>1. ~(i + 1 <= Len(p)) /\ (i + 1) - Len(p) = i - (Len(p) - 1)
      BY <1>1, <1>3, <2>3
    <3> QED
      BY <1>2, <1>6, <2>1, <2>3, <3>1 DEF r
  <2> QED
    BY <2>2, <2>3
<1>8. Tail(r) = Tail(p) \o q
  BY <1>4, <1>6, <1>7, SeqEqual
<1> QED
  BY <1>2, <1>3, <1>5, <1>8 DEF r

\* A sequence cut in two.
LEMMA CutInTwo ==
  ASSUME NEW S, NEW s \in Seq(S), NEW k \in 1 .. Len(s)
  PROVE  /\ SubSeq(s, 1, k) \in Seq(S) /\ SubSeq(s, k + 1, Len(s)) \in Seq(S)
         /\ SubSeq(s, 1, k) # << >>
         /\ SubSeq(s, 1, k) \o SubSeq(s, k + 1, Len(s)) = s
<1>1. Len(s) \in Nat /\ k \in Nat /\ k <= Len(s) /\ 1 <= k
  BY LenProperties
<1>2. \A i \in 1 .. Len(s) : s[i] \in S
  BY ElementOfSeq
<1>3. SubSeq(s, 1, k) \in Seq(S) /\ Len(SubSeq(s, 1, k)) = k
  BY <1>1, <1>2, SubSeqProperties
<1>4. SubSeq(s, k + 1, Len(s)) \in Seq(S)
  BY <1>1, <1>2, SubSeqProperties
<1>5. SubSeq(s, 1, k) \o SubSeq(s, k + 1, Len(s)) = SubSeq(s, 1, Len(s))
  BY <1>1, ConcatAdjacentSubSeq
<1> QED
  BY <1>1, <1>3, <1>4, <1>5, SubSeqFull

-----------------------------------------------------------------------------
(* The cells of messages *)

LEMMA SplitType ==
  ASSUME NEW ms \in Seq(Messages)
  PROVE  Split(ms) \in Seq(Cells) /\ Len(Split(ms)) = 2 * Len(ms)
<1> DEFINE n == 2 * Len(ms)
<1>1. Len(ms) \in Nat /\ n \in Nat
  BY LenProperties
<1>2. \A i \in 1 .. n : (i + 1) \div 2 \in 1 .. Len(ms) /\ 2 - (i % 2) \in {1, 2}
  BY <1>1
<1>3. \A i \in 1 .. n : <<ms[(i + 1) \div 2], 2 - (i % 2)>> \in Cells
  BY <1>2, ElementOfSeq DEF Cells
<1>4. Split(ms) \in [1 .. n -> Cells]
  BY <1>3 DEF Split
<1> HIDE DEF n
<1>5. Split(ms) \in Seq(Cells) /\ Len(Split(ms)) = n
  BY <1>1, <1>4
<1> QED
  BY <1>5 DEF n

LEMMA SplitCell ==
  ASSUME NEW ms, NEW i \in 1 .. 2 * Len(ms)
  PROVE  Split(ms)[i] = <<ms[(i + 1) \div 2], 2 - (i % 2)>>
BY DEF Split

LEMMA SplitEmpty == Split(<< >>) = << >>
<1>1. << >> \in Seq(Messages) /\ Len(<< >>) = 0
  OBVIOUS
<1>2. Split(<< >>) \in Seq(Cells) /\ Len(Split(<< >>)) = 2 * 0
  BY <1>1, SplitType
<1>3. 2 * 0 = 0
  OBVIOUS
<1> QED
  BY <1>2, <1>3, EmptySeq

\* Cells that are an even number further.
LEMMA Even ==
  ASSUME NEW n \in Nat, NEW j \in Nat
  PROVE  (j + 2 * n + 1) \div 2 = (j + 1) \div 2 + n /\ (j + 2 * n) % 2 = j % 2
OBVIOUS

\* The cells of one sequence and then another.
LEMMA SplitConcat ==
  ASSUME NEW p \in Seq(Messages), NEW q \in Seq(Messages)
  PROVE  Split(p \o q) = Split(p) \o Split(q)
<1> DEFINE r == p \o q
           k == Len(p)
           n == Len(q)
<1>1. /\ k \in Nat /\ n \in Nat /\ r \in Seq(Messages) /\ Len(r) = k + n
      /\ \A i \in 1 .. k + n : r[i] = IF i <= k THEN p[i] ELSE q[i - k]
  BY LenProperties, ConcatProperties
<1> HIDE DEF r
<1>2. /\ Split(p) \in Seq(Cells) /\ Len(Split(p)) = 2 * k
      /\ Split(q) \in Seq(Cells) /\ Len(Split(q)) = 2 * n
      /\ Split(r) \in Seq(Cells) /\ Len(Split(r)) = 2 * Len(r)
  BY <1>1, SplitType
<1>3. /\ Split(p) \o Split(q) \in Seq(Cells)
      /\ Len(Split(p) \o Split(q)) = Len(Split(p)) + Len(Split(q))
      /\ \A i \in 1 .. Len(Split(p)) + Len(Split(q)) :
           (Split(p) \o Split(q))[i]
             = IF i <= Len(Split(p)) THEN Split(p)[i] ELSE Split(q)[i - Len(Split(p))]
  BY <1>2, ConcatProperties
<1>4. ASSUME NEW i \in 1 .. 2 * k + 2 * n
      PROVE  Split(r)[i] = (Split(p) \o Split(q))[i]
  <2>1. Split(r)[i] = <<r[(i + 1) \div 2], 2 - (i % 2)>>
    <3>1. i \in 1 .. 2 * Len(r)
      BY <1>1
    <3> QED
      BY <3>1, SplitCell
  <2>2. CASE i <= 2 * k
    <3>1. i \in 1 .. 2 * k /\ (i + 1) \div 2 <= k /\ (i + 1) \div 2 \in 1 .. k + n
      BY <2>2, <1>1
    <3>2. (Split(p) \o Split(q))[i] = <<p[(i + 1) \div 2], 2 - (i % 2)>>
      BY <2>2, <3>1, <1>2, <1>3, SplitCell
    <3> QED
      BY <2>1, <3>1, <3>2, <1>1
  <2>3. CASE ~(i <= 2 * k)
    <3> DEFINE j == i - 2 * k
    <3>1. j \in Nat /\ i = j + 2 * k /\ j \in 1 .. 2 * n /\ j = i - 2 * k
      BY <2>3, <1>1
    <3> HIDE DEF j
    <3>2. (i + 1) \div 2 = (j + 1) \div 2 + k /\ i % 2 = j % 2
      BY <3>1, <1>1, Even
    <3>3. (j + 1) \div 2 \in 1 .. n
      BY <3>1, <1>1
    <3>4. (Split(p) \o Split(q))[i] = <<q[(j + 1) \div 2], 2 - (j % 2)>>
      <4>1. (Split(p) \o Split(q))[i] = Split(q)[j]
        BY <2>3, <3>1, <1>1, <1>2, <1>3
      <4> QED
        BY <4>1, <3>1, SplitCell
    <3>5. r[(i + 1) \div 2] = q[(j + 1) \div 2]
      <4>1. /\ (j + 1) \div 2 + k \in 1 .. k + n /\ ~((j + 1) \div 2 + k <= k)
            /\ ((j + 1) \div 2 + k) - k = (j + 1) \div 2
        BY <3>3, <1>1
      <4> QED
        BY <4>1, <3>2, <1>1
    <3> QED
      BY <2>1, <3>2, <3>4, <3>5
  <2> QED
    BY <2>2, <2>3
<1>5. Len(Split(r)) = 2 * k + 2 * n /\ Len(Split(p) \o Split(q)) = 2 * k + 2 * n
  BY <1>1, <1>2, <1>3
<1> QED
  BY <1>2, <1>3, <1>4, <1>5, SeqEqual DEF r

-----------------------------------------------------------------------------
(* Building blocks *)

Numbers == 1 .. MaxSent

LEMMA Bounds == MaxConns \in Nat /\ MaxCalls \in Nat /\ MaxSent \in Nat /\ IsFiniteSet(Users)
BY BlockingAssumption

\* The parts of the types.
ReactorOK ==
  /\ rpc \in {"new", "connecting", "select", "read", "handle", "wakeOutbox",
              "wakeReader", "get", "send", "done", "dead"}
  /\ ready \in SUBSET {"sock", "outbox", "send"}
  /\ pending \in Seq(Replies) /\ buffer \in Seq(Cells)
  /\ gen \in 0 .. MaxConns /\ whenConnected \in BOOLEAN

QueuesOK ==
  /\ outbox \in [0 .. MaxConns -> Queues(Messages)]
  /\ log \in [0 .. MaxConns -> Seq(Messages)]
  /\ readQueue \in Queues(Numbers)

Calls == [at : {"idle", "writing", "waking", "taking", "joining"},
          gen : 0 .. MaxConns, msg : Messages]

UsersOK ==
  /\ closing \in BOOLEAN /\ call \in [Users -> Calls]
  /\ got \in Seq(Numbers) /\ calls \in 0 .. MaxCalls

LinkOK ==
  /\ link \in {"none", "up", "eof", "reset", "closed"}
  /\ toClient \in Seq(Replies) /\ wire \in Seq(Cells)
  /\ made \in 0 .. MaxConns /\ sent \in 0 .. MaxSent

LEMMA TypeParts == TypeOK <=> ReactorOK /\ QueuesOK /\ UsersOK /\ LinkOK
BY DEF TypeOK, ReactorOK, QueuesOK, UsersOK, LinkOK, Calls, Numbers

LEMMA Parts ==
  ASSUME IInv
  PROVE  /\ ReactorOK /\ QueuesOK /\ UsersOK /\ LinkOK
         /\ OutboxOK /\ ReaderOK /\ ReadyOK /\ FreshOK /\ WireInOrder /\ OrderOK
BY TypeParts DEF IInv

\* An item is put.
LEMMA PutItemOps ==
  ASSUME NEW S, NEW q \in Queues(S), NEW m \in S
  PROVE  /\ PutItem(q, m) \in Queues(S) /\ PutItem(q, m).items = Append(q.items, m)
         /\ PutItem(q, m).wakes = q.wakes
         /\ Len(PutItem(q, m).items) = Len(q.items) + 1
<1>1. q.items \in Seq(S) /\ q.wakes \in Nat /\ q = [items |-> q.items, wakes |-> q.wakes]
  BY DEF Queues
<1>2. Append(q.items, m) \in Seq(S) /\ Len(Append(q.items, m)) = Len(q.items) + 1
  BY <1>1, AppendProperties
<1> QED
  BY <1>1, <1>2 DEF PutItem, Queues

\* A queue's other operations.
LEMMA QueueOps ==
  ASSUME NEW S, NEW q \in Queues(S)
  PROVE  /\ q.items \in Seq(S) /\ q.wakes \in Nat /\ Len(q.items) \in Nat
         /\ PutWake(q) \in Queues(S) /\ PutWake(q).items = q.items
         /\ PutWake(q).wakes = q.wakes + 1
         /\ q.wakes > 0 => /\ TakeWake(q) \in Queues(S) /\ TakeWake(q).items = q.items
                           /\ TakeWake(q).wakes = q.wakes - 1
         /\ q.items # << >> => /\ TakeItem(q) \in Queues(S)
                               /\ TakeItem(q).items = Tail(q.items)
                               /\ TakeItem(q).wakes = q.wakes
                               /\ Len(TakeItem(q).items) = Len(q.items) - 1
                               /\ Head(q.items) \in S
<1>1. q.items \in Seq(S) /\ q.wakes \in Nat /\ Len(q.items) \in Nat
      /\ q = [items |-> q.items, wakes |-> q.wakes]
  BY LenProperties DEF Queues
<1>3. /\ PutWake(q) \in Queues(S) /\ PutWake(q).items = q.items
      /\ PutWake(q).wakes = q.wakes + 1
  BY <1>1 DEF PutWake, Queues
<1>4. ASSUME q.wakes > 0
      PROVE  /\ TakeWake(q) \in Queues(S) /\ TakeWake(q).items = q.items
             /\ TakeWake(q).wakes = q.wakes - 1
  <2>1. q.wakes - 1 \in Nat
    BY <1>1, <1>4
  <2> QED
    BY <1>1, <2>1 DEF TakeWake, Queues
<1>5. ASSUME q.items # << >>
      PROVE  /\ TakeItem(q) \in Queues(S)
             /\ TakeItem(q).items = Tail(q.items)
             /\ TakeItem(q).wakes = q.wakes
             /\ Len(TakeItem(q).items) = Len(q.items) - 1
             /\ Head(q.items) \in S
  <2>1. /\ Tail(q.items) \in Seq(S) /\ Len(Tail(q.items)) = Len(q.items) - 1
        /\ Head(q.items) \in S
    BY <1>1, <1>5, HeadTailProperties
  <2> QED
    BY <1>1, <2>1 DEF TakeItem, Queues
<1> QED
  BY <1>1, <1>3, <1>4, <1>5

-----------------------------------------------------------------------------
(* What the steps do to the queues, and what they leave alone *)

\* The outbox the reactor knows, and the one a thread knows.
LEMMA Outboxes ==
  ASSUME IInv
  PROVE  /\ gen \in 0 .. MaxConns /\ outbox[gen] \in Queues(Messages)
         /\ log[gen] \in Seq(Messages) /\ readQueue \in Queues(Numbers)
         /\ \A u \in Users : /\ call[u] \in Calls /\ call[u].gen \in 0 .. MaxConns
                             /\ outbox[call[u].gen] \in Queues(Messages)
                             /\ log[call[u].gen] \in Seq(Messages)
         /\ \A g \in 0 .. MaxConns : outbox[g] \in Queues(Messages) /\ log[g] \in Seq(Messages)
<1>1. /\ gen \in 0 .. MaxConns /\ outbox \in [0 .. MaxConns -> Queues(Messages)]
      /\ log \in [0 .. MaxConns -> Seq(Messages)] /\ readQueue \in Queues(Numbers)
      /\ call \in [Users -> Calls]
  BY Parts DEF ReactorOK, QueuesOK, UsersOK
<1>2. \A u \in Users : call[u] \in Calls /\ call[u].gen \in 0 .. MaxConns
  BY <1>1 DEF Calls
<1> QED
  BY <1>1, <1>2

\* Steps of the reactor's thread that touch no queue, and are not about to.
Fails == SelectFails \/ Raises \/ OnError
Shuts == OnUnexpected \/ Undecodable
Aside == \/ Start \/ ConnectFails \/ Select \/ Receive \/ ReadFails \/ Fails \/ Shuts
         \/ Send \/ SendAgain

\* A step that ends the thread.
LEMMA FailsDoes ==
  ASSUME Fails
  PROVE  /\ UNCHANGED <<ready, pending, buffer, gen, whenConnected, queueVars, userVars, linkVars>>
         /\ rpc \in {"select", "read", "send", "handle"} /\ rpc' = "dead"
BY DEF Fails, SelectFails, Raises, OnError

\* A step that closes the connection for an unexpected message: what follows the
\* message is handled next, or dropped.
LEMMA ShutsDoes ==
  ASSUME IInv, Shuts
  PROVE  /\ UNCHANGED <<buffer, gen, whenConnected, queueVars, userVars, wire, made, sent>>
         /\ rpc = "handle" /\ link' = "closed" /\ toClient' = << >>
         /\ pending # << >> /\ pending \in Seq(Replies) /\ pending' \in Seq(Replies)
         /\ pending' \in {Tail(pending), << >>}
         /\ \/ rpc' = "handle" /\ ready' = ready /\ pending' # << >>
            \/ rpc' = FirstOf(ready) /\ ready' = {}
<1>1. rpc = "handle" /\ pending \in Seq(Replies) /\ pending # << >>
  BY Parts DEF Shuts, OnUnexpected, Undecodable, ReactorOK, ReadyOK
<1>2. Tail(pending) \in Seq(Replies) /\ << >> \in Seq(Replies)
  BY <1>1, HeadTailProperties
<1>3. CASE OnUnexpected
  <2>1. /\ UNCHANGED <<buffer, gen, whenConnected, queueVars, userVars, wire, made, sent>>
        /\ link' = "closed" /\ toClient' = << >> /\ pending' = Tail(pending)
        /\ AfterMessage(Tail(pending))
    BY <1>3 DEF OnUnexpected, Closes
  <2>2. \/ rpc' = "handle" /\ ready' = ready /\ Tail(pending) # << >>
        \/ rpc' = FirstOf(ready) /\ ready' = {}
    BY <2>1 DEF AfterMessage
  <2> QED
    BY <1>1, <1>2, <2>1, <2>2
<1>4. CASE Undecodable
  <2>1. /\ UNCHANGED <<buffer, gen, whenConnected, queueVars, userVars, wire, made, sent>>
        /\ link' = "closed" /\ toClient' = << >> /\ pending' = << >>
        /\ AfterMessage(<< >>)
    BY <1>4 DEF Undecodable, Closes
  <2>2. rpc' = FirstOf(ready) /\ ready' = {}
    BY <2>1 DEF AfterMessage
  <2> QED
    BY <1>1, <1>2, <2>1, <2>2
<1> QED
  BY <1>3, <1>4 DEF Shuts

\* What such a step leaves alone.
LEMMA AsideApart ==
  ASSUME IInv, Aside
  PROVE  /\ UNCHANGED <<outbox, log, readQueue, gen, call, got, calls, closing, made, sent>>
         /\ rpc \notin {"wakeOutbox", "wakeReader"}
<1> USE DEF queueVars, userVars, linkVars
<1>1. CASE Start \/ ConnectFails \/ Select
  BY <1>1 DEF Start, ConnectFails, Select
<1>2. CASE Receive \/ ReadFails
  BY <1>2 DEF Receive, ReadFails
<1>3. CASE Send \/ SendAgain
  BY <1>3 DEF Send, SendAgain
<1>4. CASE Fails
  BY <1>4, FailsDoes
<1>5. CASE Shuts
  BY <1>5, ShutsDoes
<1> QED
  BY <1>1, <1>2, <1>3, <1>4, <1>5 DEF Aside

\* Where such a step leads.
LEMMA AsideLeads ==
  ASSUME IInv, Aside
  PROVE  rpc' \notin {"new", "wakeOutbox", "wakeReader"}
<1>1. \A r : FirstOf(r) \in {"read", "get", "send", "done", "select"}
  BY DEF FirstOf, InnerLoop
<1>2. CASE Select
  BY <1>1, <1>2 DEF Select
<1>3. CASE Fails \/ Shuts
  BY <1>1, <1>3, FailsDoes, ShutsDoes
<1> QED
  BY <1>2, <1>3 DEF Aside, Start, ConnectFails, Receive, ReadFails, Send, SendAgain, OuterLoop,
                   InnerLoop

\* The steps, for a proof by cases.
Handled == \/ OnInfo \/ WakeOutbox \/ OnPublish \/ WakeReader \/ Get

LEMMA Steps ==
  ASSUME [Next]_vars
  PROVE  \/ Aside \/ Connect \/ Handled \/ Broker \/ UNCHANGED vars
         \/ \E u \in Users : \/ Write(u) \/ WriteItem(u) \/ WriteWake(u) \/ Read(u)
                             \/ ReadItem(u) \/ Stop(u) \/ Joined(u)
BY DEF Next, Reactor, User, Finish, Aside, Fails, Shuts, Handled

-----------------------------------------------------------------------------
(* The types *)

\* Where the reactor goes next.
LEMMA Places ==
  /\ \A r : FirstOf(r) \in {"read", "get", "send", "done", "select"}
  /\ OuterLoop \in {"done", "connecting"} /\ InnerLoop \in {"done", "select"}
BY DEF FirstOf, InnerLoop, OuterLoop

\* The reactor's own variables.
LEMMA ReactorTypes ==
  ASSUME IInv, [Next]_vars
  PROVE  ReactorOK'
<1> USE Parts
<1>0. ReactorOK /\ LinkOK
  OBVIOUS
<1>1. ASSUME Aside
      PROVE  ReactorOK'
  <2>1. CASE Start \/ ConnectFails \/ ReadFails \/ SendAgain
    BY <1>0, <2>1, Places DEF Start, ConnectFails, ReadFails, SendAgain, ReactorOK
  <2>2. CASE Select
    <3>1. Watched \subseteq {"sock", "outbox", "send"}
      BY DEF Watched
    <3> QED
      BY <1>0, <2>2, <3>1, Places DEF Select, ReactorOK
  <2>3. CASE Receive
    <3>1. /\ toClient \in Seq(Replies) /\ rpc' = "handle"
          /\ UNCHANGED <<ready, buffer, gen, whenConnected>>
      BY <1>0, <2>3 DEF Receive, LinkOK
    <3>2. PICK k \in 1 .. Len(toClient) : pending' = SubSeq(toClient, 1, k)
      BY <2>3 DEF Receive
    <3>3. pending' \in Seq(Replies)
      BY <3>1, <3>2, CutInTwo
    <3> QED
      BY <1>0, <3>1, <3>3 DEF ReactorOK
  <2>4. CASE Send
    <3>1. buffer \in Seq(Cells) /\ rpc' = InnerLoop /\ UNCHANGED <<ready, pending, gen, whenConnected>>
      BY <1>0, <2>4 DEF Send, ReactorOK
    <3>2. PICK k \in 1 .. Len(buffer) : buffer' = SubSeq(buffer, k + 1, Len(buffer))
      BY <2>4 DEF Send, Rest
    <3>3. buffer' \in Seq(Cells)
      BY <3>1, <3>2, CutInTwo
    <3> QED
      BY <1>0, <3>1, <3>3, Places DEF ReactorOK
  <2>5. CASE Fails \/ Shuts
    BY <1>0, <2>5, Places, FailsDoes, ShutsDoes DEF ReactorOK
  <2> QED
    BY <1>1, <2>1, <2>2, <2>3, <2>4, <2>5 DEF Aside
<1>2. ASSUME Connect
      PROVE  ReactorOK'
  <2>1. made + 1 \in 0 .. MaxConns
    BY <1>0, <1>2, Bounds DEF Connect, LinkOK
  <2> QED
    BY <1>0, <1>2, <2>1, Places DEF Connect, ReactorOK
<1>3. ASSUME Handled
      PROVE  ReactorOK'
  <2>1. CASE OnInfo \/ OnPublish
    <3>1. pending # << >> /\ Tail(pending) \in Seq(Replies)
      BY <1>0, <2>1, HeadTailProperties DEF ReadyOK, OnInfo, OnPublish, ReactorOK
    <3> QED
      BY <1>0, <2>1, <3>1 DEF OnInfo, OnPublish, ReactorOK
  <2>2. CASE WakeOutbox \/ WakeReader
    <3>1. \/ rpc' = "handle" /\ ready' = ready
          \/ rpc' = FirstOf(ready) /\ ready' = {}
      <4>1. AfterMessage(pending)
        BY <2>2 DEF WakeOutbox, WakeReader
      <4>2. CASE pending # << >>
        BY <4>1, <4>2 DEF AfterMessage
      <4>3. CASE ~(pending # << >>)
        BY <4>1, <4>3 DEF AfterMessage
      <4> QED
        BY <4>2, <4>3
    <3> QED
      BY <1>0, <2>2, <3>1, Places DEF WakeOutbox, WakeReader, ReactorOK
  <2>3. CASE Get
    <3>1. Split(<<Head(outbox[gen].items)>>) \in Seq(Cells)
      <4>1. Head(outbox[gen].items) \in Messages
        BY <2>3, Outboxes, QueueOps DEF Get
      <4>2. <<Head(outbox[gen].items)>> \in Seq(Messages)
        BY <4>1
      <4> QED
        BY <4>2, SplitType
    <3>2. buffer' \in Seq(Cells)
      BY <1>0, <2>3, <3>1, ConcatProperties DEF Get, Buffered, ReactorOK
    <3> QED
      BY <1>0, <2>3, <3>2 DEF Get, ReactorOK
  <2> QED
    BY <1>3, <2>1, <2>2, <2>3 DEF Handled
<1>4. ASSUME UNCHANGED reactorVars
      PROVE  ReactorOK'
  BY <1>0, <1>4 DEF ReactorOK, reactorVars
<1>5. Broker => UNCHANGED reactorVars
  BY DEF Broker, BrokerPublishes, BrokerRefuses, BrokerMisspeaks, Break
<1>6. ASSUME NEW u \in Users
      PROVE  Write(u) \/ WriteItem(u) \/ WriteWake(u) \/ Read(u) \/ ReadItem(u) \/ Stop(u)
               \/ Joined(u) => UNCHANGED reactorVars
  BY DEF Write, WriteItem, WriteWake, Read, ReadItem, Stop, Joined
<1>7. UNCHANGED vars => UNCHANGED reactorVars
  BY DEF vars
<1> QED
  BY Steps, <1>1, <1>2, <1>3, <1>4, <1>5, <1>6, <1>7

\* The queues, and what was put in them.
LEMMA QueueTypes ==
  ASSUME IInv, [Next]_vars
  PROVE  QueuesOK'
<1>0. /\ outbox \in [0 .. MaxConns -> Queues(Messages)] /\ log \in [0 .. MaxConns -> Seq(Messages)]
      /\ readQueue \in Queues(Numbers) /\ QueuesOK
  BY Parts DEF QueuesOK
<1>1. Aside \/ Connect \/ Broker \/ UNCHANGED vars => UNCHANGED <<outbox, log, readQueue>>
  <2>1. Aside => UNCHANGED <<outbox, log, readQueue>>
    BY AsideApart
  <2>2. Connect \/ Broker \/ UNCHANGED vars => UNCHANGED <<outbox, log, readQueue>>
    BY DEF Connect, Broker, BrokerPublishes, BrokerRefuses, BrokerMisspeaks, Break, vars, queueVars
  <2> QED
    BY <2>1, <2>2
<1>2. ASSUME UNCHANGED <<outbox, log, readQueue>>
      PROVE  QueuesOK'
  BY <1>0, <1>2 DEF QueuesOK
<1>3. ASSUME NEW g \in 0 .. MaxConns, NEW q \in Queues(Messages), outbox' = [outbox EXCEPT ![g] = q],
             \/ log' = log
             \/ \E m \in Messages : log' = [log EXCEPT ![g] = Append(@, m)],
             readQueue' = readQueue
      PROVE  QueuesOK'
  <2>1. outbox' \in [0 .. MaxConns -> Queues(Messages)]
    BY <1>0, <1>3
  <2>2. \A m \in Messages : Append(log[g], m) \in Seq(Messages)
    BY <1>0, AppendProperties
  <2>3. log' \in [0 .. MaxConns -> Seq(Messages)]
    BY <1>0, <1>3, <2>2
  <2> QED
    BY <1>0, <1>3, <2>1, <2>3 DEF QueuesOK
<1>4. ASSUME readQueue' \in Queues(Numbers), UNCHANGED <<outbox, log>>
      PROVE  QueuesOK'
  BY <1>0, <1>4 DEF QueuesOK
<1>5. gen \in 0 .. MaxConns /\ outbox[gen] \in Queues(Messages)
  BY Outboxes
<1>6. CASE Handled
  <2>1. CASE OnInfo
    <3>1. AuthMessage \in Messages
      BY Bounds DEF AuthMessage, Messages
    <3>2. PutItem(outbox[gen], AuthMessage) \in Queues(Messages)
      BY <3>1, <1>5, PutItemOps
    <3>3. /\ outbox' = [outbox EXCEPT ![gen] = PutItem(outbox[gen], AuthMessage)]
          /\ log' = [log EXCEPT ![gen] = Append(@, AuthMessage)] /\ readQueue' = readQueue
      BY <2>1 DEF OnInfo
    <3> QED
      BY <3>1, <3>2, <3>3, <1>3, <1>5
  <2>2. CASE WakeOutbox
    <3>1. PutWake(outbox[gen]) \in Queues(Messages)
      BY <1>5, QueueOps
    <3>2. /\ outbox' = [outbox EXCEPT ![gen] = PutWake(outbox[gen])]
          /\ log' = log /\ readQueue' = readQueue
      BY <2>2 DEF WakeOutbox
    <3> QED
      BY <3>1, <3>2, <1>3, <1>5
  <2>3. CASE OnPublish
    <3>1. pending # << >> /\ pending \in Seq(Replies) /\ Head(pending).op = "PUBLISH"
      BY <2>3, Parts DEF OnPublish, ReadyOK, ReactorOK
    <3>2. Head(pending) \in Replies
      BY <3>1, HeadTailProperties
    <3>3. Head(pending).n \in Numbers
      BY <3>1, <3>2 DEF Replies, Numbers
    <3>4. readQueue' = PutItem(readQueue, Head(pending).n) /\ UNCHANGED <<outbox, log>>
      BY <2>3 DEF OnPublish
    <3>5. readQueue' \in Queues(Numbers)
      BY <3>3, <3>4, <1>0, PutItemOps
    <3> QED
      BY <3>4, <3>5, <1>4
  <2>4. CASE WakeReader
    <3>1. readQueue' = PutWake(readQueue) /\ UNCHANGED <<outbox, log>>
      BY <2>4 DEF WakeReader
    <3>2. readQueue' \in Queues(Numbers)
      BY <3>1, <1>0, QueueOps
    <3> QED
      BY <3>1, <3>2, <1>4
  <2>5. CASE Get
    <3>1. outbox[gen].wakes > 0 /\ outbox[gen].items # << >>
      BY <2>5 DEF Get
    <3>2. TakeWake(outbox[gen]) \in Queues(Messages) /\ TakeWake(outbox[gen]).items # << >>
      BY <3>1, <1>5, QueueOps
    <3>3. TakeItem(TakeWake(outbox[gen])) \in Queues(Messages)
      BY <3>2, QueueOps
    <3>4. /\ outbox' = [outbox EXCEPT ![gen] = TakeItem(TakeWake(outbox[gen]))]
          /\ log' = log /\ readQueue' = readQueue
      BY <2>5 DEF Get
    <3> QED
      BY <3>3, <3>4, <1>3, <1>5
  <2> QED
    BY <1>6, <2>1, <2>2, <2>3, <2>4, <2>5 DEF Handled
<1>7. ASSUME NEW u \in Users, \/ Write(u) \/ WriteItem(u) \/ WriteWake(u) \/ Read(u)
                              \/ ReadItem(u) \/ Stop(u) \/ Joined(u)
      PROVE  QueuesOK'
  <2> DEFINE g == call[u].gen
  <2>0. g \in 0 .. MaxConns /\ outbox[g] \in Queues(Messages) /\ call[u].msg \in Messages
    BY Outboxes DEF Calls
  <2>1. CASE Write(u) \/ Stop(u) \/ Joined(u)
    BY <2>1, <1>2 DEF Write, Stop, Joined, queueVars
  <2>2. CASE WriteItem(u)
    <3>1. PutItem(outbox[g], call[u].msg) \in Queues(Messages)
      BY <2>0, PutItemOps
    <3>2. /\ outbox' = [outbox EXCEPT ![g] = PutItem(outbox[g], call[u].msg)]
          /\ log' = [log EXCEPT ![g] = Append(@, call[u].msg)] /\ readQueue' = readQueue
      BY <2>2 DEF WriteItem
    <3> QED
      BY <3>1, <3>2, <2>0, <1>3
  <2>3. CASE WriteWake(u)
    <3>1. PutWake(outbox[g]) \in Queues(Messages)
      BY <2>0, QueueOps
    <3>2. /\ outbox' = [outbox EXCEPT ![g] = PutWake(outbox[g])]
          /\ log' = log /\ readQueue' = readQueue
      BY <2>3 DEF WriteWake
    <3> QED
      BY <3>1, <3>2, <2>0, <1>3
  <2>4. CASE Read(u)
    <3>1. /\ readQueue' = TakeWake(readQueue) /\ UNCHANGED <<outbox, log>> /\ readQueue.wakes > 0
      BY <2>4 DEF Read
    <3>2. readQueue' \in Queues(Numbers)
      BY <3>1, <1>0, QueueOps
    <3> QED
      BY <3>1, <3>2, <1>4
  <2>5. CASE ReadItem(u)
    <3>1. /\ readQueue' = TakeItem(readQueue) /\ UNCHANGED <<outbox, log>>
          /\ readQueue.items # << >>
      BY <2>5 DEF ReadItem
    <3>2. readQueue' \in Queues(Numbers)
      BY <3>1, <1>0, QueueOps
    <3> QED
      BY <3>1, <3>2, <1>4
  <2> QED
    BY <1>7, <2>1, <2>2, <2>3, <2>4, <2>5
<1> QED
  BY Steps, <1>1, <1>2, <1>6, <1>7

\* The threads of the user.
LEMMA UserTypes ==
  ASSUME IInv, [Next]_vars
  PROVE  UsersOK'
<1>0. /\ call \in [Users -> Calls] /\ got \in Seq(Numbers) /\ calls \in 0 .. MaxCalls
      /\ closing \in BOOLEAN /\ UsersOK
  BY Parts DEF UsersOK
<1>1. Aside \/ Connect \/ Handled \/ Broker \/ UNCHANGED vars => UNCHANGED userVars
  <2>1. Aside => UNCHANGED userVars
    BY AsideApart DEF userVars
  <2>2. Connect \/ Handled => UNCHANGED userVars
    BY DEF Connect, Handled, OnInfo, WakeOutbox, OnPublish, WakeReader, Get, userVars
  <2>3. Broker \/ UNCHANGED vars => UNCHANGED userVars
    BY DEF Broker, BrokerPublishes, BrokerRefuses, BrokerMisspeaks, Break, vars, userVars
  <2> QED
    BY <2>1, <2>2, <2>3
<1>2. ASSUME UNCHANGED userVars
      PROVE  UsersOK'
  BY <1>0, <1>2 DEF UsersOK, userVars
<1>3. ASSUME NEW u \in Users, \/ Write(u) \/ WriteItem(u) \/ WriteWake(u) \/ Read(u)
                              \/ ReadItem(u) \/ Stop(u) \/ Joined(u)
      PROVE  UsersOK'
  <2>0. call[u] \in Calls /\ Idle \in Calls
    BY <1>0, Bounds DEF Calls, Idle, Messages
  <2>1. CASE Write(u)
    <3>1. calls + 1 \in 0 .. MaxCalls /\ calls + 1 \in Messages /\ gen \in 0 .. MaxConns
      BY <2>1, <1>0, Bounds, Outboxes DEF Write, Messages
    <3>2. [at |-> "writing", gen |-> gen, msg |-> calls + 1] \in Calls
      BY <3>1 DEF Calls
    <3>3. /\ calls' = calls + 1 /\ closing' = closing /\ got' = got
          /\ call' = [call EXCEPT ![u] = [at |-> "writing", gen |-> gen, msg |-> calls + 1]]
      BY <2>1 DEF Write
    <3> QED
      BY <3>1, <3>2, <3>3, <1>0 DEF UsersOK
  <2>2. ASSUME NEW to \in {"writing", "waking", "taking", "joining"},
               call' = [call EXCEPT ![u].at = to], closing' \in BOOLEAN, got' = got, calls' = calls
        PROVE  UsersOK'
    <3>1. [call[u] EXCEPT !.at = to] \in Calls
      BY <2>0 DEF Calls
    <3>2. call' = [call EXCEPT ![u] = [call[u] EXCEPT !.at = to]]
      BY <2>2
    <3>3. call' \in [Users -> Calls]
      BY <3>1, <3>2, <1>0
    <3> QED
      BY <3>3, <2>2, <1>0 DEF UsersOK
  <2>3. CASE WriteItem(u) \/ Read(u) \/ Stop(u)
    BY <2>2, <2>3, <1>0 DEF WriteItem, Read, Stop
  <2>4. CASE WriteWake(u) \/ Joined(u)
    BY <2>0, <2>4, <1>0 DEF WriteWake, Joined, UsersOK
  <2>5. CASE ReadItem(u)
    <3>1. Head(readQueue.items) \in Numbers
      BY <2>5, Outboxes, QueueOps DEF ReadItem
    <3>2. got' = Append(got, Head(readQueue.items)) /\ call' = [call EXCEPT ![u] = Idle]
          /\ closing' = closing /\ calls' = calls
      BY <2>5 DEF ReadItem
    <3>3. got' \in Seq(Numbers)
      BY <3>1, <3>2, <1>0, AppendProperties
    <3> QED
      BY <3>2, <3>3, <2>0, <1>0 DEF UsersOK
  <2> QED
    BY <1>3, <2>1, <2>3, <2>4, <2>5
<1> QED
  BY Steps, <1>1, <1>2, <1>3

\* The connection and the counters.
LEMMA LinkTypes ==
  ASSUME IInv, [Next]_vars
  PROVE  LinkOK'
<1>0. /\ LinkOK /\ toClient \in Seq(Replies) /\ wire \in Seq(Cells)
      /\ made \in 0 .. MaxConns /\ sent \in 0 .. MaxSent
      /\ [op |-> "INFO"] \in Replies /\ [op |-> "ERROR"] \in Replies /\ [op |-> "ODD"] \in Replies
  BY Parts DEF LinkOK, Replies
<1>1. ASSUME UNCHANGED linkVars
      PROVE  LinkOK'
  BY <1>0, <1>1 DEF LinkOK, linkVars
<1>2. UNCHANGED vars \/ Handled => UNCHANGED linkVars
  BY DEF vars, Handled, OnInfo, WakeOutbox, OnPublish, WakeReader, Get
<1>3. ASSUME NEW u \in Users
      PROVE  Write(u) \/ WriteItem(u) \/ WriteWake(u) \/ Read(u) \/ ReadItem(u) \/ Stop(u)
               \/ Joined(u) => UNCHANGED linkVars
  BY DEF Write, WriteItem, WriteWake, Read, ReadItem, Stop, Joined
<1>4. CASE Aside
  <2>1. CASE Start \/ ConnectFails \/ Select \/ SendAgain
    BY <2>1, <1>1 DEF Start, ConnectFails, Select, SendAgain
  <2>2. CASE ReadFails
    BY <2>2, <1>0 DEF ReadFails, LinkOK
  <2>3. CASE Receive
    <3>1. UNCHANGED <<link, wire, made, sent>>
      BY <2>3 DEF Receive
    <3>2. PICK k \in 1 .. Len(toClient) : toClient' = SubSeq(toClient, k + 1, Len(toClient))
      BY <2>3 DEF Receive
    <3>3. toClient' \in Seq(Replies)
      BY <3>2, <1>0, CutInTwo
    <3> QED
      BY <3>1, <3>3, <1>0 DEF LinkOK
  <2>4. CASE Send
    <3>1. UNCHANGED <<link, toClient, made, sent>> /\ buffer \in Seq(Cells)
      BY <2>4, Parts DEF Send, ReactorOK
    <3>2. PICK k \in 1 .. Len(buffer) : wire' = wire \o SubSeq(buffer, 1, k)
      BY <2>4 DEF Send
    <3>3. SubSeq(buffer, 1, k) \in Seq(Cells)
      BY <3>1, CutInTwo
    <3>4. wire' \in Seq(Cells)
      BY <3>2, <3>3, <1>0, ConcatProperties
    <3> QED
      BY <3>1, <3>4, <1>0 DEF LinkOK
  <2>5. CASE Fails
    BY <2>5, <1>1, FailsDoes
  <2>6. CASE Shuts
    BY <2>6, <1>0, ShutsDoes DEF LinkOK
  <2> QED
    BY <1>4, <2>1, <2>2, <2>3, <2>4, <2>5, <2>6 DEF Aside
<1>5. CASE Connect
  <2>1. made + 1 \in 0 .. MaxConns
    BY <1>0, <1>5, Bounds DEF Connect
  <2>2. <<[op |-> "INFO"]>> \in Seq(Replies) /\ << >> \in Seq(Cells)
    BY <1>0
  <2> QED
    BY <1>0, <1>5, <2>1, <2>2 DEF Connect, LinkOK
<1>6. CASE Broker
  <2>1. CASE BrokerPublishes
    <3>1. sent + 1 \in 0 .. MaxSent /\ sent + 1 \in 1 .. MaxSent
      BY <2>1, <1>0, Bounds DEF BrokerPublishes
    <3>2. [op |-> "PUBLISH", n |-> sent + 1] \in Replies
      BY <3>1 DEF Replies
    <3>3. Append(toClient, [op |-> "PUBLISH", n |-> sent + 1]) \in Seq(Replies)
      BY <3>2, <1>0, AppendProperties
    <3> QED
      BY <2>1, <3>1, <3>3, <1>0 DEF BrokerPublishes, LinkOK
  <2>2. CASE BrokerRefuses
    <3>1. Append(toClient, [op |-> "ERROR"]) \in Seq(Replies)
      BY <1>0, AppendProperties
    <3> QED
      BY <2>2, <3>1, <1>0 DEF BrokerRefuses, LinkOK
  <2>3. CASE BrokerMisspeaks
    <3>1. Append(toClient, [op |-> "ODD"]) \in Seq(Replies)
      BY <1>0, AppendProperties
    <3> QED
      BY <2>3, <3>1, <1>0 DEF BrokerMisspeaks, LinkOK
  <2>4. CASE Break
    <3>1. << >> \in Seq(Replies)
      OBVIOUS
    <3> QED
      BY <2>4, <3>1, <1>0 DEF Break, LinkOK
  <2> QED
    BY <1>6, <2>1, <2>2, <2>3, <2>4 DEF Broker
<1> QED
  BY Steps, <1>1, <1>2, <1>3, <1>4, <1>5, <1>6

-----------------------------------------------------------------------------
(* A byte for each item *)

LEMMA Threads ==
  ASSUME NEW U \in SUBSET Users
  PROVE  /\ IsFiniteSet(U) /\ Cardinality(U) \in Nat
         /\ \A u : u \notin U => Cardinality(U \cup {u}) = Cardinality(U) + 1
         /\ \A u \in U : Cardinality(U \ {u}) = Cardinality(U) - 1
<1>1. IsFiniteSet(U) /\ Cardinality(U) \in Nat
  BY Bounds, FS_Subset, FS_CardinalityType
<1>2. ASSUME NEW u, u \notin U PROVE Cardinality(U \cup {u}) = Cardinality(U) + 1
  BY <1>1, <1>2, FS_AddElement
<1>3. ASSUME NEW u \in U PROVE Cardinality(U \ {u}) = Cardinality(U) - 1
  BY <1>1, <1>3, FS_RemoveElement
<1> QED
  BY <1>1, <1>2, <1>3

\* An outbox has no more bytes than items, and a thread for each that it lacks.
LEMMA OutboxStep ==
  ASSUME IInv, [Next]_vars
  PROVE  OutboxOK'
<1>0. /\ OutboxOK /\ gen \in 0 .. MaxConns /\ MaxConns \in Nat
      /\ outbox \in [0 .. MaxConns -> Queues(Messages)] /\ call \in [Users -> Calls]
  BY Parts, Bounds DEF ReactorOK, QueuesOK, UsersOK
<1>1. \A g : /\ Wakers(g) \in SUBSET Users /\ Wakers(g)' \in SUBSET Users
             /\ Cardinality(Wakers(g)) \in Nat
  BY Threads DEF Wakers
<1>2. ASSUME UNCHANGED <<outbox, call, gen>>, rpc = "wakeOutbox" <=> rpc' = "wakeOutbox"
      PROVE  OutboxOK'
  BY <1>0, <1>2 DEF OutboxOK, Wakers, One
<1>3. ASSUME NEW u \in Users, UNCHANGED <<outbox, gen, rpc>>, call' = [call EXCEPT ![u] = call'[u]],
             call[u].at # "waking", call'[u].at # "waking"
      PROVE  OutboxOK'
  <2>1. \A g : Wakers(g)' = Wakers(g)
    BY <1>0, <1>3 DEF Wakers
  <2> QED
    BY <1>0, <1>3, <2>1 DEF OutboxOK, One
\* The outbox that the step is about, and the others.
<1>4. ASSUME NEW g \in 0 .. MaxConns, NEW q \in Queues(Messages),
             outbox' = [outbox EXCEPT ![g] = q],
             \A h \in 0 .. MaxConns : h # g => Wakers(h)' = Wakers(h),
             UNCHANGED gen, rpc = rpc' \/ g = gen,
             Len(q.items) = q.wakes + Cardinality(Wakers(g)') + One(rpc' = "wakeOutbox" /\ gen = g)
      PROVE  OutboxOK'
  <2> SUFFICES ASSUME NEW h \in 0 .. MaxConns
               PROVE  Len(outbox'[h].items) = outbox'[h].wakes + Cardinality(Wakers(h)')
                                                + One(rpc' = "wakeOutbox" /\ gen' = h)
    BY DEF OutboxOK
  <2>1. CASE h = g
    BY <2>1, <1>0, <1>4
  <2>2. CASE h # g
    <3>1. outbox'[h] = outbox[h] /\ Wakers(h)' = Wakers(h)
      BY <2>2, <1>0, <1>4
    <3>2. One(rpc' = "wakeOutbox" /\ gen' = h) = One(rpc = "wakeOutbox" /\ gen = h)
      BY <2>2, <1>4 DEF One
    <3> QED
      BY <3>1, <3>2, <1>0 DEF OutboxOK
  <2> QED
    BY <2>1, <2>2
<1>5. CASE Aside \/ Connect \/ Broker \/ UNCHANGED vars
  <2>1. CASE Aside
    BY <2>1, <1>2, AsideApart, AsideLeads
  <2>2. CASE Connect
    <3>1. /\ UNCHANGED <<outbox, call>> /\ rpc = "connecting" /\ rpc' \in {"done", "select"}
      BY <2>2, Places DEF Connect, queueVars, userVars
    <3> QED
      BY <1>0, <3>1 DEF OutboxOK, Wakers, One
  <2>3. CASE Broker \/ UNCHANGED vars
    <3>1. UNCHANGED <<outbox, call, gen, rpc>>
      BY <2>3 DEF Broker, BrokerPublishes, BrokerRefuses, BrokerMisspeaks, Break, vars, queueVars, userVars,
                  reactorVars
    <3> QED
      BY <3>1, <1>2
  <2> QED
    BY <1>5, <2>1, <2>2, <2>3
<1>6. CASE Handled
  <2> DEFINE q == outbox[gen]
  <2>0. /\ q \in Queues(Messages) /\ q.wakes \in Nat /\ Len(q.items) \in Nat
        /\ Cardinality(Wakers(gen)) \in Nat
        /\ Len(q.items) = q.wakes + Cardinality(Wakers(gen)) + One(rpc = "wakeOutbox")
    BY <1>0, <1>1, QueueOps DEF OutboxOK
  <2>1. CASE OnInfo
    <3>1. /\ rpc = "handle" /\ rpc' = "wakeOutbox" /\ UNCHANGED <<gen, call>>
          /\ outbox' = [outbox EXCEPT ![gen] = PutItem(q, AuthMessage)]
      BY <2>1 DEF OnInfo, userVars
    <3>2. AuthMessage \in Messages
      BY Bounds DEF AuthMessage, Messages
    <3>3. /\ PutItem(q, AuthMessage) \in Queues(Messages)
          /\ PutItem(q, AuthMessage).wakes = q.wakes
          /\ Len(PutItem(q, AuthMessage).items) = Len(q.items) + 1
      BY <2>0, <3>2, PutItemOps
    <3>4. \A g : Wakers(g)' = Wakers(g)
      BY <3>1 DEF Wakers
    <3>5. Len(q.items) + 1 = q.wakes + Cardinality(Wakers(gen)) + One(TRUE)
      BY <2>0, <3>1 DEF One
    <3> QED
      BY <1>0, <1>4, <3>1, <3>3, <3>4, <3>5
  <2>2. CASE WakeOutbox
    <3>1. /\ rpc = "wakeOutbox" /\ UNCHANGED <<gen, call>> /\ AfterMessage(pending)
          /\ outbox' = [outbox EXCEPT ![gen] = PutWake(q)]
      BY <2>2 DEF WakeOutbox, userVars
    <3>2. rpc' # "wakeOutbox"
      BY <3>1, Places DEF AfterMessage
    <3>3. /\ PutWake(q) \in Queues(Messages) /\ PutWake(q).items = q.items
          /\ PutWake(q).wakes = q.wakes + 1
      BY <2>0, QueueOps
    <3>4. \A g : Wakers(g)' = Wakers(g)
      BY <3>1 DEF Wakers
    <3>5. Len(q.items) = (q.wakes + 1) + Cardinality(Wakers(gen)) + One(FALSE)
      BY <2>0, <3>1 DEF One
    <3> QED
      BY <1>0, <1>4, <3>1, <3>2, <3>3, <3>4, <3>5
  <2>3. CASE OnPublish \/ WakeReader
    <3>1. /\ rpc \in {"handle", "wakeReader"} /\ UNCHANGED <<outbox, gen, call>>
          /\ rpc' = "wakeReader" \/ AfterMessage(pending)
      BY <2>3 DEF OnPublish, WakeReader, userVars
    <3>2. rpc' # "wakeOutbox"
      BY <3>1, Places DEF AfterMessage
    <3> QED
      BY <3>1, <3>2, <1>2
  <2>4. CASE Get
    <3>1. /\ rpc = "get" /\ rpc' = "send" /\ UNCHANGED <<gen, call>>
          /\ q.wakes > 0 /\ q.items # << >>
          /\ outbox' = [outbox EXCEPT ![gen] = TakeItem(TakeWake(q))]
      BY <2>4 DEF Get, userVars
    <3>2. /\ TakeWake(q) \in Queues(Messages) /\ TakeWake(q).items = q.items
          /\ TakeWake(q).wakes = q.wakes - 1
      BY <2>0, <3>1, QueueOps
    <3>3. /\ TakeItem(TakeWake(q)) \in Queues(Messages)
          /\ TakeItem(TakeWake(q)).wakes = q.wakes - 1
          /\ Len(TakeItem(TakeWake(q)).items) = Len(q.items) - 1
      BY <3>1, <3>2, QueueOps
    <3>4. \A g : Wakers(g)' = Wakers(g)
      BY <3>1 DEF Wakers
    <3>5. Len(q.items) - 1 = (q.wakes - 1) + Cardinality(Wakers(gen)) + One(FALSE)
      BY <2>0, <3>1 DEF One
    <3> QED
      BY <1>0, <1>4, <3>1, <3>3, <3>4, <3>5
  <2> QED
    BY <1>6, <2>1, <2>2, <2>3, <2>4 DEF Handled
<1>7. ASSUME NEW u \in Users, \/ Write(u) \/ WriteItem(u) \/ WriteWake(u) \/ Read(u)
                              \/ ReadItem(u) \/ Stop(u) \/ Joined(u)
      PROVE  OutboxOK'
  <2> PICK g \in 0 .. MaxConns : g = call[u].gen
    BY Outboxes
  <2> DEFINE q == outbox[g]
             o == One(rpc = "wakeOutbox" /\ gen = g)
  <2>0. /\ g \in 0 .. MaxConns /\ q \in Queues(Messages) /\ call[u].msg \in Messages
        /\ q.wakes \in Nat /\ Len(q.items) \in Nat /\ Cardinality(Wakers(g)) \in Nat
        /\ Len(q.items) = q.wakes + Cardinality(Wakers(g)) + o /\ o \in {0, 1}
    <3>1. /\ g \in 0 .. MaxConns /\ q \in Queues(Messages) /\ call[u].msg \in Messages
      BY Outboxes DEF Calls
    <3> QED
      BY <3>1, <1>0, <1>1, QueueOps DEF OutboxOK, One
  <2>1. CASE Write(u) \/ Read(u) \/ ReadItem(u) \/ Stop(u) \/ Joined(u)
    <3>1. /\ UNCHANGED <<outbox, gen, rpc>> /\ call' = [call EXCEPT ![u] = call'[u]]
          /\ call[u].at # "waking" /\ call'[u].at # "waking"
      BY <2>1, <1>0 DEF Write, Read, ReadItem, Stop, Joined, queueVars, reactorVars, Idle, Calls
    <3> QED
      BY <3>1, <1>3
  <2>2. CASE WriteItem(u)
    <3>1. /\ call[u].at = "writing" /\ call' = [call EXCEPT ![u].at = "waking"]
          /\ outbox' = [outbox EXCEPT ![g] = PutItem(q, call[u].msg)] /\ UNCHANGED <<gen, rpc>>
      BY <2>2 DEF WriteItem, reactorVars
    <3>2. /\ PutItem(q, call[u].msg) \in Queues(Messages)
          /\ PutItem(q, call[u].msg).wakes = q.wakes
          /\ Len(PutItem(q, call[u].msg).items) = Len(q.items) + 1
      <4>1. q \in Queues(Messages) /\ call[u].msg \in Messages
        BY <2>0
      <4> HIDE DEF q
      <4> QED
        BY ONLY <4>1, PutItemOps
    <3>3. /\ u \notin Wakers(g) /\ Wakers(g)' = Wakers(g) \cup {u}
          /\ \A h \in 0 .. MaxConns : h # g => Wakers(h)' = Wakers(h)
      BY <3>1, <1>0 DEF Wakers, Calls
    <3>4. Cardinality(Wakers(g)') = Cardinality(Wakers(g)) + 1
      BY <3>3, <1>1, Threads
    <3>5. Len(q.items) + 1 = q.wakes + (Cardinality(Wakers(g)) + 1)
                               + One(rpc' = "wakeOutbox" /\ gen = g)
      <4>1. o = One(rpc' = "wakeOutbox" /\ gen = g)
        BY <3>1
      <4> HIDE DEF q, o
      <4> QED
        BY <2>0, <4>1
    <3> DEFINE p == PutItem(q, call[u].msg)
    <3>6. /\ p \in Queues(Messages) /\ outbox' = [outbox EXCEPT ![g] = p]
          /\ Len(p.items) = p.wakes + Cardinality(Wakers(g)')
                              + One(rpc' = "wakeOutbox" /\ gen = g)
      BY <3>1, <3>2, <3>4, <3>5
    <3> HIDE DEF p
    <3> QED
      BY <1>4, <2>0, <3>1, <3>3, <3>6
  <2>3. CASE WriteWake(u)
    <3>1. /\ call[u].at = "waking" /\ call' = [call EXCEPT ![u] = Idle]
          /\ outbox' = [outbox EXCEPT ![g] = PutWake(q)] /\ UNCHANGED <<gen, rpc>>
      BY <2>3 DEF WriteWake, reactorVars
    <3>2. /\ PutWake(q) \in Queues(Messages) /\ PutWake(q).items = q.items
          /\ PutWake(q).wakes = q.wakes + 1
      BY <2>0, QueueOps
    <3>3. /\ u \in Wakers(g) /\ Wakers(g)' = Wakers(g) \ {u}
          /\ \A h \in 0 .. MaxConns : h # g => Wakers(h)' = Wakers(h)
      <4>1. call'[u].at = "idle" /\ \A v \in Users \ {u} : call'[v] = call[v]
        BY <3>1, <1>0 DEF Idle
      <4> QED
        BY <3>1, <4>1, <1>0 DEF Wakers, Calls
    <3>4. Cardinality(Wakers(g)') = Cardinality(Wakers(g)) - 1
      BY <3>3, <1>1, Threads
    <3>5. Len(q.items) = (q.wakes + 1) + (Cardinality(Wakers(g)) - 1)
                               + One(rpc' = "wakeOutbox" /\ gen = g)
      <4>1. o = One(rpc' = "wakeOutbox" /\ gen = g)
        BY <3>1
      <4> HIDE DEF q, o
      <4> QED
        BY <2>0, <4>1
    <3> DEFINE p == PutWake(q)
    <3>6. /\ p \in Queues(Messages) /\ outbox' = [outbox EXCEPT ![g] = p]
          /\ Len(p.items) = p.wakes + Cardinality(Wakers(g)')
                              + One(rpc' = "wakeOutbox" /\ gen = g)
      BY <3>1, <3>2, <3>4, <3>5
    <3> HIDE DEF p
    <3> QED
      BY <1>4, <2>0, <3>1, <3>3, <3>6
  <2> QED
    BY <1>7, <2>1, <2>2, <2>3
<1> QED
  BY Steps, <1>5, <1>6, <1>7

\* The same for the queue that the users read from.
LEMMA ReaderStep ==
  ASSUME IInv, [Next]_vars
  PROVE  ReaderOK'
<1>0. /\ ReaderOK /\ readQueue \in Queues(Numbers) /\ call \in [Users -> Calls]
      /\ readQueue.wakes \in Nat /\ Len(readQueue.items) \in Nat
  BY Parts, QueueOps DEF QueuesOK, UsersOK
<1>1. /\ Takers \in SUBSET Users /\ Cardinality(Takers) \in Nat
  BY Threads DEF Takers
<1>2. ASSUME UNCHANGED <<readQueue, call>>, rpc = "wakeReader" <=> rpc' = "wakeReader"
      PROVE  ReaderOK'
  BY <1>0, <1>2 DEF ReaderOK, Takers, One
<1>3. ASSUME NEW u \in Users, UNCHANGED <<readQueue, rpc>>, call' = [call EXCEPT ![u] = call'[u]],
             call[u].at # "taking", call'[u].at # "taking"
      PROVE  ReaderOK'
  <2>1. Takers' = Takers
    BY <1>0, <1>3 DEF Takers
  <2> QED
    BY <1>0, <1>3, <2>1 DEF ReaderOK, One
<1>4. CASE Aside \/ Connect \/ Broker \/ UNCHANGED vars
  <2>1. CASE Aside
    BY <2>1, <1>2, AsideApart, AsideLeads
  <2>2. CASE Connect
    <3>1. UNCHANGED <<readQueue, call>> /\ rpc = "connecting" /\ rpc' \in {"done", "select"}
      BY <2>2, Places DEF Connect, queueVars, userVars
    <3> QED
      BY <3>1, <1>2
  <2>3. CASE Broker \/ UNCHANGED vars
    <3>1. UNCHANGED <<readQueue, call, rpc>>
      BY <2>3 DEF Broker, BrokerPublishes, BrokerRefuses, BrokerMisspeaks, Break, vars, queueVars, userVars,
                  reactorVars
    <3> QED
      BY <3>1, <1>2
  <2> QED
    BY <1>4, <2>1, <2>2, <2>3
<1>5. CASE Handled
  <2>1. CASE OnInfo \/ WakeOutbox \/ Get
    <3>1. /\ rpc \in {"handle", "wakeOutbox", "get"} /\ UNCHANGED <<readQueue, call>>
          /\ rpc' \in {"wakeOutbox", "send"} \/ AfterMessage(pending)
      BY <2>1 DEF OnInfo, WakeOutbox, Get, userVars
    <3>2. rpc' # "wakeReader"
      BY <3>1, Places DEF AfterMessage
    <3> QED
      BY <3>1, <3>2, <1>2
  <2>2. CASE OnPublish
    <3>1. /\ rpc = "handle" /\ rpc' = "wakeReader" /\ UNCHANGED call
          /\ readQueue' = PutItem(readQueue, Head(pending).n)
      BY <2>2 DEF OnPublish, userVars
    <3>2. Head(pending).n \in Numbers
      <4>1. pending # << >> /\ pending \in Seq(Replies) /\ Head(pending).op = "PUBLISH"
        BY <2>2, Parts DEF OnPublish, ReadyOK, ReactorOK
      <4>2. Head(pending) \in Replies
        BY <4>1, HeadTailProperties
      <4> QED
        BY <4>1, <4>2 DEF Replies, Numbers
    <3>3. /\ readQueue'.wakes = readQueue.wakes
          /\ Len(readQueue'.items) = Len(readQueue.items) + 1
      BY <3>1, <3>2, <1>0, PutItemOps
    <3>4. Takers' = Takers
      BY <3>1 DEF Takers
    <3> QED
      BY <1>0, <1>1, <3>1, <3>3, <3>4 DEF ReaderOK, One
  <2>3. CASE WakeReader
    <3>1. /\ rpc = "wakeReader" /\ UNCHANGED call /\ AfterMessage(pending)
          /\ readQueue' = PutWake(readQueue)
      BY <2>3 DEF WakeReader, userVars
    <3>2. rpc' # "wakeReader"
      BY <3>1, Places DEF AfterMessage
    <3>3. readQueue'.wakes = readQueue.wakes + 1 /\ readQueue'.items = readQueue.items
      BY <3>1, <1>0, QueueOps
    <3>4. Takers' = Takers
      BY <3>1 DEF Takers
    <3> QED
      BY <1>0, <1>1, <3>1, <3>2, <3>3, <3>4 DEF ReaderOK, One
  <2> QED
    BY <1>5, <2>1, <2>2, <2>3 DEF Handled
<1>6. ASSUME NEW u \in Users, \/ Write(u) \/ WriteItem(u) \/ WriteWake(u) \/ Read(u)
                              \/ ReadItem(u) \/ Stop(u) \/ Joined(u)
      PROVE  ReaderOK'
  <2>1. CASE Write(u) \/ WriteItem(u) \/ WriteWake(u) \/ Stop(u) \/ Joined(u)
    <3>1. /\ UNCHANGED <<readQueue, rpc>> /\ call' = [call EXCEPT ![u] = call'[u]]
          /\ call[u].at # "taking" /\ call'[u].at # "taking"
      BY <2>1, <1>0 DEF Write, WriteItem, WriteWake, Stop, Joined, queueVars, reactorVars,
                        Idle, Calls
    <3> QED
      BY <3>1, <1>3
  <2>2. CASE Read(u)
    <3>1. /\ call[u].at = "idle" /\ call' = [call EXCEPT ![u].at = "taking"] /\ UNCHANGED rpc
          /\ readQueue.wakes > 0 /\ readQueue' = TakeWake(readQueue)
      BY <2>2 DEF Read, reactorVars
    <3>2. readQueue'.wakes = readQueue.wakes - 1 /\ readQueue'.items = readQueue.items
      BY <3>1, <1>0, QueueOps
    <3>3. u \notin Takers /\ Takers' = Takers \cup {u}
      BY <3>1, <1>0 DEF Takers, Calls
    <3>4. Cardinality(Takers') = Cardinality(Takers) + 1
      BY <3>3, <1>1, Threads
    <3> QED
      BY <1>0, <1>1, <3>1, <3>2, <3>4 DEF ReaderOK, One
  <2>3. CASE ReadItem(u)
    <3>1. /\ call[u].at = "taking" /\ call' = [call EXCEPT ![u] = Idle] /\ UNCHANGED rpc
          /\ readQueue.items # << >> /\ readQueue' = TakeItem(readQueue)
      BY <2>3 DEF ReadItem, reactorVars
    <3>2. /\ readQueue'.wakes = readQueue.wakes
          /\ Len(readQueue'.items) = Len(readQueue.items) - 1
      BY <3>1, <1>0, QueueOps
    <3>3. u \in Takers /\ Takers' = Takers \ {u}
      BY <3>1, <1>0 DEF Takers, Idle
    <3>4. Cardinality(Takers') = Cardinality(Takers) - 1
      BY <3>3, <1>1, Threads
    <3> QED
      BY <1>0, <1>1, <3>1, <3>2, <3>4 DEF ReaderOK, One
  <2> QED
    BY <1>6, <2>1, <2>2, <2>3
<1> QED
  BY Steps, <1>4, <1>5, <1>6

\* What select() found stays so until the reactor gets to it.
LEMMA ReadyStep ==
  ASSUME IInv, [Next]_vars
  PROVE  ReadyOK'
<1>0. /\ ReadyOK /\ gen \in 0 .. MaxConns /\ pending \in Seq(Replies)
      /\ outbox \in [0 .. MaxConns -> Queues(Messages)]
      /\ \A g \in 0 .. MaxConns : outbox[g] \in Queues(Messages) /\ outbox[g].wakes \in Nat
  BY Parts, Outboxes, QueueOps DEF ReactorOK, QueuesOK
\* The reactor stands still, and no byte goes.
<1>1. ASSUME UNCHANGED <<rpc, ready, pending, gen>>,
             outbox[gen].wakes > 0 => outbox'[gen].wakes > 0
      PROVE  ReadyOK'
  BY <1>0, <1>1 DEF ReadyOK
<1>2. CASE Broker \/ UNCHANGED vars
  BY <1>2, <1>1 DEF Broker, BrokerPublishes, BrokerRefuses, BrokerMisspeaks, Break, vars, queueVars, reactorVars
<1>3. ASSUME NEW u \in Users, \/ Write(u) \/ WriteItem(u) \/ WriteWake(u) \/ Read(u)
                              \/ ReadItem(u) \/ Stop(u) \/ Joined(u)
      PROVE  ReadyOK'
  <2>1. UNCHANGED <<rpc, ready, pending, gen>>
    BY <1>3 DEF Write, WriteItem, WriteWake, Read, ReadItem, Stop, Joined, reactorVars
  <2>2. PICK g \in 0 .. MaxConns : g = call[u].gen
    BY Outboxes
  <2>3. CASE WriteItem(u)
    <3>1. outbox' = [outbox EXCEPT ![g] = PutItem(outbox[g], call[u].msg)]
      BY <2>2, <2>3 DEF WriteItem
    <3>2. PutItem(outbox[g], call[u].msg).wakes = outbox[g].wakes
      BY <2>2, Outboxes, PutItemOps DEF Calls
    <3>3. outbox'[gen].wakes = outbox[gen].wakes
      BY <1>0, <3>1, <3>2
    <3> QED
      BY <2>1, <3>3, <1>1
  <2>4. CASE WriteWake(u)
    <3>1. outbox' = [outbox EXCEPT ![g] = PutWake(outbox[g])]
      BY <2>2, <2>4 DEF WriteWake
    <3>2. PutWake(outbox[g]).wakes = outbox[g].wakes + 1
      BY <1>0, QueueOps
    <3>3. outbox[gen].wakes > 0 => outbox'[gen].wakes > 0
      BY <1>0, <3>1, <3>2
    <3> QED
      BY <2>1, <3>3, <1>1
  <2>5. CASE Write(u) \/ Read(u) \/ ReadItem(u) \/ Stop(u) \/ Joined(u)
    <3>1. outbox' = outbox
      BY <2>5 DEF Write, Read, ReadItem, Stop, Joined, queueVars
    <3> QED
      BY <2>1, <3>1, <1>1
  <2> QED
    BY <1>3, <2>3, <2>4, <2>5
\* Where nothing select() found is left.
<1>4. ASSUME ready' = {}, rpc' \notin {"get", "handle"}
      PROVE  ReadyOK'
  BY <1>4 DEF ReadyOK
\* After select(), or a message.
<1>5. ASSUME NEW r, r \subseteq {"outbox", "send"}, "outbox" \in r => outbox'[gen'].wakes > 0,
             rpc' = FirstOf(r), ready' = {}
      PROVE  ReadyOK'
  <2>1. rpc' \in {"get", "send", "done", "select"} /\ (rpc' = "get" => "outbox" \in r)
    BY <1>5 DEF FirstOf, InnerLoop
  <2> QED
    BY <2>1, <1>5 DEF ReadyOK
<1>5a. ASSUME "outbox" \in ready => outbox'[gen'].wakes > 0, rpc' = FirstOf(ready), ready' = {}
      PROVE  ReadyOK'
  <2>1. CASE "sock" \in ready
    BY <1>5a, <2>1, <1>4 DEF FirstOf
  <2>2. CASE "sock" \notin ready
    <3>1. ready \subseteq {"outbox", "send"}
      BY <2>2, Parts DEF ReactorOK
    <3> QED
      BY <3>1, <1>5a, <1>5
  <2> QED
    BY <2>1, <2>2
<1>6. CASE Aside
  <2>1. CASE Start \/ ConnectFails \/ SendAgain \/ Send
    <3>1. ready' = ready /\ rpc' \in {"done", "connecting", "dead", "select"}
          /\ rpc \in {"new", "connecting", "send"}
      BY <2>1, Places DEF Start, ConnectFails, SendAgain, Send
    <3> QED
      BY <3>1, <1>0, <1>4 DEF ReadyOK
  <2>2. CASE Fails
    <3>1. UNCHANGED <<outbox, gen, ready, pending>> /\ rpc' = "dead"
      BY <2>2, FailsDoes DEF queueVars
    <3> QED
      BY <3>1, <1>0 DEF ReadyOK
  <2>3. CASE Select
    <3>1. PICK r \in SUBSET Watched \ {{}} :
            /\ "outbox" \in r => outbox[gen].wakes > 0
            /\ rpc' = FirstOf(r)
            /\ ready' = IF "sock" \in r THEN r \ {"sock"} ELSE {}
      BY <2>3 DEF Select
    <3>2. UNCHANGED <<outbox, gen>> /\ r \subseteq {"sock", "outbox", "send"}
      BY <2>3, <3>1 DEF Select, queueVars, Watched
    <3>3. CASE "sock" \in r
      <4>1. rpc' = "read" /\ ready' = r \ {"sock"}
        BY <3>1, <3>3 DEF FirstOf
      <4> QED
        BY <4>1, <3>1, <3>2 DEF ReadyOK
    <3>4. CASE "sock" \notin r
      BY <3>1, <3>2, <3>4, <1>5
    <3> QED
      BY <3>3, <3>4
  <2>4. CASE ReadFails
    BY <2>4, <1>4, Places DEF ReadFails
  <2>5. CASE Receive
    <3>1. UNCHANGED <<outbox, gen, ready>> /\ rpc' = "handle" /\ toClient \in Seq(Replies)
      BY <2>5, Parts DEF Receive, queueVars, LinkOK
    <3>2. PICK k \in 1 .. Len(toClient) : pending' = SubSeq(toClient, 1, k)
      BY <2>5 DEF Receive
    <3>3. pending' # << >>
      BY <3>1, <3>2, CutInTwo
    <3> QED
      BY <3>1, <3>3, <1>0 DEF ReadyOK
  <2>6. CASE Shuts
    <3>1. /\ UNCHANGED <<outbox, gen>>
          /\ \/ rpc' = "handle" /\ ready' = ready /\ pending' # << >>
             \/ rpc' = FirstOf(ready) /\ ready' = {}
      BY <2>6, ShutsDoes DEF queueVars
    <3>2. "outbox" \in ready => outbox'[gen'].wakes > 0
      BY <3>1, <1>0 DEF ReadyOK
    <3>3. CASE rpc' = "handle"
      BY <3>1, <3>2, <3>3, Places DEF ReadyOK
    <3>4. CASE rpc' = FirstOf(ready) /\ ready' = {}
      BY <3>2, <3>4, <1>5a
    <3> QED
      BY <3>1, <3>3, <3>4
  <2> QED
    BY <1>6, <2>1, <2>2, <2>3, <2>4, <2>5, <2>6 DEF Aside
<1>7. CASE Connect
  <2>1. ready' = ready /\ rpc = "connecting" /\ rpc' \in {"done", "select"}
    BY <1>7, Places DEF Connect
  <2> QED
    BY <2>1, <1>0, <1>4 DEF ReadyOK
<1>8. CASE Handled
  <2>1. CASE OnInfo
    <3>1. /\ UNCHANGED <<ready, gen>> /\ rpc' = "wakeOutbox"
          /\ outbox' = [outbox EXCEPT ![gen] = PutItem(outbox[gen], AuthMessage)]
      BY <2>1 DEF OnInfo
    <3>2. AuthMessage \in Messages
      BY Bounds DEF AuthMessage, Messages
    <3>3. outbox'[gen].wakes = outbox[gen].wakes
      BY <1>0, <3>1, <3>2, PutItemOps
    <3> QED
      BY <3>1, <3>3, <1>0 DEF ReadyOK
  <2>2. CASE OnPublish
    <3>1. UNCHANGED <<ready, gen, outbox>> /\ rpc' = "wakeReader"
      BY <2>2 DEF OnPublish
    <3> QED
      BY <3>1, <1>0 DEF ReadyOK
  <2>3. CASE WakeOutbox \/ WakeReader
    <3>1. /\ AfterMessage(pending) /\ UNCHANGED <<gen, pending>>
          /\ outbox[gen].wakes > 0 => outbox'[gen].wakes > 0
      <4>1. CASE WakeOutbox
        <5>1. /\ AfterMessage(pending) /\ UNCHANGED <<gen, pending>>
              /\ outbox' = [outbox EXCEPT ![gen] = PutWake(outbox[gen])]
          BY <4>1 DEF WakeOutbox
        <5>2. PutWake(outbox[gen]).wakes = outbox[gen].wakes + 1
          BY <1>0, QueueOps
        <5> QED
          BY <1>0, <5>1, <5>2
      <4>2. CASE WakeReader
        BY <4>2 DEF WakeReader
      <4> QED
        BY <2>3, <4>1, <4>2
    <3>2. "outbox" \in ready => outbox'[gen'].wakes > 0
      BY <3>1, <1>0 DEF ReadyOK
    <3>3. CASE pending # << >>
      <4>1. rpc' = "handle" /\ ready' = ready
        BY <3>1, <3>3 DEF AfterMessage
      <4> QED
        BY <4>1, <3>1, <3>2, <3>3 DEF ReadyOK
    <3>4. CASE ~(pending # << >>)
      <4>1. rpc' = FirstOf(ready) /\ ready' = {}
        BY <3>1, <3>4 DEF AfterMessage
      <4> QED
        BY <4>1, <3>2, <1>5a
    <3> QED
      BY <3>3, <3>4
  <2>4. CASE Get
    BY <2>4, <1>0, <1>4 DEF Get, ReadyOK
  <2> QED
    BY <1>8, <2>1, <2>2, <2>3, <2>4 DEF Handled
<1> QED
  BY Steps, <1>2, <1>3, <1>6, <1>7, <1>8

\* A connection's outbox is new.
LEMMA FreshStep ==
  ASSUME IInv, [Next]_vars
  PROVE  FreshOK'
<1>0. /\ FreshOK /\ gen \in 0 .. MaxConns /\ made \in 0 .. MaxConns /\ MaxConns \in Nat
      /\ outbox \in [0 .. MaxConns -> Queues(Messages)] /\ log \in [0 .. MaxConns -> Seq(Messages)]
      /\ call \in [Users -> Calls]
  BY Parts, Bounds DEF ReactorOK, QueuesOK, UsersOK, LinkOK
<1>1. ASSUME UNCHANGED <<gen, made, call>>,
             \/ UNCHANGED <<outbox, log>>
             \/ \E q, s : outbox' = [outbox EXCEPT ![gen] = q] /\ log' = [log EXCEPT ![gen] = s]
      PROVE  FreshOK'
  BY <1>0, <1>1 DEF FreshOK
<1>2. CASE Aside \/ Broker \/ UNCHANGED vars
  <2>1. UNCHANGED <<gen, made, call, outbox, log>>
    <3>1. CASE Aside
      BY <3>1, AsideApart
    <3>2. CASE Broker \/ UNCHANGED vars
      BY <3>2 DEF Broker, BrokerPublishes, BrokerRefuses, BrokerMisspeaks, Break, vars, queueVars, userVars,
                  reactorVars, linkVars
    <3> QED
      BY <1>2, <3>1, <3>2
  <2> QED
    BY <2>1, <1>1
<1>3. CASE Connect
  <2>1. /\ gen' = made + 1 /\ made' = made + 1 /\ UNCHANGED <<call, outbox, log>>
    BY <1>3 DEF Connect, queueVars, userVars
  <2>2. \A u \in Users : call[u].gen <= made + 1
    <3>1. \A u \in Users : call[u].gen \in 0 .. MaxConns /\ call[u].gen <= made
      BY <1>0 DEF FreshOK, Calls
    <3> QED
      BY <1>0, <3>1
  <2>3. \A g \in 0 .. MaxConns : g > made + 1 => g > made
    BY <1>0
  <2> QED
    BY <2>1, <2>2, <2>3, <1>0 DEF FreshOK
<1>4. CASE Handled
  <2>1. CASE OnInfo \/ OnPublish \/ WakeReader
    BY <2>1, <1>1 DEF OnInfo, OnPublish, WakeReader, userVars, linkVars
  <2>2. CASE WakeOutbox \/ Get
    <3>1. /\ UNCHANGED <<gen, made, call, log>>
          /\ \E q : outbox' = [outbox EXCEPT ![gen] = q]
      BY <2>2 DEF WakeOutbox, Get, userVars, linkVars
    <3>2. log' = [log EXCEPT ![gen] = log[gen]]
      BY <3>1, <1>0
    <3> QED
      BY <3>1, <3>2, <1>1
  <2> QED
    BY <1>4, <2>1, <2>2 DEF Handled
<1>5. ASSUME NEW u \in Users, \/ Write(u) \/ WriteItem(u) \/ WriteWake(u) \/ Read(u)
                              \/ ReadItem(u) \/ Stop(u) \/ Joined(u)
      PROVE  FreshOK'
  <2>1. /\ UNCHANGED <<gen, made>> /\ gen = made /\ call[u].gen <= made
        /\ call[u].gen \in 0 .. MaxConns
    BY <1>5, <1>0 DEF Write, WriteItem, WriteWake, Read, ReadItem, Stop, Joined,
                      reactorVars, linkVars, FreshOK, Calls
  <2>2. \A v \in Users : call'[v].gen <= made
    <3>1. call' = [call EXCEPT ![u] = call'[u]]
      BY <1>5, <1>0 DEF Write, WriteItem, WriteWake, Read, ReadItem, Stop, Joined
    <3>2. call'[u].gen \in {call[u].gen, gen, 0}
      BY <1>5, <1>0 DEF Write, WriteItem, WriteWake, Read, ReadItem, Stop, Joined, Idle, Calls
    <3>3. call'[u].gen <= made
      BY <3>2, <2>1, <1>0
    <3> QED
      BY <3>1, <3>3, <1>0 DEF FreshOK
  <2>3. ASSUME NEW g \in 0 .. MaxConns, g > made
        PROVE  log'[g] = log[g] /\ outbox'[g] = outbox[g]
    <3>1. g # call[u].gen
      BY <2>1, <2>3, <1>0
    <3> QED
      BY <1>5, <3>1, <1>0 DEF Write, WriteItem, WriteWake, Read, ReadItem, Stop, Joined, queueVars
  <2> QED
    BY <2>1, <2>2, <2>3, <1>0 DEF FreshOK
<1> QED
  BY Steps, <1>2, <1>3, <1>4, <1>5

-----------------------------------------------------------------------------
(* What is on the wire *)

LEMMA CellsAssociate ==
  ASSUME NEW p \in Seq(Cells), NEW q \in Seq(Cells), NEW r \in Seq(Cells)
  PROVE  (p \o q) \o r = p \o (q \o r)
BY ConcatAssociative, SMTT(30)

LEMMA PutCells ==
  ASSUME NEW p \in Seq(Messages), NEW q \in Seq(Messages), NEW x \in Seq(Cells), NEW m \in Messages,
         Split(p) = x \o Split(q)
  PROVE  Split(Append(p, m)) = x \o Split(Append(q, m))
<1>1. /\ <<m>> \in Seq(Messages) /\ Append(p, m) = p \o <<m>> /\ Append(q, m) = q \o <<m>>
  BY AppendIsConcat
<1>2. /\ Split(p) \in Seq(Cells) /\ Split(q) \in Seq(Cells) /\ Split(<<m>>) \in Seq(Cells)
  BY <1>1, SplitType
<1>3. /\ Split(Append(p, m)) = Split(p) \o Split(<<m>>)
      /\ Split(Append(q, m)) = Split(q) \o Split(<<m>>)
  BY <1>1, SplitConcat
<1>4. (x \o Split(q)) \o Split(<<m>>) = x \o (Split(q) \o Split(<<m>>))
  BY <1>2, CellsAssociate
<1> QED
  BY <1>3, <1>4

LEMMA TakeCells ==
  ASSUME NEW q \in Seq(Messages), q # << >>
  PROVE  /\ Head(q) \in Messages /\ Tail(q) \in Seq(Messages)
         /\ Split(q) = Split(<<Head(q)>>) \o Split(Tail(q))
<1>1. Head(q) \in Messages /\ Tail(q) \in Seq(Messages)
  BY HeadTailProperties
<1>2. << >> \in Seq(Messages) /\ <<Head(q)>> \in Seq(Messages)
  BY <1>1
<1>3. Append(<< >>, Head(q)) \o Tail(q) = << >> \o q
  BY <1>2, MovedOver
<1>4. Append(<< >>, Head(q)) = <<Head(q)>> /\ << >> \o q = q
  BY <1>1, <1>2, ConcatEmptySeq
<1>5. q = <<Head(q)>> \o Tail(q)
  BY <1>3, <1>4
<1>6. Split(<<Head(q)>> \o Tail(q)) = Split(<<Head(q)>>) \o Split(Tail(q))
  BY <1>1, <1>2, SplitConcat
<1> QED
  BY <1>1, <1>5, <1>6

\* Every step keeps what was written, sent, and is still to be sent together.
LEMMA WireStep ==
  ASSUME IInv, [Next]_vars
  PROVE  WireInOrder'
<1> DEFINE items == outbox[gen].items
<1>0. /\ WireInOrder /\ gen \in 0 .. MaxConns /\ outbox[gen] \in Queues(Messages)
      /\ outbox \in [0 .. MaxConns -> Queues(Messages)] /\ log \in [0 .. MaxConns -> Seq(Messages)]
      /\ log[gen] \in Seq(Messages) /\ items \in Seq(Messages) /\ Split(items) \in Seq(Cells)
      /\ wire \in Seq(Cells) /\ buffer \in Seq(Cells) /\ wire \o buffer \in Seq(Cells)
  <2>1. /\ WireInOrder /\ gen \in 0 .. MaxConns /\ outbox[gen] \in Queues(Messages)
        /\ outbox \in [0 .. MaxConns -> Queues(Messages)]
        /\ log \in [0 .. MaxConns -> Seq(Messages)] /\ log[gen] \in Seq(Messages)
        /\ wire \in Seq(Cells) /\ buffer \in Seq(Cells)
    BY Parts, Outboxes DEF QueuesOK, ReactorOK, LinkOK
  <2>2. items \in Seq(Messages)
    BY <2>1, QueueOps
  <2>3. Split(items) \in Seq(Cells) /\ wire \o buffer \in Seq(Cells)
    BY <2>1, <2>2, SplitType, ConcatProperties
  <2> QED
    BY <2>1, <2>2, <2>3
<1>1. ASSUME UNCHANGED <<gen, wire, buffer, log>>, outbox'[gen].items = outbox[gen].items
      PROVE  WireInOrder'
  BY <1>0, <1>1 DEF WireInOrder
<1>2. ASSUME NEW m \in Messages, UNCHANGED <<gen, wire, buffer>>,
             log'[gen] = Append(log[gen], m), outbox'[gen].items = Append(items, m)
      PROVE  WireInOrder'
  <2>1. Split(Append(log[gen], m)) = (wire \o buffer) \o Split(Append(items, m))
    <3>1. Split(log[gen]) = (wire \o buffer) \o Split(items)
      BY <1>0 DEF WireInOrder
    <3> HIDE DEF items
    <3> QED
      BY <1>0, <3>1, PutCells
  <2> QED
    BY <2>1, <1>2 DEF WireInOrder
<1>3. CASE Aside
  <2>1. UNCHANGED <<gen, log, outbox>>
    BY <1>3, AsideApart
  <2>2. CASE Send
    <3>1. PICK k \in 1 .. Len(buffer) : /\ wire' = wire \o SubSeq(buffer, 1, k)
                                        /\ buffer' = SubSeq(buffer, k + 1, Len(buffer))
      BY <2>2 DEF Send, Rest
    <3>2. /\ SubSeq(buffer, 1, k) \in Seq(Cells) /\ buffer' \in Seq(Cells)
          /\ SubSeq(buffer, 1, k) \o buffer' = buffer
      BY <3>1, <1>0, CutInTwo
    <3>3. wire' \o buffer' = wire \o (SubSeq(buffer, 1, k) \o buffer')
      <4>1. wire' \o buffer' = (wire \o SubSeq(buffer, 1, k)) \o buffer'
        BY <3>1
      <4>2. wire \in Seq(Cells)
        BY <1>0
      <4>3. (wire \o SubSeq(buffer, 1, k)) \o buffer' = wire \o (SubSeq(buffer, 1, k) \o buffer')
        BY <4>2, <3>2, CellsAssociate
      <4> QED
        BY <4>1, <4>3
    <3> QED
      BY <2>1, <3>2, <3>3, <1>0 DEF WireInOrder
  <2>3. CASE ~Send
    <3>1. UNCHANGED <<wire, buffer>>
      BY <1>3, <2>3, FailsDoes, ShutsDoes DEF Aside, Start, ConnectFails, Select, Receive,
                                              ReadFails, SendAgain, linkVars
    <3> QED
      BY <2>1, <3>1, <1>1
  <2> QED
    BY <2>2, <2>3
<1>4. CASE Connect
  <2>1. /\ gen' = made + 1 /\ wire' = << >> /\ buffer' = << >> /\ UNCHANGED <<log, outbox>>
        /\ made < MaxConns /\ made \in Nat /\ MaxConns \in Nat
    BY <1>4, Parts, Bounds DEF Connect, queueVars, LinkOK
  <2>2. gen' \in 0 .. MaxConns /\ gen' > made
    BY <2>1
  <2>3. log'[gen'] = << >> /\ outbox'[gen'].items = << >>
    BY <2>1, <2>2, Parts DEF FreshOK, EmptyQueue
  <2>4. << >> \o << >> \o << >> = << >>
    OBVIOUS
  <2> QED
    BY <2>1, <2>3, <2>4, SplitEmpty DEF WireInOrder
<1>5. CASE Broker \/ UNCHANGED vars
  <2>1. UNCHANGED <<gen, wire, buffer, log, outbox>>
    BY <1>5 DEF Broker, BrokerPublishes, BrokerRefuses, BrokerMisspeaks, Break, vars, queueVars, reactorVars,
                linkVars
  <2> QED
    BY <2>1, <1>1
<1>6. CASE Handled
  <2>1. CASE OnInfo
    <3>1. /\ UNCHANGED <<gen, wire, buffer>>
          /\ outbox' = [outbox EXCEPT ![gen] = PutItem(outbox[gen], AuthMessage)]
          /\ log' = [log EXCEPT ![gen] = Append(log[gen], AuthMessage)]
      BY <2>1 DEF OnInfo, linkVars
    <3>2. AuthMessage \in Messages
      BY Bounds DEF AuthMessage, Messages
    <3>3. PutItem(outbox[gen], AuthMessage).items = Append(items, AuthMessage)
      BY <1>0, <3>2, PutItemOps
    <3>4. log'[gen] = Append(log[gen], AuthMessage) /\ outbox'[gen].items = Append(items, AuthMessage)
      BY <1>0, <3>1, <3>3
    <3> QED
      BY <3>1, <3>2, <3>4, <1>2
  <2>2. CASE WakeOutbox
    <3>1. /\ UNCHANGED <<gen, wire, buffer, log>>
          /\ outbox' = [outbox EXCEPT ![gen] = PutWake(outbox[gen])]
      BY <2>2 DEF WakeOutbox, linkVars
    <3>2. PutWake(outbox[gen]).items = outbox[gen].items
      BY <1>0, QueueOps
    <3>3. outbox'[gen].items = outbox[gen].items
      BY <3>1, <3>2, <1>0
    <3> QED
      BY <3>1, <3>3, <1>1
  <2>3. CASE OnPublish \/ WakeReader
    <3>1. UNCHANGED <<gen, wire, buffer, log, outbox>>
      BY <2>3 DEF OnPublish, WakeReader, linkVars
    <3> QED
      BY <3>1, <1>1
  <2>4. CASE Get
    <3>1. /\ UNCHANGED <<gen, wire, log>> /\ outbox[gen].wakes > 0 /\ items # << >>
          /\ buffer' = buffer \o Split(<<Head(items)>>)
          /\ outbox' = [outbox EXCEPT ![gen] = TakeItem(TakeWake(outbox[gen]))]
      BY <2>4 DEF Get, Buffered, linkVars
    <3>2. /\ TakeWake(outbox[gen]) \in Queues(Messages) /\ TakeWake(outbox[gen]).items = items
      BY <1>0, <3>1, QueueOps
    <3>3. TakeItem(TakeWake(outbox[gen])).items = Tail(items)
      BY <3>1, <3>2, QueueOps
    <3>4. outbox'[gen].items = Tail(items)
      BY <1>0, <3>1, <3>3
    <3> HIDE DEF items
    <3>5. /\ Head(items) \in Messages /\ Tail(items) \in Seq(Messages)
          /\ Split(items) = Split(<<Head(items)>>) \o Split(Tail(items))
      BY <1>0, <3>1, TakeCells
    <3>6. Split(<<Head(items)>>) \in Seq(Cells) /\ Split(Tail(items)) \in Seq(Cells)
      <4>1. <<Head(items)>> \in Seq(Messages)
        BY <3>5
      <4> QED
        BY <4>1, <3>5, SplitType
    <3>7. (wire \o buffer) \o Split(items)
            = ((wire \o buffer) \o Split(<<Head(items)>>)) \o Split(Tail(items))
      <4> DEFINE x == wire \o buffer
      <4>1. x \in Seq(Cells)
        BY <1>0
      <4> HIDE DEF x
      <4>2. (x \o Split(<<Head(items)>>)) \o Split(Tail(items))
              = x \o (Split(<<Head(items)>>) \o Split(Tail(items)))
        BY <4>1, <3>6, CellsAssociate
      <4> QED
        BY <4>2, <3>5 DEF x
    <3>8. (wire \o buffer) \o Split(<<Head(items)>>) = wire \o buffer'
      <4>1. wire \in Seq(Cells) /\ buffer \in Seq(Cells)
        BY <1>0
      <4>2. (wire \o buffer) \o Split(<<Head(items)>>)
              = wire \o (buffer \o Split(<<Head(items)>>))
        BY <4>1, <3>6, CellsAssociate
      <4> QED
        BY <4>2, <3>1
    <3>9. Split(log[gen]) = (wire \o buffer) \o Split(items)
      BY <1>0 DEF WireInOrder, items
    <3> QED
      BY <3>1, <3>4, <3>7, <3>8, <3>9 DEF WireInOrder
  <2> QED
    BY <1>6, <2>1, <2>2, <2>3, <2>4 DEF Handled
<1>7. ASSUME NEW u \in Users, \/ Write(u) \/ WriteItem(u) \/ WriteWake(u) \/ Read(u)
                              \/ ReadItem(u) \/ Stop(u) \/ Joined(u)
      PROVE  WireInOrder'
  <2>1. UNCHANGED <<gen, wire, buffer>>
    BY <1>7 DEF Write, WriteItem, WriteWake, Read, ReadItem, Stop, Joined, reactorVars, linkVars
  <2>2. PICK g \in 0 .. MaxConns : g = call[u].gen
    BY Outboxes
  <2>3. outbox[g] \in Queues(Messages) /\ call[u].msg \in Messages
    BY Outboxes DEF Calls
  <2>4. CASE WriteItem(u)
    <3>1. /\ outbox' = [outbox EXCEPT ![g] = PutItem(outbox[g], call[u].msg)]
          /\ log' = [log EXCEPT ![g] = Append(log[g], call[u].msg)]
      BY <2>2, <2>4 DEF WriteItem
    <3>2. CASE g = gen
      <4>1. PutItem(outbox[gen], call[u].msg).items = Append(items, call[u].msg)
        BY <1>0, <2>3, PutItemOps
      <4>2. /\ log'[gen] = Append(log[gen], call[u].msg)
            /\ outbox'[gen].items = Append(items, call[u].msg)
        BY <1>0, <3>1, <3>2, <4>1
      <4> QED
        BY <2>1, <2>3, <4>2, <1>2
    \* The thread still holds the outbox of an earlier connection.
    <3>3. CASE g # gen
      <4>1. log'[gen] = log[gen] /\ outbox'[gen] = outbox[gen]
        BY <1>0, <3>1, <3>3
      <4> QED
        BY <4>1, <2>1, <1>0 DEF WireInOrder
    <3> QED
      BY <3>2, <3>3
  <2>5. CASE WriteWake(u)
    <3>1. log' = log /\ outbox' = [outbox EXCEPT ![g] = PutWake(outbox[g])]
      BY <2>2, <2>5 DEF WriteWake
    <3>2. PutWake(outbox[g]).items = outbox[g].items
      BY <2>3, QueueOps
    <3>3. outbox'[gen].items = outbox[gen].items
      BY <1>0, <3>1, <3>2
    <3> QED
      BY <2>1, <3>1, <3>3, <1>1
  <2>6. CASE Write(u) \/ Read(u) \/ ReadItem(u) \/ Stop(u) \/ Joined(u)
    <3>1. UNCHANGED <<log, outbox>>
      BY <2>6 DEF Write, Read, ReadItem, Stop, Joined, queueVars
    <3> QED
      BY <2>1, <3>1, <1>1
  <2> QED
    BY <1>7, <2>4, <2>5, <2>6
<1> QED
  BY Steps, <1>3, <1>4, <1>5, <1>6, <1>7

-----------------------------------------------------------------------------
(* What is read *)

LEMMA ConcatAppend ==
  ASSUME NEW S, NEW p \in Seq(S), NEW q \in Seq(S), NEW m \in S
  PROVE  p \o Append(q, m) = Append(p \o q, m)
<1>1. <<m>> \in Seq(S) /\ p \o q \in Seq(S)
  BY ConcatProperties
<1>2. Append(q, m) = q \o <<m>> /\ Append(p \o q, m) = (p \o q) \o <<m>>
  BY <1>1, AppendIsConcat
<1> QED
  BY <1>1, <1>2, ConcatAssociative

LEMMA RisingAppend ==
  ASSUME NEW s \in Seq(Numbers), NEW n \in Numbers, Rising(s), \A k \in Members(s) : k < n
  PROVE  Rising(Append(s, n))
<1> DEFINE r == Append(s, n)
<1>1. /\ Len(s) \in Nat /\ DOMAIN s = 1 .. Len(s) /\ DOMAIN r = 1 .. Len(s) + 1
      /\ \A i \in 1 .. Len(s) : r[i] = s[i]
      /\ r[Len(s) + 1] = n
  BY AppendProperties, LenProperties
<1> HIDE DEF r
<1>2. ASSUME NEW i \in DOMAIN r, NEW j \in DOMAIN r, i < j PROVE r[i] < r[j]
  <2>1. i \in DOMAIN s /\ r[i] = s[i]
    BY <1>1, <1>2
  <2>2. CASE j \in DOMAIN s
    BY <1>1, <1>2, <2>1, <2>2 DEF Rising
  <2>3. CASE j \notin DOMAIN s
    <3>1. r[j] = n /\ s[i] \in Members(s)
      BY <1>1, <2>1, <2>3 DEF Members
    <3> QED
      BY <2>1, <3>1
  <2> QED
    BY <2>2, <2>3
<1> QED
  BY <1>2 DEF Rising, r

\* Replies that are in order are so in each part.
LEMMA InOrderParts ==
  ASSUME NEW R, NEW p \in Seq(R), NEW q \in Seq(R), NEW given, NEW top,
         InOrder(p \o q, given, top)
  PROVE  InOrder(p, given, top) /\ InOrder(q, given, top)
<1> DEFINE r == p \o q
           n == Len(p)
<1>1. /\ n \in Nat /\ Len(q) \in Nat /\ DOMAIN p = 1 .. n /\ DOMAIN q = 1 .. Len(q)
      /\ DOMAIN r = 1 .. n + Len(q)
      /\ \A i \in 1 .. n + Len(q) : r[i] = IF i <= n THEN p[i] ELSE q[i - n]
  BY LenProperties, ConcatProperties
<1> HIDE DEF r, n
<1>2. \A i \in DOMAIN p : i \in DOMAIN r /\ r[i] = p[i]
  BY <1>1
<1>3. \A i \in DOMAIN q : i + n \in DOMAIN r /\ r[i + n] = q[i]
  <2> SUFFICES ASSUME NEW i \in DOMAIN q PROVE i + n \in DOMAIN r /\ r[i + n] = q[i]
    OBVIOUS
  <2>1. i + n \in 1 .. n + Len(q) /\ ~(i + n <= n) /\ (i + n) - n = i
    BY <1>1
  <2> QED
    BY <1>1, <2>1
<1>4. \A i, j \in DOMAIN q : i < j => i + n < j + n
  BY <1>1
<1>5. InOrder(r, given, top)
  BY DEF r
<1>6. InOrder(p, given, top)
  BY <1>2, <1>5 DEF InOrder
<1>7. InOrder(q, given, top)
  BY <1>3, <1>4, <1>5 DEF InOrder
<1> QED
  BY <1>6, <1>7

Coming == pending \o toClient

LEMMA OrderStep ==
  ASSUME IInv, [Next]_vars
  PROVE  OrderOK'
<1>0. /\ Rising(Given) /\ InOrder(Coming, Members(Given), sent)
      /\ pending \in Seq(Replies) /\ toClient \in Seq(Replies) /\ Coming \in Seq(Replies)
      /\ readQueue \in Queues(Numbers) /\ readQueue.items \in Seq(Numbers)
      /\ got \in Seq(Numbers) /\ Given \in Seq(Numbers) /\ Members(Given) \in SUBSET Nat
      /\ sent \in Nat
  <2>1. /\ Rising(Given) /\ InOrder(Coming, Members(Given), sent)
        /\ pending \in Seq(Replies) /\ toClient \in Seq(Replies)
        /\ readQueue \in Queues(Numbers) /\ got \in Seq(Numbers) /\ sent \in Nat
    BY Parts, Bounds DEF OrderOK, ReactorOK, LinkOK, QueuesOK, UsersOK, Coming
  <2>2. readQueue.items \in Seq(Numbers)
    BY <2>1, QueueOps
  <2>3. Coming \in Seq(Replies) /\ Given \in Seq(Numbers)
    BY <2>1, <2>2, ConcatProperties DEF Coming, Given
  <2>4. \A i \in DOMAIN Given : Given[i] \in Nat
    BY <2>3, ElementOfSeq, Bounds DEF Numbers
  <2> QED
    BY <2>1, <2>2, <2>3, <2>4 DEF Members
<1>1. ASSUME Given' = Given, InOrder(Coming', Members(Given), sent')
      PROVE  OrderOK'
  BY <1>0, <1>1 DEF OrderOK, Coming
<1>2. ASSUME UNCHANGED <<pending, toClient, sent, got>>, readQueue'.items = readQueue.items
      PROVE  OrderOK'
  BY <1>0, <1>2, <1>1 DEF Given, Coming
<1>3. CASE Aside
  <2>1. UNCHANGED <<sent, got, readQueue>>
    BY <1>3, AsideApart
  <2>2. CASE Receive
    <3>1. PICK k \in 1 .. Len(toClient) : /\ pending' = SubSeq(toClient, 1, k)
                                          /\ toClient' = SubSeq(toClient, k + 1, Len(toClient))
      BY <2>2 DEF Receive
    <3>2. Coming' = toClient
      BY <3>1, <1>0, CutInTwo DEF Coming
    <3>3. InOrder(toClient, Members(Given), sent)
      BY <1>0, InOrderParts DEF Coming
    <3>4. Given' = Given
      BY <2>1 DEF Given
    <3> QED
      BY <2>1, <3>2, <3>3, <3>4, <1>1
  <2>3. CASE Shuts
    <3>1. /\ toClient' = << >> /\ pending # << >> /\ pending' \in Seq(Replies)
          /\ pending' \in {Tail(pending), << >>}
      BY <2>3, ShutsDoes
    <3>2. Coming' = pending'
      BY <3>1, ConcatEmptySeq DEF Coming
    <3>3. InOrder(pending, Members(Given), sent)
      BY <1>0, InOrderParts DEF Coming
    <3>4. InOrder(Tail(pending), Members(Given), sent)
      BY <3>1, <3>3, <1>0, InOrderTail
    <3>5. InOrder(<< >>, Members(Given), sent)
      BY <3>3 DEF InOrder
    <3>6. Given' = Given
      BY <2>1 DEF Given
    <3> QED
      BY <2>1, <3>1, <3>2, <3>4, <3>5, <3>6, <1>1
  <2>4. CASE ~Receive /\ ~Shuts
    <3>1. UNCHANGED <<pending, toClient>>
      BY <1>3, <2>4, FailsDoes DEF Aside, Start, ConnectFails, Select, ReadFails, Send, SendAgain,
                                   linkVars
    <3> QED
      BY <2>1, <3>1, <1>2
  <2> QED
    BY <2>2, <2>3, <2>4
<1>4. CASE Connect
  <2>1. /\ pending' = << >> /\ toClient' = <<[op |-> "INFO"]>> /\ UNCHANGED <<sent, Given>>
    BY <1>4 DEF Connect, queueVars, userVars, Given
  <2>2. Coming' = <<[op |-> "INFO"]>>
    BY <2>1 DEF Coming
  <2>3. InOrder(<<[op |-> "INFO"]>>, Members(Given), sent)
    BY <1>0 DEF InOrder
  <2> QED
    BY <2>1, <2>2, <2>3, <1>1
<1>5. CASE Broker
  <2>1. /\ UNCHANGED <<pending, Given>>
    BY <1>5 DEF Broker, BrokerPublishes, BrokerRefuses, BrokerMisspeaks, Break, reactorVars, queueVars, userVars,
                Given
  <2>2. CASE BrokerPublishes
    <3> DEFINE m == [op |-> "PUBLISH", n |-> sent + 1]
    <3>1. toClient' = Append(toClient, m) /\ sent' = sent + 1 /\ sent + 1 \in 1 .. MaxSent
      BY <2>2, <1>0, Bounds DEF BrokerPublishes
    <3>2. m \in Replies /\ m.op = "PUBLISH" /\ m.n = sent + 1
      BY <3>1 DEF Replies
    <3>3. Coming' = Append(Coming, m)
      BY <2>1, <3>1, <3>2, <1>0, ConcatAppend DEF Coming
    <3> HIDE DEF m
    <3>4. \A i \in DOMAIN Coming : Coming[i].op = "PUBLISH" => Coming[i].n \in Nat
      <4>1. \A i \in DOMAIN Coming : Coming[i] \in Replies
        BY <1>0, ElementOfSeq
      <4> QED
        BY <4>1, Bounds DEF Replies
    <3>5. InOrder(Append(Coming, m), Members(Given), sent + 1)
      BY <3>2, <3>4, <1>0, InOrderPublish
    <3> QED
      BY <2>1, <3>1, <3>3, <3>5, <1>1
  <2>3. CASE BrokerRefuses \/ BrokerMisspeaks
    <3>1. PICK m \in {[op |-> "ERROR"], [op |-> "ODD"]} : toClient' = Append(toClient, m)
      BY <2>3 DEF BrokerRefuses, BrokerMisspeaks
    <3>2. m \in Replies /\ m.op # "PUBLISH" /\ sent' = sent
      BY <2>3 DEF Replies, BrokerRefuses, BrokerMisspeaks
    <3>3. Coming' = Append(Coming, m)
      BY <2>1, <3>1, <3>2, <1>0, ConcatAppend DEF Coming
    <3>4. InOrder(Append(Coming, m), Members(Given), sent)
      BY <3>2, <1>0, InOrderReply
    <3> QED
      BY <2>1, <3>2, <3>3, <3>4, <1>1
  <2>4. CASE Break
    <3>1. sent' = sent /\ (toClient' = toClient \/ toClient' = << >>)
      BY <2>4 DEF Break
    <3>2. Coming' \in {Coming, pending}
      BY <2>1, <3>1, <1>0, ConcatEmptySeq DEF Coming
    <3>3. InOrder(pending, Members(Given), sent)
      BY <1>0, InOrderParts DEF Coming
    <3> QED
      BY <2>1, <3>1, <3>2, <3>3, <1>0, <1>1
  <2> QED
    BY <1>5, <2>2, <2>3, <2>4 DEF Broker
<1>6. CASE Handled
  <2>1. CASE OnInfo
    <3>1. /\ pending # << >> /\ Head(pending).op = "INFO" /\ pending' = Tail(pending)
          /\ UNCHANGED <<toClient, sent, Given>>
      BY <2>1, Parts DEF OnInfo, ReadyOK, userVars, linkVars, Given
    <3>2. Coming # << >> /\ Tail(Coming) = Coming'
      BY <3>1, <1>0, TailOfConcat DEF Coming
    <3>3. InOrder(Tail(Coming), Members(Given), sent)
      BY <3>2, <1>0, InOrderTail
    <3> QED
      BY <3>1, <3>2, <3>3, <1>1
  <2>2. CASE OnPublish
    <3> DEFINE n == Head(pending).n
    <3>1. /\ pending # << >> /\ Head(pending).op = "PUBLISH" /\ pending' = Tail(pending)
          /\ UNCHANGED <<toClient, sent, got>> /\ readQueue' = PutItem(readQueue, n)
      BY <2>2, Parts DEF OnPublish, ReadyOK, userVars, linkVars
    <3>2. n \in Numbers
      <4>1. Head(pending) \in Replies
        BY <3>1, <1>0, HeadTailProperties
      <4> QED
        BY <3>1, <4>1 DEF Replies, Numbers
    <3>3. Coming # << >> /\ Tail(Coming) = Coming' /\ Head(Coming) = Head(pending)
      BY <3>1, <1>0, TailOfConcat DEF Coming
    <3>4. /\ \A k \in Members(Given) : k < n
          /\ InOrder(Tail(Coming), Members(Given) \cup {n}, sent)
      BY <3>1, <3>3, <1>0, InOrderTail
    <3>5. Given' = Append(Given, n)
      <4>1. readQueue'.items = Append(readQueue.items, n)
        BY <3>1, <3>2, <1>0, PutItemOps
      <4> HIDE DEF n
      <4>2. got \in Seq(Numbers) /\ readQueue.items \in Seq(Numbers) /\ n \in Numbers
        BY <3>2, <1>0
      <4>3. got \o Append(readQueue.items, n) = Append(got \o readQueue.items, n)
        BY ONLY <4>2, ConcatAppend
      <4> QED
        BY <3>1, <4>1, <4>3 DEF Given
    <3> HIDE DEF n
    <3>6. Rising(Append(Given, n)) /\ Members(Append(Given, n)) = Members(Given) \cup {n}
      BY <3>2, <3>4, <1>0, RisingAppend, MembersAppend
    <3> QED
      BY <3>1, <3>3, <3>4, <3>5, <3>6 DEF OrderOK, Coming
  <2>3. CASE WakeReader
    <3>1. UNCHANGED <<pending, toClient, sent, got>> /\ readQueue' = PutWake(readQueue)
      BY <2>3 DEF WakeReader, userVars, linkVars
    <3>2. readQueue'.items = readQueue.items
      BY <3>1, <1>0, QueueOps
    <3> QED
      BY <3>1, <3>2, <1>2
  <2>4. CASE WakeOutbox \/ Get
    <3>1. UNCHANGED <<pending, toClient, sent, got, readQueue>>
      BY <2>4 DEF WakeOutbox, Get, userVars, linkVars
    <3> QED
      BY <3>1, <1>2
  <2> QED
    BY <1>6, <2>1, <2>2, <2>3, <2>4 DEF Handled
<1>7. ASSUME NEW u \in Users, \/ Write(u) \/ WriteItem(u) \/ WriteWake(u) \/ Read(u)
                              \/ ReadItem(u) \/ Stop(u) \/ Joined(u)
      PROVE  OrderOK'
  <2>1. UNCHANGED <<pending, toClient, sent>>
    BY <1>7 DEF Write, WriteItem, WriteWake, Read, ReadItem, Stop, Joined, reactorVars, linkVars
  <2>2. CASE Read(u)
    <3>1. got' = got /\ readQueue.wakes > 0 /\ readQueue' = TakeWake(readQueue)
      BY <2>2 DEF Read
    <3>2. readQueue'.items = readQueue.items
      BY <3>1, <1>0, QueueOps
    <3> QED
      BY <2>1, <3>1, <3>2, <1>2
  <2>3. CASE ReadItem(u)
    <3>1. /\ readQueue.items # << >> /\ got' = Append(got, Head(readQueue.items))
          /\ readQueue' = TakeItem(readQueue)
      BY <2>3 DEF ReadItem
    <3>2. readQueue'.items = Tail(readQueue.items)
      BY <3>1, <1>0, QueueOps
    <3>3. Given' = Given
      BY <3>1, <3>2, <1>0, MovedOver DEF Given
    <3> QED
      BY <2>1, <3>3, <1>0, <1>1 DEF Coming
  <2>4. CASE Write(u) \/ WriteItem(u) \/ WriteWake(u) \/ Stop(u) \/ Joined(u)
    <3>1. UNCHANGED <<got, readQueue>>
      BY <2>4 DEF Write, WriteItem, WriteWake, Stop, Joined, queueVars
    <3> QED
      BY <2>1, <3>1, <1>2
  <2> QED
    BY <1>7, <2>2, <2>3, <2>4
<1>8. CASE UNCHANGED vars
  <2>1. UNCHANGED <<pending, toClient, sent, got, readQueue>>
    BY <1>8 DEF vars, reactorVars, queueVars, userVars, linkVars
  <2> QED
    BY <2>1, <1>2
<1> QED
  BY Steps, <1>3, <1>4, <1>5, <1>6, <1>7, <1>8

-----------------------------------------------------------------------------
(* The invariant, and what follows from it *)

LEMMA Initial == Init => IInv
<1> SUFFICES ASSUME Init PROVE IInv
  OBVIOUS
<1>1. /\ EmptyQueue \in Queues(Messages) /\ EmptyQueue \in Queues(Numbers)
      /\ EmptyQueue.items = << >> /\ EmptyQueue.wakes = 0
  BY DEF EmptyQueue, Queues
<1>2. TypeOK
  <2>1. ReactorOK /\ LinkOK
    BY Bounds DEF Init, ReactorOK, LinkOK
  <2>2. QueuesOK
    BY <1>1 DEF Init, QueuesOK
  <2>3. Idle \in Calls
    BY Bounds DEF Idle, Calls, Messages
  <2>4. /\ closing = FALSE /\ call = [u \in Users |-> Idle] /\ got = << >> /\ calls = 0
    BY DEF Init
  <2>5. /\ call \in [Users -> Calls] /\ calls \in 0 .. MaxCalls /\ got \in Seq(Numbers)
    BY <2>3, <2>4, Bounds
  <2>6. UsersOK
    BY <2>4, <2>5 DEF UsersOK
  <2> QED
    BY <2>1, <2>2, <2>6, TypeParts
<1>3. /\ \A g : Wakers(g) = {} /\ Takers = {}
      /\ Cardinality({}) = 0
  BY FS_EmptySet DEF Init, Wakers, Takers, Idle
<1>4. /\ gen = 0 /\ 0 \in 0 .. MaxConns /\ log[0] = << >> /\ readQueue = EmptyQueue
      /\ \A g \in 0 .. MaxConns : outbox[g] = EmptyQueue
  BY Bounds DEF Init
<1>5. OutboxOK /\ ReaderOK
  <2>1. Len(<< >>) = 0 /\ 0 = 0 + 0 + 0 /\ rpc = "new"
    BY DEF Init
  <2>2. One(rpc = "wakeReader") = 0 /\ \A g : One(rpc = "wakeOutbox" /\ gen = g) = 0
    BY <2>1 DEF One
  <2>3. ReaderOK
    BY <1>1, <1>3, <1>4, <2>1, <2>2 DEF ReaderOK
  <2>4. OutboxOK
    BY <1>1, <1>3, <1>4, <2>1, <2>2 DEF OutboxOK
  <2> QED
    BY <2>3, <2>4
<1>6. ReadyOK /\ FreshOK
  BY Bounds DEF Init, ReadyOK, FreshOK, Idle
<1>7. WireInOrder
  BY <1>1, <1>4, SplitEmpty DEF Init, WireInOrder
<1>8. Given = << >> /\ pending \o toClient = << >>
  BY <1>1, <1>4 DEF Init, Given
<1>9. OrderOK
  BY <1>8 DEF Init, OrderOK, Rising, InOrder, Members
<1> QED
  BY <1>2, <1>5, <1>6, <1>7, <1>9 DEF IInv

LEMMA Inductive == IInv /\ [Next]_vars => IInv'
<1> SUFFICES ASSUME IInv, [Next]_vars PROVE IInv'
  OBVIOUS
<1>1. TypeOK'
  <2>1. ReactorOK' /\ QueuesOK' /\ UsersOK' /\ LinkOK'
    BY ReactorTypes, QueueTypes, UserTypes, LinkTypes
  <2> QED
    BY <2>1 DEF TypeOK, ReactorOK, QueuesOK, UsersOK, LinkOK, Calls, Numbers
<1> QED
  BY <1>1, OutboxStep, ReaderStep, ReadyStep, FreshStep, WireStep, OrderStep DEF IInv

LEMMA Invariant == Spec => []IInv
BY Initial, Inductive, PTL DEF Spec

\* The variables of the blocking client keep their types.
THEOREM TypeCorrect == Spec => []TypeOK
<1>1. IInv => TypeOK
  BY DEF IInv
<1> QED
  BY Invariant, <1>1, PTL

\* Whoever took a byte from a queue finds an item: the handler of an empty queue,
\* which would raise an instance of no exception, is not reached by any
\* interleaving of the reactor with the threads of the user.
THEOREM Woken == Spec => []GetFindsItem
<1>1. IInv => GetFindsItem
  <2> SUFFICES ASSUME IInv PROVE GetFindsItem
    OBVIOUS
  <2>1. /\ gen \in 0 .. MaxConns /\ outbox[gen].items \in Seq(Messages)
        /\ outbox[gen].wakes \in Nat /\ readQueue.wakes \in Nat
    BY Outboxes, QueueOps
  <2>2. Cardinality(Wakers(gen)) \in Nat /\ Cardinality(Takers) \in Nat
    BY Threads DEF Wakers, Takers
  <2>3. ASSUME rpc = "get" PROVE outbox[gen].wakes > 0 /\ outbox[gen].items # << >>
    <3>1. outbox[gen].wakes > 0
      BY <2>3, Parts DEF ReadyOK
    <3>2. Len(outbox[gen].items) = outbox[gen].wakes + Cardinality(Wakers(gen)) + 0
      BY <2>1, <2>3, Parts DEF OutboxOK, One
    <3>3. Len(outbox[gen].items) # 0
      BY <2>1, <2>2, <3>1, <3>2
    <3> QED
      BY <2>1, <3>1, <3>3, EmptySeq
  <2>4. Cardinality(Takers) <= Len(readQueue.items)
    BY <2>1, <2>2, Parts DEF ReaderOK, One
  <2> QED
    BY <2>3, <2>4 DEF GetFindsItem, Takers
<1> QED
  BY Invariant, <1>1, PTL

\* On the wire is what was put in the outbox of the connection, in that order and
\* each message once, for any number of threads and connections.
THEOREM Written == Spec => []WireInOrder
<1>1. IInv => WireInOrder
  BY DEF IInv
<1> QED
  BY Invariant, <1>1, PTL

\* Messages are read in the order in which the broker published them, none twice.
THEOREM ReadOnce == Spec => []ReadInOrder
<1>1. IInv => ReadInOrder
  BY Parts DEF OrderOK, Rising, Given, ReadInOrder
<1> QED
  BY Invariant, <1>1, PTL
=============================================================================
