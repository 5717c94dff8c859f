---------------------------- MODULE FramingProofs ----------------------------
(***************************************************************************)
(* Framing for messages of any content and length that protocol.py can     *)
(* write, any limits, and any way to cut the stream into reads: what is    *)
(* read is what was written, or raises where a string is not UTF-8.        *)
(*                                                                         *)
(* First the functions of protocol.py: a message that was written is read  *)
(* back whole from the front of any buffer.  Then the invariant: the bytes *)
(* that are buffered or under way are the messages not popped yet, written *)
(* one after the other.                                                    *)
(***************************************************************************)
EXTENDS Framing, SequenceTheorems, TLAPS

-----------------------------------------------------------------------------
(* Sequences of bytes *)

\* Cutting x \o y where x ends.
LEMMA CutConcat ==
  ASSUME NEW S, NEW x \in Seq(S), NEW y \in Seq(S)
  PROVE  /\ SubSeq(x \o y, 1, Len(x)) = x
         /\ SubSeq(x \o y, Len(x) + 1, Len(x \o y)) = y
<1>1. /\ x \o y \in Seq(S) /\ Len(x \o y) = Len(x) + Len(y)
      /\ Len(x) \in Nat /\ Len(y) \in Nat
      /\ \A i \in 1 .. Len(x) + Len(y) : (x \o y)[i] = IF i <= Len(x) THEN x[i] ELSE y[i - Len(x)]
  BY ConcatProperties, LenProperties
<1>2. \A i \in 1 .. Len(x) + Len(y) : (x \o y)[i] \in S
  BY <1>1, ElementOfSeq
<1>3. /\ SubSeq(x \o y, 1, Len(x)) \in Seq(S) /\ Len(SubSeq(x \o y, 1, Len(x))) = Len(x)
      /\ \A i \in 1 .. Len(x) : SubSeq(x \o y, 1, Len(x))[i] = x[i]
  <2> DEFINE z == x \o y
             n == Len(x)
  <2>1. n \in Int /\ 1 \in Int /\ \A i \in 1 .. n : z[i] \in S
    BY <1>1, <1>2
  <2>2. \A i \in 1 .. n : z[i] = x[i]
    BY <1>1
  <2>3. n \in Nat
    BY <1>1
  <2> HIDE DEF z, n
  <2>4. /\ SubSeq(z, 1, n) \in Seq(S)
        /\ Len(SubSeq(z, 1, n)) = IF 1 <= n THEN n - 1 + 1 ELSE 0
        /\ \A i \in 1 .. n - 1 + 1 : SubSeq(z, 1, n)[i] = z[1 + i - 1]
    BY <2>1, SubSeqProperties
  <2>5. /\ SubSeq(z, 1, n) \in Seq(S) /\ Len(SubSeq(z, 1, n)) = n
        /\ \A i \in 1 .. n : SubSeq(z, 1, n)[i] = x[i]
    BY <2>2, <2>3, <2>4
  <2> QED  BY <2>5 DEF z, n
<1>4. SubSeq(x \o y, 1, Len(x)) = x
  BY <1>3, SeqEqual
<1>5. /\ SubSeq(x \o y, Len(x) + 1, Len(x \o y)) \in Seq(S)
      /\ Len(SubSeq(x \o y, Len(x) + 1, Len(x \o y))) = Len(y)
      /\ \A i \in 1 .. Len(y) : SubSeq(x \o y, Len(x) + 1, Len(x \o y))[i] = y[i]
  <2> DEFINE z == x \o y
             n == Len(x)
             k == Len(y)
  <2>1. n \in Nat /\ k \in Nat /\ Len(z) = n + k
    BY <1>1
  <2>2. \A i \in 1 .. k : z[n + i] = y[i]
    BY <1>1
  <2>3. \A i \in 1 .. n + k : z[i] \in S
    BY <1>2
  <2> HIDE DEF z, n, k
  <2>4. n + 1 \in Int /\ n + k \in Int /\ \A i \in n + 1 .. n + k : z[i] \in S
    BY <2>1, <2>3
  <2>5. /\ SubSeq(z, n + 1, n + k) \in Seq(S)
        /\ Len(SubSeq(z, n + 1, n + k)) = IF n + 1 <= n + k THEN (n + k) - (n + 1) + 1 ELSE 0
        /\ \A i \in 1 .. (n + k) - (n + 1) + 1 : SubSeq(z, n + 1, n + k)[i] = z[n + 1 + i - 1]
    BY <2>4, SubSeqProperties
  <2>6. /\ SubSeq(z, n + 1, n + k) \in Seq(S) /\ Len(SubSeq(z, n + 1, n + k)) = k
        /\ \A i \in 1 .. k : SubSeq(z, n + 1, n + k)[i] = y[i]
    BY <2>1, <2>2, <2>5
  <2> QED  BY <2>1, <2>6 DEF z, n, k
<1>6. SubSeq(x \o y, Len(x) + 1, Len(x \o y)) = y
  BY <1>5, SeqEqual
<1> QED  BY <1>4, <1>6

\* A sequence is the two pieces it is cut into.
LEMMA CutAnywhere ==
  ASSUME NEW S, NEW z \in Seq(S), NEW k \in 0 .. Len(z)
  PROVE  /\ SubSeq(z, 1, k) \in Seq(S) /\ SubSeq(z, k + 1, Len(z)) \in Seq(S)
         /\ Len(SubSeq(z, 1, k)) = k
         /\ SubSeq(z, 1, k) \o SubSeq(z, k + 1, Len(z)) = z
<1>1. Len(z) \in Nat /\ \A i \in 1 .. Len(z) : z[i] \in S
  BY LenProperties, ElementOfSeq
<1>2. SubSeq(z, 1, k) \in Seq(S) /\ Len(SubSeq(z, 1, k)) = k
  BY <1>1, SubSeqProperties
<1>3. SubSeq(z, k + 1, Len(z)) \in Seq(S)
  BY <1>1, SubSeqProperties
<1>4. 1 \in 1 .. Len(z) + 1 /\ k \in 1 - 1 .. Len(z) /\ Len(z) \in k .. Len(z)
  BY <1>1
<1>5. SubSeq(z, 1, k) \o SubSeq(z, k + 1, Len(z)) = SubSeq(z, 1, Len(z))
  BY <1>4, ConcatAdjacentSubSeq
<1> QED  BY <1>2, <1>3, <1>5, SubSeqFull

-----------------------------------------------------------------------------
(* protocol.py *)

LEMMA BytesAre == \A n \in Nat : n \in Bytes <=> n <= 255
BY DEF Bytes

LEMMA ConcatBytes ==
  ASSUME NEW x \in Seq(Bytes), NEW y \in Seq(Bytes), NEW z \in Seq(Bytes)
  PROVE  (x \o y) \o z = x \o (y \o z)
BY ConcatAssociative

LEMMA ConcatFields ==
  ASSUME NEW x \in Seq(Bytes), NEW y \in Seq(Bytes)
  PROVE  /\ x \o y \in Seq(Bytes) /\ Len(x \o y) = Len(x) + Len(y)
         /\ Len(x) \in Nat /\ Len(y) \in Nat
         /\ \A i \in 1 .. Len(x) : (x \o y)[i] = x[i]
         /\ \A i \in 1 .. Len(y) : (x \o y)[Len(x) + i] = y[i]
<1>1. /\ x \o y \in Seq(Bytes) /\ Len(x \o y) = Len(x) + Len(y)
      /\ Len(x) \in Nat /\ Len(y) \in Nat
      /\ \A i \in 1 .. Len(x) + Len(y) : (x \o y)[i] = IF i <= Len(x) THEN x[i] ELSE y[i - Len(x)]
  BY ConcatProperties, LenProperties
<1> QED  BY <1>1

LEMMA CancelBytes ==
  ASSUME NEW x \in Seq(Bytes), NEW y \in Seq(Bytes), NEW z \in Seq(Bytes), x \o y = x \o z
  PROVE  y = z
BY ConcatSimplifications

LEMMA PackUnpack ==
  ASSUME NEW n \in Nat
  PROVE  /\ Unpack4(Pack4(n)) = n /\ Len(Pack4(n)) = 4
         /\ n <= MAXINT => Pack4(n) \in Seq(Bytes)
<1>1. /\ n \div 16777216 \in Nat
      /\ \A k \in {65536, 256, 1} : (n \div k) % 256 \in Bytes
      /\ n % 256 \in Bytes
  BY SMT DEF Bytes
<1>2. (n \div 16777216) * 16777216 + ((n \div 65536) % 256) * 65536
        + ((n \div 256) % 256) * 256 + (n % 256) = n
  BY SMTT(30)
<1>3. n <= MAXINT => n \div 16777216 \in Bytes
  BY SMT DEF Bytes, MAXINT
<1>4. Pack4(n) = <<n \div 16777216, (n \div 65536) % 256, (n \div 256) % 256, n % 256>>
  BY SMT DEF Pack4
<1> DEFINE p == Pack4(n)
<1>5. /\ Len(p) = 4 /\ p[1] = n \div 16777216 /\ p[2] = (n \div 65536) % 256
      /\ p[3] = (n \div 256) % 256 /\ p[4] = n % 256
  BY <1>4, SMT
<1>6. n <= MAXINT => p \in Seq(Bytes)
  BY <1>1, <1>3, <1>4, SMT
<1> HIDE DEF p
<1>7. Unpack4(p) = n
  BY <1>2, <1>5, SMT DEF Unpack4
<1> QED  BY <1>5, <1>6, <1>7 DEF p

\* A string with its length in front.
LEMMA StringRead ==
  ASSUME NEW x \in Seq(Bytes), Len(x) <= 255, NEW y \in Seq(Bytes)
  PROVE  /\ strpack8(x) \in Seq(Bytes) /\ strpack8(x) \o y \in Seq(Bytes)
         /\ StringOf(strpack8(x) \o y) = x /\ After(strpack8(x) \o y) = y
<1> DEFINE n == Len(x)
           h == <<n>>
           s == h \o x
           z == s \o y
<1>0. n \in Nat
  BY LenProperties
<1>1. n \in Nat /\ n \in Bytes
  BY <1>0, BytesAre
<1>2. h \in Seq(Bytes) /\ Len(h) = 1 /\ h[1] = n
  BY <1>1
<1>3. s \in Seq(Bytes) /\ Len(s) = n + 1 /\ s[1] = n
  BY <1>1, <1>2, ConcatProperties
<1>4. z \in Seq(Bytes) /\ z[1] = n /\ Len(z) \in Nat
  BY <1>1, <1>3, ConcatProperties, LenProperties
<1>5. SubSeq(z, n + 2, Len(z)) = y
  BY <1>1, <1>3, CutConcat
<1>6. SubSeq(s, 2, n + 1) = x
  BY <1>1, <1>2, <1>3, CutConcat
<1>7. SubSeq(z, 2, n + 1) = x
  <2>1. CASE n = 0
    <3>1. SubSeq(z, 2, n + 1) = SubSeq(s, 2, n + 1)
      BY <2>1, SubSeqEmpty
    <3> QED  BY <1>6, <3>1
  <2>2. CASE n # 0
    <3>1. 2 \in 1 .. Len(s) /\ n + 1 \in 1 .. Len(s)
      BY <1>1, <1>3, <2>2
    <3>2. SubSeq(z, 2, n + 1) = SubSeq(s, 2, n + 1)
      BY <1>3, <3>1, SubSeqOfConcat1
    <3> QED  BY <1>6, <3>2
  <2> QED  BY <2>1, <2>2
<1>8. StringOf(z) = x /\ After(z) = y
  BY <1>1, <1>4, <1>5, <1>7 DEF StringOf, After
<1> QED  BY <1>3, <1>4, <1>8 DEF strpack8

LEMMA BodyType ==
  ASSUME NEW m \in Writable
  PROVE  Body(m) \in Seq(Bytes)
<1>1. /\ m.name \in Seq(Bytes) /\ m.chan \in Seq(Bytes) /\ m.rest \in Seq(Bytes)
      /\ Len(m.name) <= 255 /\ (m.op = OP_PUBLISH => Len(m.chan) <= 255)
  BY DEF Writable
<1>2. /\ strpack8(m.name) \o m.rest \in Seq(Bytes)
      /\ strpack8(m.name) \o m.chan \in Seq(Bytes)
      /\ strpack8(m.name) \in Seq(Bytes)
  BY <1>1, StringRead
<1>3. m.op = OP_PUBLISH => strpack8(m.name) \o strpack8(m.chan) \o m.rest \in Seq(Bytes)
  <2>1. m.op = OP_PUBLISH => strpack8(m.chan) \in Seq(Bytes)
    BY <1>1, StringRead
  <2> QED  BY <1>1, <1>2, <2>1, ConcatProperties
<1> QED  BY <1>1, <1>2, <1>3 DEF Body

\* In what the writing functions make of a message, the reading functions find its
\* fields.
LEMMA FindsFields ==
  ASSUME NEW m \in Writable, m.op <= OP_UNSUBSCRIBE
  PROVE  Fields(m.op, Body(m)) = m
<1> USE DEF OP_ERROR, OP_INFO, OP_AUTH, OP_PUBLISH, OP_SUBSCRIBE, OP_UNSUBSCRIBE
<1>1. /\ m.name \in Seq(Bytes) /\ m.chan \in Seq(Bytes) /\ m.rest \in Seq(Bytes)
      /\ Len(m.name) <= 255
      /\ m.op = OP_ERROR => m.name = << >>
      /\ m.op = OP_PUBLISH => Len(m.chan) <= 255
      /\ m.op \in {OP_SUBSCRIBE, OP_UNSUBSCRIBE} => m.rest = << >>
      /\ m.op \notin {OP_PUBLISH, OP_SUBSCRIBE, OP_UNSUBSCRIBE} => m.chan = << >>
  BY DEF Writable
<1>0. m.op \in 0 .. 5
  <2>1. m.op \in Bytes
    BY DEF Writable
  <2> QED  BY <2>1, SMT DEF Bytes
<1>2. m = [op |-> m.op, name |-> m.name, chan |-> m.chan, rest |-> m.rest]
  BY DEF Writable
<1> DEFINE s == strpack8(m.name)
<1>10. s \in Seq(Bytes)
  BY <1>1, StringRead
<1>3. /\ \A y \in Seq(Bytes) : StringOf(s \o y) = m.name /\ After(s \o y) = y
  BY <1>1, StringRead
<1>9. m.op = OP_PUBLISH => strpack8(m.chan) \in Seq(Bytes)
  BY <1>1, StringRead
<1>4. /\ m.op = OP_ERROR => Body(m) = m.rest
      /\ m.op \in {OP_SUBSCRIBE, OP_UNSUBSCRIBE} => Body(m) = s \o m.chan
      /\ m.op \in {OP_INFO, OP_AUTH} => Body(m) = s \o m.rest
      /\ m.op = OP_PUBLISH => Body(m) = s \o strpack8(m.chan) \o m.rest
  <2> DEFINE p == s \o strpack8(m.chan) \o m.rest
             c == s \o m.chan
             r == s \o m.rest
  <2>1. Body(m) = CASE m.op = 0 -> m.rest [] m.op = 3 -> p [] m.op \in {4, 5} -> c [] OTHER -> r
    BY DEF Body
  <2> HIDE DEF p, c, r
  <2>2. /\ m.op = 0 => Body(m) = m.rest
        /\ m.op = 3 => Body(m) = p
        /\ m.op \in {4, 5} => Body(m) = c
        /\ m.op \in {1, 2} => Body(m) = r
    BY <1>0, <2>1, SMT
  <2> QED  BY <2>2 DEF p, c, r
<1> HIDE DEF s
<1>5. m.op = OP_PUBLISH => /\ StringOf(Body(m)) = m.name
                           /\ StringOf(After(Body(m))) = m.chan
                           /\ After(After(Body(m))) = m.rest
  <2> SUFFICES ASSUME m.op = OP_PUBLISH
               PROVE  /\ StringOf(Body(m)) = m.name
                      /\ StringOf(After(Body(m))) = m.chan
                      /\ After(After(Body(m))) = m.rest
    OBVIOUS
  <2> DEFINE c == strpack8(m.chan)
             r == c \o m.rest
  <2>1. /\ c \in Seq(Bytes) /\ r \in Seq(Bytes)
        /\ StringOf(r) = m.chan /\ After(r) = m.rest
    BY <1>1, StringRead
  <2>2. Body(m) = (s \o c) \o m.rest
    BY <1>4
  <2>4. m.rest \in Seq(Bytes)
    BY <1>1
  <2> HIDE DEF c
  <2>5. (s \o c) \o m.rest = s \o (c \o m.rest)
    BY <1>10, <2>1, <2>4, ConcatBytes
  <2>3. Body(m) = s \o r
    BY <2>2, <2>5
  <2> HIDE DEF r
  <2> QED  BY <1>3, <2>1, <2>3
<1>6. m.op \in {OP_SUBSCRIBE, OP_UNSUBSCRIBE, OP_INFO, OP_AUTH} => StringOf(Body(m)) = m.name
  BY <1>0, <1>1, <1>3, <1>4
<1>7. /\ m.op \in {OP_SUBSCRIBE, OP_UNSUBSCRIBE} => After(Body(m)) = m.chan
      /\ m.op \in {OP_INFO, OP_AUTH} => After(Body(m)) = m.rest
  BY <1>0, <1>1, <1>3, <1>4
<1>8. Fields(m.op, Body(m)) = [op |-> m.op, name |-> m.name, chan |-> m.chan, rest |-> m.rest]
  BY <1>0, <1>1, <1>4, <1>5, <1>6, <1>7, SMT DEF Fields
<1> QED  BY <1>2, <1>8

\* So they return the message, or raise for its strings.
LEMMA ReadsBody ==
  ASSUME NEW m \in Writable, m.op <= OP_UNSUBSCRIBE
  PROVE  Read(m.op, Body(m)) = IF Text(m) THEN m ELSE UnicodeDecodeError
BY FindsFields DEF Read

\* The fields of a message that was written.
LEMMA WrittenFields ==
  ASSUME NEW m \in Writable
  PROVE  /\ Written(m) \in Seq(Bytes) /\ Len(Body(m)) \in Nat
         /\ Len(Written(m)) = 5 + Len(Body(m))
         /\ Unpack4(SubSeq(Written(m), 1, 4)) = Len(Written(m))
         /\ Written(m)[5] = m.op
         /\ SubSeq(Written(m), 6, Len(Written(m))) = Body(m)
<1> DEFINE d == Body(m)
           n == 5 + Len(d)
           p == Pack4(n)
           o == <<m.op>>
           h == p \o o
           w == h \o d
<1>1. d \in Seq(Bytes) /\ Len(d) \in Nat /\ n \in Nat /\ n <= MAXINT /\ m.op \in Bytes
  <2>1. d \in Seq(Bytes)
    BY BodyType
  <2>2. n <= MAXINT /\ m.op \in Bytes
    BY DEF Writable
  <2> QED  BY <2>1, <2>2, LenProperties
<1> HIDE DEF d
<1>2. p \in Seq(Bytes) /\ Len(p) = 4 /\ Unpack4(p) = n
  BY <1>1, PackUnpack
<1> HIDE DEF p
<1>3. o \in Seq(Bytes) /\ Len(o) = 1 /\ o[1] = m.op
  BY <1>1
<1> HIDE DEF o
<1>4. h \in Seq(Bytes) /\ Len(h) = 5 /\ h[5] = m.op
  <2>1. /\ p \o o \in Seq(Bytes) /\ Len(p \o o) = Len(p) + Len(o)
        /\ \A i \in 1 .. Len(o) : (p \o o)[Len(p) + i] = o[i]
    BY <1>2, <1>3, ConcatFields
  <2>2. (p \o o)[4 + 1] = o[1]
    BY <1>2, <1>3, <2>1
  <2> QED  BY <1>2, <1>3, <2>1, <2>2
<1> HIDE DEF h
<1>5. /\ w \in Seq(Bytes) /\ Len(w) = n /\ w[5] = m.op
  <2>1. /\ h \o d \in Seq(Bytes) /\ Len(h \o d) = Len(h) + Len(d)
        /\ \A i \in 1 .. Len(h) : (h \o d)[i] = h[i]
    BY <1>1, <1>4, ConcatFields
  <2> QED  BY <1>1, <1>4, <2>1
<1>6. SubSeq(w, 6, Len(w)) = d
  <2>1. SubSeq(h \o d, Len(h) + 1, Len(h \o d)) = d
    BY <1>1, <1>4, CutConcat
  <2> QED  BY <1>4, <2>1
<1>7. o \o d \in Seq(Bytes) /\ w = p \o (o \o d)
  BY <1>1, <1>2, <1>3, ConcatBytes, ConcatProperties DEF h
<1>8. SubSeq(w, 1, 4) = p
  BY <1>2, <1>7, CutConcat
<1>9. w = Written(m)
  BY DEF Written, msghdr, h, d, p, o
<1> QED  BY <1>1, <1>2, <1>5, <1>6, <1>8, <1>9 DEF d

\* The header of a message, as soon as it has arrived.
LEMMA HeaderRead ==
  ASSUME NEW m \in Writable, NEW b \in Seq(Bytes), NEW x \in Seq(Bytes), NEW y \in Seq(Bytes),
         b \o x = Written(m) \o y, Len(b) >= 5
  PROVE  Length(b) = Len(Written(m)) /\ Opcode(b) = m.op
<1> DEFINE w == Written(m)
<1>1. /\ w \in Seq(Bytes) /\ Len(w) \in Nat /\ Len(w) >= 5 /\ w[5] = m.op
      /\ Unpack4(SubSeq(w, 1, 4)) = Len(w)
  BY WrittenFields
<1>2. b \o x = w \o y
  OBVIOUS
<1> HIDE DEF w
<1>3. (b \o x)[5] = b[5] /\ (w \o y)[5] = w[5]
  BY <1>1, ConcatProperties
<1>4. SubSeq(b \o x, 1, 4) = SubSeq(b, 1, 4) /\ SubSeq(w \o y, 1, 4) = SubSeq(w, 1, 4)
  <2>1. 1 \in 1 .. Len(b) /\ 4 \in 1 .. Len(b) /\ 1 \in 1 .. Len(w) /\ 4 \in 1 .. Len(w)
    BY <1>1, LenProperties
  <2> QED  BY <1>1, <2>1, SubSeqOfConcat1
<1> QED  BY <1>1, <1>2, <1>3, <1>4 DEF Length, Opcode, w

\* A message that has arrived is popped whole, and nothing but it.
LEMMA MessagePopped ==
  ASSUME NEW m \in Writable, NEW b \in Seq(Bytes), NEW x \in Seq(Bytes), NEW y \in Seq(Bytes),
         b \o x = Written(m) \o y, Len(b) >= Len(Written(m))
  PROVE  /\ Popped(b) = [op |-> m.op, data |-> Body(m)]
         /\ Remaining(b) \in Seq(Bytes) /\ Remaining(b) \o x = y
<1> DEFINE w == Written(m)
           n == Len(w)
           r == SubSeq(b, n + 1, Len(b))
<1>1. /\ w \in Seq(Bytes) /\ n \in Nat /\ n >= 5 /\ SubSeq(w, 6, n) = Body(m)
      /\ b \o x = w \o y /\ Len(b) >= n
  BY WrittenFields
<1>2. Length(b) = n /\ Opcode(b) = m.op
  <2>1. Len(b) >= 5
    BY <1>1, LenProperties
  <2> QED  BY <2>1, HeaderRead
<1>3. n \in 0 .. Len(b)
  BY <1>1, LenProperties
<1> HIDE DEF w
<1>4. r \in Seq(Bytes) /\ SubSeq(b, 1, n) \in Seq(Bytes) /\ SubSeq(b, 1, n) \o r = b
  BY <1>3, CutAnywhere
<1>5. /\ SubSeq(b, 1, n) = SubSeq(b \o x, 1, n) /\ SubSeq(w \o y, 1, n) = w
  <2>1. 1 \in 1 .. Len(b) /\ n \in 1 .. Len(b)
    BY <1>1, <1>3
  <2> QED  BY <1>1, <2>1, SubSeqOfConcat1, CutConcat
<1>6. b = w \o r
  BY <1>1, <1>4, <1>5
<1>7. r \o x = y
  <2>1. r \o x \in Seq(Bytes)
    BY <1>4, ConcatProperties
  <2>2. (w \o r) \o x = w \o (r \o x)
    BY <1>1, <1>4, ConcatBytes
  <2>3. w \o (r \o x) = w \o y
    BY <1>1, <1>6, <2>2
  <2> QED  BY <1>1, <2>1, <2>3, CancelBytes
<1>8. SubSeq(b, 6, n) = Body(m)
  <2>1. CASE n = 5
    BY <1>1, <1>4, <2>1, SubSeqEmpty
  <2>2. CASE n # 5
    <3> HIDE DEF n
    <3>1. n \in Nat /\ 6 <= n
      BY <1>1, <2>2
    <3>2. 6 \in 1 .. n /\ n \in 1 .. n
      BY <3>1
    <3>3. SubSeq(w \o r, 6, n) = SubSeq(w, 6, n)
      BY <1>1, <1>4, <3>2, SubSeqOfConcat1 DEF n
    <3> QED  BY <1>1, <1>6, <3>3
  <2> QED  BY <2>1, <2>2
<1> QED  BY <1>2, <1>4, <1>7, <1>8 DEF Popped, Remaining

\* ready() raises for exactly the messages that are illegal.
LEMMA RaisesIllegal ==
  ASSUME NEW m \in Writable, NEW b \in Seq(Bytes), NEW x \in Seq(Bytes), NEW y \in Seq(Bytes),
         b \o x = Written(m) \o y, Len(b) >= 5
  PROVE  Raises(b) <=> Illegal(m)
<1>1. Length(b) = 5 + Len(Body(m)) /\ Opcode(b) = m.op /\ Len(Body(m)) \in Nat
  BY HeaderRead, WrittenFields
<1>2. m.op \in Nat
  <2>1. m.op \in Bytes
    BY DEF Writable
  <2>2. Bytes \subseteq Nat
    BY DEF Bytes
  <2> QED  BY <2>1, <2>2
<1> QED
  BY <1>1, <1>2, ProtocolAssumption, SMT
  DEF Raises, Illegal, SIZES, OP_ERROR, OP_INFO, OP_AUTH, OP_PUBLISH, OP_SUBSCRIBE, OP_UNSUBSCRIBE
-----------------------------------------------------------------------------
(* The invariant *)

\* v[i] is what follows the i-th message that was sent: what is buffered or
\* under way is what follows the last message popped, and after the last message
\* sent there is nothing.
Cut(v) ==
  /\ v[Len(popped)] = buf \o stream
  /\ v[Len(sentMsgs)] = << >>
  /\ \A i \in Len(popped) + 1 .. Len(sentMsgs) : v[i - 1] = Written(sentMsgs[i]) \o v[i]

Invariant ==
  /\ TypeOK /\ ReadBack /\ RefusedForCause
  /\ \E v \in [Nat -> Seq(Bytes)] : Cut(v)

LEMMA Lengths ==
  ASSUME TypeOK
  PROVE  /\ Len(sentMsgs) \in Nat /\ Len(popped) \in Nat /\ Len(buf) \in Nat
         /\ DOMAIN popped = 1 .. Len(popped) /\ DOMAIN sentMsgs = 1 .. Len(sentMsgs)
         /\ \A i \in 1 .. Len(sentMsgs) : sentMsgs[i] \in Messages /\ sentMsgs[i] \in Writable
<1>1. /\ sentMsgs \in Seq(Messages) /\ buf \in Seq(Bytes)
      /\ popped \in Seq([op : OP_ERROR .. OP_UNSUBSCRIBE, data : Seq(Bytes)])
  BY DEF TypeOK
<1>2. \A i \in 1 .. Len(sentMsgs) : sentMsgs[i] \in Messages
  BY <1>1, ElementOfSeq
<1> QED  BY <1>1, <1>2, LenProperties, FramingAssumption

LEMMA Indices ==
  \A p, s \in Nat :
    /\ p + 1 \in Nat /\ (p + 1) - 1 = p /\ p <= p /\ ~(p + 1 <= p)
    /\ p < s => p + 1 \in p + 1 .. s /\ p + 1 \in 1 .. s /\ p # s
    /\ \A i \in 1 .. p + 1 : i \in 1 .. p \/ i = p + 1
    /\ \A i \in p + 1 .. s + 1 :
         i # s + 1 => i \in p + 1 .. s /\ i \in 1 .. s /\ i \in Nat /\ i - 1 \in Nat /\ i <= s /\ i - 1 <= s
OBVIOUS

\* While the buffer holds something, it starts where the next message does.
LEMMA AtNext ==
  ASSUME Invariant
  PROVE  /\ Len(popped) = Len(sentMsgs) => buf = << >> /\ stream = << >>
         /\ Len(popped) # Len(sentMsgs) =>
              /\ Len(popped) < Len(sentMsgs) /\ NextMsg \in Writable
              /\ \E y \in Seq(Bytes) : buf \o stream = Written(NextMsg) \o y
<1>1. /\ TypeOK /\ buf \in Seq(Bytes) /\ stream \in Seq(Bytes) /\ Len(popped) <= Len(sentMsgs)
  BY DEF Invariant, TypeOK, ReadBack
<1>2. PICK v \in [Nat -> Seq(Bytes)] : Cut(v)
  BY DEF Invariant
<1>3. Len(popped) = Len(sentMsgs) => buf = << >> /\ stream = << >>
  <2>1. Len(popped) = Len(sentMsgs) => buf \o stream = << >>
    BY <1>2 DEF Cut
  <2> QED  BY <1>1, <2>1, ConcatSimplifications
<1>4. ASSUME Len(popped) # Len(sentMsgs)
      PROVE  /\ Len(popped) < Len(sentMsgs) /\ NextMsg \in Writable
             /\ \E y \in Seq(Bytes) : buf \o stream = Written(NextMsg) \o y
  <2> DEFINE n == Len(popped) + 1
  <2>0. Len(popped) \in Nat /\ Len(sentMsgs) \in Nat
    BY <1>1, Lengths
  <2>1. n \in Len(popped) + 1 .. Len(sentMsgs) /\ n \in Nat /\ n - 1 = Len(popped) /\ n \in 1 .. Len(sentMsgs)
    <3>1. Len(popped) < Len(sentMsgs)
      BY <1>1, <1>4, <2>0
    <3> QED  BY <2>0, <3>1, Indices
  <2>2. sentMsgs[n] \in Writable
    BY <1>1, <2>1, Lengths
  <2>3. v[n - 1] = Written(sentMsgs[n]) \o v[n] /\ v[Len(popped)] = buf \o stream
    BY <1>2, <2>1 DEF Cut
  <2>4. v[n] \in Seq(Bytes)
    BY <1>2, <2>1
  <2>5. buf \o stream = Written(NextMsg) \o v[n]
    BY <2>1, <2>3 DEF NextMsg
  <2>6. Len(popped) < Len(sentMsgs)
    BY <1>1, <1>4, <2>0
  <2> QED  BY <2>2, <2>4, <2>5, <2>6 DEF NextMsg
<1> QED  BY <1>3, <1>4

\* What the receiver decides on a header is what the message deserves.
LEMMA Decides ==
  ASSUME Invariant, Len(buf) >= 5
  PROVE  /\ Len(popped) < Len(sentMsgs) /\ NextMsg \in Writable
         /\ Raises(buf) <=> Illegal(NextMsg)
         /\ Length(buf) = Len(Written(NextMsg)) /\ Opcode(buf) = NextMsg.op
<1>1. buf \in Seq(Bytes) /\ stream \in Seq(Bytes)
  BY DEF Invariant, TypeOK
<1>2. Len(popped) # Len(sentMsgs)
  <2>1. buf # << >>
    BY LenProperties
  <2> QED  BY <2>1, AtNext
<1>3. /\ Len(popped) < Len(sentMsgs) /\ NextMsg \in Writable
      /\ \E y \in Seq(Bytes) : buf \o stream = Written(NextMsg) \o y
  BY <1>2, AtNext
<1>4. PICK y \in Seq(Bytes) : buf \o stream = Written(NextMsg) \o y
  BY <1>3
<1> QED  BY <1>1, <1>3, <1>4, HeaderRead, RaisesIllegal

LEMMA InitInvariant == Init => Invariant
<1> SUFFICES ASSUME Init PROVE Invariant
  OBVIOUS
<1>1. << >> \o << >> = << >> /\ Len(<< >>) = 0
  OBVIOUS
<1>2. TypeOK
  <2>1. << >> \in Seq(Messages) /\ << >> \in Seq(Bytes)
        /\ << >> \in Seq([op : OP_ERROR .. OP_UNSUBSCRIBE, data : Seq(Bytes)])
    OBVIOUS
  <2>2. 0 <= MaxMessages
    BY FramingAssumption
  <2> QED  BY <1>1, <2>1, <2>2 DEF Init, TypeOK
<1>3. ReadBack /\ RefusedForCause
  BY <1>1 DEF Init, ReadBack, RefusedForCause
<1>4. \E v \in [Nat -> Seq(Bytes)] : Cut(v)
  <2>1. [i \in Nat |-> << >>] \in [Nat -> Seq(Bytes)]
    OBVIOUS
  <2>2. Cut([i \in Nat |-> << >>])
    BY <1>1 DEF Init, Cut
  <2> QED  BY <2>1, <2>2
<1> QED  BY <1>2, <1>3, <1>4 DEF Invariant

LEMMA SendKeeps ==
  ASSUME Invariant, NEW m \in Messages, Send(m)
  PROVE  Invariant'
<1> DEFINE n == Len(sentMsgs)
           w == Written(m)
<1>1. /\ TypeOK /\ ReadBack /\ RefusedForCause
      /\ n \in Nat /\ Len(popped) \in Nat /\ Len(popped) <= n
      /\ buf \in Seq(Bytes) /\ stream \in Seq(Bytes) /\ sentMsgs \in Seq(Messages)
  <2>1. TypeOK /\ ReadBack /\ RefusedForCause
    BY DEF Invariant
  <2>2. n \in Nat /\ Len(popped) \in Nat
    BY <2>1, Lengths
  <2> QED  BY <2>1, <2>2 DEF ReadBack, TypeOK
<1>2. w \in Seq(Bytes)
  BY FramingAssumption, WrittenFields
<1>3. /\ sentMsgs' \in Seq(Messages) /\ Len(sentMsgs') = n + 1
      /\ \A i \in 1 .. n : sentMsgs'[i] = sentMsgs[i]
      /\ sentMsgs'[n + 1] = m
  BY <1>1, AppendProperties DEF Send
<1>4. /\ stream' = stream \o w /\ stream' \in Seq(Bytes)
      /\ buf' = buf /\ popped' = popped /\ refused' = refused /\ n < MaxMessages
  BY <1>1, <1>2, ConcatProperties DEF Send
<1>5. TypeOK'
  <2>1. n + 1 <= MaxMessages
    BY <1>1, <1>4, FramingAssumption
  <2> QED  BY <1>1, <1>3, <1>4, <2>1 DEF TypeOK
<1>6. ReadBack'
  <2>1. DOMAIN popped = 1 .. Len(popped)
    BY <1>1, Lengths
  <2>2. \A i \in 1 .. Len(popped) : i \in 1 .. n
    BY <1>1
  <2>3. \A i \in DOMAIN popped : sentMsgs'[i] = sentMsgs[i]
    BY <1>3, <2>1, <2>2
  <2>4. Len(popped) <= Len(sentMsgs')
    BY <1>1, <1>3
  <2> QED  BY <1>1, <1>4, <2>3, <2>4 DEF ReadBack
<1>7. RefusedForCause'
  <2> SUFFICES ASSUME refused' PROVE Len(popped') < Len(sentMsgs') /\ Illegal(NextMsg')
    BY DEF RefusedForCause, Illegal
  <2>1. refused
    BY <1>4
  <2>2. Len(popped) < n /\ Illegal(NextMsg)
    BY <1>1, <2>1 DEF RefusedForCause
  <2>3. Len(popped) + 1 \in 1 .. n
    BY <1>1, <2>2
  <2>4. NextMsg' = NextMsg
    BY <1>3, <1>4, <2>3 DEF NextMsg
  <2>5. Len(popped') < Len(sentMsgs')
    BY <1>1, <1>3, <1>4, <2>2
  <2> QED  BY <2>2, <2>4, <2>5
<1>8. \E v \in [Nat -> Seq(Bytes)] : Cut(v)'
  <2>1. PICK v \in [Nat -> Seq(Bytes)] : Cut(v)
    BY DEF Invariant
  <2> DEFINE u == [i \in Nat |-> IF i <= n THEN v[i] \o w ELSE << >>]
  <2>2. u \in [Nat -> Seq(Bytes)]
    <3>1. \A i \in Nat : v[i] \o w \in Seq(Bytes)
      BY <1>2, <2>1, ConcatProperties
    <3> QED  BY <3>1
  <2>3. u[Len(popped')] = buf' \o stream'
    <3>1. u[Len(popped)] = (buf \o stream) \o w
      BY <1>1, <2>1 DEF Cut
    <3>2. (buf \o stream) \o w = buf \o (stream \o w)
      BY <1>1, <1>2, ConcatBytes
    <3> QED  BY <1>4, <3>1, <3>2
  <2>4. u[n] = w /\ u[n + 1] = << >>
    <3>1. v[n] = << >>
      BY <2>1 DEF Cut
    <3>2. << >> \o w = w
      BY <1>2, ConcatEmptySeq
    <3>3. n \in Nat /\ n + 1 \in Nat /\ n <= n /\ ~(n + 1 <= n)
      <4>1. Len(sentMsgs) \in Nat
        BY <1>1
      <4> QED  BY <4>1, Indices
    <3>4. u[n] = v[n] \o w /\ u[n + 1] = << >>
      BY <3>3
    <3> QED  BY <3>1, <3>2, <3>4
  <2>5. \A i \in Len(popped) + 1 .. n + 1 : u[i - 1] = Written(sentMsgs'[i]) \o u[i]
    <3> SUFFICES ASSUME NEW i \in Len(popped) + 1 .. n + 1
                 PROVE  u[i - 1] = Written(sentMsgs'[i]) \o u[i]
      OBVIOUS
    <3>1. CASE i = n + 1
      <4>1. w \o << >> = w
        BY <1>2, ConcatEmptySeq
      <4>2. i - 1 = n /\ sentMsgs'[i] = m
        BY <1>1, <1>3, <3>1
      <4> QED  BY <2>4, <3>1, <4>1, <4>2
    <3>2. CASE i # n + 1
      <4>1. i \in Len(popped) + 1 .. n /\ i \in 1 .. n /\ i \in Nat /\ i - 1 \in Nat /\ i <= n /\ i - 1 <= n
        <5>1. n \in Nat /\ Len(popped) \in Nat
          BY <1>1
        <5> QED  BY <3>2, <5>1, Indices
      <4>2. v[i - 1] = Written(sentMsgs[i]) \o v[i]
        BY <2>1, <4>1 DEF Cut
      <4>3. Written(sentMsgs[i]) \in Seq(Bytes) /\ v[i] \in Seq(Bytes)
        BY <1>1, <2>1, <4>1, Lengths, WrittenFields
      <4>4. (Written(sentMsgs[i]) \o v[i]) \o w = Written(sentMsgs[i]) \o (v[i] \o w)
        BY <1>2, <4>3, ConcatBytes
      <4>5. u[i - 1] = v[i - 1] \o w /\ u[i] = v[i] \o w
        BY <4>1
      <4>6. sentMsgs'[i] = sentMsgs[i]
        BY <1>3, <4>1
      <4> QED  BY <4>2, <4>4, <4>5, <4>6
    <3> QED  BY <3>1, <3>2
  <2> HIDE DEF u
  <2>6. PICK z \in [Nat -> Seq(Bytes)] : z = u
    BY <2>2
  <2>7. z[Len(popped')] = buf' \o stream' /\ z[Len(sentMsgs')] = << >>
    BY <1>3, <2>3, <2>4, <2>6
  <2>8. \A i \in Len(popped') + 1 .. Len(sentMsgs') : z[i - 1] = Written(sentMsgs'[i]) \o z[i]
    BY <1>3, <1>4, <2>5, <2>6
  <2>9. Cut(z)'
    BY <2>7, <2>8 DEF Cut
  <2> QED  BY <2>9
<1> QED  BY <1>5, <1>6, <1>7, <1>8 DEF Invariant

LEMMA FeedKeeps ==
  ASSUME Invariant, NEW k \in 1 .. Len(stream), Feed(k)
  PROVE  Invariant'
<1> DEFINE x == SubSeq(stream, 1, k)
           y == SubSeq(stream, k + 1, Len(stream))
<1>1. TypeOK /\ buf \in Seq(Bytes) /\ stream \in Seq(Bytes)
  BY DEF Invariant, TypeOK
<1>2. x \in Seq(Bytes) /\ y \in Seq(Bytes) /\ x \o y = stream
  <2>1. k \in 0 .. Len(stream)
    OBVIOUS
  <2> QED  BY <1>1, <2>1, CutAnywhere
<1>3. /\ buf' = buf \o x /\ stream' = y
      /\ sentMsgs' = sentMsgs /\ popped' = popped /\ refused' = refused
  BY DEF Feed
<1> HIDE DEF x, y
<1>4. buf' \o stream' = buf \o stream /\ buf' \in Seq(Bytes) /\ stream' \in Seq(Bytes)
  BY <1>1, <1>2, <1>3, ConcatBytes, ConcatProperties
<1>5. TypeOK'
  BY <1>1, <1>3, <1>4 DEF TypeOK
<1>6. ReadBack' /\ RefusedForCause'
  BY <1>3 DEF Invariant, ReadBack, RefusedForCause, NextMsg
<1>7. \E v \in [Nat -> Seq(Bytes)] : Cut(v)'
  <2>1. PICK v \in [Nat -> Seq(Bytes)] : Cut(v)
    BY DEF Invariant
  <2>2. Cut(v)'
    BY <1>3, <1>4, <2>1 DEF Cut
  <2> QED  BY <2>2
<1> QED  BY <1>5, <1>6, <1>7 DEF Invariant

LEMMA UnpackKeeps ==
  ASSUME Invariant, Unpack
  PROVE  Invariant'
<1> DEFINE n == Len(popped) + 1
           m == NextMsg
<1>1. /\ TypeOK /\ ReadBack /\ RefusedForCause /\ Len(sentMsgs) \in Nat /\ Len(popped) \in Nat
      /\ buf \in Seq(Bytes) /\ stream \in Seq(Bytes)
      /\ popped \in Seq([op : OP_ERROR .. OP_UNSUBSCRIBE, data : Seq(Bytes)])
      /\ DOMAIN popped = 1 .. Len(popped)
  <2>1. TypeOK /\ ReadBack /\ RefusedForCause
    BY DEF Invariant
  <2> QED  BY <2>1, Lengths DEF TypeOK
<1>2. Len(buf) >= 5 /\ ~Raises(buf) /\ Len(buf) >= Length(buf) /\ ~refused
  BY DEF Unpack, Ready
<1>3. /\ Len(popped) < Len(sentMsgs) /\ m \in Writable
      /\ Length(buf) = Len(Written(m)) /\ Opcode(buf) = m.op
  BY <1>2, Decides
<1>4. m.op <= OP_UNSUBSCRIBE /\ m.op \in OP_ERROR .. OP_UNSUBSCRIBE
  <2>0. m.op \in Bytes
    BY <1>3 DEF Writable
  <2>1. m.op \in Nat
    BY <2>0 DEF Bytes
  <2>2. ~(m.op > OP_UNSUBSCRIBE)
    BY <1>2, <1>3 DEF Raises
  <2> HIDE DEF m
  <2> QED  BY <2>1, <2>2 DEF OP_ERROR, OP_UNSUBSCRIBE
<1>5. PICK v \in [Nat -> Seq(Bytes)] : Cut(v)
  BY DEF Invariant
<1>6. n \in Len(popped) + 1 .. Len(sentMsgs) /\ n \in Nat /\ n - 1 = Len(popped)
  <2>1. Len(sentMsgs) \in Nat /\ Len(popped) \in Nat /\ Len(popped) < Len(sentMsgs)
    BY <1>1, <1>3
  <2> QED  BY <2>1, Indices
<1>7. buf \o stream = Written(m) \o v[n] /\ v[n] \in Seq(Bytes)
  <2>1. v[n - 1] = Written(sentMsgs[n]) \o v[n] /\ v[Len(popped)] = buf \o stream
    BY <1>5, <1>6 DEF Cut
  <2> QED  BY <1>5, <1>6, <2>1 DEF NextMsg
<1>8. /\ Popped(buf) = [op |-> m.op, data |-> Body(m)]
      /\ Remaining(buf) \in Seq(Bytes) /\ Remaining(buf) \o stream = v[n]
  <2>1. Len(buf) >= Len(Written(m))
    BY <1>2, <1>3
  <2> HIDE DEF m, n
  <2> QED  BY <1>1, <1>3, <1>7, <2>1, MessagePopped
<1>9. /\ popped' = Append(popped, [op |-> m.op, data |-> Body(m)]) /\ buf' = Remaining(buf)
      /\ sentMsgs' = sentMsgs /\ stream' = stream /\ refused' = refused
  BY <1>8 DEF Unpack
<1>10. /\ popped' \in Seq([op : OP_ERROR .. OP_UNSUBSCRIBE, data : Seq(Bytes)])
       /\ Len(popped') = n
       /\ \A i \in 1 .. Len(popped) : popped'[i] = popped[i]
       /\ popped'[n] = [op |-> m.op, data |-> Body(m)]
  <2>1. Body(m) \in Seq(Bytes)
    BY <1>3, BodyType
  <2>2. [op |-> m.op, data |-> Body(m)] \in [op : OP_ERROR .. OP_UNSUBSCRIBE, data : Seq(Bytes)]
    BY <1>4, <2>1
  <2> QED  BY <1>1, <1>9, <2>2, AppendProperties
<1>11. TypeOK'
  BY <1>1, <1>8, <1>9, <1>10 DEF TypeOK
<1>12. ReadBack'
  <2>1. DOMAIN popped' = 1 .. n
    BY <1>10, LenProperties
  <2>2. \A i \in 1 .. Len(popped) :
          Read(popped'[i].op, popped'[i].data) =
            IF Text(sentMsgs'[i]) THEN sentMsgs'[i] ELSE UnicodeDecodeError
    BY <1>1, <1>9, <1>10 DEF ReadBack
  <2>3. Read(popped'[n].op, popped'[n].data) =
          IF Text(sentMsgs'[n]) THEN sentMsgs'[n] ELSE UnicodeDecodeError
    <3>1. Read(m.op, Body(m)) = IF Text(m) THEN m ELSE UnicodeDecodeError
      BY <1>3, <1>4, ReadsBody
    <3>2. sentMsgs[n] = m
      BY DEF NextMsg
    <3> HIDE DEF m, n
    <3> QED  BY <1>9, <1>10, <3>1, <3>2
  <2>4. \A i \in 1 .. n : i \in 1 .. Len(popped) \/ i = n
    <3>1. Len(popped) \in Nat
      BY <1>1
    <3> QED  BY <3>1, Indices
  <2>5. Len(popped') <= Len(sentMsgs')
    BY <1>1, <1>3, <1>9, <1>10
  <2> HIDE DEF n
  <2> QED  BY <2>1, <2>2, <2>3, <2>4, <2>5 DEF ReadBack
<1>13. RefusedForCause'
  BY <1>2, <1>9 DEF RefusedForCause
<1>14. Cut(v)'
  <2>1. v[n] = buf' \o stream' /\ v[Len(sentMsgs')] = << >>
    BY <1>5, <1>8, <1>9 DEF Cut
  <2>2. \A i \in n + 1 .. Len(sentMsgs) : i \in Len(popped) + 1 .. Len(sentMsgs)
    BY <1>1
  <2>3. \A i \in n + 1 .. Len(sentMsgs) : v[i - 1] = Written(sentMsgs[i]) \o v[i]
    BY <1>5, <2>2 DEF Cut
  <2> QED  BY <1>9, <1>10, <2>1, <2>3 DEF Cut
<1>15. \E z \in [Nat -> Seq(Bytes)] : Cut(z)'
  BY <1>14
<1> QED  BY <1>11, <1>12, <1>13, <1>15 DEF Invariant

LEMMA RefuseKeeps ==
  ASSUME Invariant, Refuse
  PROVE  Invariant'
<1>1. /\ Len(buf) >= 5 /\ Raises(buf) /\ refused' = TRUE
      /\ sentMsgs' = sentMsgs /\ stream' = stream /\ buf' = buf /\ popped' = popped
  BY DEF Refuse, Raises
<1>2. Len(popped) < Len(sentMsgs) /\ Illegal(NextMsg)
  BY <1>1, Decides
<1>3. RefusedForCause'
  BY <1>1, <1>2 DEF RefusedForCause, NextMsg
<1>4. TypeOK' /\ ReadBack'
  BY <1>1 DEF Invariant, TypeOK, ReadBack
<1>5. \E v \in [Nat -> Seq(Bytes)] : Cut(v)'
  BY <1>1 DEF Invariant, Cut
<1> QED  BY <1>3, <1>4, <1>5 DEF Invariant
-----------------------------------------------------------------------------
(* The theorems *)

LEMMA InvariantHolds == Spec => []Invariant
<1>1. Invariant /\ [Next]_vars => Invariant'
  <2> SUFFICES ASSUME Invariant, [Next]_vars PROVE Invariant'
    OBVIOUS
  <2>1. ASSUME NEW m \in Messages, Send(m) PROVE Invariant'
    BY <2>1, SendKeeps
  <2>2. ASSUME NEW k \in 1 .. Len(stream), Feed(k) PROVE Invariant'
    BY <2>2, FeedKeeps
  <2>3. CASE Unpack
    BY <2>3, UnpackKeeps
  <2>4. CASE Refuse
    BY <2>4, RefuseKeeps
  <2>5. CASE UNCHANGED vars
    <3>1. /\ sentMsgs' = sentMsgs /\ stream' = stream /\ buf' = buf
          /\ popped' = popped /\ refused' = refused
      BY <2>5 DEF vars
    <3> QED  BY <3>1 DEF Invariant, TypeOK, ReadBack, RefusedForCause, NextMsg, Cut
  <2> QED  BY <2>1, <2>2, <2>3, <2>4, <2>5 DEF Next
<1> QED  BY <1>1, InitInvariant, PTL DEF Spec

\* What is sent, buffered and popped are messages and bytes.
THEOREM TypeCorrect == Spec => []TypeOK
<1>1. Invariant => TypeOK
  BY DEF Invariant
<1> QED  BY <1>1, InvariantHolds, PTL

\* However the stream is cut into reads, and whatever bytes the messages are made
\* of, Unpacker pops what was written, in order: the read functions return every
\* message whose strings are UTF-8 as it was written, and raise for the others.
THEOREM ReadsBack == Spec => []ReadBack
<1>1. Invariant => ReadBack
  BY DEF Invariant
<1> QED  BY <1>1, InvariantHolds, PTL

\* Only a message over its limit, or with an opcode that does not exist, makes
\* ready() raise: never the bytes inside a legal one.
THEOREM RefusesForCause == Spec => []RefusedForCause
<1>1. Invariant => RefusedForCause
  BY DEF Invariant
<1> QED  BY <1>1, InvariantHolds, PTL

\* When unpack() has nothing to return, the buffer is empty or holds the beginning
\* of the next message, less than its length: no message is held back, and an
\* illegal one is refused as soon as its header is there.
THEOREM HoldsNothingBack == Spec => []NothingHeldBack
<1>1. Invariant => NothingHeldBack
  <2> SUFFICES ASSUME Invariant, ~refused, ~Ready(buf), ~Raises(buf)
               PROVE  IF Len(popped) = Len(sentMsgs) THEN buf = << >>
                      ELSE Len(buf) < IF Illegal(NextMsg) THEN 5 ELSE Len(Written(NextMsg))
    BY DEF NothingHeldBack
  <2>1. TypeOK /\ Len(buf) \in Nat
    BY Lengths DEF Invariant
  <2>2. CASE Len(buf) >= 5
    <3>1. /\ Len(popped) < Len(sentMsgs) /\ NextMsg \in Writable /\ ~Illegal(NextMsg)
          /\ Length(buf) = Len(Written(NextMsg))
      BY <2>2, Decides
    <3>2. Len(Written(NextMsg)) \in Nat
      BY <3>1, WrittenFields
    <3>3. Len(popped) # Len(sentMsgs)
      <4>1. Len(popped) \in Nat /\ Len(sentMsgs) \in Nat
        BY <2>1, Lengths
      <4> QED  BY <3>1, <4>1
    <3>4. Len(buf) < Len(Written(NextMsg))
      BY <2>1, <2>2, <3>1, <3>2 DEF Ready
    <3> QED  BY <3>1, <3>3, <3>4
  <2>3. CASE ~(Len(buf) >= 5)
    <3>1. CASE Len(popped) = Len(sentMsgs)
      BY <3>1, AtNext
    <3>2. CASE Len(popped) # Len(sentMsgs)
      <4>1. NextMsg \in Writable
        BY <3>2, AtNext
      <4>2. Len(Written(NextMsg)) \in Nat /\ 5 <= Len(Written(NextMsg))
        BY <4>1, WrittenFields
      <4> QED  BY <2>1, <2>3, <3>2, <4>2
    <3> QED  BY <3>1, <3>2
  <2> QED  BY <2>2, <2>3
<1> QED  BY <1>1, InvariantHolds, PTL
=============================================================================
