------------------------------ MODULE Protocol ------------------------------
(***************************************************************************)
(* protocol.py: how a message is written to bytes and read back, and what  *)
(* Unpacker does with a buffer.  A byte is a number below 256, a string or *)
(* a payload a sequence of bytes.  force_bytes and hashsecret are left     *)
(* out: what is written are the bytes of a string, and a digest is some    *)
(* more of them.  force_str is not: reading a string whose bytes are not   *)
(* UTF-8 raises (Python 3; in Python 2 it leaves the bytes alone).         *)
(*                                                                         *)
(* A message is [op, name, chan, rest]: `name` is the identity, or the     *)
(* broker's name in INFO; `rest` is the payload, the digest of AUTH, the   *)
(* random bytes of INFO or the text of ERROR.  What a message has not got  *)
(* is empty.                                                               *)
(***************************************************************************)
EXTENDS Naturals, Sequences

CONSTANTS MAXBUF,   \* 1024^2 in the code
          MAXAUTH   \* 256 + 20 in the code: what INFO and AUTH may add to a header

ASSUME ProtocolAssumption == MAXBUF \in Nat /\ MAXAUTH \in Nat

OP_ERROR       == 0
OP_INFO        == 1
OP_AUTH        == 2
OP_PUBLISH     == 3
OP_SUBSCRIBE   == 4
OP_UNSUBSCRIBE == 5

Bytes == 0 .. 255

\* A bug: PUBLISH has the limit of the opcodes that SIZES does not name.
SIZESNoPublish(op) == CASE op = OP_ERROR -> 5 + MAXBUF
                        [] op \in {OP_INFO, OP_AUTH} -> 5 + MAXAUTH
                        [] OTHER -> MAXBUF

SIZES(op) == CASE op \in {OP_ERROR, OP_PUBLISH} -> 5 + MAXBUF
               [] op \in {OP_INFO, OP_AUTH} -> 5 + MAXAUTH
               [] OTHER -> MAXBUF
-----------------------------------------------------------------------------
(* Writing *)

\* struct.pack('!i') of a number that fits.
Pack4(n) == <<n \div 16777216, (n \div 65536) % 256, (n \div 256) % 256, n % 256>>

strpack8(x) == <<Len(x)>> \o x

msghdr(op, data) == Pack4(5 + Len(data)) \o <<op>> \o data

\* msgerror, msgpublish, and the others, which have one string and the rest.
Body(m) == CASE m.op = OP_ERROR   -> m.rest
             [] m.op = OP_PUBLISH -> strpack8(m.name) \o strpack8(m.chan) \o m.rest
             [] m.op \in {OP_SUBSCRIBE, OP_UNSUBSCRIBE} -> strpack8(m.name) \o m.chan
             [] OTHER -> strpack8(m.name) \o m.rest

Written(m) == msghdr(m.op, Body(m))
-----------------------------------------------------------------------------
(* Reading *)

\* struct.unpack('!i') of a number that is not negative.
Unpack4(x) == x[1] * 16777216 + x[2] * 65536 + x[3] * 256 + x[4]

\* strunpack8: the string, and what follows it.
StringOf(x) == SubSeq(x, 2, 1 + x[1])
After(x)    == SubSeq(x, 2 + x[1], Len(x))

Continuation == 128 .. 191

\* How many bytes the character takes that begins with b; 0 if none does.
Width(b) == CASE b < 128 -> 1
              [] b \in 194 .. 223 -> 2
              [] b \in 224 .. 239 -> 3
              [] b \in 240 .. 244 -> 4
              [] OTHER -> 0

\* What may follow the first byte b: no character has two encodings, surrogates
\* have none, and there is nothing beyond U+10FFFF.
Second(b) == CASE b = 224 -> 160 .. 191
               [] b = 237 -> 128 .. 159
               [] b = 240 -> 144 .. 191
               [] b = 244 -> 128 .. 143
               [] OTHER -> Continuation

\* force_str does not raise: x is a sequence of whole UTF-8 characters.
Decodes(x) ==
  \A i \in DOMAIN x :
    IF x[i] \in Continuation
    THEN \E k \in 1 .. 3 : /\ k < i /\ Width(x[i - k]) > k
                           /\ \A j \in i - k + 1 .. i : x[j] \in Continuation
    ELSE /\ Width(x[i]) > 0 /\ i + Width(x[i]) - 1 <= Len(x)
         /\ \A j \in i + 1 .. i + Width(x[i]) - 1 : x[j] \in Continuation
         /\ Width(x[i]) > 1 => x[i + 1] \in Second(x[i])

\* The strings of a message; the payload, the digest and the random bytes are none.
Text(m) == Decodes(m.name) /\ Decodes(m.chan) /\ (m.op = OP_ERROR => Decodes(m.rest))

\* The fields that the read functions find.
Fields(op, data) ==
  CASE op = OP_ERROR -> [op |-> op, name |-> << >>, chan |-> << >>, rest |-> data]
    [] op = OP_PUBLISH ->
         [op |-> op, name |-> StringOf(data), chan |-> StringOf(After(data)),
          rest |-> After(After(data))]
    [] op \in {OP_SUBSCRIBE, OP_UNSUBSCRIBE} ->
         [op |-> op, name |-> StringOf(data), chan |-> After(data), rest |-> << >>]
    [] OTHER ->
         [op |-> op, name |-> StringOf(data), chan |-> << >>, rest |-> After(data)]

UnicodeDecodeError == [raised |-> "UnicodeDecodeError"]

\* readerror, readpublish, readsubscribe, readunsubscribe, readauth, readinfo:
\* the message, or what they raise.
Read(op, data) ==
  IF Text(Fields(op, data)) THEN Fields(op, data) ELSE UnicodeDecodeError
-----------------------------------------------------------------------------
(* Unpacker, on the buffer b *)

Length(b) == Unpack4(SubSeq(b, 1, 4))
Opcode(b) == b[5]

\* ready() raises ProtocolException or MessageTooBig.
Raises(b) ==
  /\ Len(b) >= 5
  /\ Opcode(b) > OP_UNSUBSCRIBE \/ Length(b) > SIZES(Opcode(b))

\* A bug: a message is only complete when another byte follows it.
ReadyLate(b) == Len(b) >= 5 /\ ~Raises(b) /\ Len(b) > Length(b)

\* ready() is true.
Ready(b) == Len(b) >= 5 /\ ~Raises(b) /\ Len(b) >= Length(b)

\* A bug: the header is not counted when the message is deleted.
RemainingBody(b) == SubSeq(b, Length(b) - 4, Len(b))

\* pop(): the message, and what remains of the buffer.
Popped(b)    == [op |-> Opcode(b), data |-> SubSeq(b, 6, Length(b))]
Remaining(b) == SubSeq(b, Length(b) + 1, Len(b))
=============================================================================
