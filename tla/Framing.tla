------------------------------- MODULE Framing -------------------------------
(***************************************************************************)
(* A sender writes messages to a stream; the receiver feeds its Unpacker   *)
(* with whatever number of bytes a read returns, and pops messages one by  *)
(* one.  All receivers are covered: the clients pop all they can after     *)
(* each read, the broker may leave messages in the buffer and go on later. *)
(* The sender uses the functions of protocol.py, but may exceed the limits *)
(* or use an opcode that does not exist, and its strings are any bytes.  A *)
(* receiver whose read function raises may end or pop the next message:    *)
(* the specification lets it do either.                                    *)
(***************************************************************************)
EXTENDS Protocol

CONSTANTS Messages,      \* what may be sent
          MaxMessages    \* bound: the number of messages

MAXINT == 2147483647

\* What protocol.py can write: struct.pack raises for a number that does not fit
\* its field.  A message has no strings that its opcode has no place for.
Writable ==
  {m \in [op : Bytes, name : Seq(Bytes), chan : Seq(Bytes), rest : Seq(Bytes)] :
     /\ Len(m.name) <= 255 /\ 5 + Len(Body(m)) <= MAXINT
     /\ m.op = OP_ERROR => m.name = << >>
     /\ m.op = OP_PUBLISH => Len(m.chan) <= 255
     /\ m.op \in {OP_SUBSCRIBE, OP_UNSUBSCRIBE} => m.rest = << >>
     /\ m.op \notin {OP_PUBLISH, OP_SUBSCRIBE, OP_UNSUBSCRIBE} => m.chan = << >>}

ASSUME FramingAssumption == Messages \subseteq Writable /\ MaxMessages \in Nat

VARIABLES
  sentMsgs,   \* history: the messages sent
  stream,     \* bytes that were sent and not yet read
  buf,        \* self.buf of the Unpacker
  popped,     \* history: what pop() returned
  refused     \* ready() raised: the connection gets closed

vars == <<sentMsgs, stream, buf, popped, refused>>

TypeOK ==
  /\ sentMsgs \in Seq(Messages) /\ Len(sentMsgs) <= MaxMessages
  /\ stream \in Seq(Bytes) /\ buf \in Seq(Bytes)
  /\ popped \in Seq([op : OP_ERROR .. OP_UNSUBSCRIBE, data : Seq(Bytes)])
  /\ refused \in BOOLEAN

Init == /\ sentMsgs = << >> /\ stream = << >>
        /\ buf = << >> /\ popped = << >> /\ refused = FALSE

Send(m) ==
  /\ Len(sentMsgs) < MaxMessages
  /\ sentMsgs' = Append(sentMsgs, m)
  /\ stream' = stream \o Written(m)
  /\ UNCHANGED <<buf, popped, refused>>

\* A read returns k bytes.
Feed(k) ==
  /\ ~refused
  /\ buf' = buf \o SubSeq(stream, 1, k)
  /\ stream' = SubSeq(stream, k + 1, Len(stream))
  /\ UNCHANGED <<sentMsgs, popped, refused>>

\* unpack() returns a message.
Unpack ==
  /\ ~refused /\ Ready(buf)
  /\ popped' = Append(popped, Popped(buf))
  /\ buf' = Remaining(buf)
  /\ UNCHANGED <<sentMsgs, stream, refused>>

\* unpack() raises.
Refuse ==
  /\ ~refused /\ Raises(buf)
  /\ refused' = TRUE
  /\ UNCHANGED <<sentMsgs, stream, buf, popped>>

Next == \/ \E m \in Messages : Send(m)
        \/ \E k \in 1 .. Len(stream) : Feed(k)
        \/ Unpack \/ Refuse

Spec == Init /\ [][Next]_vars
-----------------------------------------------------------------------------
(* Properties *)

\* The messages popped are those that were written, in order, however the bytes
\* were cut into reads: reading the i-th gives the i-th message again, or raises
\* if a string of it is not UTF-8, and never gives another message.
ReadBack ==
  /\ Len(popped) <= Len(sentMsgs)
  /\ \A i \in DOMAIN popped :
       Read(popped[i].op, popped[i].data) =
         IF Text(sentMsgs[i]) THEN sentMsgs[i] ELSE UnicodeDecodeError

\* What a sender may not send, in terms of the message and not of its bytes.
Illegal(m) ==
  CASE m.op > OP_UNSUBSCRIBE -> TRUE
    [] m.op \in {OP_ERROR, OP_PUBLISH} -> Len(Body(m)) > MAXBUF
    [] m.op \in {OP_INFO, OP_AUTH} -> Len(Body(m)) > MAXAUTH
    [] OTHER -> 5 + Len(Body(m)) > MAXBUF

\* The message the receiver is at.
NextMsg == sentMsgs[Len(popped) + 1]

\* Only an illegal message is refused, and only when it is its turn.
RefusedForCause == refused => Len(popped) < Len(sentMsgs) /\ Illegal(NextMsg)

\* When the receiver stops popping, what is left in the buffer is less than a
\* message, or of an illegal one less than its header: nothing is held back,
\* and the buffer of a connection does not outgrow the limits.
NothingHeldBack ==
  ~refused /\ ~Ready(buf) /\ ~Raises(buf) =>
    IF Len(popped) = Len(sentMsgs) THEN buf = << >>
    ELSE Len(buf) < IF Illegal(NextMsg) THEN 5 ELSE Len(Written(NextMsg))
=============================================================================
