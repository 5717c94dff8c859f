------------------------------ MODULE Transport ------------------------------
(***************************************************************************)
(* The asyncio socket transport, as far as the broker's Connection uses    *)
(* it: write, close, pause_reading, resume_reading, set_write_buffer_limits *)
(* and the fatal-error path.  asyncio is not part of the repository: this  *)
(* module is external and holds only pure operators on a link record.      *)
(*                                                                         *)
(*   state    "new"      accepted, connection_made not yet called          *)
(*            "open"     is_closing() is FALSE                             *)
(*            "closing"  close() was called with data still to flush       *)
(*            "dying"    connection_lost is scheduled; writes are dropped  *)
(*            "lost"     connection_lost has been called                   *)
(*   out      messages in the write buffer (bytes, counted per message)    *)
(*   rpaused  pause_reading() is in force                                  *)
(*   wpaused  pause_writing() was called and resume_writing() not yet      *)
(*   high     the high-water mark; the low one is a quarter of it          *)
(***************************************************************************)
EXTENDS Naturals

CONSTANTS InitialHigh,  \* asyncio's default high-water mark
          AuthHigh,     \* the mark set once a client is authenticated
          Kernel        \* what a send() on an idle socket may answer

ASSUME TransportAssumption ==
  /\ InitialHigh \in Nat /\ AuthHigh \in Nat
  /\ Kernel # {} /\ Kernel \subseteq {"sent", "queued", "failed"}

Links == [state   : {"new", "open", "closing", "dying", "lost"},
          out     : Nat,
          rpaused : BOOLEAN,
          wpaused : BOOLEAN,
          high    : {InitialHigh, AuthHigh}]

NewLink == [state |-> "new", out |-> 0, rpaused |-> FALSE,
            wpaused |-> FALSE, high |-> InitialHigh]

Writable(l) == l.state \in {"open", "closing"}

\* _maybe_pause_protocol: the pause is remembered even if it already held.
Checked(l) == [l EXCEPT !.wpaused = @ \/ l.out > l.high]

\* _force_close: the write buffer is dropped, connection_lost is scheduled.
Aborted(l) == IF Writable(l) THEN [l EXCEPT !.state = "dying", !.out = 0] ELSE l

\* write(): an empty buffer is offered to the kernel at once, which takes the
\* message ("sent"), is full ("queued") or reports an error ("failed").  A
\* message behind others is queued.  After connection_lost is scheduled the
\* message is dropped.
Written(l, k) ==
  CASE ~Writable(l)                 -> l
    [] Writable(l) /\ l.out > 0     -> Checked([l EXCEPT !.out = @ + 1])
    [] Writable(l) /\ l.out = 0 /\ k = "queued" -> Checked([l EXCEPT !.out = 1])
    [] Writable(l) /\ l.out = 0 /\ k = "failed" -> Aborted(l)
    [] OTHER                        -> l

\* close(): flushes what is buffered first.
Closed(l) ==
  IF l.state = "open"
  THEN [l EXCEPT !.state = IF l.out = 0 THEN "dying" ELSE "closing"]
  ELSE l

\* n buffered messages leave; _maybe_resume_protocol compares with the low mark.
Drained(l, n) ==
  [l EXCEPT !.out = @ - n, !.wpaused = @ /\ l.out - n > l.high \div 4]

\* pause_reading and resume_reading do nothing on a closing transport.
ReadingPaused(l)  == IF l.state = "open" THEN [l EXCEPT !.rpaused = TRUE] ELSE l
ReadingResumed(l) == IF l.state = "open" THEN [l EXCEPT !.rpaused = FALSE] ELSE l

\* set_write_buffer_limits(high) also re-examines the buffer.
Limited(l) == Checked([l EXCEPT !.high = AuthHigh])
=============================================================================
