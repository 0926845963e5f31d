------------------------------ MODULE WakePipe ------------------------------
(***************************************************************************)
(* The event-connection pipe of src/src/events.c: the descriptor that       *)
(* ConnectionNumber returns and a client select()s on.  Each operation here *)
(* is one critical section of eventQueueLengthLock (or one atomic access),  *)
(* to be used as a step by the modules that have threads.                   *)
(***************************************************************************)
EXTENDS Integers

CONSTANT PipeCapacity  \* bytes after which a non-blocking write fails

ASSUME PipeAssumption == PipeCapacity \in Nat \ {0}

VARIABLES bytes,           \* unread bytes in the pipe
          qlen,            \* display->qlen
          pumpWakePending  \* a byte written by the pump-wake timer is unread

pipeVars == <<bytes, qlen, pumpWakePending>>

PipeInit == bytes = 0 /\ qlen = 0 /\ pumpWakePending = FALSE

AtMost(n, m) == IF n < m THEN n ELSE m
Less(n, m) == IF n > m THEN n - m ELSE 0

(* poll(ConnectionNumber) returns.                                          *)
Readable == bytes > 0

CountOnly ==
  /\ qlen' = qlen + 1
  /\ UNCHANGED <<bytes, pumpWakePending>>

ENQUEUE_EVENT_IN_PIPE ==
  /\ bytes' = AtMost(bytes + 1, PipeCapacity)
  /\ qlen' = qlen + 1
  /\ UNCHANGED pumpWakePending

(* READ_EVENT_IN_PIPE, n times.                                             *)
UncountOnly(n) ==
  /\ qlen' = Less(qlen, n)
  /\ UNCHANGED <<bytes, pumpWakePending>>

READ_EVENTS_IN_PIPE(n) ==
  /\ bytes' = Less(bytes, n)
  /\ qlen' = Less(qlen, n)
  /\ UNCHANGED pumpWakePending

(* Discard every byte, write n of them, and set the counter.                *)
resetEventWakeups(n) ==
  /\ bytes' = AtMost(n, PipeCapacity)
  /\ qlen' = n
  /\ pumpWakePending' = FALSE

(* The two halves of wakeEventPipeForExternalEvent: each display's counter, *)
(* then the pipe.  The pump-wake flag is not touched.                       *)
setDisplayEventQueueLength(n) ==
  /\ qlen' = n
  /\ UNCHANGED <<bytes, pumpWakePending>>

rewritePipe(n) ==
  /\ bytes' = AtMost(n, PipeCapacity)
  /\ UNCHANGED <<qlen, pumpWakePending>>

(* xtWakeTimerCallback: claim the flag, then write the byte or give it back.*)
timerClaim ==
  /\ ~pumpWakePending
  /\ pumpWakePending' = TRUE
  /\ UNCHANGED <<bytes, qlen>>

timerWrite ==
  /\ IF bytes < PipeCapacity
       THEN bytes' = bytes + 1 /\ UNCHANGED pumpWakePending
       ELSE pumpWakePending' = FALSE /\ UNCHANGED bytes
  /\ UNCHANGED qlen

(* consumePumpWakeByte: read a byte if the flag says one is the timer's,    *)
(* then clear the flag.                                                     *)
consumeRead ==
  /\ bytes' = Less(bytes, 1)
  /\ UNCHANGED <<qlen, pumpWakePending>>

NeverClear == UNCHANGED pipeVars

consumeClear ==
  /\ pumpWakePending' = FALSE
  /\ UNCHANGED <<bytes, qlen>>
=============================================================================
