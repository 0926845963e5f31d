---------------------------- MODULE SectionLock ----------------------------
(***************************************************************************)
(* What the display lock promises its clients, with no depths, no wait set  *)
(* and no record of handoffs: at any time at most one thread's critical     *)
(* section is open, and while a worker has stepped out of its section only  *)
(* the main thread may visit it.                                            *)
(***************************************************************************)
CONSTANTS Threads, Main, NoThread

VARIABLES section,  \* whose critical section is open
          inside    \* the thread that executes in it

Init == section = NoThread /\ inside = NoThread

Open(t) ==
  /\ section = NoThread
  /\ section' = t /\ inside' = t

Close(t) ==
  /\ section = t /\ inside = t
  /\ section' = NoThread /\ inside' = NoThread

StepOut(t) ==
  /\ t # Main /\ section = t /\ inside = t
  /\ inside' = NoThread /\ UNCHANGED section

StepIn(t) ==
  /\ section = t /\ inside = NoThread
  /\ inside' = t /\ UNCHANGED section

Visit ==
  /\ section \notin {NoThread, Main} /\ inside = NoThread
  /\ inside' = Main /\ UNCHANGED section

Leave ==
  /\ section \notin {NoThread, Main} /\ inside = Main
  /\ inside' = NoThread /\ UNCHANGED section

Next ==
  \/ \E t \in Threads : Open(t) \/ Close(t) \/ StepOut(t) \/ StepIn(t)
  \/ Visit
  \/ Leave

Spec == Init /\ [][Next]_<<section, inside>>
=============================================================================
