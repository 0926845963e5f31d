---------------------------- MODULE DisplayLock ----------------------------
(***************************************************************************)
(* The process-global display lock of src/src/display.c: a recursive       *)
(* monitor (XLockDisplay, XUnlockDisplay and the internal LockDisplay) that *)
(* a worker can lend to the main thread while it blocks in                  *)
(* runOnMainThread (the "handoff").                                         *)
(*                                                                         *)
(* Every action is one pass through the monitor's mutex.  A thread that may *)
(* not proceed joins the condition variable's wait set and looks again      *)
(* only after a broadcast, so a forgotten broadcast would strand it.        *)
(***************************************************************************)
EXTENDS Integers, FiniteSets

CONSTANTS Threads,   \* the client's threads
          Main,      \* the thread that owns SDL's windows and pumps events
          NoThread,  \* SDL_threadID 0
          MaxDepth   \* bound: how deep one thread nests LockDisplay

ASSUME ThreadsAssumption == Main \in Threads /\ NoThread \notin Threads
ASSUME DepthAssumption == MaxDepth \in Nat \ {0}

VARIABLES owner,         \* current holder
          depth,         \* the owner's recursion depth
          handoffOwner,  \* worker whose lock is lent out
          waiting,       \* threads asleep in pthread_cond_wait
          call,          \* the monitor call a thread is inside of
          shed,          \* what displayLockReleaseForHandoff returned
          nest           \* ledger: locks minus unlocks of each thread

lockVars == <<owner, depth, handoffOwner, waiting, call, shed, nest>>

Workers == Threads \ {Main}

LockInit ==
  /\ owner = NoThread
  /\ depth = 0
  /\ handoffOwner = NoThread
  /\ waiting = {}
  /\ call = [t \in Threads |-> "none"]
  /\ shed = [t \in Threads |-> 0]
  /\ nest = [t \in Threads |-> 0]

-----------------------------------------------------------------------------
(* A thread runs client code: it is in no monitor call and lends nothing.   *)
Running(t) == call[t] = "none" /\ shed[t] = 0

mayTakeAnyFreeLock(t) == t \in Threads

mayTakeFreeLock(t) == handoffOwner \in {NoThread, t} \/ t = Main

MayLock(t) == owner = t \/ (owner = NoThread /\ mayTakeFreeLock(t))

(* pthread_cond_wait, and its broadcast: every sleeper looks again.  (A      *)
(* signal would wake one.)                                                  *)
Sleep(t) ==
  /\ waiting' = waiting \union {t}
  /\ UNCHANGED <<owner, depth, handoffOwner, call, shed, nest>>

Signal == IF waiting = {} THEN waiting' = {}
                          ELSE \E t \in waiting : waiting' = waiting \ {t}

Broadcast == waiting' = {}

(* compatLockDisplay: entry, the loop's wait and its two exits.             *)
CallLock(t) ==
  /\ Running(t)
  /\ nest[t] < MaxDepth
  /\ call' = [call EXCEPT ![t] = "lock"]
  /\ UNCHANGED <<owner, depth, handoffOwner, waiting, shed, nest>>

LockWait(t) ==
  /\ call[t] = "lock" /\ t \notin waiting
  /\ ~MayLock(t)
  /\ Sleep(t)

TakeLock(t) ==
  /\ call[t] = "lock" /\ t \notin waiting
  /\ MayLock(t)
  /\ owner' = t
  /\ depth' = IF owner = t THEN depth + 1 ELSE 1
  /\ call' = [call EXCEPT ![t] = "none"]
  /\ nest' = [nest EXCEPT ![t] = @ + 1]
  /\ UNCHANGED <<handoffOwner, waiting, shed>>

(* compatUnlockDisplay.  A thread that owns nothing is ignored (a stutter). *)
UnlockByAnyone(t) ==
  /\ Running(t)
  /\ depth > 0
  /\ depth' = depth - 1
  /\ nest' = [nest EXCEPT ![t] = IF @ > 0 THEN @ - 1 ELSE 0]
  /\ IF depth = 1 THEN owner' = NoThread /\ Broadcast
                  ELSE UNCHANGED <<owner, waiting>>
  /\ UNCHANGED <<handoffOwner, call, shed>>

Unlock(t) ==
  /\ Running(t)
  /\ owner = t /\ depth > 0
  /\ depth' = depth - 1
  /\ nest' = [nest EXCEPT ![t] = IF @ > 0 THEN @ - 1 ELSE 0]
  /\ IF depth = 1 THEN owner' = NoThread /\ Broadcast
                  ELSE UNCHANGED <<owner, waiting>>
  /\ UNCHANGED <<handoffOwner, call, shed>>

(* displayLockReleaseForHandoff by a worker that holds the lock; for one    *)
(* that does not it is a no-op returning 0.                                 *)
ShedLock(t) ==
  /\ Running(t) /\ t \in Workers
  /\ owner = t
  /\ shed' = [shed EXCEPT ![t] = depth]
  /\ depth' = 0
  /\ owner' = NoThread
  /\ handoffOwner' = t
  /\ Broadcast
  /\ UNCHANGED <<call, nest>>

(* displayLockReacquire: entry, the loop's wait and its exit.               *)
CallReacquire(t) ==
  /\ call[t] = "none" /\ shed[t] > 0
  /\ call' = [call EXCEPT ![t] = "reacquire"]
  /\ UNCHANGED <<owner, depth, handoffOwner, waiting, shed, nest>>

ReacquireWait(t) ==
  /\ call[t] = "reacquire" /\ t \notin waiting
  /\ owner # NoThread
  /\ Sleep(t)

oneLevel(t) == IF shed[t] > 0 THEN 1 ELSE 0

restoredDepth(t) == shed[t]

TakeBack(t) ==
  /\ call[t] = "reacquire" /\ t \notin waiting
  /\ owner = NoThread
  /\ owner' = t
  /\ depth' = restoredDepth(t)
  /\ handoffOwner' = NoThread
  /\ Broadcast
  /\ shed' = [shed EXCEPT ![t] = 0]
  /\ call' = [call EXCEPT ![t] = "none"]
  /\ UNCHANGED nest

LockStep(t) ==
  \/ CallLock(t) \/ LockWait(t) \/ TakeLock(t) \/ Unlock(t)
  \/ ShedLock(t)
  \/ CallReacquire(t) \/ ReacquireWait(t) \/ TakeBack(t)

LockNext == \E t \in Threads : LockStep(t)

LockSpec == LockInit /\ [][LockNext]_lockVars

-----------------------------------------------------------------------------
(* Types, for every value of the constants.                                 *)
LockTypeOK ==
  /\ owner \in Threads \union {NoThread}
  /\ depth \in Nat
  /\ handoffOwner \in Workers \union {NoThread}
  /\ waiting \in SUBSET Threads
  /\ call \in [Threads -> {"none", "lock", "reacquire"}]
  /\ shed \in [Threads -> Nat]
  /\ nest \in [Threads -> Nat]

(* The critical section a client opened with LockDisplay and has not closed *)
(* excludes every other worker's, also while it is lent to the main thread  *)
(* (display.c: "without a third thread slipping into the shedding worker's  *)
(* critical section").                                                      *)
SectionsExclusive ==
  \A v, w \in Workers : (nest[v] > 0 /\ nest[w] > 0) => v = w

(* The monitor agrees with the client about nesting: the owner's recursion  *)
(* depth, or the depth put aside during a handoff, is the number of unlocks *)
(* the client still owes (displayLockReacquire restores the shed depth; an  *)
(* over- or non-owner unlock changes nothing).                              *)
DepthIsLedger ==
  \A t \in Threads :
    nest[t] = IF owner = t THEN depth ELSE shed[t]

(* No missed signal: whoever sleeps on the condition variable really may    *)
(* not proceed, because every ownership or handoff change broadcasts.       *)
NoMissedSignal ==
  \A t \in waiting :
    \/ call[t] = "lock" /\ ~MayLock(t)
    \/ call[t] = "reacquire" /\ owner # NoThread

(* At most one handoff at a time: exactly the recorded handoff owner has    *)
(* lock depth put aside, and meanwhile only it or the main thread owns the  *)
(* lock.                                                                    *)
HandoffOwnerIsShedder ==
  /\ \A t \in Threads : (shed[t] > 0) <=> (handoffOwner = t)
  /\ handoffOwner # NoThread => owner \in {NoThread, Main}

(* Refinement: the monitor implements the critical sections of SectionLock. *)
(* A handoff keeps the section open while its owner is out of the lock.     *)
Sections ==
  INSTANCE SectionLock WITH
    section <- IF handoffOwner # NoThread THEN handoffOwner ELSE owner,
    inside <- owner

ImplementsSections == Sections!Spec

(* The inductive strengthening of the invariants above: also, a free lock   *)
(* has no depth, and a thread reacquires only what it has put aside.        *)
LockInv ==
  /\ LockTypeOK
  /\ (owner = NoThread) <=> (depth = 0)
  /\ DepthIsLedger
  /\ HandoffOwnerIsShedder
  /\ \A t \in Threads :
       /\ call[t] = "reacquire" => shed[t] > 0
       /\ call[t] = "lock" => shed[t] = 0
  /\ NoMissedSignal
=============================================================================
