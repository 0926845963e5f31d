------------------------ MODULE MainDispatch_proofs ------------------------
(***************************************************************************)
(* Proofs about the display lock, for any set of threads and any nesting    *)
(* depth: its invariants, and that it implements SectionLock.  And about     *)
(* the dispatcher for any number of threads, any drains and pushes that     *)
(* fail: it uses the display lock as that module allows, so what is proved  *)
(* of the lock holds under it; a command is in one place while its worker   *)
(* waits; a thunk runs inside its worker's lent section.                    *)
(***************************************************************************)
EXTENDS MainDispatch, SequenceTheorems, TLAPS

(* The main thread is not a worker, and NoThread is nobody.                 *)
LEMMA WorkersAreThreads ==
  /\ Workers \subseteq Threads
  /\ Main \notin Workers
  /\ NoThread \notin Workers
  BY ThreadsAssumption DEF Workers

(* The initial state satisfies the inductive invariant.                     *)
LEMMA LockInitInv == LockInit => LockInv
  BY ThreadsAssumption
  DEF LockInit, LockInv, LockTypeOK, DepthIsLedger, HandoffOwnerIsShedder,
      NoMissedSignal, Workers

(* Every pass through the monitor preserves it, one step per action.        *)
LEMMA LockStepInv ==
  ASSUME LockInv, NEW t \in Threads, LockStep(t)
  PROVE  LockInv'
<1> USE ThreadsAssumption
<1> USE DEF LockInv, LockTypeOK, DepthIsLedger, HandoffOwnerIsShedder,
            NoMissedSignal, MayLock, mayTakeFreeLock, Workers
<1>1. CASE CallLock(t)
  BY <1>1 DEF CallLock, Running
<1>2. CASE LockWait(t)
  BY <1>2 DEF LockWait, Sleep
<1>3. CASE TakeLock(t)
  <2>1. LockTypeOK'
    BY <1>3 DEF TakeLock
  <2>2. QED BY <2>1, <1>3 DEF TakeLock
<1>4. CASE Unlock(t)
  <2>1. LockTypeOK'
    BY <1>4 DEF Unlock, Broadcast
  <2>2. QED BY <2>1, <1>4 DEF Unlock, Broadcast, Running
<1>5. CASE ShedLock(t)
  BY <1>5 DEF ShedLock, Broadcast, Running
<1>6. CASE CallReacquire(t)
  BY <1>6 DEF CallReacquire
<1>7. CASE ReacquireWait(t)
  BY <1>7 DEF ReacquireWait, Sleep
<1>8. CASE TakeBack(t)
  BY <1>8 DEF TakeBack, restoredDepth, Broadcast
<1>9. QED
  BY <1>1, <1>2, <1>3, <1>4, <1>5, <1>6, <1>7, <1>8, LockStep(t) DEF LockStep

(* A step that leaves the monitor alone preserves it too.                   *)
LEMMA LockStutterInv ==
  ASSUME LockInv, UNCHANGED lockVars
  PROVE  LockInv'
  BY DEF lockVars, LockInv, LockTypeOK, DepthIsLedger, HandoffOwnerIsShedder,
         NoMissedSignal, MayLock, mayTakeFreeLock

(* The display lock keeps its inductive invariant (src/src/display.c, the   *)
(* whole monitor).                                                          *)
THEOREM LockInvariant == LockSpec => []LockInv
<1>1. LockInit => LockInv
  BY LockInitInv
<1>2. LockInv /\ [LockNext]_lockVars => LockInv'
  BY LockStepInv, LockStutterInv DEF LockNext
<1>3. QED BY <1>1, <1>2, PTL DEF LockSpec

(* The invariant rules out two open sections: a worker's positive ledger    *)
(* means it owns the lock or has lent it, and each excludes the other's.    *)
LEMMA LockInvExclusive == LockInv => SectionsExclusive
<1> SUFFICES ASSUME LockInv,
                    NEW v \in Workers, NEW w \in Workers,
                    nest[v] > 0, nest[w] > 0
             PROVE  v = w
  BY DEF SectionsExclusive
<1>1. ASSUME NEW x \in Workers, nest[x] > 0
      PROVE  owner = x \/ handoffOwner = x
  BY <1>1, WorkersAreThreads
  DEF LockInv, LockTypeOK, DepthIsLedger, HandoffOwnerIsShedder
<1>2. handoffOwner # NoThread => owner \in {NoThread, Main}
  BY DEF LockInv, HandoffOwnerIsShedder
<1>3. QED BY <1>1, <1>2, WorkersAreThreads

(* Values of the lock's fields stay in their types.                         *)
THEOREM LockTypeCorrect == LockSpec => []LockTypeOK
  BY LockInvariant, PTL DEF LockInv

(* No two workers' critical sections are ever open together, through        *)
(* handoffs of any nesting depth and any number of threads.                 *)
THEOREM LockSectionsExclusive == LockSpec => []SectionsExclusive
<1>1. LockInv => SectionsExclusive
  BY LockInvExclusive
<1>2. QED BY <1>1, LockInvariant, PTL

(* compatLockDisplay's depth always equals what the client still owes.      *)
THEOREM LockDepthIsLedger == LockSpec => []DepthIsLedger
  BY LockInvariant, PTL DEF LockInv

(* Every change that lets a sleeping thread proceed broadcasts.             *)
THEOREM LockNoMissedSignal == LockSpec => []NoMissedSignal
  BY LockInvariant, PTL DEF LockInv

-----------------------------------------------------------------------------
(* Each monitor step is a step of the abstract critical sections or leaves  *)
(* them alone.                                                              *)
LEMMA LockStepSections ==
  ASSUME LockInv, NEW t \in Threads, LockStep(t)
  PROVE  [Sections!Next]_<<IF handoffOwner # NoThread
                             THEN handoffOwner ELSE owner, owner>>
<1> USE ThreadsAssumption
<1> USE DEF LockInv, LockTypeOK, HandoffOwnerIsShedder, DepthIsLedger, Workers
<1>1. CASE CallLock(t)
  BY <1>1 DEF CallLock
<1>2. CASE LockWait(t)
  BY <1>2 DEF LockWait, Sleep
<1>3. CASE TakeLock(t)
  <2>1. CASE owner = t
    BY <1>3, <2>1 DEF TakeLock
  <2>2. CASE owner = NoThread /\ handoffOwner = NoThread
    <3>1. Sections!Open(t)
      BY <1>3, <2>2 DEF TakeLock, Sections!Open
    <3>2. QED BY <3>1 DEF Sections!Next
  <2>3. CASE owner = NoThread /\ handoffOwner # NoThread
    <3>1. t = Main
      BY <1>3, <2>3 DEF TakeLock, MayLock, mayTakeFreeLock
    <3>2. Sections!Visit
      BY <1>3, <2>3, <3>1 DEF TakeLock, Sections!Visit
    <3>3. QED BY <3>2 DEF Sections!Next
  <2>4. QED BY <1>3, <2>1, <2>2, <2>3 DEF TakeLock, MayLock
<1>4. CASE Unlock(t)
  <2>1. CASE depth # 1
    BY <1>4, <2>1 DEF Unlock
  <2>2. CASE depth = 1 /\ handoffOwner = NoThread
    <3>1. Sections!Close(t)
      BY <1>4, <2>2 DEF Unlock, Sections!Close
    <3>2. QED BY <3>1 DEF Sections!Next
  <2>3. CASE depth = 1 /\ handoffOwner # NoThread
    <3>1. Sections!Leave
      BY <1>4, <2>3 DEF Unlock, Sections!Leave
    <3>2. QED BY <3>1 DEF Sections!Next
  <2>4. QED BY <2>1, <2>2, <2>3
<1>5. CASE ShedLock(t)
  <2>1. handoffOwner = NoThread
    BY <1>5 DEF ShedLock
  <2>2. Sections!StepOut(t)
    BY <1>5, <2>1 DEF ShedLock, Sections!StepOut
  <2>3. QED BY <2>2 DEF Sections!Next
<1>6. CASE CallReacquire(t)
  BY <1>6 DEF CallReacquire
<1>7. CASE ReacquireWait(t)
  BY <1>7 DEF ReacquireWait, Sleep
<1>8. CASE TakeBack(t)
  <2>1. handoffOwner = t
    BY <1>8 DEF TakeBack
  <2>2. Sections!StepIn(t)
    BY <1>8, <2>1 DEF TakeBack, Sections!StepIn
  <2>3. QED BY <2>2 DEF Sections!Next
<1>9. QED
  BY <1>1, <1>2, <1>3, <1>4, <1>5, <1>6, <1>7, <1>8, LockStep(t) DEF LockStep

(* The display lock implements its clients' critical sections: a section    *)
(* stays its worker's through a handoff, and only the main thread visits.   *)
THEOREM LockImplementsSections == LockSpec => ImplementsSections
<1>1. LockInit => Sections!Init
  BY DEF LockInit, Sections!Init
<1>2. LockInv /\ [LockNext]_lockVars
        => [Sections!Next]_<<IF handoffOwner # NoThread
                               THEN handoffOwner ELSE owner, owner>>
  BY LockStepSections DEF LockNext, lockVars
<1>3. QED
  BY <1>1, <1>2, LockInvariant, PTL
  DEF LockSpec, ImplementsSections, Sections!Spec

-----------------------------------------------------------------------------
(* The dispatcher.                                                          *)

(* Every step of a worker is a step of the lock or leaves it alone.         *)
LEMMA WorkerStepsLock ==
  ASSUME NEW w \in Workers,
         \/ WorkerLocks(w) \/ runOnMainThread(w)
         \/ DrainOffMain(w) \/ WorkerStep(w)
  PROVE  [LockNext]_lockVars
<1>1. w \in Threads BY WorkersAreThreads
<1>2. SUFFICES ASSUME ~ UNCHANGED lockVars PROVE LockStep(w)
  BY <1>1 DEF LockNext
<1>3. CASE WorkerLocks(w) BY <1>3 DEF WorkerLocks, LockStep
<1>4. CASE runOnMainThread(w)
  BY <1>2, <1>4 DEF runOnMainThread, LockStep
<1>5. CASE DrainOffMain(w) BY <1>2, <1>5 DEF DrainOffMain
<1>6. CASE WorkerUnlocks(w) BY <1>6 DEF WorkerUnlocks, LockStep
<1>7. CASE Retake(w) BY <1>7 DEF Retake, LockStep
<1>8. CASE Push(w) \/ PushFails(w) \/ Wake(w) \/ WaitEnds(w) \/ Retaken(w)
  BY <1>2, <1>8 DEF Push, PushFails, Wake, WaitEnds, Retaken
<1>9. CASE Nudge(w) \/ Requeue(w) \/ RequeueWake(w) \/ RequeueFails(w)
  BY <1>2, <1>9 DEF Nudge, Requeue, RequeueWake, RequeueFails
<1> QED
  BY <1>3, <1>4, <1>5, <1>6, <1>7, <1>8, <1>9 DEF WorkerStep

(* So is every step of the main thread, in its loop, a drain or a thunk.    *)
LEMMA MainStepsLock ==
  ASSUME MainLocks \/ StartPending \/ MainStep
  PROVE  [LockNext]_lockVars
<1>1. Main \in Threads BY ThreadsAssumption
<1>2. SUFFICES ASSUME ~ UNCHANGED lockVars PROVE LockStep(Main)
  BY <1>1 DEF LockNext
<1>3. CASE MainLocks BY <1>3 DEF MainLocks, LockStep
<1>4. CASE MainUnlocks BY <1>4 DEF MainUnlocks, LockStep
<1>5. CASE StartPending \/ StartNext \/ RunDeferred \/ Take
  BY <1>2, <1>5 DEF StartPending, StartNext, RunDeferred, Take
<1>6. CASE PumpEnds BY <1>2, <1>6 DEF PumpEnds, LockStep
<1>7. CASE EndDrain BY <1>2, <1>7 DEF EndDrain, LockStep
<1>8. CASE Idle \/ HandleEvent \/ ThunkReturns \/ PollReturns
  BY <1>2, <1>8 DEF Idle, HandleEvent, ThunkReturns, PollReturns
<1> QED
  BY <1>3, <1>4, <1>5, <1>6, <1>7, <1>8 DEF MainStep

(* The dispatcher uses the lock as DisplayLock specifies it (runOnMainThread *)
(* sheds before it publishes and takes back on every path after that).      *)
THEOREM DispatchUsesLock == Spec => LockSpec
<1>1. Init => LockInit BY DEF Init
<1>2. [Next]_vars => [LockNext]_lockVars
  <2> SUFFICES ASSUME [Next]_vars PROVE [LockNext]_lockVars
    OBVIOUS
  <2>1. CASE \E w \in Workers : \/ WorkerLocks(w) \/ runOnMainThread(w)
                                \/ DrainOffMain(w) \/ WorkerStep(w)
    BY <2>1, WorkerStepsLock
  <2>2. CASE \E t \in Threads : MonitorStep(t)
    BY <2>2 DEF MonitorStep, LockNext, LockStep
  <2>3. CASE MainLocks \/ StartPending \/ MainStep
    BY <2>3, MainStepsLock
  <2>4. CASE TimerTick BY <2>4 DEF TimerTick
  <2>5. CASE UNCHANGED vars BY <2>5 DEF vars
  <2> QED BY <2>1, <2>2, <2>3, <2>4, <2>5 DEF Next
<1> QED BY <1>1, <1>2, PTL DEF Spec, LockSpec

(* Sections of two workers never overlap, also while one of them is blocked *)
(* in runOnMainThread with its lock lent to the main thread                 *)
(* (main-dispatch.c: "A third thread that calls XLockDisplay waits until    *)
(* the handoff completes").                                                 *)
THEOREM DispatchSectionsExclusive == Spec => []SectionsExclusive
BY DispatchUsesLock, LockSectionsExclusive, PTL

(* A worker's unlock count survives every handoff, also one whose push      *)
(* failed ("Reacquire on every path after this point").                     *)
THEOREM DispatchDepthIsLedger == Spec => []DepthIsLedger
BY DispatchUsesLock, LockDepthIsLedger, PTL

-----------------------------------------------------------------------------
(* Sequences without duplicates.                                            *)
Has(s, c) == \E i \in 1..Len(s) : s[i] = c
Injective(s) == \A i, j \in 1..Len(s) : s[i] = s[j] => i = j

(* An empty batch holds no command.                                         *)
LEMMA EmptyOnce == Injective(<<>>) /\ \A c : ~Has(<<>>, c)
  BY DEF Injective, Has

(* A command that a batch does not hold may be appended to it.              *)
LEMMA AppendOnce ==
  ASSUME NEW S, NEW s \in Seq(S), NEW e \in S, Injective(s), ~Has(s, e)
  PROVE  /\ Append(s, e) \in Seq(S) /\ Injective(Append(s, e))
         /\ \A c : Has(Append(s, e), c) <=> Has(s, c) \/ c = e
<1>1. /\ Append(s, e) \in Seq(S) /\ Len(Append(s, e)) = Len(s) + 1
      /\ \A i \in 1..Len(s) : Append(s, e)[i] = s[i]
      /\ Append(s, e)[Len(s) + 1] = e /\ Len(s) \in Nat
  OBVIOUS
<1>2. \A i \in 1..(Len(s) + 1) : i \in 1..Len(s) \/ i = Len(s) + 1
  BY <1>1
<1> QED BY <1>1, <1>2 DEF Has, Injective

(* Or put before it.                                                        *)
LEMMA ConsOnce ==
  ASSUME NEW S, NEW s \in Seq(S), NEW e \in S, Injective(s), ~Has(s, e)
  PROVE  /\ <<e>> \o s \in Seq(S) /\ Injective(<<e>> \o s)
         /\ \A c : Has(<<e>> \o s, c) <=> Has(s, c) \/ c = e
<1> DEFINE z == <<e>> \o s
<1>1. /\ z \in Seq(S) /\ Len(z) = Len(s) + 1 /\ z[1] = e /\ Len(s) \in Nat
      /\ \A i \in 1..Len(s) : z[i + 1] = s[i]
  <2>0. Len(<<e>>) = 1 /\ <<e>>[1] = e
    OBVIOUS
  <2>1. <<e>> \in Seq(S) /\ Len(s) \in Nat
    OBVIOUS
  <2>2. /\ z \in Seq(S) /\ Len(z) = 1 + Len(s)
        /\ \A i \in 1..(1 + Len(s)) : z[i] = IF i <= 1 THEN <<e>>[i] ELSE s[i - 1]
    BY <2>0, <2>1, ConcatProperties
  <2> QED BY <2>0, <2>1, <2>2
<1> HIDE DEF z
<1>2. \A i \in 1..Len(z) : i # 1 => /\ i - 1 \in 1..Len(s)
                                    /\ z[i] = s[i - 1]
  <2> SUFFICES ASSUME NEW i \in 1..Len(z), i # 1
               PROVE  i - 1 \in 1..Len(s) /\ z[i] = s[i - 1]
    OBVIOUS
  <2>1. i - 1 \in 1..Len(s) /\ (i - 1) + 1 = i
    BY <1>1
  <2> QED BY <1>1, <2>1
<1>3. Injective(z)
  <2> SUFFICES ASSUME NEW i \in 1..Len(z), NEW j \in 1..Len(z), z[i] = z[j]
               PROVE  i = j
    BY DEF Injective
  <2>1. CASE i # 1 /\ j # 1
    <3>1. i - 1 = j - 1
      BY <1>2, <2>1 DEF Injective
    <3> QED BY <1>1, <3>1
  <2>2. CASE i = 1 \/ j = 1
    BY ZenonT(60), <1>1, <1>2, <2>2 DEF Has
  <2> QED BY <2>1, <2>2
<1>4. ASSUME NEW c PROVE Has(z, c) <=> Has(s, c) \/ c = e
  <2>1. ASSUME Has(s, c) PROVE Has(z, c)
    <3>1. PICK i \in 1..Len(s) : s[i] = c
      BY <2>1 DEF Has
    <3>2. i + 1 \in 1..Len(z) /\ z[i + 1] = c
      BY <1>1, <3>1
    <3> QED BY <3>2 DEF Has
  <2>2. 1 \in 1..Len(z)
    BY <1>1
  <2> QED BY ZenonT(60), <1>1, <1>2, <2>1, <2>2 DEF Has
<1> QED BY <1>1, <1>3, <1>4 DEF z

(* The rest of a batch holds all but its first.                             *)
LEMMA TailOnce ==
  ASSUME NEW S, NEW s \in Seq(S), s # <<>>, Injective(s)
  PROVE  /\ Head(s) \in S /\ Tail(s) \in Seq(S) /\ Injective(Tail(s))
         /\ Has(s, Head(s))
         /\ \A c : Has(Tail(s), c) <=> Has(s, c) /\ c # Head(s)
<1>1. /\ Head(s) = s[1] /\ Head(s) \in S /\ Tail(s) \in Seq(S)
      /\ Len(Tail(s)) = Len(s) - 1 /\ Len(s) \in Nat \ {0}
      /\ \A i \in 1..Len(Tail(s)) : Tail(s)[i] = s[i + 1]
  BY HeadTailProperties, EmptySeq
<1>2. \A i \in 1..Len(Tail(s)) : i + 1 \in 1..Len(s) /\ i + 1 # 1
  BY <1>1
<1>3. \A i \in 1..Len(s) : i # 1 => /\ i - 1 \in 1..Len(Tail(s))
                                    /\ Tail(s)[i - 1] = s[i]
  <2> SUFFICES ASSUME NEW i \in 1..Len(s), i # 1
               PROVE  i - 1 \in 1..Len(Tail(s)) /\ Tail(s)[i - 1] = s[i]
    OBVIOUS
  <2>1. i - 1 \in 1..Len(Tail(s)) /\ (i - 1) + 1 = i
    BY <1>1
  <2> QED BY <1>1, <2>1
<1>4. 1 \in 1..Len(s)
  BY <1>1
<1>5. Injective(Tail(s))
  BY <1>1, <1>2 DEF Injective
<1>6. \A c : Has(Tail(s), c) <=> Has(s, c) /\ c # Head(s)
  BY <1>1, <1>2, <1>3, <1>4 DEF Injective, Has
<1> QED BY <1>1, <1>4, <1>5, <1>6 DEF Has

(* A batch cut in two holds each command in one half.                       *)
LEMMA SplitOnce ==
  ASSUME NEW S, NEW s \in Seq(S), Injective(s), NEW n \in 0..Len(s)
  PROVE  /\ SubSeq(s, 1, n) \in Seq(S) /\ SubSeq(s, n + 1, Len(s)) \in Seq(S)
         /\ Injective(SubSeq(s, 1, n)) /\ Injective(SubSeq(s, n + 1, Len(s)))
         /\ \A c : Has(s, c) <=> Has(SubSeq(s, 1, n), c)
                                   \/ Has(SubSeq(s, n + 1, Len(s)), c)
         /\ \A c : ~(Has(SubSeq(s, 1, n), c) /\ Has(SubSeq(s, n + 1, Len(s)), c))
<1> DEFINE a == SubSeq(s, 1, n)
           b == SubSeq(s, n + 1, Len(s))
<1>1. /\ a \in Seq(S) /\ Len(a) = n
      /\ \A i \in 1..n : a[i] = s[i]
  <2>1. \A i \in 1..n : s[i] \in S
    BY ElementOfSeq
  <2>2. /\ a \in Seq(S) /\ Len(a) = (IF 1 <= n THEN n - 1 + 1 ELSE 0)
        /\ \A i \in 1..(n - 1 + 1) : a[i] = s[1 + i - 1]
    BY <2>1, SubSeqProperties
  <2> QED BY <2>2
<1>2. /\ b \in Seq(S) /\ Len(b) = Len(s) - n
      /\ \A i \in 1..(Len(s) - n) : b[i] = s[n + i]
  <2>1. \A i \in (n + 1)..Len(s) : s[i] \in S
    BY ElementOfSeq
  <2>2. /\ b \in Seq(S)
        /\ Len(b) = (IF n + 1 <= Len(s) THEN Len(s) - (n + 1) + 1 ELSE 0)
        /\ \A i \in 1..(Len(s) - (n + 1) + 1) : b[i] = s[(n + 1) + i - 1]
    BY <2>1, SubSeqProperties
  <2> QED BY <2>2
<1> HIDE DEF a, b
<1>3. Len(s) \in Nat
  OBVIOUS
<1>4. Injective(a)
  BY <1>1, <1>3 DEF Injective
<1>5. Injective(b)
  <2>1. \A i \in 1..(Len(s) - n) : n + i \in 1..Len(s)
    BY <1>3
  <2> QED BY <1>2, <1>3, <2>1 DEF Injective
<1>6. ASSUME NEW c, Has(s, c) PROVE Has(a, c) \/ Has(b, c)
  <2>1. PICK i \in 1..Len(s) : s[i] = c
    BY <1>6 DEF Has
  <2>2. CASE i <= n
    BY <1>1, <1>3, <2>1, <2>2 DEF Has
  <2>3. CASE i > n
    <3>1. i - n \in 1..(Len(s) - n) /\ n + (i - n) = i
      BY <1>3, <2>3
    <3> QED BY <1>2, <2>1, <3>1 DEF Has
  <2> QED BY <2>2, <2>3
<1>7. ASSUME NEW c, Has(a, c) PROVE Has(s, c)
  BY <1>1, <1>3, <1>7 DEF Has
<1>8. ASSUME NEW c, Has(b, c) PROVE Has(s, c)
  <2>1. PICK i \in 1..(Len(s) - n) : b[i] = c
    BY <1>2, <1>8 DEF Has
  <2>2. n + i \in 1..Len(s) /\ s[n + i] = c
    BY <1>2, <1>3, <2>1
  <2> QED BY <2>2 DEF Has
<1>9. ASSUME NEW c, Has(a, c), Has(b, c) PROVE FALSE
  <2>1. PICK i \in 1..n : s[i] = c
    BY <1>1, <1>9 DEF Has
  <2>2. PICK j \in 1..(Len(s) - n) : s[n + j] = c
    BY <1>2, <1>9 DEF Has
  <2>3. i \in 1..Len(s) /\ n + j \in 1..Len(s) /\ i # n + j
    BY <1>3
  <2> QED BY <2>1, <2>2, <2>3 DEF Injective
<1> QED BY <1>1, <1>2, <1>4, <1>5, <1>6, <1>7, <1>8, <1>9 DEF a, b

-----------------------------------------------------------------------------
(* Where a command may be.                                                  *)
Waiting(w) == pc[w] \in {"wake", "wait"} /\ ~done[w]
Queued(c) == Has(sdlQueue, c)
Parked(c) == Has(deferredCmds, c)
Taken(c) == \E f \in 1..Len(frames) : Has(frames[f].batch, c)
Started(c) == \E f \in 1..Len(frames) : frames[f].cmd = c
Carried(c) == \E w \in Workers : carry[w] = c

(* No place holds a command twice, no two places hold the same one, and     *)
(* some place holds a command as long as its worker waits for it.           *)
FramesOnce ==
  /\ \A f \in 1..Len(frames) : Injective(frames[f].batch)
  /\ \A f, g \in 1..Len(frames) : \A c \in Workers :
       Has(frames[f].batch, c) /\ Has(frames[g].batch, c) => f = g
  /\ \A f, g \in 1..Len(frames) :
       frames[f].cmd \in Workers /\ frames[f].cmd = frames[g].cmd => f = g

OncePerPlace ==
  /\ Injective(sdlQueue) /\ Injective(deferredCmds)
  /\ FramesOnce
  /\ \A v, w \in Workers : carry[v] \in Workers /\ carry[v] = carry[w] => v = w

Apart(c) ==
  /\ Queued(c) => ~Parked(c) /\ ~Taken(c) /\ ~Started(c) /\ ~Carried(c)
  /\ Parked(c) => ~Taken(c) /\ ~Started(c) /\ ~Carried(c)
  /\ Taken(c) => ~Started(c) /\ ~Carried(c)
  /\ Started(c) => ~Carried(c)
  /\ Waiting(c) <=> Queued(c) \/ Parked(c) \/ Taken(c) \/ Started(c) \/ Carried(c)

HeldInv == OncePerPlace /\ \A c \in Workers : Apart(c)

(* A drain holds events only while it handles them, and takes the lock only  *)
(* in XPending; a worker holds a command only while it carries it.          *)
FrameOK(f) ==
  /\ f.stage # "events" => f.batch = <<>>
  /\ f.stage = "locked" => f.kind = "drain"

ControlInv ==
  /\ \A f \in 1..Len(frames) : FrameOK(frames[f])
  /\ \A w \in Workers : /\ carry[w] # NoCmd <=> pc[w] = "carry"
                        /\ pc[w] = "push" => ~done[w]

(* A worker in a routed call is in no monitor call, and has put its lock    *)
(* aside if the command says so.                                            *)
HandoffInv ==
  \A w \in Workers : pc[w] \in {"push", "wake", "wait"} =>
    call[w] = "none" /\ (lockHandoff[w] => shed[w] > 0)

DispatchInv ==
  LockInv /\ TypeOK /\ ControlInv /\ HandoffInv /\ HeldInv

(* A thread's pass through the monitor moves no other thread.               *)
LEMMA OthersUnmoved ==
  ASSUME LockInv, NEW t \in Threads, LockStep(t) \/ UNCHANGED lockVars
  PROVE  \A u \in Threads : u # t => call'[u] = call[u] /\ shed'[u] = shed[u]
BY DEF LockInv, LockTypeOK, lockVars, LockStep, CallLock, LockWait, TakeLock, Unlock,
       ShedLock, CallReacquire, ReacquireWait, TakeBack, Sleep

(* The invariant holds at the start.                                        *)
LEMMA DispatchInitInv == Init => DispatchInv
<1> SUFFICES ASSUME Init PROVE DispatchInv
  OBVIOUS
<1> USE DEF Init
<1>1. LockInv
  BY LockInitInv
<1>2. TypeOK
  <2>1. /\ sdlQueue \in Seq(Workers) /\ deferredCmds \in Seq(Workers)
        /\ frames \in Seq(Frames) /\ Len(frames) <= MaxNest
    BY DispatchAssumption
  <2>2. /\ left \in [Threads -> Nat] /\ failures \in 0..MaxFailures
        /\ mainAt \in {"loop", "poll"}
    BY DispatchAssumption
  <2>3. /\ lockHandoff \in [Workers -> BOOLEAN] /\ done \in [Workers -> BOOLEAN]
    OBVIOUS
  <2>4. /\ pc \in [Workers -> {"run", "push", "wake", "wait", "retake", "dropped",
                               "nudge", "carry", "requeued"}]
        /\ carry \in [Workers -> Workers \union {NoCmd}]
    OBVIOUS
  <2> QED BY <1>1, <2>1, <2>2, <2>3, <2>4 DEF TypeOK, LockInv
<1>3. Len(frames) = 0
  OBVIOUS
<1>4. ControlInv /\ HandoffInv
  BY <1>3 DEF ControlInv, FrameOK, HandoffInv
<1>5. OncePerPlace
  BY <1>3, EmptyOnce, WorkersAreThreads DEF OncePerPlace, FramesOnce, NoCmd
<1>6. \A c \in Workers : Apart(c)
  BY <1>3, EmptyOnce, WorkersAreThreads
  DEF Apart, Waiting, Queued, Parked, Taken, Started, Carried, NoCmd
<1> QED BY <1>1, <1>2, <1>4, <1>5, <1>6 DEF DispatchInv, HeldInv

-----------------------------------------------------------------------------
(* Steps that change only the lock, the pipe or the client's budget.        *)
LEMMA MonitorInv ==
  ASSUME DispatchInv, NEW t \in Threads, LockStep(t) \/ UNCHANGED lockVars,
         t \in Workers /\ pc[t] \in {"push", "wake", "wait"} =>
           call'[t] = call[t] /\ shed'[t] = shed[t],
         UNCHANGED <<sdlQueue, deferredCmds, pc, lockHandoff, done, carry, frames,
                     failures>>,
         left' \in [Threads -> Nat], mainAt' \in {"loop", "poll"}
  PROVE  DispatchInv'
<1>1. LockInv'
  BY LockStepInv, LockStutterInv DEF DispatchInv
<1>2. TypeOK'
  BY <1>1 DEF DispatchInv, TypeOK, LockInv
<1>3. ControlInv'
  BY DEF DispatchInv, ControlInv, FrameOK
<1>4. HandoffInv'
  BY OthersUnmoved, WorkersAreThreads DEF DispatchInv, HandoffInv
<1>5. HeldInv'
  BY DEF DispatchInv, HeldInv, OncePerPlace, FramesOnce, Apart, Waiting, Queued, Parked, Taken,
         Started, Carried
<1> QED BY <1>1, <1>2, <1>3, <1>4, <1>5 DEF DispatchInv

(* Steps of a worker's call that hold no command before or after.           *)
LEMMA CallStepInv ==
  ASSUME DispatchInv, NEW w \in Workers, [LockNext]_lockVars,
         NEW at \in {"run", "push", "wait", "retake", "dropped", "nudge"},
         pc' = [pc EXCEPT ![w] = at],
         pc[w] # "carry",
         NEW h \in BOOLEAN, lockHandoff' = [lockHandoff EXCEPT ![w] = h],
         NEW d \in BOOLEAN, done' = [done EXCEPT ![w] = d],
         at = "push" => ~d,
         Waiting(w) <=> at = "wait" /\ ~d,
         at \in {"push", "wait"} => call'[w] = "none" /\ (h => shed'[w] > 0),
         \A u \in Workers : u # w => call'[u] = call[u] /\ shed'[u] = shed[u],
         UNCHANGED <<sdlQueue, deferredCmds, carry, frames, mainAt>>,
         left' \in [Threads -> Nat], failures' \in 0..MaxFailures
  PROVE  DispatchInv'
<1>0. TypeOK /\ LockInv /\ ControlInv /\ HandoffInv /\ HeldInv
  BY DEF DispatchInv
<1>1. LockInv'
  BY <1>0, LockStepInv, LockStutterInv DEF LockNext
<1>2. /\ pc' \in [Workers -> {"run", "push", "wake", "wait", "retake", "dropped",
                              "nudge", "carry", "requeued"}]
      /\ \A u \in Workers : pc'[u] = IF u = w THEN at ELSE pc[u]
  BY <1>0 DEF TypeOK
<1>3. /\ lockHandoff' \in [Workers -> BOOLEAN]
      /\ \A u \in Workers : lockHandoff'[u] = IF u = w THEN h ELSE lockHandoff[u]
  BY <1>0 DEF TypeOK
<1>4. /\ done' \in [Workers -> BOOLEAN]
      /\ \A u \in Workers : done'[u] = IF u = w THEN d ELSE done[u]
  BY <1>0 DEF TypeOK
<1>5. TypeOK'
  BY <1>0, <1>1, <1>2, <1>3, <1>4 DEF TypeOK, LockInv
<1>6. ControlInv'
  <2>1. \A u \in Workers : (carry'[u] # NoCmd) <=> (pc'[u] = "carry")
    BY <1>0, <1>2 DEF ControlInv, FrameOK
  <2>2. \A u \in Workers : pc'[u] = "push" => ~done'[u]
    BY <1>0, <1>2, <1>4 DEF ControlInv, FrameOK
  <2> QED BY <1>0, <2>1, <2>2 DEF ControlInv, FrameOK
<1>7. HandoffInv'
  BY <1>0, <1>2, <1>3 DEF HandoffInv
<1>8. HeldInv'
  <2>1. \A c \in Workers : Waiting(c)' <=> Waiting(c)
    BY <1>2, <1>4 DEF Waiting
  <2>2. \A c \in Workers : Apart(c)'
    BY <1>0, <2>1 DEF HeldInv, Apart, Queued, Parked, Taken, Started, Carried
  <2> QED BY <1>0, <2>2 DEF HeldInv, OncePerPlace, FramesOnce
<1> QED BY <1>1, <1>5, <1>6, <1>7, <1>8 DEF DispatchInv
-----------------------------------------------------------------------------
(* Steps that move a command of a worker.                                   *)
LEMMA WorkerFacts ==
  ASSUME DispatchInv, [LockNext]_lockVars
  PROVE  /\ TypeOK /\ LockInv /\ ControlInv /\ HandoffInv /\ HeldInv /\ OncePerPlace
         /\ \A c \in Workers : Apart(c)
         /\ LockInv' /\ LockTypeOK'
         /\ Main \notin Workers /\ NoCmd \notin Workers
BY LockStepInv, LockStutterInv, WorkersAreThreads
DEF DispatchInv, HeldInv, LockNext, LockInv, NoCmd

(* A worker pushes its command on the SDL queue.                            *)
LEMMA PushInv ==
  ASSUME DispatchInv, NEW w \in Workers, Push(w)
  PROVE  DispatchInv'
<1>0. /\ TypeOK /\ ControlInv /\ HandoffInv /\ OncePerPlace
      /\ \A c \in Workers : Apart(c)
      /\ LockInv' /\ LockTypeOK'
      /\ UNCHANGED <<call, shed, deferredCmds, lockHandoff, done, carry, frames,
                     mainAt, left, failures>>
      /\ pc' = [pc EXCEPT ![w] = "wake"] /\ pc[w] = "push"
      /\ sdlQueue' = Append(sdlQueue, w)
  BY WorkerFacts DEF Push, lockVars
<1>1. ~done[w] /\ ~Waiting(w)
  BY <1>0 DEF ControlInv, FrameOK, Waiting
<1>2. ~Queued(w) /\ ~Parked(w) /\ ~Taken(w) /\ ~Started(w) /\ ~Carried(w)
  BY <1>0, <1>1 DEF Apart
<1>3. /\ sdlQueue' \in Seq(Workers) /\ Injective(sdlQueue')
      /\ \A c : Has(sdlQueue', c) <=> Has(sdlQueue, c) \/ c = w
  BY <1>0, <1>2, AppendOnce DEF TypeOK, Queued, OncePerPlace, FramesOnce
<1>4. /\ pc' \in [Workers -> {"run", "push", "wake", "wait", "retake", "dropped",
                              "nudge", "carry", "requeued"}]
      /\ \A u \in Workers : pc'[u] = IF u = w THEN "wake" ELSE pc[u]
  BY <1>0 DEF TypeOK
<1>5. TypeOK'
  BY <1>0, <1>3, <1>4 DEF TypeOK
<1>6. ControlInv' /\ HandoffInv'
  BY <1>0, <1>4 DEF ControlInv, FrameOK, HandoffInv
<1>7. OncePerPlace'
  BY <1>0, <1>3 DEF OncePerPlace, FramesOnce
<1>8. ASSUME NEW c \in Workers PROVE Apart(c)'
  <2>1. /\ Queued(c)' <=> Queued(c) \/ c = w
        /\ Waiting(c)' <=> Waiting(c) \/ c = w
    BY <1>0, <1>1, <1>3, <1>4 DEF Queued, Waiting
  <2>2. /\ Parked(c)' <=> Parked(c)
        /\ Taken(c)' <=> Taken(c)
        /\ Started(c)' <=> Started(c)
        /\ Carried(c)' <=> Carried(c)
    BY <1>0 DEF Parked, Taken, Started, Carried
  <2> QED BY <1>0, <1>1, <1>2, <2>1, <2>2 DEF Apart
<1> QED BY <1>0, <1>5, <1>6, <1>7, <1>8 DEF DispatchInv, HeldInv

(* A drain by another worker: the head of the queue is carried by it.       *)
LEMMA DrainOffMainInv ==
  ASSUME DispatchInv, NEW w \in Workers, DrainOffMain(w)
  PROVE  DispatchInv'
<1> SUFFICES ASSUME NEW x, x = Head(sdlQueue) PROVE DispatchInv'
  OBVIOUS
<1>l. [LockNext]_lockVars /\ left' \in [Threads -> Nat]
  BY WorkersAreThreads DEF DrainOffMain, Spend, DispatchInv, TypeOK
<1>0. /\ TypeOK /\ ControlInv /\ HandoffInv /\ OncePerPlace
      /\ \A c \in Workers : Apart(c)
      /\ LockInv' /\ LockTypeOK' /\ NoCmd \notin Workers
      /\ UNCHANGED <<call, shed, deferredCmds, lockHandoff, done, frames, mainAt,
                     failures>>
      /\ pc' = [pc EXCEPT ![w] = "carry"] /\ pc[w] = "run"
      /\ carry' = [carry EXCEPT ![w] = x]
      /\ sdlQueue' = Tail(sdlQueue) /\ sdlQueue # <<>>
      /\ left' \in [Threads -> Nat]
  BY <1>l, WorkerFacts DEF DrainOffMain, lockVars, InClient
<1>1. /\ x \in Workers /\ sdlQueue' \in Seq(Workers) /\ Injective(sdlQueue')
      /\ Has(sdlQueue, x)
      /\ \A c : Has(sdlQueue', c) <=> Has(sdlQueue, c) /\ c # x
  BY <1>0, TailOnce DEF TypeOK, OncePerPlace, FramesOnce
<1>2. /\ pc' \in [Workers -> {"run", "push", "wake", "wait", "retake", "dropped",
                              "nudge", "carry", "requeued"}]
      /\ \A u \in Workers : pc'[u] = IF u = w THEN "carry" ELSE pc[u]
  BY <1>0 DEF TypeOK
<1>3. /\ carry' \in [Workers -> Workers \union {NoCmd}]
      /\ \A u \in Workers : carry'[u] = IF u = w THEN x ELSE carry[u]
      /\ carry[w] = NoCmd
  BY <1>0, <1>1 DEF TypeOK, ControlInv, FrameOK
<1>4. ~Parked(x) /\ ~Taken(x) /\ ~Started(x) /\ ~Carried(x)
  BY <1>0, <1>1 DEF Apart, Queued
<1>5. TypeOK'
  BY <1>0, <1>1, <1>2, <1>3 DEF TypeOK
<1>6. ControlInv' /\ HandoffInv'
  BY <1>0, <1>1, <1>2, <1>3 DEF ControlInv, FrameOK, HandoffInv
<1>7. OncePerPlace'
  <2>1. \A u, v \in Workers : carry'[u] \in Workers /\ carry'[u] = carry'[v] => u = v
    BY <1>0, <1>3, <1>4 DEF OncePerPlace, FramesOnce, Carried
  <2> QED BY <1>0, <1>1, <2>1 DEF OncePerPlace, FramesOnce
<1>8. ASSUME NEW c \in Workers PROVE Apart(c)'
  <2>1. /\ Queued(c)' <=> Queued(c) /\ c # x
        /\ Waiting(c)' <=> Waiting(c)
    BY <1>0, <1>1, <1>2 DEF Queued, Waiting
  <2>2. Carried(c)' <=> Carried(c) \/ c = x
    BY <1>0, <1>3 DEF Carried
  <2>3. /\ Parked(c)' <=> Parked(c)
        /\ Taken(c)' <=> Taken(c)
        /\ Started(c)' <=> Started(c)
    BY <1>0 DEF Parked, Taken, Started
  <2>4. Queued(x)
    BY <1>1 DEF Queued
  <2> QED BY <1>0, <1>1, <1>4, <2>1, <2>2, <2>3, <2>4 DEF Apart
<1> QED BY <1>0, <1>5, <1>6, <1>7, <1>8 DEF DispatchInv, HeldInv

(* A worker that filtered the queue puts a command back.                    *)
LEMMA RequeueInv ==
  ASSUME DispatchInv, NEW w \in Workers, Requeue(w)
  PROVE  DispatchInv'
<1> SUFFICES ASSUME NEW x, x = carry[w] PROVE DispatchInv'
  OBVIOUS
<1>0. /\ TypeOK /\ ControlInv /\ HandoffInv /\ OncePerPlace
      /\ \A c \in Workers : Apart(c)
      /\ LockInv' /\ LockTypeOK' /\ NoCmd \notin Workers
      /\ UNCHANGED <<call, shed, deferredCmds, lockHandoff, done, frames, mainAt,
                     left, failures>>
      /\ pc' = [pc EXCEPT ![w] = "requeued"] /\ pc[w] = "carry"
      /\ carry' = [carry EXCEPT ![w] = NoCmd]
      /\ sdlQueue' = Append(sdlQueue, x)
  BY WorkerFacts DEF Requeue, lockVars
<1>1. x \in Workers /\ Carried(x)
  BY <1>0 DEF TypeOK, ControlInv, FrameOK, Carried
<1>2. ~Queued(x) /\ ~Parked(x) /\ ~Taken(x) /\ ~Started(x)
  BY <1>0, <1>1 DEF Apart
<1>3. /\ sdlQueue' \in Seq(Workers) /\ Injective(sdlQueue')
      /\ \A c : Has(sdlQueue', c) <=> Has(sdlQueue, c) \/ c = x
  BY <1>0, <1>1, <1>2, AppendOnce DEF TypeOK, OncePerPlace, FramesOnce, Queued
<1>4. /\ pc' \in [Workers -> {"run", "push", "wake", "wait", "retake", "dropped",
                              "nudge", "carry", "requeued"}]
      /\ \A u \in Workers : pc'[u] = IF u = w THEN "requeued" ELSE pc[u]
  BY <1>0 DEF TypeOK
<1>5. /\ carry' \in [Workers -> Workers \union {NoCmd}]
      /\ \A u \in Workers : carry'[u] = IF u = w THEN NoCmd ELSE carry[u]
  BY <1>0 DEF TypeOK
<1>6. TypeOK'
  BY <1>0, <1>3, <1>4, <1>5 DEF TypeOK
<1>7. ControlInv' /\ HandoffInv'
  BY <1>0, <1>4, <1>5 DEF ControlInv, FrameOK, HandoffInv
<1>8. OncePerPlace'
  <2>1. \A u, v \in Workers : carry'[u] \in Workers /\ carry'[u] = carry'[v] => u = v
    BY <1>0, <1>5 DEF OncePerPlace, FramesOnce
  <2> QED BY <1>0, <1>3, <2>1 DEF OncePerPlace, FramesOnce
<1>9. ASSUME NEW c \in Workers PROVE Apart(c)'
  <2>1. /\ Queued(c)' <=> Queued(c) \/ c = x
        /\ Waiting(c)' <=> Waiting(c)
    BY <1>0, <1>3, <1>4 DEF Queued, Waiting
  <2>2. Carried(c)' <=> Carried(c) /\ c # x
    BY <1>0, <1>1, <1>5 DEF Carried, OncePerPlace, FramesOnce
  <2>3. /\ Parked(c)' <=> Parked(c)
        /\ Taken(c)' <=> Taken(c)
        /\ Started(c)' <=> Started(c)
    BY <1>0 DEF Parked, Taken, Started
  <2> QED BY <1>0, <1>1, <1>2, <2>1, <2>2, <2>3 DEF Apart
<1> QED BY <1>0, <1>6, <1>7, <1>8, <1>9 DEF DispatchInv, HeldInv

(* The command whose re-queue failed is completed where it is.              *)
LEMMA RequeueFailsInv ==
  ASSUME DispatchInv, NEW w \in Workers, RequeueFails(w)
  PROVE  DispatchInv'
<1> SUFFICES ASSUME NEW x, x = carry[w] PROVE DispatchInv'
  OBVIOUS
<1>0. /\ TypeOK /\ ControlInv /\ HandoffInv /\ OncePerPlace
      /\ \A c \in Workers : Apart(c)
      /\ LockInv' /\ LockTypeOK' /\ NoCmd \notin Workers
      /\ UNCHANGED <<call, shed, sdlQueue, deferredCmds, lockHandoff, frames, mainAt,
                     left>>
      /\ pc' = [pc EXCEPT ![w] = "run"] /\ pc[w] = "carry"
      /\ carry' = [carry EXCEPT ![w] = NoCmd]
      /\ done' = [done EXCEPT ![x] = TRUE]
      /\ failures' \in 0..MaxFailures
  BY WorkerFacts, DispatchAssumption
  DEF RequeueFails, mainDispatchDropCmd, completeCmd, lockVars, TypeOK
<1>1. x \in Workers /\ Carried(x)
  BY <1>0 DEF TypeOK, ControlInv, FrameOK, Carried
<1>2. ~Queued(x) /\ ~Parked(x) /\ ~Taken(x) /\ ~Started(x) /\ Waiting(x)
  BY <1>0, <1>1 DEF Apart
<1>3. /\ pc' \in [Workers -> {"run", "push", "wake", "wait", "retake", "dropped",
                              "nudge", "carry", "requeued"}]
      /\ \A u \in Workers : pc'[u] = IF u = w THEN "run" ELSE pc[u]
  BY <1>0 DEF TypeOK
<1>4. /\ carry' \in [Workers -> Workers \union {NoCmd}]
      /\ \A u \in Workers : carry'[u] = IF u = w THEN NoCmd ELSE carry[u]
  BY <1>0 DEF TypeOK
<1>5. /\ done' \in [Workers -> BOOLEAN]
      /\ \A u \in Workers : done'[u] = IF u = x THEN TRUE ELSE done[u]
  BY <1>0, <1>1 DEF TypeOK
<1>6. TypeOK'
  BY <1>0, <1>3, <1>4, <1>5 DEF TypeOK
<1>7. ControlInv' /\ HandoffInv'
  BY <1>0, <1>2, <1>3, <1>4, <1>5 DEF ControlInv, FrameOK, HandoffInv, Waiting
<1>8. OncePerPlace'
  <2>1. \A u, v \in Workers : carry'[u] \in Workers /\ carry'[u] = carry'[v] => u = v
    BY <1>0, <1>4 DEF OncePerPlace, FramesOnce
  <2> QED BY <1>0, <2>1 DEF OncePerPlace, FramesOnce
<1>9. ASSUME NEW c \in Workers PROVE Apart(c)'
  <2>1. Waiting(c)' <=> Waiting(c) /\ c # x
    BY <1>0, <1>3, <1>5 DEF Waiting
  <2>2. Carried(c)' <=> Carried(c) /\ c # x
    BY <1>0, <1>1, <1>4 DEF Carried, OncePerPlace, FramesOnce
  <2>3. /\ Queued(c)' <=> Queued(c)
        /\ Parked(c)' <=> Parked(c)
        /\ Taken(c)' <=> Taken(c)
        /\ Started(c)' <=> Started(c)
    BY <1>0 DEF Queued, Parked, Taken, Started
  <2> QED BY <1>0, <1>1, <1>2, <2>1, <2>2, <2>3 DEF Apart
<1> QED BY <1>0, <1>6, <1>7, <1>8, <1>9 DEF DispatchInv, HeldInv

(* A worker's routed call, from its entry to the nudge.                     *)
LEMMA RouteInv ==
  ASSUME DispatchInv, NEW w \in Workers, runOnMainThread(w)
  PROVE  DispatchInv'
<1>1. /\ w \in Threads /\ pc[w] = "run" /\ call[w] = "none"
      /\ left' \in [Threads -> Nat] /\ failures' \in 0..MaxFailures
  BY WorkersAreThreads
  DEF runOnMainThread, InClient, Running, Spend, DispatchInv, TypeOK
<1>2. LockStep(w) \/ UNCHANGED lockVars
  BY DEF runOnMainThread, LockStep
<1>3. [LockNext]_lockVars
  BY <1>1, <1>2 DEF LockNext
<1>4. \A u \in Workers : u # w => call'[u] = call[u] /\ shed'[u] = shed[u]
  BY <1>1, <1>2, OthersUnmoved, WorkersAreThreads DEF DispatchInv
<1>5. call'[w] = "none" /\ (owner = w => shed'[w] > 0)
  BY <1>1, ThreadsAssumption
  DEF runOnMainThread, ShedLock, lockVars, DispatchInv, LockInv, LockTypeOK
<1>6. /\ lockHandoff' = [lockHandoff EXCEPT ![w] = (owner = w)]
      /\ done' = [done EXCEPT ![w] = FALSE]
      /\ pc' = [pc EXCEPT ![w] = "push"]
      /\ UNCHANGED <<sdlQueue, deferredCmds, carry, frames, mainAt>>
  BY DEF runOnMainThread
<1>7. ~Waiting(w)
  BY <1>1 DEF Waiting
<1>8. SUFFICES ASSUME NEW h \in BOOLEAN, h = (owner = w) PROVE DispatchInv'
  OBVIOUS
<1>9. lockHandoff' = [lockHandoff EXCEPT ![w] = h] /\ (h => shed'[w] > 0)
  BY <1>5, <1>6, <1>8
<1> QED BY <1>1, <1>3, <1>4, <1>5, <1>6, <1>7, <1>9, CallStepInv

(* The steps of the call that move its worker's control only.               *)
LEMMA ControlStepInv ==
  ASSUME DispatchInv, NEW w \in Workers,
         NEW at \in {"run", "wait", "retake", "dropped", "nudge"},
         pc' = [pc EXCEPT ![w] = at],
         pc[w] # "carry",
         Waiting(w) <=> at = "wait" /\ ~done[w],
         at = "wait" => pc[w] = "wake",
         UNCHANGED <<lockVars, sdlQueue, deferredCmds, lockHandoff, done, carry,
                     frames, mainAt, left>>,
         failures' \in 0..MaxFailures
  PROVE  DispatchInv'
<1>1. /\ TypeOK /\ HandoffInv
      /\ UNCHANGED <<call, shed>> /\ [LockNext]_lockVars
  BY DEF DispatchInv, lockVars
<1>2. /\ lockHandoff' = [lockHandoff EXCEPT ![w] = lockHandoff[w]]
      /\ done' = [done EXCEPT ![w] = done[w]]
      /\ lockHandoff[w] \in BOOLEAN /\ done[w] \in BOOLEAN
      /\ left' \in [Threads -> Nat]
  BY <1>1 DEF TypeOK
<1>3. at = "wait" => call'[w] = "none" /\ (lockHandoff[w] => shed'[w] > 0)
  BY <1>1 DEF HandoffInv
<1>4. SUFFICES ASSUME NEW h \in BOOLEAN, h = lockHandoff[w],
                      NEW d \in BOOLEAN, d = done[w]
               PROVE  DispatchInv'
  BY <1>2
<1> QED BY <1>1, <1>2, <1>3, <1>4, CallStepInv

(* A worker's steps that leave the queues alone.                            *)
LEMMA WorkerStepInv ==
  ASSUME DispatchInv, NEW w \in Workers, WorkerStep(w)
  PROVE  DispatchInv'
<1>0. TypeOK /\ w \in Threads
  BY WorkersAreThreads DEF DispatchInv
<1>f. failures \in 0..MaxFailures /\ MaxFailures \in Nat
  BY <1>0, DispatchAssumption DEF TypeOK
<1>1. CASE WorkerUnlocks(w)
  <2>1. pc[w] = "run" /\ LockStep(w)
    BY <1>1 DEF WorkerUnlocks, InClient, LockStep
  <2> QED BY <1>0, <1>1, <2>1, MonitorInv DEF WorkerUnlocks, dispatchVars, TypeOK
<1>2. CASE Push(w)
  BY <1>2, PushInv
<1>3. CASE PushFails(w)
  <2>1. failures' \in 0..MaxFailures
    BY <1>3, <1>f DEF PushFails
  <2> QED BY <1>3, <2>1, ControlStepInv DEF PushFails, Waiting
<1>4. CASE Wake(w)
  BY <1>4, <1>f, ControlStepInv DEF Wake, Waiting
<1>5. CASE WaitEnds(w)
  BY <1>5, <1>f, ControlStepInv DEF WaitEnds, Waiting
<1>6. CASE Retake(w)
  <2>1. pc[w] \notin {"push", "wake", "wait"} /\ LockStep(w)
    BY <1>6 DEF Retake, LockStep
  <2> QED BY <1>0, <1>6, <2>1, MonitorInv DEF Retake, dispatchVars, TypeOK
<1>7. CASE Retaken(w)
  <2>1. SUFFICES ASSUME NEW at \in {"nudge", "run"},
                        at = IF pc[w] = "retake" /\ lockHandoff[w]
                             THEN "nudge" ELSE "run"
                 PROVE  DispatchInv'
    OBVIOUS
  <2>2. /\ pc' = [pc EXCEPT ![w] = at] /\ pc[w] \in {"retake", "dropped"}
        /\ UNCHANGED <<lockVars, sdlQueue, deferredCmds, lockHandoff, done, carry,
                       frames, mainAt, left, failures>>
    BY <1>7, <2>1 DEF Retaken
  <2> QED BY <1>f, <2>2, ControlStepInv DEF Waiting
<1>8. CASE Nudge(w)
  BY <1>8, <1>f, ControlStepInv DEF Nudge, Waiting
<1>9. CASE Requeue(w) \/ RequeueFails(w)
  BY <1>9, RequeueInv, RequeueFailsInv
<1>10. CASE RequeueWake(w)
  BY <1>10, <1>f, ControlStepInv DEF RequeueWake, Waiting
<1> QED BY <1>1, <1>2, <1>3, <1>4, <1>5, <1>6, <1>7, <1>8, <1>9, <1>10 DEF WorkerStep

(* Steps of the monitor itself, of the client around it, and of the pipe.   *)
LEMMA ClientStepInv ==
  ASSUME DispatchInv,
         \/ \E w \in Workers : WorkerLocks(w)
         \/ \E t \in Threads : MonitorStep(t)
         \/ MainLocks \/ MainUnlocks \/ TimerTick \/ PollReturns
         \/ UNCHANGED vars
  PROVE  DispatchInv'
<1>0. TypeOK /\ HandoffInv /\ Main \in Threads /\ Main \notin Workers
  BY ThreadsAssumption, WorkersAreThreads DEF DispatchInv
<1>1. ASSUME NEW w \in Workers, WorkerLocks(w) PROVE DispatchInv'
  <2>1. w \in Threads /\ pc[w] = "run" /\ LockStep(w)
    BY <1>1, WorkersAreThreads DEF WorkerLocks, InClient, LockStep
  <2>2. left' \in [Threads -> Nat]
    BY <1>0, <1>1, <2>1 DEF WorkerLocks, Spend, TypeOK
  <2> QED BY <1>0, <1>1, <2>1, <2>2, MonitorInv DEF WorkerLocks, TypeOK
<1>2. ASSUME NEW t \in Threads, MonitorStep(t) PROVE DispatchInv'
  <2>1. LockStep(t) /\ call[t] # "none"
    BY <1>2 DEF MonitorStep, LockStep, LockWait, TakeLock, ReacquireWait, TakeBack
  <2>2. ~(t \in Workers /\ pc[t] \in {"push", "wake", "wait"})
    BY <1>0, <2>1 DEF HandoffInv
  <2> QED BY <1>0, <1>2, <2>1, <2>2, MonitorInv DEF MonitorStep, dispatchVars, TypeOK
<1>3. CASE MainLocks
  <2>1. LockStep(Main) /\ left' \in [Threads -> Nat]
    BY <1>0, <1>3 DEF MainLocks, LockStep, Spend, TypeOK
  <2> QED BY <1>0, <1>3, <2>1, MonitorInv DEF MainLocks, WorkersSame, TypeOK
<1>4. CASE MainUnlocks
  <2>1. LockStep(Main)
    BY <1>4 DEF MainUnlocks, LockStep
  <2> QED BY <1>0, <1>4, <2>1, MonitorInv DEF MainUnlocks, dispatchVars, TypeOK
<1>5. CASE TimerTick
  BY <1>0, <1>5, MonitorInv DEF TimerTick, dispatchVars, TypeOK
<1>6. CASE PollReturns
  BY <1>0, <1>6, MonitorInv DEF PollReturns, WorkersSame, TypeOK
<1>7. CASE UNCHANGED vars
  BY <1>0, <1>7, MonitorInv DEF vars, dispatchVars, TypeOK
<1> QED BY <1>1, <1>2, <1>3, <1>4, <1>5, <1>6, <1>7
-----------------------------------------------------------------------------
(* The main thread's drains.                                                *)
TakenBelow(c) == \E f \in 1..(Len(frames) - 1) : Has(frames[f].batch, c)
StartedBelow(c) == \E f \in 1..(Len(frames) - 1) : frames[f].cmd = c

(* The innermost drain, apart from those it interrupts.                     *)
LEMMA TopFacts ==
  ASSUME TypeOK, OncePerPlace, frames # <<>>
  PROVE  /\ top \in Frames /\ Injective(top.batch)
         /\ Len(frames) \in Nat \ {0} /\ frames[Len(frames)] = top
         /\ \A f \in 1..(Len(frames) - 1) : f \in 1..Len(frames) /\ f # Len(frames)
         /\ \A c \in Workers :
              /\ Taken(c) <=> TakenBelow(c) \/ Has(top.batch, c)
              /\ ~(TakenBelow(c) /\ Has(top.batch, c))
              /\ Started(c) <=> StartedBelow(c) \/ top.cmd = c
              /\ ~(StartedBelow(c) /\ top.cmd = c)
<1>1. frames \in Seq(Frames) /\ Len(frames) \in Nat \ {0}
  BY EmptySeq DEF TypeOK
<1>2. Len(frames) \in 1..Len(frames) /\ top = frames[Len(frames)]
  BY <1>1 DEF top
<1>3. top \in Frames
  BY <1>1, <1>2, ElementOfSeq
<1>4. \A f \in 1..(Len(frames) - 1) : f \in 1..Len(frames) /\ f # Len(frames)
  BY <1>1
<1>5. \A f \in 1..Len(frames) : f = Len(frames) \/ f \in 1..(Len(frames) - 1)
  BY <1>1
<1>6. Injective(top.batch)
  BY <1>2 DEF OncePerPlace, FramesOnce
<1>7. ASSUME NEW c \in Workers
      PROVE  /\ Taken(c) <=> TakenBelow(c) \/ Has(top.batch, c)
             /\ ~(TakenBelow(c) /\ Has(top.batch, c))
  BY <1>2, <1>4, <1>5 DEF Taken, TakenBelow, OncePerPlace, FramesOnce
<1>8. ASSUME NEW c \in Workers
      PROVE  /\ Started(c) <=> StartedBelow(c) \/ top.cmd = c
             /\ ~(StartedBelow(c) /\ top.cmd = c)
  BY <1>2, <1>4, <1>5 DEF Started, StartedBelow, OncePerPlace, FramesOnce
<1> QED BY <1>1, <1>2, <1>3, <1>4, <1>6, <1>7, <1>8

(* The innermost drain changes.                                             *)
LEMMA SetTopOnce ==
  ASSUME TypeOK, OncePerPlace, frames # <<>>, NEW f \in Frames, SetTop(f),
         Injective(f.batch),
         \A c \in Workers : Has(f.batch, c) => ~TakenBelow(c),
         f.cmd \in Workers => ~StartedBelow(f.cmd)
  PROVE  /\ frames' \in Seq(Frames) /\ Len(frames') <= MaxNest
         /\ \A i \in 1..Len(frames') : frames'[i] = f \/
                                         (i \in 1..Len(frames) /\ frames'[i] = frames[i])
         /\ FramesOnce'
         /\ \A c \in Workers : /\ Taken(c)' <=> TakenBelow(c) \/ Has(f.batch, c)
                               /\ Started(c)' <=> StartedBelow(c) \/ f.cmd = c
<1> SUFFICES ASSUME NEW n, n = Len(frames) PROVE
         /\ frames' \in Seq(Frames) /\ Len(frames') <= MaxNest
         /\ \A i \in 1..Len(frames') : frames'[i] = f \/
                                         (i \in 1..Len(frames) /\ frames'[i] = frames[i])
         /\ FramesOnce'
         /\ \A c \in Workers : /\ Taken(c)' <=> TakenBelow(c) \/ Has(f.batch, c)
                               /\ Started(c)' <=> StartedBelow(c) \/ f.cmd = c
  OBVIOUS
<1>1. /\ n \in Nat \ {0} /\ frames \in Seq(Frames) /\ n <= MaxNest
      /\ \A i \in 1..(n - 1) : i \in 1..n /\ i # n
  BY TopFacts DEF TypeOK
<1>2. /\ frames' \in Seq(Frames) /\ Len(frames') = n
      /\ \A i \in 1..n : frames'[i] = IF i = n THEN f ELSE frames[i]
  BY <1>1, ExceptSeq DEF SetTop
<1>3. \A i \in 1..n : i = n \/ i \in 1..(n - 1)
  BY <1>1
<1>4. n \in 1..n
  BY <1>1
<1>5. ASSUME NEW c \in Workers
      PROVE  Taken(c)' <=> TakenBelow(c) \/ Has(f.batch, c)
  BY <1>1, <1>2, <1>3, <1>4 DEF Taken, TakenBelow
<1>6. ASSUME NEW c \in Workers
      PROVE  Started(c)' <=> StartedBelow(c) \/ f.cmd = c
  BY <1>1, <1>2, <1>3, <1>4 DEF Started, StartedBelow
<1>7. FramesOnce'
  <2>1. \A i \in 1..n : Injective(frames'[i].batch)
    BY <1>2 DEF OncePerPlace, FramesOnce
  <2>2. \A i, j \in 1..n : \A c \in Workers :
          Has(frames'[i].batch, c) /\ Has(frames'[j].batch, c) => i = j
    BY <1>2, <1>3 DEF OncePerPlace, FramesOnce, TakenBelow
  <2>3. \A i, j \in 1..n :
          frames'[i].cmd \in Workers /\ frames'[i].cmd = frames'[j].cmd => i = j
    BY <1>2, <1>3 DEF OncePerPlace, FramesOnce, StartedBelow
  <2> QED BY <1>2, <2>1, <2>2, <2>3 DEF FramesOnce
<1> QED BY <1>1, <1>2, <1>5, <1>6, <1>7

(* A drain begins: with nothing, or with one event in hand.                 *)
LEMMA PushFrameOnce ==
  ASSUME TypeOK, OncePerPlace, Len(frames) < MaxNest, NEW f \in Frames,
         frames' = Append(frames, f),
         Injective(f.batch), \A c \in Workers : Has(f.batch, c) => ~Taken(c),
         f.cmd \notin Workers
  PROVE  /\ frames' \in Seq(Frames) /\ Len(frames') <= MaxNest
         /\ \A i \in 1..Len(frames') : frames'[i] = f \/
                                         (i \in 1..Len(frames) /\ frames'[i] = frames[i])
         /\ FramesOnce'
         /\ \A c \in Workers : /\ Taken(c)' <=> Taken(c) \/ Has(f.batch, c)
                               /\ Started(c)' <=> Started(c)
<1>1. /\ Len(frames) \in Nat /\ frames' \in Seq(Frames)
      /\ Len(frames') = Len(frames) + 1 /\ frames'[Len(frames) + 1] = f
      /\ \A i \in 1..Len(frames) : frames'[i] = frames[i]
  BY DEF TypeOK
<1>2. \A i \in 1..(Len(frames) + 1) : i \in 1..Len(frames) \/ i = Len(frames) + 1
  BY <1>1
<1>3. /\ Len(frames) + 1 \in 1..(Len(frames) + 1)
      /\ \A i \in 1..Len(frames) : i \in 1..(Len(frames) + 1)
  BY <1>1
<1>4. Len(frames') <= MaxNest
  BY <1>1, DispatchAssumption
<1>5. \A c \in Workers : Taken(c)' <=> Taken(c) \/ Has(f.batch, c)
  BY <1>1, <1>2, <1>3 DEF Taken
<1>6. \A c \in Workers : Started(c)' <=> Started(c)
  BY <1>1, <1>2, <1>3 DEF Started
<1>7. FramesOnce'
  <2>1. \A i \in 1..Len(frames') : Injective(frames'[i].batch)
    BY <1>1, <1>2 DEF OncePerPlace, FramesOnce
  <2>2. \A i, j \in 1..Len(frames') : \A c \in Workers :
          Has(frames'[i].batch, c) /\ Has(frames'[j].batch, c) => i = j
    BY <1>1, <1>2 DEF OncePerPlace, FramesOnce, Taken
  <2>3. \A i, j \in 1..Len(frames') :
          frames'[i].cmd \in Workers /\ frames'[i].cmd = frames'[j].cmd => i = j
    BY <1>1, <1>2 DEF OncePerPlace, FramesOnce
  <2> QED BY <2>1, <2>2, <2>3 DEF FramesOnce
<1> QED BY <1>1, <1>2, <1>4, <1>5, <1>6, <1>7

(* A drain ends: it has handled what it took.                               *)
LEMMA PopFrameOnce ==
  ASSUME TypeOK, OncePerPlace, frames # <<>>, PopFrame,
         top.batch = <<>>, top.cmd \notin Workers
  PROVE  /\ frames' \in Seq(Frames) /\ Len(frames') <= MaxNest
         /\ \A i \in 1..Len(frames') : i \in 1..Len(frames) /\ frames'[i] = frames[i]
         /\ FramesOnce'
         /\ \A c \in Workers : (Taken(c)' <=> Taken(c)) /\ (Started(c)' <=> Started(c))
<1>0. /\ Len(frames) \in Nat \ {0} /\ frames \in Seq(Frames) /\ Len(frames) <= MaxNest
      /\ \A f \in 1..(Len(frames) - 1) : f \in 1..Len(frames) /\ f # Len(frames)
  BY TopFacts DEF TypeOK
<1>1. /\ frames' \in Seq(Frames) /\ Len(frames') = Len(frames) - 1
      /\ \A i \in 1..(Len(frames) - 1) : frames'[i] = frames[i]
  <2>0. SUFFICES ASSUME NEW n \in Nat \ {0}, n = Len(frames)
               PROVE  /\ frames' \in Seq(Frames) /\ Len(frames') = n - 1
                      /\ \A i \in 1..(n - 1) : frames'[i] = frames[i]
    BY <1>0
  <2>1. \A i \in 1..(n - 1) : frames[i] \in Frames
    BY <1>0, <2>0, ElementOfSeq
  <2>2. /\ frames' \in Seq(Frames)
        /\ Len(frames') = (IF 1 <= n - 1 THEN n - 1 - 1 + 1 ELSE 0)
        /\ \A i \in 1..(n - 1 - 1 + 1) : frames'[i] = frames[1 + i - 1]
    BY <1>0, <2>0, <2>1, SubSeqProperties DEF PopFrame
  <2> QED BY <2>0, <2>2
<1>2. Len(frames') <= MaxNest
  BY <1>0, <1>1, DispatchAssumption
<1>3. ASSUME NEW c \in Workers
      PROVE  (Taken(c)' <=> Taken(c)) /\ (Started(c)' <=> Started(c))
  <2>1. /\ Taken(c)' <=> TakenBelow(c)
        /\ Started(c)' <=> StartedBelow(c)
    BY <1>1 DEF Taken, Started, TakenBelow, StartedBelow
  <2> QED BY <2>1, TopFacts, EmptyOnce
<1>4. FramesOnce'
  BY <1>0, <1>1 DEF OncePerPlace, FramesOnce
<1> QED BY <1>0, <1>1, <1>2, <1>3, <1>4

(* What remains to show for a step of the main thread: where the commands   *)
(* are after it.                                                            *)
LEMMA MainMoveInv ==
  ASSUME DispatchInv, LockStep(Main) \/ UNCHANGED lockVars, WorkersSame,
         sdlQueue' \in Seq(Workers), deferredCmds' \in Seq(Workers),
         Injective(sdlQueue'), Injective(deferredCmds'),
         frames' \in Seq(Frames), Len(frames') <= MaxNest, FramesOnce',
         \A f \in 1..Len(frames') : FrameOK(frames'[f]),
         mainAt' \in {"loop", "poll"}, left' \in [Threads -> Nat],
         done' \in [Workers -> BOOLEAN],
         \A w \in Workers : pc[w] = "push" => done'[w] = done[w],
         \A c \in Workers : Apart(c)'
  PROVE  DispatchInv'
<1>0. /\ TypeOK /\ ControlInv /\ HandoffInv /\ OncePerPlace /\ LockInv
      /\ UNCHANGED <<pc, lockHandoff, carry, failures>>
      /\ Main \in Threads /\ Main \notin Workers
  BY ThreadsAssumption, WorkersAreThreads DEF DispatchInv, HeldInv, WorkersSame
<1>1. LockInv'
  BY <1>0, LockStepInv, LockStutterInv
<1>2. TypeOK'
  BY <1>0, <1>1 DEF TypeOK, LockInv
<1>3. ControlInv'
  BY <1>0 DEF ControlInv, FrameOK
<1>4. HandoffInv'
  BY <1>0, OthersUnmoved, WorkersAreThreads DEF HandoffInv
<1>5. OncePerPlace'
  BY <1>0 DEF OncePerPlace
<1> QED BY <1>1, <1>2, <1>3, <1>4, <1>5 DEF DispatchInv, HeldInv

(* What a step of the main thread alone may start from.                     *)
LEMMA MainFacts ==
  ASSUME DispatchInv, WorkersSame
  PROVE  /\ TypeOK /\ ControlInv /\ HandoffInv /\ OncePerPlace /\ LockTypeOK
         /\ UNCHANGED <<pc, lockHandoff, carry, failures>>
         /\ \A c \in Workers : Apart(c) /\ (Carried(c)' <=> Carried(c))
         /\ Main \notin Workers /\ NoCmd \notin Workers
BY WorkersAreThreads
DEF DispatchInv, HeldInv, LockInv, WorkersSame, NoCmd, Carried

(* XNextEvent and XPending begin a drain.                                   *)
LEMMA OneOnce == ASSUME NEW x PROVE Injective(<<x>>) /\ \A c : Has(<<x>>, c) <=> c = x
  BY DEF Injective, Has

(* The main thread starts the queue's next command.                         *)
LEMMA StartNextInv == ASSUME DispatchInv, StartNext PROVE DispatchInv'
<1> SUFFICES ASSUME NEW x, x = Head(sdlQueue) PROVE DispatchInv'
  OBVIOUS
<1>0. /\ TypeOK /\ ControlInv /\ OncePerPlace
      /\ \A c \in Workers : Apart(c) /\ (Carried(c)' <=> Carried(c))
      /\ NoCmd \notin Workers /\ frames = <<>>
      /\ UNCHANGED <<lockVars, deferredCmds, done, mainAt, left, pc>>
      /\ WorkersSame
  BY MainFacts DEF StartNext, InLoop
<1>1. Len(frames) = 0 /\ Len(frames) < MaxNest
  BY <1>0, DispatchAssumption
<1>2. CASE sdlQueue # <<>>
  <2>0. sdlQueue' = Tail(sdlQueue)
    BY <1>2 DEF StartNext
  <2>1. /\ x \in Workers /\ sdlQueue' \in Seq(Workers) /\ Injective(sdlQueue')
        /\ Queued(x)
        /\ \A c : Has(sdlQueue', c) <=> Has(sdlQueue, c) /\ c # x
    BY <1>0, <1>2, <2>0, TailOnce DEF TypeOK, OncePerPlace, Queued
  <2>2. SUFFICES ASSUME NEW f, f = Frame("next", "events", <<x>>) PROVE DispatchInv'
    OBVIOUS
  <2>3. f \in Frames /\ f.batch = <<x>> /\ f.cmd = NoCmd /\ FrameOK(f)
    BY <2>1, <2>2 DEF Frame, Frames, FrameOK
  <2>4. frames' = Append(frames, f)
    BY <1>0, <1>2, <2>2 DEF StartNext
  <2>5. /\ frames' \in Seq(Frames) /\ Len(frames') <= MaxNest
        /\ \A i \in 1..Len(frames') :
             frames'[i] = f \/ (i \in 1..Len(frames) /\ frames'[i] = frames[i])
        /\ FramesOnce'
        /\ \A c \in Workers : /\ Taken(c)' <=> Taken(c) \/ c = x
                              /\ Started(c)' <=> Started(c)
    BY <1>0, <1>1, <2>1, <2>3, <2>4, OneOnce, PushFrameOnce DEF Apart
  <2>6. \A i \in 1..Len(frames') : FrameOK(frames'[i])
    BY <1>0, <2>3, <2>5 DEF ControlInv, FrameOK
  <2>7. ASSUME NEW c \in Workers PROVE Apart(c)'
    <3>1. /\ Queued(c)' <=> Queued(c) /\ c # x
          /\ Parked(c)' <=> Parked(c)
          /\ Waiting(c)' <=> Waiting(c)
      BY <1>0, <2>1 DEF Queued, Parked, Waiting
    <3> QED BY <1>0, <2>1, <2>5, <3>1 DEF Apart
  <2> QED BY <1>0, <2>1, <2>5, <2>6, <2>7, MainMoveInv DEF TypeOK, OncePerPlace
<1>3. CASE sdlQueue = <<>>
  <2>2. SUFFICES ASSUME NEW f, f = Frame("next", "pump", <<>>) PROVE DispatchInv'
    OBVIOUS
  <2>3. f \in Frames /\ f.batch = <<>> /\ f.cmd = NoCmd /\ FrameOK(f)
    BY <2>2 DEF Frame, Frames, FrameOK
  <2>4. frames' = Append(frames, f) /\ UNCHANGED sdlQueue
    BY <1>0, <1>3, <2>2 DEF StartNext
  <2>5. /\ frames' \in Seq(Frames) /\ Len(frames') <= MaxNest
        /\ \A i \in 1..Len(frames') :
             frames'[i] = f \/ (i \in 1..Len(frames) /\ frames'[i] = frames[i])
        /\ FramesOnce'
        /\ \A c \in Workers : (Taken(c)' <=> Taken(c)) /\ (Started(c)' <=> Started(c))
    BY <1>0, <1>1, <2>3, <2>4, EmptyOnce, PushFrameOnce
  <2>6. \A i \in 1..Len(frames') : FrameOK(frames'[i])
    BY <1>0, <2>3, <2>5 DEF ControlInv, FrameOK
  <2>7. ASSUME NEW c \in Workers PROVE Apart(c)'
    BY <1>0, <2>4, <2>5 DEF Apart, Queued, Parked, Waiting
  <2> QED BY <1>0, <2>4, <2>5, <2>6, <2>7, MainMoveInv DEF TypeOK, OncePerPlace
<1> QED BY <1>2, <1>3

(* The main thread starts a drain of the commands it deferred.              *)
LEMMA StartPendingInv == ASSUME DispatchInv, StartPending PROVE DispatchInv'
<1>0. /\ TypeOK /\ ControlInv /\ OncePerPlace
      /\ \A c \in Workers : Apart(c) /\ (Carried(c)' <=> Carried(c))
      /\ NoCmd \notin Workers
      /\ UNCHANGED <<lockVars, sdlQueue, deferredCmds, done, mainAt, pc>>
      /\ WorkersSame
  BY MainFacts DEF StartPending
<1>1. Len(frames) < MaxNest
  BY DispatchAssumption DEF StartPending, InLoop
<1>2. left' \in [Threads -> Nat]
  <2>1. left \in [Threads -> Nat] /\ Main \in Threads
    BY <1>0, ThreadsAssumption DEF TypeOK
  <2>2. UNCHANGED left \/ Spend(Main)
    BY DEF StartPending
  <2> QED BY <2>1, <2>2 DEF Spend
<1>3. SUFFICES ASSUME NEW f, f = Frame("drain", "pump", <<>>) PROVE DispatchInv'
  OBVIOUS
<1>4. /\ f \in Frames /\ f.batch = <<>> /\ f.cmd = NoCmd /\ FrameOK(f)
      /\ frames' = Append(frames, f)
  BY <1>3 DEF Frame, Frames, FrameOK, StartPending
<1>5. /\ frames' \in Seq(Frames) /\ Len(frames') <= MaxNest
      /\ \A i \in 1..Len(frames') :
           frames'[i] = f \/ (i \in 1..Len(frames) /\ frames'[i] = frames[i])
      /\ FramesOnce'
      /\ \A c \in Workers : (Taken(c)' <=> Taken(c)) /\ (Started(c)' <=> Started(c))
  BY <1>0, <1>1, <1>4, EmptyOnce, PushFrameOnce
<1>6. \A i \in 1..Len(frames') : FrameOK(frames'[i])
  BY <1>0, <1>4, <1>5 DEF ControlInv, FrameOK
<1>7. ASSUME NEW c \in Workers PROVE Apart(c)'
  BY <1>0, <1>5 DEF Apart, Queued, Parked, Waiting
<1> QED BY <1>0, <1>2, <1>5, <1>6, <1>7, MainMoveInv DEF TypeOK, OncePerPlace

(* A parked command's thunk starts.                                         *)
LEMMA RunDeferredInv == ASSUME DispatchInv, RunDeferred PROVE DispatchInv'
<1> SUFFICES ASSUME NEW x, x = Head(deferredCmds) PROVE DispatchInv'
  OBVIOUS
<1>0. /\ TypeOK /\ ControlInv /\ OncePerPlace /\ LockTypeOK
      /\ \A c \in Workers : Apart(c) /\ (Carried(c)' <=> Carried(c))
      /\ NoCmd \notin Workers /\ frames # <<>> /\ top.cmd = NoCmd
      /\ deferredCmds # <<>> /\ deferredCmds' = Tail(deferredCmds)
      /\ UNCHANGED <<lockVars, sdlQueue, done, mainAt, left, pc>>
      /\ WorkersSame
  BY MainFacts DEF RunDeferred, InDrain, mayRunDeferred
<1>1. /\ x \in Workers /\ deferredCmds' \in Seq(Workers) /\ Injective(deferredCmds')
      /\ Parked(x)
      /\ \A c : Has(deferredCmds', c) <=> Has(deferredCmds, c) /\ c # x
  BY <1>0, TailOnce DEF TypeOK, OncePerPlace, Parked
<1>2. /\ top \in Frames /\ Injective(top.batch)
      /\ \A c \in Workers :
           /\ Taken(c) <=> TakenBelow(c) \/ Has(top.batch, c)
           /\ ~(TakenBelow(c) /\ Has(top.batch, c))
           /\ Started(c) <=> StartedBelow(c)
  BY <1>0, TopFacts
<1>3. SUFFICES ASSUME NEW f, f = [top EXCEPT !.cmd = x, !.base = nest[Main]]
               PROVE  DispatchInv'
  OBVIOUS
<1>4. nest[Main] \in Nat
  BY <1>0, ThreadsAssumption DEF LockTypeOK
<1>5. /\ f \in Frames /\ f.batch = top.batch /\ f.cmd = x
      /\ f.stage = top.stage /\ f.kind = top.kind
  BY <1>1, <1>2, <1>3, <1>4 DEF Frames
<1>6. SetTop(f)
  BY <1>3 DEF RunDeferred
<1>7. ~Started(x)
  BY <1>0, <1>1 DEF Apart
<1>8. /\ frames' \in Seq(Frames) /\ Len(frames') <= MaxNest
      /\ \A i \in 1..Len(frames') :
           frames'[i] = f \/ (i \in 1..Len(frames) /\ frames'[i] = frames[i])
      /\ FramesOnce'
      /\ \A c \in Workers : /\ Taken(c)' <=> Taken(c)
                            /\ Started(c)' <=> Started(c) \/ c = x
  BY <1>0, <1>1, <1>2, <1>5, <1>6, <1>7, SetTopOnce
<1>9. \A i \in 1..Len(frames') : FrameOK(frames'[i])
  <2>1. FrameOK(f)
    BY <1>0, <1>5, TopFacts DEF ControlInv, FrameOK
  <2> QED BY <1>0, <1>8, <2>1 DEF ControlInv, FrameOK
<1>10. ASSUME NEW c \in Workers PROVE Apart(c)'
  <2>1. /\ Parked(c)' <=> Parked(c) /\ c # x
        /\ Queued(c)' <=> Queued(c)
        /\ Waiting(c)' <=> Waiting(c)
    BY <1>0, <1>1 DEF Queued, Parked, Waiting
  <2> QED BY <1>0, <1>1, <1>8, <2>1 DEF Apart
<1> QED BY <1>0, <1>1, <1>8, <1>9, <1>10, MainMoveInv DEF TypeOK, OncePerPlace

(* The pump of a drain is over.                                             *)
LEMMA PumpEndsInv == ASSUME DispatchInv, PumpEnds PROVE DispatchInv'
<1>0. /\ TypeOK /\ ControlInv /\ OncePerPlace
      /\ \A c \in Workers : Apart(c) /\ (Carried(c)' <=> Carried(c))
      /\ NoCmd \notin Workers /\ frames # <<>> /\ top.cmd = NoCmd
      /\ top.stage = "pump"
      /\ UNCHANGED <<sdlQueue, deferredCmds, done, mainAt, left, pc>>
      /\ WorkersSame
  BY MainFacts DEF PumpEnds, InDrain
<1>1. LockStep(Main) \/ UNCHANGED lockVars
  BY DEF PumpEnds, LockStep
<1>2. /\ top \in Frames /\ Injective(top.batch)
      /\ \A c \in Workers :
           /\ Taken(c) <=> TakenBelow(c) \/ Has(top.batch, c)
           /\ ~(TakenBelow(c) /\ Has(top.batch, c))
           /\ Started(c) <=> StartedBelow(c)
  BY <1>0, TopFacts
<1>3. top.batch = <<>>
  BY <1>0, TopFacts DEF ControlInv, FrameOK
<1>4. PICK st \in {"locked", "take"} : /\ SetTop([top EXCEPT !.stage = st])
                                       /\ st = "locked" => top.kind = "drain"
  BY DEF PumpEnds
<1>5. SUFFICES ASSUME NEW f, f = [top EXCEPT !.stage = st] PROVE DispatchInv'
  OBVIOUS
<1>6. f \in Frames /\ f.batch = <<>> /\ f.cmd = NoCmd /\ FrameOK(f) /\ SetTop(f)
  BY <1>0, <1>2, <1>3, <1>4, <1>5 DEF Frames, FrameOK
<1>7. /\ frames' \in Seq(Frames) /\ Len(frames') <= MaxNest
      /\ \A i \in 1..Len(frames') :
           frames'[i] = f \/ (i \in 1..Len(frames) /\ frames'[i] = frames[i])
      /\ FramesOnce'
      /\ \A c \in Workers : (Taken(c)' <=> Taken(c)) /\ (Started(c)' <=> Started(c))
  BY <1>0, <1>2, <1>3, <1>6, EmptyOnce, SetTopOnce
<1>8. \A i \in 1..Len(frames') : FrameOK(frames'[i])
  BY <1>0, <1>6, <1>7 DEF ControlInv, FrameOK
<1>9. ASSUME NEW c \in Workers PROVE Apart(c)'
  BY <1>0, <1>7 DEF Apart, Queued, Parked, Waiting
<1> QED BY <1>0, <1>1, <1>7, <1>8, <1>9, MainMoveInv DEF TypeOK, OncePerPlace

(* The drain takes events off the queue.                                    *)
LEMMA TakeInv == ASSUME DispatchInv, Take PROVE DispatchInv'
<1>0. /\ TypeOK /\ ControlInv /\ OncePerPlace
      /\ \A c \in Workers : Apart(c) /\ (Carried(c)' <=> Carried(c))
      /\ NoCmd \notin Workers /\ frames # <<>> /\ top.cmd = NoCmd
      /\ top.stage # "events"
      /\ UNCHANGED <<lockVars, deferredCmds, done, mainAt, left, pc>>
      /\ WorkersSame
  BY MainFacts DEF Take, InDrain
<1>1. SUFFICES ASSUME NEW n, n = IF top.kind = "drain" THEN Len(sdlQueue) ELSE 1,
                      NEW q, q = SubSeq(sdlQueue, 1, n)
               PROVE  DispatchInv'
  OBVIOUS
<1>2. /\ top \in Frames
      /\ \A c \in Workers :
           /\ Taken(c) <=> TakenBelow(c) \/ Has(top.batch, c)
           /\ Started(c) <=> StartedBelow(c)
  BY <1>0, TopFacts
<1>3. n \in 0..Len(sdlQueue)
  <2>1. Len(sdlQueue) \in Nat /\ (sdlQueue # <<>> => Len(sdlQueue) >= 1)
    BY <1>0, EmptySeq DEF TypeOK
  <2>2. CASE top.kind = "drain"
    BY <1>1, <2>1, <2>2
  <2>3. CASE top.kind # "drain" /\ sdlQueue # <<>>
    BY <1>1, <2>1, <2>3
  <2>4. CASE top.kind # "drain" /\ top.stage = "locked"
    BY SMTT(30), <1>0, <1>2, <2>4, TopFacts DEF ControlInv, FrameOK
  <2> QED BY <2>2, <2>3, <2>4 DEF Take
<1>4. /\ sdlQueue' = SubSeq(sdlQueue, n + 1, Len(sdlQueue))
      /\ SetTop([top EXCEPT !.stage = "events", !.batch = q])
  BY <1>1 DEF Take
<1>5. /\ q \in Seq(Workers) /\ sdlQueue' \in Seq(Workers)
      /\ Injective(q) /\ Injective(sdlQueue')
      /\ \A c : Has(sdlQueue, c) <=> Has(q, c) \/ Has(sdlQueue', c)
      /\ \A c : ~(Has(q, c) /\ Has(sdlQueue', c))
  BY <1>0, <1>1, <1>3, <1>4, SplitOnce DEF TypeOK, OncePerPlace
<1>6. SUFFICES ASSUME NEW f, f = [top EXCEPT !.stage = "events", !.batch = q]
               PROVE  DispatchInv'
  OBVIOUS
<1>7. /\ f \in Frames /\ f.batch = q /\ f.cmd = NoCmd /\ f.stage = "events"
      /\ SetTop(f)
  BY <1>0, <1>2, <1>4, <1>5, <1>6 DEF Frames
<1>8. top.batch = <<>>
  BY <1>0, TopFacts DEF ControlInv, FrameOK
<1>9. \A c \in Workers : Has(q, c) => ~Taken(c)
  BY <1>0, <1>5 DEF Apart, Queued
<1>10. /\ frames' \in Seq(Frames) /\ Len(frames') <= MaxNest
       /\ \A i \in 1..Len(frames') :
            frames'[i] = f \/ (i \in 1..Len(frames) /\ frames'[i] = frames[i])
       /\ FramesOnce'
       /\ \A c \in Workers : /\ Taken(c)' <=> TakenBelow(c) \/ Has(q, c)
                             /\ Started(c)' <=> StartedBelow(c)
  BY <1>0, <1>2, <1>5, <1>7, <1>9, SetTopOnce
<1>11. \A i \in 1..Len(frames') : FrameOK(frames'[i])
  BY <1>0, <1>7, <1>10 DEF ControlInv, FrameOK
<1>12. ASSUME NEW c \in Workers PROVE Apart(c)'
  <2>1. /\ Queued(c)' <=> Queued(c) /\ ~Has(q, c)
        /\ Queued(c) <=> Queued(c)' \/ Has(q, c)
        /\ Parked(c)' <=> Parked(c)
        /\ Waiting(c)' <=> Waiting(c)
    BY <1>0, <1>5 DEF Queued, Parked, Waiting
  <2>2. Taken(c)' <=> Taken(c) \/ Has(q, c)
    BY <1>2, <1>8, <1>10, EmptyOnce
  <2> QED BY <1>0, <1>2, <1>10, <2>1, <2>2 DEF Apart
<1> QED BY <1>0, <1>5, <1>10, <1>11, <1>12, MainMoveInv DEF TypeOK, OncePerPlace

(* The next event of the drain: its command is parked, or its thunk starts. *)
LEMMA HandleEventInv == ASSUME DispatchInv, HandleEvent PROVE DispatchInv'
<1> SUFFICES ASSUME NEW x, x = Head(top.batch) PROVE DispatchInv'
  OBVIOUS
<1>0. /\ TypeOK /\ ControlInv /\ OncePerPlace /\ LockTypeOK
      /\ \A c \in Workers : Apart(c) /\ (Carried(c)' <=> Carried(c))
      /\ NoCmd \notin Workers /\ frames # <<>> /\ top.cmd = NoCmd
      /\ top.batch # <<>>
      /\ UNCHANGED <<lockVars, sdlQueue, done, mainAt, left, pc>>
      /\ WorkersSame
  BY MainFacts DEF HandleEvent, InDrain
<1>1. /\ top \in Frames /\ Injective(top.batch)
      /\ \A c \in Workers :
           /\ Taken(c) <=> TakenBelow(c) \/ Has(top.batch, c)
           /\ ~(TakenBelow(c) /\ Has(top.batch, c))
           /\ Started(c) <=> StartedBelow(c)
  BY <1>0, TopFacts
<1>2. top.stage = "events"
  BY <1>0, TopFacts DEF ControlInv, FrameOK
<1>3. top.batch \in Seq(Workers)
  BY <1>1 DEF Frames
<1>4. SUFFICES ASSUME NEW q, q = Tail(top.batch) PROVE DispatchInv'
  OBVIOUS
<1>5. /\ x \in Workers /\ q \in Seq(Workers) /\ Injective(q)
      /\ Has(top.batch, x)
      /\ \A c : Has(q, c) <=> Has(top.batch, c) /\ c # x
  BY <1>0, <1>1, <1>3, <1>4, TailOnce
<1>6. Taken(x)
  BY <1>1, <1>5
<1>7. ~Queued(x) /\ ~Parked(x) /\ ~Started(x) /\ ~Carried(x)
  BY <1>0, <1>5, <1>6 DEF Apart
<1>8. CASE /\ deferredCmds' = <<x>> \o deferredCmds
           /\ SetTop([top EXCEPT !.batch = Tail(@)])
  <2>1. SUFFICES ASSUME NEW f, f = [top EXCEPT !.batch = Tail(@)] PROVE DispatchInv'
    OBVIOUS
  <2>2. /\ f \in Frames /\ f.batch = q /\ f.cmd = NoCmd /\ f.stage = "events"
        /\ SetTop(f)
    BY <1>0, <1>1, <1>2, <1>4, <1>5, <1>8, <2>1 DEF Frames
  <2>3. /\ deferredCmds' \in Seq(Workers) /\ Injective(deferredCmds')
        /\ \A c : Has(deferredCmds', c) <=> Has(deferredCmds, c) \/ c = x
    BY <1>0, <1>5, <1>7, <1>8, ConsOnce DEF TypeOK, OncePerPlace, Parked
  <2>4. /\ frames' \in Seq(Frames) /\ Len(frames') <= MaxNest
        /\ \A i \in 1..Len(frames') :
             frames'[i] = f \/ (i \in 1..Len(frames) /\ frames'[i] = frames[i])
        /\ FramesOnce'
        /\ \A c \in Workers : /\ Taken(c)' <=> TakenBelow(c) \/ Has(q, c)
                              /\ Started(c)' <=> StartedBelow(c)
    BY <1>0, <1>1, <1>5, <2>2, SetTopOnce
  <2>5. \A i \in 1..Len(frames') : FrameOK(frames'[i])
    BY <1>0, <2>2, <2>4 DEF ControlInv, FrameOK
  <2>6. ASSUME NEW c \in Workers PROVE Apart(c)'
    <3>1. /\ Queued(c)' <=> Queued(c)
          /\ Parked(c)' <=> Parked(c) \/ c = x
          /\ Waiting(c)' <=> Waiting(c)
      BY <1>0, <2>3 DEF Queued, Parked, Waiting
    <3>2. /\ Taken(c)' <=> Taken(c) /\ c # x
          /\ Started(c)' <=> Started(c)
      BY <1>1, <1>5, <2>4
    <3> QED BY <1>0, <1>6, <1>7, <3>1, <3>2 DEF Apart
  <2> QED BY <1>0, <2>3, <2>4, <2>5, <2>6, MainMoveInv DEF TypeOK, OncePerPlace
<1>9. CASE /\ SetTop([top EXCEPT !.batch = Tail(@), !.cmd = x, !.base = nest[Main]])
           /\ UNCHANGED deferredCmds
  <2>1. SUFFICES ASSUME NEW f,
                        f = [top EXCEPT !.batch = Tail(@), !.cmd = x, !.base = nest[Main]]
                 PROVE  DispatchInv'
    OBVIOUS
  <2>2. nest[Main] \in Nat
    BY <1>0, ThreadsAssumption DEF LockTypeOK
  <2>3. /\ f \in Frames /\ f.batch = q /\ f.cmd = x /\ f.stage = "events"
        /\ SetTop(f)
    BY <1>0, <1>1, <1>2, <1>4, <1>5, <1>9, <2>1, <2>2 DEF Frames
  <2>4. /\ frames' \in Seq(Frames) /\ Len(frames') <= MaxNest
        /\ \A i \in 1..Len(frames') :
             frames'[i] = f \/ (i \in 1..Len(frames) /\ frames'[i] = frames[i])
        /\ FramesOnce'
        /\ \A c \in Workers : /\ Taken(c)' <=> TakenBelow(c) \/ Has(q, c)
                              /\ Started(c)' <=> StartedBelow(c) \/ c = x
    BY <1>0, <1>1, <1>5, <1>7, <2>3, SetTopOnce
  <2>5. \A i \in 1..Len(frames') : FrameOK(frames'[i])
    BY <1>0, <2>3, <2>4 DEF ControlInv, FrameOK
  <2>6. ASSUME NEW c \in Workers PROVE Apart(c)'
    <3>1. /\ Queued(c)' <=> Queued(c)
          /\ Parked(c)' <=> Parked(c)
          /\ Waiting(c)' <=> Waiting(c)
      BY <1>0, <1>9 DEF Queued, Parked, Waiting
    <3>2. /\ Taken(c)' <=> Taken(c) /\ c # x
          /\ Started(c)' <=> Started(c) \/ c = x
      BY <1>1, <1>5, <2>4
    <3> QED BY <1>0, <1>6, <1>7, <3>1, <3>2 DEF Apart
  <2> QED BY <1>0, <1>9, <2>4, <2>5, <2>6, MainMoveInv DEF TypeOK, OncePerPlace
<1> QED BY <1>8, <1>9 DEF HandleEvent

(* The thunk returns: its command is held nowhere any more.                 *)
LEMMA ThunkReturnsInv == ASSUME DispatchInv, ThunkReturns PROVE DispatchInv'
<1> SUFFICES ASSUME NEW x, x = top.cmd PROVE DispatchInv'
  OBVIOUS
<1>0. /\ TypeOK /\ ControlInv /\ OncePerPlace
      /\ \A c \in Workers : Apart(c) /\ (Carried(c)' <=> Carried(c))
      /\ NoCmd \notin Workers /\ frames # <<>> /\ x # NoCmd
      /\ done' = [done EXCEPT ![x] = TRUE]
      /\ UNCHANGED <<lockVars, sdlQueue, deferredCmds, mainAt, left, pc>>
      /\ WorkersSame
  BY MainFacts DEF ThunkReturns, InThunk, completeCmd
<1>1. /\ top \in Frames /\ Injective(top.batch)
      /\ \A c \in Workers :
           /\ Taken(c) <=> TakenBelow(c) \/ Has(top.batch, c)
           /\ ~(TakenBelow(c) /\ Has(top.batch, c))
           /\ Started(c) <=> StartedBelow(c) \/ c = x
           /\ ~(StartedBelow(c) /\ c = x)
  BY <1>0, TopFacts
<1>2. x \in Workers
  BY <1>0, <1>1 DEF Frames
<1>3. Started(x) /\ Waiting(x) /\ ~Queued(x) /\ ~Parked(x) /\ ~Taken(x) /\ ~Carried(x)
  BY <1>0, <1>1, <1>2 DEF Apart
<1>4. /\ done' \in [Workers -> BOOLEAN]
      /\ \A c \in Workers : done'[c] = IF c = x THEN TRUE ELSE done[c]
  BY <1>0, <1>2 DEF TypeOK
<1>5. \A c \in Workers : pc[c] = "push" => done'[c] = done[c]
  BY <1>3, <1>4 DEF Waiting
<1>6. SUFFICES ASSUME NEW f, f = [top EXCEPT !.cmd = NoCmd] PROVE DispatchInv'
  OBVIOUS
<1>7. /\ f \in Frames /\ f.batch = top.batch /\ f.cmd = NoCmd
      /\ f.stage = top.stage /\ f.kind = top.kind /\ SetTop(f)
  BY <1>1, <1>6 DEF Frames, ThunkReturns
<1>8. /\ frames' \in Seq(Frames) /\ Len(frames') <= MaxNest
      /\ \A i \in 1..Len(frames') :
           frames'[i] = f \/ (i \in 1..Len(frames) /\ frames'[i] = frames[i])
      /\ FramesOnce'
      /\ \A c \in Workers : /\ Taken(c)' <=> Taken(c)
                            /\ Started(c)' <=> Started(c) /\ c # x
  BY <1>0, <1>1, <1>7, SetTopOnce
<1>9. \A i \in 1..Len(frames') : FrameOK(frames'[i])
  <2>1. FrameOK(f)
    BY <1>0, <1>7, TopFacts DEF ControlInv, FrameOK
  <2> QED BY <1>0, <1>8, <2>1 DEF ControlInv, FrameOK
<1>10. ASSUME NEW c \in Workers PROVE Apart(c)'
  <2>1. /\ Parked(c)' <=> Parked(c)
        /\ Queued(c)' <=> Queued(c)
        /\ Waiting(c)' <=> Waiting(c) /\ c # x
    BY <1>0, <1>4 DEF Queued, Parked, Waiting
  <2> QED BY <1>0, <1>3, <1>8, <2>1 DEF Apart
<1> QED BY <1>0, <1>4, <1>5, <1>8, <1>9, <1>10, MainMoveInv DEF TypeOK, OncePerPlace

(* A drain that found nothing, or has handled all it took, ends.            *)
LEMMA DrainEndsInv == ASSUME DispatchInv, Idle \/ EndDrain PROVE DispatchInv'
<1>0. /\ TypeOK /\ ControlInv /\ OncePerPlace
      /\ \A c \in Workers : Apart(c) /\ (Carried(c)' <=> Carried(c))
      /\ NoCmd \notin Workers /\ frames # <<>> /\ top.cmd = NoCmd
      /\ UNCHANGED <<sdlQueue, deferredCmds, done, left, pc>>
      /\ WorkersSame /\ PopFrame
      /\ top.stage # "events" \/ top.batch = <<>>
  BY MainFacts DEF Idle, EndDrain, InDrain
<1>1. LockStep(Main) \/ UNCHANGED lockVars
  BY DEF Idle, EndDrain, LockStep
<1>2. mainAt' \in {"loop", "poll"}
  BY <1>0 DEF Idle, EndDrain, TypeOK
<1>3. top.batch = <<>>
  BY <1>0, TopFacts DEF ControlInv, FrameOK
<1>4. /\ frames' \in Seq(Frames) /\ Len(frames') <= MaxNest
      /\ \A i \in 1..Len(frames') : i \in 1..Len(frames) /\ frames'[i] = frames[i]
      /\ FramesOnce'
      /\ \A c \in Workers : (Taken(c)' <=> Taken(c)) /\ (Started(c)' <=> Started(c))
  BY <1>0, <1>3, PopFrameOnce
<1>5. \A i \in 1..Len(frames') : FrameOK(frames'[i])
  BY <1>0, <1>4 DEF ControlInv, FrameOK
<1>6. ASSUME NEW c \in Workers PROVE Apart(c)'
  BY <1>0, <1>4 DEF Apart, Queued, Parked, Waiting
<1> QED BY <1>0, <1>1, <1>2, <1>4, <1>5, <1>6, MainMoveInv DEF TypeOK, OncePerPlace

-----------------------------------------------------------------------------
(* Whatever the workers route or drain, however often the main thread nests *)
(* drains and parks commands, and whichever push fails, the invariant stays.*)
THEOREM DispatchInvariant == Spec => []DispatchInv
<1>1. Init => DispatchInv
  BY DispatchInitInv
<1>2. DispatchInv /\ [Next]_vars => DispatchInv'
  <2> SUFFICES ASSUME DispatchInv, [Next]_vars PROVE DispatchInv'
    OBVIOUS
  <2>1. CASE \E w \in Workers : runOnMainThread(w)
    BY <2>1, RouteInv
  <2>2. CASE \E w \in Workers : DrainOffMain(w)
    BY <2>2, DrainOffMainInv
  <2>3. CASE \E w \in Workers : WorkerStep(w)
    BY <2>3, WorkerStepInv
  <2>4. CASE \/ \E w \in Workers : WorkerLocks(w)
             \/ \E t \in Threads : MonitorStep(t)
             \/ MainLocks \/ MainUnlocks \/ TimerTick \/ PollReturns
             \/ UNCHANGED vars
    BY <2>4, ClientStepInv
  <2>5. CASE StartNext \/ StartPending
    BY <2>5, StartNextInv, StartPendingInv
  <2>6. CASE RunDeferred \/ PumpEnds \/ Take
    BY <2>6, RunDeferredInv, PumpEndsInv, TakeInv
  <2>7. CASE HandleEvent \/ ThunkReturns \/ Idle \/ EndDrain
    BY <2>7, HandleEventInv, ThunkReturnsInv, DrainEndsInv
  <2> QED
    BY <2>1, <2>2, <2>3, <2>4, <2>5, <2>6, <2>7 DEF Next, MainStep
<1> QED BY <1>1, <1>2, PTL DEF Spec

(* The pointer to a command on its worker's stack is in exactly one queue,   *)
(* list, batch, thunk or hand while the worker waits, and nowhere before    *)
(* the push or after the completion (main-dispatch.c: "Every path that      *)
(* takes a MAIN_DISPATCH event off the SDL queue must either successfully   *)
(* re-queue it or call this").                                              *)
LEMMA DispatchInvHeld == DispatchInv => CommandHeldOnce
<1> SUFFICES ASSUME DispatchInv, NEW w \in Workers
             PROVE  /\ \A p, q \in Holders(w) : p = q
                    /\ Holders(w) # {} <=> pc[w] \in {"wake", "wait"} /\ ~done[w]
  BY DEF CommandHeldOnce, DispatchInv
<1>0. TypeOK /\ OncePerPlace /\ Apart(w)
  BY DEF DispatchInv, HeldInv
<1>1. ASSUME NEW p
      PROVE  p \in Holders(w) <=>
               \/ \E i \in 1..Len(sdlQueue) : sdlQueue[i] = w /\ p = <<"queue", 0, i>>
               \/ \E i \in 1..Len(deferredCmds) :
                    deferredCmds[i] = w /\ p = <<"parked", 0, i>>
               \/ \E f \in 1..Len(frames) : \E i \in 1..Len(frames[f].batch) :
                    frames[f].batch[i] = w /\ p = <<"batch", f, i>>
               \/ \E f \in 1..Len(frames) : frames[f].cmd = w /\ p = <<"thunk", 0, f>>
               \/ \E v \in Workers : carry[v] = w /\ p = <<"carry", 0, v>>
  <2>1. \A place, f, S : p \in At(place, f, S) <=> \E i \in S : p = <<place, f, i>>
    BY DEF At
  <2>2. \A s, i : i \in Positions(s, w) <=> i \in 1..Len(s) /\ s[i] = w
    BY DEF Positions
  <2> DEFINE B == UNION {At("batch", f, Positions(frames[f].batch, w)) :
                           f \in 1..Len(frames)}
             T == {f \in 1..Len(frames) : frames[f].cmd = w}
             C == {v \in Workers : carry[v] = w}
  <2>3. p \in B <=> \E f \in 1..Len(frames) :
                      p \in At("batch", f, Positions(frames[f].batch, w))
    OBVIOUS
  <2>4. Holders(w) = At("queue", 0, Positions(sdlQueue, w))
                       \union At("parked", 0, Positions(deferredCmds, w))
                       \union B \union At("thunk", 0, T) \union At("carry", 0, C)
    BY DEF Holders
  <2>5. \A f : f \in T <=> f \in 1..Len(frames) /\ frames[f].cmd = w
    OBVIOUS
  <2>6. \A v : v \in C <=> v \in Workers /\ carry[v] = w
    OBVIOUS
  <2> HIDE DEF B, T, C
  <2>7. p \in Holders(w) <=> \/ p \in At("queue", 0, Positions(sdlQueue, w))
                             \/ p \in At("parked", 0, Positions(deferredCmds, w))
                             \/ p \in B \/ p \in At("thunk", 0, T)
                             \/ p \in At("carry", 0, C)
    BY <2>4
  <2> QED BY <2>1, <2>2, <2>3, <2>5, <2>6, <2>7
<1>2. ASSUME NEW p \in Holders(w), NEW q \in Holders(w) PROVE p = q
  <2>1. CASE Queued(w)
    <3>1. ~Parked(w) /\ ~Taken(w) /\ ~Started(w) /\ ~Carried(w)
      BY <1>0, <2>1 DEF Apart
    <3>2. PICK i \in 1..Len(sdlQueue) : sdlQueue[i] = w /\ p = <<"queue", 0, i>>
      BY <1>1, <1>2, <3>1 DEF Parked, Taken, Started, Carried, Has
    <3>3. PICK j \in 1..Len(sdlQueue) : sdlQueue[j] = w /\ q = <<"queue", 0, j>>
      BY <1>1, <1>2, <3>1 DEF Parked, Taken, Started, Carried, Has
    <3>4. i = j
      BY <1>0, <3>2, <3>3 DEF OncePerPlace, Injective
    <3> QED BY <3>2, <3>3, <3>4
  <2>2. CASE Parked(w)
    <3>1. ~Queued(w) /\ ~Taken(w) /\ ~Started(w) /\ ~Carried(w)
      BY <1>0, <2>2 DEF Apart
    <3>2. PICK i \in 1..Len(deferredCmds) :
            deferredCmds[i] = w /\ p = <<"parked", 0, i>>
      BY <1>1, <1>2, <3>1 DEF Queued, Taken, Started, Carried, Has
    <3>3. PICK j \in 1..Len(deferredCmds) :
            deferredCmds[j] = w /\ q = <<"parked", 0, j>>
      BY <1>1, <1>2, <3>1 DEF Queued, Taken, Started, Carried, Has
    <3>4. i = j
      BY <1>0, <3>2, <3>3 DEF OncePerPlace, Injective
    <3> QED BY <3>2, <3>3, <3>4
  <2>3. CASE Taken(w)
    <3>1. ~Queued(w) /\ ~Parked(w) /\ ~Started(w) /\ ~Carried(w)
      BY <1>0, <2>3 DEF Apart
    <3>2. PICK f \in 1..Len(frames) : \E i \in 1..Len(frames[f].batch) :
            frames[f].batch[i] = w /\ p = <<"batch", f, i>>
      BY <1>1, <1>2, <3>1 DEF Queued, Parked, Started, Carried, Has
    <3>3. PICK g \in 1..Len(frames) : \E j \in 1..Len(frames[g].batch) :
            frames[g].batch[j] = w /\ q = <<"batch", g, j>>
      BY <1>1, <1>2, <3>1 DEF Queued, Parked, Started, Carried, Has
    <3>4. f = g
      BY <1>0, <3>2, <3>3 DEF OncePerPlace, FramesOnce, Has
    <3>5. PICK i \in 1..Len(frames[f].batch) :
            frames[f].batch[i] = w /\ p = <<"batch", f, i>>
      BY <3>2
    <3>6. PICK j \in 1..Len(frames[f].batch) :
            frames[f].batch[j] = w /\ q = <<"batch", f, j>>
      BY <3>3, <3>4
    <3>7. i = j
      BY <1>0, <3>5, <3>6 DEF OncePerPlace, FramesOnce, Injective
    <3> QED BY <3>5, <3>6, <3>7
  <2>4. CASE Started(w)
    <3>1. ~Queued(w) /\ ~Parked(w) /\ ~Taken(w) /\ ~Carried(w)
      BY <1>0, <2>4 DEF Apart
    <3>2. PICK f \in 1..Len(frames) : frames[f].cmd = w /\ p = <<"thunk", 0, f>>
      BY <1>1, <1>2, <3>1 DEF Queued, Parked, Taken, Carried, Has
    <3>3. PICK g \in 1..Len(frames) : frames[g].cmd = w /\ q = <<"thunk", 0, g>>
      BY <1>1, <1>2, <3>1 DEF Queued, Parked, Taken, Carried, Has
    <3>4. f = g
      BY <1>0, <3>2, <3>3 DEF OncePerPlace, FramesOnce
    <3> QED BY <3>2, <3>3, <3>4
  <2>5. CASE ~Queued(w) /\ ~Parked(w) /\ ~Taken(w) /\ ~Started(w)
    <3>1. PICK u \in Workers : carry[u] = w /\ p = <<"carry", 0, u>>
      BY <1>1, <1>2, <2>5 DEF Queued, Parked, Taken, Started, Has
    <3>2. PICK v \in Workers : carry[v] = w /\ q = <<"carry", 0, v>>
      BY <1>1, <1>2, <2>5 DEF Queued, Parked, Taken, Started, Has
    <3>3. u = v
      BY <1>0, <3>1, <3>2 DEF OncePerPlace
    <3> QED BY <3>1, <3>2, <3>3
  <2> QED BY <2>1, <2>2, <2>3, <2>4, <2>5
<1>3. ASSUME NEW p \in Holders(w) PROVE Waiting(w)
  <2>1. Queued(w) \/ Parked(w) \/ Taken(w) \/ Started(w) \/ Carried(w)
    BY <1>1, <1>3 DEF Queued, Parked, Taken, Started, Carried, Has
  <2> QED BY <1>0, <2>1 DEF Apart
<1>4. ASSUME Waiting(w) PROVE \E p : p \in Holders(w)
  <2>1. Queued(w) \/ Parked(w) \/ Taken(w) \/ Started(w) \/ Carried(w)
    BY <1>0, <1>4 DEF Apart
  <2>2. CASE Queued(w)
    BY <1>1, <2>2 DEF Queued, Has
  <2>3. CASE Parked(w)
    BY <1>1, <2>3 DEF Parked, Has
  <2>4. CASE Taken(w)
    BY <1>1, <2>4 DEF Taken, Has
  <2>5. CASE Started(w)
    BY <1>1, <2>5 DEF Started
  <2>6. CASE Carried(w)
    BY <1>1, <2>6 DEF Carried
  <2> QED BY <2>1, <2>2, <2>3, <2>4, <2>5, <2>6
<1> QED BY <1>2, <1>3, <1>4 DEF Waiting

(* A command is in one place at a time: on the queue, deferred, carried by  *)
(* its worker or in one drain, so no thunk runs twice and none is lost while *)
(* its worker waits (the ownership rules of main-dispatch.c).               *)
THEOREM DispatchCommandHeldOnce == Spec => []CommandHeldOnce
BY DispatchInvariant, DispatchInvHeld, PTL

(* A thunk whose worker shed the display lock runs while the lock is lent   *)
(* out for that very worker, also inside a nested drain and after it was     *)
(* parked ("the thunk runs against a recorded handoff").                    *)
LEMMA DispatchInvHandoff == DispatchInv => HandoffThunkInSection
<1> SUFFICES ASSUME DispatchInv, NEW c \in RunningCmds, lockHandoff[c]
             PROVE  handoffOwner = c
  BY DEF HandoffThunkInSection
<1>1. PICK i \in 1..Len(frames) : frames[i].cmd = c
  BY DEF RunningCmds
<1>2. frames[i] \in Frames
  BY ElementOfSeq DEF DispatchInv, TypeOK
<1>3. c \in Workers /\ Started(c)
  BY <1>1, <1>2 DEF RunningCmds, Frames, Started
<1>4. Waiting(c)
  BY <1>3 DEF DispatchInv, HeldInv, Apart
<1>5. shed[c] > 0
  BY <1>3, <1>4 DEF DispatchInv, HandoffInv, Waiting
<1> QED BY <1>3, <1>5, WorkersAreThreads DEF DispatchInv, LockInv, HandoffOwnerIsShedder

(* A thunk whose worker shed the lock runs while the lock is lent out for   *)
(* that worker, also inside a nested drain.                                 *)
THEOREM DispatchHandoffThunkInSection == Spec => []HandoffThunkInSection
BY DispatchInvariant, DispatchInvHandoff, PTL
=============================================================================
