---------------------------- MODULE MainDispatch ----------------------------
(***************************************************************************)
(* runOnMainThread (src/src/main-dispatch.c): a worker that calls an Xlib   *)
(* entry point touching SDL sheds the display lock, pushes a command onto   *)
(* SDL's queue and blocks until the main thread has run it.  The main       *)
(* thread drains the queue from XNextEvent (without the display lock) or    *)
(* from XPending and XFlush (with it), parks commands that would interleave *)
(* with a lent critical section, and may drain again inside a thunk.        *)
(* Another worker that drains the queue must put the command back.          *)
(*                                                                         *)
(* A command lives on its worker's stack, so it is named by the worker.     *)
(***************************************************************************)
EXTENDS DisplayLock, WakePipe, Sequences

CONSTANTS TimerRuns,    \* the pump-wake timer runs
          Calls,        \* bound: Xlib calls each thread still makes
          MaxFailures,  \* bound: SDL_PushEvents that fail
          MaxNest       \* bound: drains inside thunks inside drains

ASSUME DispatchAssumption ==
  /\ TimerRuns \in BOOLEAN
  /\ Calls \subseteq [Threads -> Nat]
  /\ MaxFailures \in Nat /\ MaxNest \in Nat \ {0}

VARIABLES sdlQueue,      \* MAIN_DISPATCH events in SDL's queue
          deferredCmds,  \* parked commands, last parked first
          pc,            \* where a worker is in runOnMainThread or a drain
          lockHandoff,   \* cmd.lockHandoff
          done,          \* cmd.done
          carry,         \* the command a worker's drain took off the queue
          frames,        \* the main thread's drains, innermost last
          mainAt,        \* "loop" or asleep in "poll"
          left,          \* Xlib calls a thread may still make
          failures       \* pushes that failed so far

dispatchVars == <<sdlQueue, deferredCmds, pc, lockHandoff, done, carry,
                  frames, mainAt, left, failures>>
vars == <<lockVars, pipeVars, dispatchVars>>

NoCmd == NoThread

Init ==
  /\ LockInit /\ PipeInit
  /\ sdlQueue = <<>> /\ deferredCmds = <<>>
  /\ pc = [w \in Workers |-> "run"]
  /\ lockHandoff = [w \in Workers |-> FALSE]
  /\ done = [w \in Workers |-> FALSE]
  /\ carry = [w \in Workers |-> NoCmd]
  /\ frames = <<>>
  /\ mainAt = "loop"
  /\ left \in Calls
  /\ failures = 0

Spend(t) == left[t] > 0 /\ left' = [left EXCEPT ![t] = @ - 1]

(* wakeEventPipeForExternalEvent: as many bytes as events are queued.       *)
wakeEventPipe ==
  /\ bytes' = AtMost(Len(sdlQueue), PipeCapacity)
  /\ qlen' = Len(sdlQueue)
  /\ UNCHANGED pumpWakePending

(* completeCmd: the worker's wait on cmd.cond ends.  mainDispatchDropCmd     *)
(* does no more, for a command that was not run.                            *)
forget(c) == c \in Workers /\ UNCHANGED done

completeCmd(c) == done' = [done EXCEPT ![c] = TRUE]

mainDispatchDropCmd(c) == completeCmd(c)

-----------------------------------------------------------------------------
(* Workers.                                                                 *)
InClient(w) == pc[w] = "run" /\ Running(w)

(* The client locks and unlocks the display around its own calls.           *)
WorkerLocks(w) ==
  /\ InClient(w) /\ Spend(w) /\ CallLock(w)
  /\ UNCHANGED <<pipeVars, sdlQueue, deferredCmds, pc, lockHandoff, done,
                 carry, frames, mainAt, failures>>

WorkerUnlocks(w) ==
  /\ InClient(w) /\ Unlock(w)
  /\ UNCHANGED <<pipeVars, dispatchVars>>

(* A blocked LockDisplay or displayLockReacquire looks again, by anyone.    *)
MonitorStep(t) ==
  /\ LockWait(t) \/ TakeLock(t) \/ ReacquireWait(t) \/ TakeBack(t)
  /\ UNCHANGED <<pipeVars, dispatchVars>>

(* runOnMainThread: shed the lock before anything is published.             *)
runOnMainThread(w) ==
  /\ InClient(w) /\ Spend(w)
  /\ \/ owner = w /\ ShedLock(w)
     \/ owner # w /\ UNCHANGED lockVars
  /\ lockHandoff' = [lockHandoff EXCEPT ![w] = owner = w]
  /\ done' = [done EXCEPT ![w] = FALSE]
  /\ pc' = [pc EXCEPT ![w] = "push"]
  /\ UNCHANGED <<pipeVars, sdlQueue, deferredCmds, carry, frames, mainAt,
                 failures>>

Push(w) ==
  /\ pc[w] = "push"
  /\ sdlQueue' = Append(sdlQueue, w)
  /\ ENQUEUE_EVENT_IN_PIPE
  /\ pc' = [pc EXCEPT ![w] = "wake"]
  /\ UNCHANGED <<lockVars, deferredCmds, lockHandoff, done, carry, frames,
                 mainAt, left, failures>>

(* SDL_PushEvent failed: take the lock back and drop the call.              *)
PushFails(w) ==
  /\ pc[w] = "push" /\ failures < MaxFailures
  /\ failures' = failures + 1
  /\ pc' = [pc EXCEPT ![w] = "dropped"]
  /\ UNCHANGED <<lockVars, pipeVars, sdlQueue, deferredCmds, lockHandoff,
                 done, carry, frames, mainAt, left>>

Wake(w) ==
  /\ pc[w] = "wake"
  /\ wakeEventPipe
  /\ pc' = [pc EXCEPT ![w] = "wait"]
  /\ UNCHANGED <<lockVars, sdlQueue, deferredCmds, lockHandoff, done, carry,
                 frames, mainAt, left, failures>>

WaitOnce(w) ==
  /\ pc[w] = "wait"
  /\ pc' = [pc EXCEPT ![w] = "retake"]
  /\ UNCHANGED <<lockVars, pipeVars, sdlQueue, deferredCmds, lockHandoff,
                 done, carry, frames, mainAt, left, failures>>

WaitEnds(w) ==
  /\ pc[w] = "wait" /\ done[w]
  /\ pc' = [pc EXCEPT ![w] = "retake"]
  /\ UNCHANGED <<lockVars, pipeVars, sdlQueue, deferredCmds, lockHandoff,
                 done, carry, frames, mainAt, left, failures>>

Retake(w) ==
  /\ pc[w] \in {"retake", "dropped"}
  /\ CallReacquire(w)
  /\ UNCHANGED <<pipeVars, dispatchVars>>

(* The lock is back at its depth, or was never held.  Only a call that ran  *)
(* goes on to nudge the main thread.                                        *)
Retaken(w) ==
  /\ pc[w] \in {"retake", "dropped"} /\ Running(w)
  /\ pc' = [pc EXCEPT ![w] =
              IF pc[w] = "retake" /\ lockHandoff[w] THEN "nudge" ELSE "run"]
  /\ UNCHANGED <<lockVars, pipeVars, sdlQueue, deferredCmds, lockHandoff,
                 done, carry, frames, mainAt, left, failures>>

Nudge(w) ==
  /\ pc[w] = "nudge"
  /\ wakeEventPipe
  /\ pc' = [pc EXCEPT ![w] = "run"]
  /\ UNCHANGED <<lockVars, sdlQueue, deferredCmds, lockHandoff, done, carry,
                 frames, mainAt, left, failures>>

(* convertEvent on a thread that is not the main one: back into the queue,  *)
(* or, when that fails, complete the command without running it.            *)
DrainOffMain(w) ==
  /\ InClient(w) /\ Spend(w) /\ sdlQueue # <<>>
  /\ carry' = [carry EXCEPT ![w] = Head(sdlQueue)]
  /\ sdlQueue' = Tail(sdlQueue)
  /\ READ_EVENTS_IN_PIPE(1)
  /\ pc' = [pc EXCEPT ![w] = "carry"]
  /\ UNCHANGED <<lockVars, deferredCmds, lockHandoff, done, frames, mainAt,
                 failures>>

Requeue(w) ==
  /\ pc[w] = "carry"
  /\ sdlQueue' = Append(sdlQueue, carry[w])
  /\ carry' = [carry EXCEPT ![w] = NoCmd]
  /\ ENQUEUE_EVENT_IN_PIPE
  /\ pc' = [pc EXCEPT ![w] = "requeued"]
  /\ UNCHANGED <<lockVars, deferredCmds, lockHandoff, done, frames, mainAt,
                 left, failures>>

RequeueWake(w) ==
  /\ pc[w] = "requeued"
  /\ wakeEventPipe
  /\ pc' = [pc EXCEPT ![w] = "run"]
  /\ UNCHANGED <<lockVars, sdlQueue, deferredCmds, lockHandoff, done, carry,
                 frames, mainAt, left, failures>>

RequeueFails(w) ==
  /\ pc[w] = "carry" /\ failures < MaxFailures
  /\ failures' = failures + 1
  /\ mainDispatchDropCmd(carry[w])
  /\ carry' = [carry EXCEPT ![w] = NoCmd]
  /\ pc' = [pc EXCEPT ![w] = "run"]
  /\ UNCHANGED <<lockVars, pipeVars, sdlQueue, deferredCmds, lockHandoff,
                 frames, mainAt, left>>

WorkerStep(w) ==
  \/ WorkerUnlocks(w)
  \/ Push(w) \/ PushFails(w) \/ Wake(w) \/ WaitEnds(w)
  \/ Retake(w) \/ Retaken(w) \/ Nudge(w)
  \/ Requeue(w) \/ RequeueWake(w) \/ RequeueFails(w)

-----------------------------------------------------------------------------
(* The main thread.  A frame is one drain: how far it is, the events it     *)
(* took and has not handled, the command whose thunk it runs, and how deep  *)
(* the thread held the lock when that thunk began.                          *)
Frame(kind, stage, batch) ==
  [kind |-> kind, stage |-> stage, batch |-> batch, cmd |-> NoCmd, base |-> 0]

top == frames[Len(frames)]
SetTop(f) == frames' = [frames EXCEPT ![Len(frames)] = f]
PopFrame == frames' = SubSeq(frames, 1, Len(frames) - 1)

MainFree == Running(Main)
InLoop == MainFree /\ frames = <<>> /\ mainAt = "loop"
InDrain == MainFree /\ frames # <<>> /\ top.cmd = NoCmd
InThunk == MainFree /\ frames # <<>> /\ top.cmd # NoCmd
WorkersSame == UNCHANGED <<pc, lockHandoff, carry, failures>>

(* XLockDisplay and XUnlockDisplay by the client's main loop or a thunk.    *)
MainLocks ==
  /\ InLoop \/ InThunk
  /\ Spend(Main) /\ CallLock(Main)
  /\ UNCHANGED <<pipeVars, sdlQueue, deferredCmds, done, frames, mainAt>>
  /\ WorkersSame

MainUnlocks ==
  /\ InLoop \/ (InThunk /\ nest[Main] > top.base)
  /\ Unlock(Main)
  /\ UNCHANGED <<pipeVars, dispatchVars>>

(* XNextEvent takes one event, or pumps first when there is none.  It waits  *)
(* until there is one, so a client does not call it with the display locked. *)
StartNext ==
  /\ InLoop /\ nest[Main] = 0
  /\ IF sdlQueue # <<>>
       THEN /\ frames' = <<Frame("next", "events", <<Head(sdlQueue)>>)>>
            /\ sdlQueue' = Tail(sdlQueue)
            /\ READ_EVENTS_IN_PIPE(1)
       ELSE /\ frames' = <<Frame("next", "pump", <<>>)>>
            /\ UNCHANGED <<sdlQueue, pipeVars>>
  /\ UNCHANGED <<lockVars, deferredCmds, done, mainAt, left>> /\ WorkersSame

(* XPending, or any nested drain a thunk reaches: pump, then lock.          *)
StartPending ==
  /\ \/ InLoop /\ UNCHANGED left
     \/ InThunk /\ Len(frames) < MaxNest /\ Spend(Main)
  /\ frames' = Append(frames, Frame("drain", "pump", <<>>))
  /\ UNCHANGED <<lockVars, pipeVars, sdlQueue, deferredCmds, done, mainAt>>
  /\ WorkersSame

(* runDeferredCmds, at each place that calls it: the pump, the start of a   *)
(* drain and mainDispatchHandleEvent.                                       *)
mayRunDeferred == deferredCmds # <<>> /\ handoffOwner = NoThread

RunDeferred ==
  /\ InDrain
  /\ top.stage \in {"pump", "locked"} \/ top.batch # <<>>
  /\ mayRunDeferred
  /\ SetTop([top EXCEPT !.cmd = Head(deferredCmds), !.base = nest[Main]])
  /\ deferredCmds' = Tail(deferredCmds)
  /\ UNCHANGED <<lockVars, pipeVars, sdlQueue, done, mainAt, left>>
  /\ WorkersSame

(* pumpEventsSafe is over: its wake byte is consumed.                       *)
PumpEnds ==
  /\ InDrain /\ top.stage = "pump" /\ ~mayRunDeferred
  /\ IF pumpWakePending /\ Readable
       THEN bytes' = bytes - 1 /\ pumpWakePending' = FALSE
       ELSE UNCHANGED <<bytes, pumpWakePending>>
  /\ UNCHANGED qlen
  /\ \/ /\ top.kind = "drain"
        /\ CallLock(Main)
        /\ SetTop([top EXCEPT !.stage = "locked"])
     \/ /\ top.kind = "next"
        /\ SetTop([top EXCEPT !.stage = "take"])
        /\ UNCHANGED lockVars
  /\ UNCHANGED <<sdlQueue, deferredCmds, done, mainAt, left>> /\ WorkersSame

(* Take the whole queue, or one event.                                      *)
Take ==
  /\ InDrain
  /\ \/ top.stage = "take" /\ sdlQueue # <<>>
     \/ top.stage = "locked" /\ ~mayRunDeferred
  /\ LET n == IF top.kind = "drain" THEN Len(sdlQueue)
                                    ELSE 1
     IN  /\ SetTop([top EXCEPT !.stage = "events",
                               !.batch = SubSeq(sdlQueue, 1, n)])
         /\ sdlQueue' = SubSeq(sdlQueue, n + 1, Len(sdlQueue))
         /\ READ_EVENTS_IN_PIPE(n)
  /\ UNCHANGED <<lockVars, deferredCmds, done, mainAt, left>> /\ WorkersSame

(* XNextEvent found nothing: it drops stray wake bytes and looks again.      *)
Idle ==
  /\ InDrain /\ top.stage = "take" /\ sdlQueue = <<>>
  /\ PopFrame
  /\ IF qlen > 0 THEN resetEventWakeups(0) ELSE UNCHANGED pipeVars
  /\ UNCHANGED <<lockVars, sdlQueue, deferredCmds, done, mainAt, left>>
  /\ WorkersSame

(* mainDispatchHandleEvent for the next event: park it or start its thunk.  *)
mustPark(c) == ~lockHandoff[c] /\ handoffOwner # NoThread

HandleEvent ==
  /\ InDrain /\ top.batch # <<>> /\ ~mayRunDeferred
  /\ LET c == Head(top.batch) IN
     \/ /\ mustPark(c)
        /\ deferredCmds' = <<c>> \o deferredCmds
        /\ SetTop([top EXCEPT !.batch = Tail(@)])
     \/ /\ ~mustPark(c)
        /\ SetTop([top EXCEPT !.batch = Tail(@), !.cmd = c,
                              !.base = nest[Main]])
        /\ UNCHANGED deferredCmds
  /\ UNCHANGED <<lockVars, pipeVars, sdlQueue, done, mainAt, left>>
  /\ WorkersSame

(* The thunk returns and its worker is released.                            *)
ThunkReturns ==
  /\ InThunk /\ nest[Main] = top.base
  /\ completeCmd(top.cmd)
  /\ SetTop([top EXCEPT !.cmd = NoCmd])
  /\ UNCHANGED <<lockVars, pipeVars, sdlQueue, deferredCmds, mainAt, left>>
  /\ WorkersSame

(* The drain is over: the pipe is reconciled with what is queued.  XPending *)
(* has nothing to return here, so a polling client goes to sleep.           *)
EndDrain ==
  /\ InDrain /\ top.stage = "events" /\ top.batch = <<>>
  /\ PopFrame
  /\ \/ /\ top.kind = "drain"
        /\ Unlock(Main)
        /\ IF qlen # Len(sdlQueue) THEN resetEventWakeups(Len(sdlQueue))
                                   ELSE UNCHANGED pipeVars
     \/ top.kind = "next" /\ UNCHANGED <<lockVars, pipeVars>>
  /\ mainAt' = IF top.kind = "drain" /\ Len(frames) = 1 /\ nest'[Main] = 0
                 THEN "poll" ELSE mainAt
  /\ UNCHANGED <<sdlQueue, deferredCmds, done, left>> /\ WorkersSame

PollReturns ==
  /\ mainAt = "poll" /\ Readable
  /\ mainAt' = "loop"
  /\ UNCHANGED <<lockVars, pipeVars, sdlQueue, deferredCmds, done, frames,
                 left>>
  /\ WorkersSame

TimerTick ==
  /\ TimerRuns /\ ~pumpWakePending /\ bytes < PipeCapacity
  /\ pumpWakePending' = TRUE /\ bytes' = bytes + 1
  /\ UNCHANGED <<lockVars, qlen, dispatchVars>>

(* What the main thread does of itself; starting a call inside a thunk, or  *)
(* locking, is the client's choice.                                         *)
MainStep ==
  \/ MainUnlocks
  \/ StartNext \/ (frames = <<>> /\ StartPending)
  \/ RunDeferred \/ PumpEnds \/ Take \/ Idle \/ HandleEvent \/ ThunkReturns
  \/ EndDrain \/ PollReturns

Next ==
  \/ \E w \in Workers : \/ WorkerLocks(w) \/ runOnMainThread(w)
                        \/ DrainOffMain(w) \/ WorkerStep(w)
  \/ \E t \in Threads : MonitorStep(t)
  \/ MainLocks \/ StartPending \/ MainStep
  \/ TimerTick

(* Every thread gets to run, and a client that holds the lock gives it up.  *)
Fairness ==
  /\ \A w \in Workers : WF_vars(WorkerStep(w))
  /\ \A t \in Threads : WF_vars(MonitorStep(t))
  /\ WF_vars(MainStep)
  /\ WF_vars(TimerTick)

Spec == Init /\ [][Next]_vars
FairSpec == Spec /\ Fairness

-----------------------------------------------------------------------------
RunningCmds == {frames[i].cmd : i \in 1..Len(frames)} \ {NoCmd}

(* The places that hold a pointer to c's command.                           *)
Positions(s, c) == {i \in 1..Len(s) : s[i] = c}
At(place, f, positions) == {<<place, f, i>> : i \in positions}

Holders(c) ==
  At("queue", 0, Positions(sdlQueue, c))
    \union At("parked", 0, Positions(deferredCmds, c))
    \union (UNION {At("batch", f, Positions(frames[f].batch, c)) :
                     f \in 1..Len(frames)})
    \union At("thunk", 0, {f \in 1..Len(frames) : frames[f].cmd = c})
    \union At("carry", 0, {w \in Workers : carry[w] = c})

(* Types of the control state.                                              *)
Frames == [kind : {"next", "drain"}, stage : {"pump", "locked", "take", "events"},
           batch : Seq(Workers), cmd : Workers \union {NoCmd}, base : Nat]

TypeOK ==
  /\ LockTypeOK
  /\ sdlQueue \in Seq(Workers) /\ deferredCmds \in Seq(Workers)
  /\ pc \in [Workers -> {"run", "push", "wake", "wait", "retake", "dropped",
                         "nudge", "carry", "requeued"}]
  /\ lockHandoff \in [Workers -> BOOLEAN] /\ done \in [Workers -> BOOLEAN]
  /\ carry \in [Workers -> Workers \union {NoCmd}]
  /\ frames \in Seq(Frames) /\ Len(frames) <= MaxNest
  /\ mainAt \in {"loop", "poll"}
  /\ left \in [Threads -> Nat] /\ failures \in 0..MaxFailures

(* A command lives on its worker's stack: exactly one queue, list, batch or *)
(* thunk refers to it while the worker waits, and none before the push or   *)
(* after the completion.  ("Every path that takes a MAIN_DISPATCH event off *)
(* the SDL queue must either successfully re-queue it or call this, or the  *)
(* worker waits on cmd.cond forever.")                                      *)
CommandHeldOnce ==
  /\ TypeOK
  /\ \A w \in Workers :
       /\ \A p, q \in Holders(w) : p = q
       /\ Holders(w) # {} <=> pc[w] \in {"wake", "wait"} /\ ~done[w]

(* The thunk of a worker that shed the lock runs inside that worker's lent  *)
(* section ("the thunk runs against a recorded handoff").                   *)
HandoffThunkInSection ==
  \A c \in RunningCmds : lockHandoff[c] => handoffOwner = c

(* Once no handoff is pending and nobody is about to wake it, a main thread *)
(* asleep in poll() leaves no command parked.                               *)
ParkedWillRun ==
  (/\ deferredCmds # <<>> /\ handoffOwner = NoThread
   /\ mainAt = "poll"
   /\ \A w \in Workers : pc[w] \in {"run", "wait"})
    => Readable \/ (TimerRuns /\ ~pumpWakePending)

(* With a client that blocks in XNextEvent, every routed call returns to    *)
(* its worker ("the caller then blocks until the main thread has run it").  *)
BlocksInNext == frames = <<>> \/ frames[1].kind = "next"

RouteReturns ==
  []BlocksInNext => \A w \in Workers : (pc[w] # "run") ~> (pc[w] = "run")
=============================================================================
