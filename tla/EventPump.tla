----------------------------- MODULE EventPump -----------------------------
(***************************************************************************)
(* How a client's main thread is woken for events: the SDL queue, the       *)
(* put-back list, the wake pipe, the pump-wake timer and the threads that   *)
(* push events (src/src/events.c).  Events are counted, not named.  Each    *)
(* critical section of eventQueueLengthLock, each access of the SDL queue   *)
(* and each atomic is a step of its own, so every interleaving of a push    *)
(* (filter, then insertion), a wake, a timer tick and a drain is explored.  *)
(***************************************************************************)
EXTENDS WakePipe, FiniteSets

CONSTANTS Senders,     \* threads that push with XSendEvent or enqueueEvent
          Wakers,      \* threads that wake the pipe, after a push or alone
          Clients      \* the clients to explore, each of them a record:
                       \*  threads    the Senders and Wakers it has
                       \*  timer      the pump-wake timer runs (not the
                       \*             "dummy" driver)
                       \*  blocking   it blocks in XNextEvent, not in poll()
                       \*  maxEvents  bound: pushes, put-backs and lone wakes

ASSUME PumpAssumption ==
  /\ Senders \cap Wakers = {} /\ IsFiniteSet(Senders \union Wakers)
  /\ \A c \in Clients :
       /\ c.threads \subseteq Senders \union Wakers
       /\ c.timer \in BOOLEAN /\ c.blocking \in BOOLEAN
       /\ c.maxEvents \in Nat

VARIABLES client,   \* which of Clients this is, for good
          sdl,      \* events in SDL's queue
          putBack,  \* events in the put-back list
          stage,    \* where the main thread is
          goal,     \* the Xlib call it is in
          reads,    \* READ_EVENT_IN_PIPEs it still owes
          batch,    \* events it took and has not converted
          want,     \* the queue length it counted
          pc,       \* where each other thread is
          seen,     \* the queue length each of them read
          timer,    \* "idle" or between claim and write
          used      \* events spent so far

mainVars == <<stage, goal, reads, batch, want>>
threadVars == <<pc, seen>>
vars == <<pipeVars, client, sdl, putBack, mainVars, threadVars, timer, used>>

Others == Senders \union Wakers

Init ==
  /\ PipeInit
  /\ client \in Clients
  /\ sdl = 0 /\ putBack = 0
  /\ stage = "client" /\ goal = "none"
  /\ reads = 0 /\ batch = 0 /\ want = 0
  /\ pc = [p \in Others |-> "idle"]
  /\ seen = [p \in Others |-> 0]
  /\ timer = "idle"
  /\ used = 0

-----------------------------------------------------------------------------
(* enqueueEvent reads the counter before it pushes (XSendEvent does not     *)
(* care).                                                                   *)
BeginPush(p) ==
  /\ p \in client.threads /\ pc[p] = "idle" /\ used < client.maxEvents
  /\ used' = used + 1
  /\ seen' = [seen EXCEPT ![p] = qlen]
  /\ pc' = [pc EXCEPT ![p] = "push"]
  /\ UNCHANGED <<pipeVars, sdl, putBack, mainVars, timer>>

(* SDL_PushEvent runs the filter onSdlEvent, which counts the event and     *)
(* writes its byte, and only then inserts the event.                        *)
Filter(p) ==
  /\ pc[p] = "push"
  /\ ENQUEUE_EVENT_IN_PIPE
  /\ pc' = [pc EXCEPT ![p] = "filtered"]
  /\ UNCHANGED <<sdl, putBack, mainVars, seen, timer, used>>

Insert(p) ==
  /\ pc[p] = "filtered"
  /\ sdl' = sdl + 1
  /\ pc' = [pc EXCEPT ![p] = IF p \in Wakers THEN "count" ELSE "check"]
  /\ UNCHANGED <<pipeVars, putBack, mainVars, seen, timer, used>>

(* enqueueEvent writes a second byte when the counter did not grow past the *)
(* value it read before the push; XSendEvent does not look.                 *)
CheckGrowth(p) ==
  /\ pc[p] = "check"
  /\ pc' = [pc EXCEPT ![p] = "idle"]
  /\ \/ qlen <= seen[p] /\ ENQUEUE_EVENT_IN_PIPE
     \/ UNCHANGED pipeVars
  /\ UNCHANGED <<sdl, putBack, mainVars, seen, timer, used>>

(* wakeEventPipeForExternalEvent: count SDL's queue with no lock, set the   *)
(* display's counter, rewrite the pipe.                                     *)
LoneWake(p) ==
  /\ p \in Wakers
  /\ p \in client.threads /\ pc[p] = "idle" /\ used < client.maxEvents
  /\ used' = used + 1
  /\ pc' = [pc EXCEPT ![p] = "count"]
  /\ UNCHANGED <<pipeVars, sdl, putBack, mainVars, seen, timer>>

WakeCount(p) ==
  /\ pc[p] = "count"
  /\ seen' = [seen EXCEPT ![p] = sdl]
  /\ pc' = [pc EXCEPT ![p] = "set"]
  /\ UNCHANGED <<pipeVars, sdl, putBack, mainVars, timer, used>>

WakeSetLength(p) ==
  /\ pc[p] = "set"
  /\ seen' = [seen EXCEPT ![p] = @ + putBack]
  /\ setDisplayEventQueueLength(seen'[p])
  /\ pc' = [pc EXCEPT ![p] = "rewrite"]
  /\ UNCHANGED <<sdl, putBack, mainVars, timer, used>>

WakeRewrite(p) ==
  /\ pc[p] = "rewrite"
  /\ rewritePipe(seen[p])
  /\ pc' = [pc EXCEPT ![p] = "idle"]
  /\ UNCHANGED <<sdl, putBack, mainVars, seen, timer, used>>

ThreadStep(p) ==
  \/ Filter(p) \/ Insert(p) \/ CheckGrowth(p)
  \/ WakeCount(p) \/ WakeSetLength(p) \/ WakeRewrite(p)

-----------------------------------------------------------------------------
(* xtWakeTimerCallback.                                                     *)
TimerClaim ==
  /\ client.timer /\ timer = "idle"
  /\ timerClaim
  /\ timer' = "claimed"
  /\ UNCHANGED <<sdl, putBack, mainVars, threadVars, used>>

TimerWrite ==
  /\ timer = "claimed"
  /\ timerWrite
  /\ timer' = "idle"
  /\ UNCHANGED <<sdl, putBack, mainVars, threadVars, used>>

-----------------------------------------------------------------------------
(* The main thread.  A step of it that only moves on.                       *)
Goto(s) == stage' = s /\ UNCHANGED <<goal, reads, batch, want>>
QueuesSame == UNCHANGED <<sdl, putBack>>
OthersSame == UNCHANGED <<threadVars, timer, used>>

(* The client's event loop: deliver what is put back, else ask again; sleep *)
(* in poll() only after XPending returned 0.                                *)
CallPending ==
  /\ ~client.blocking /\ stage = "client" /\ putBack = 0
  /\ stage' = "pump" /\ goal' = "first"
  /\ UNCHANGED <<pipeVars, reads, batch, want>> /\ QueuesSame /\ OthersSame

Poll ==
  /\ stage = "quiet" /\ Goto("poll")
  /\ UNCHANGED pipeVars /\ QueuesSame /\ OthersSame

PollReturns ==
  /\ stage = "poll" /\ Readable /\ Goto("client")
  /\ UNCHANGED pipeVars /\ QueuesSame /\ OthersSame

(* XNextEvent: popPutBackEvent, or block in its loop.                       *)
PopPutBack ==
  /\ stage = "client" /\ putBack > 0
  /\ putBack' = putBack - 1
  /\ stage' = "popped" /\ goal' = "none"
  /\ UNCHANGED <<pipeVars, sdl, reads, batch, want>> /\ OthersSame

PopRead ==
  /\ stage = "popped" /\ Goto("client")
  /\ READ_EVENTS_IN_PIPE(1)
  /\ QueuesSame /\ OthersSame

CallNextEvent ==
  /\ client.blocking /\ stage = "client" /\ putBack = 0
  /\ goal' = "next" /\ stage' = "look"
  /\ UNCHANGED <<pipeVars, reads, batch, want>> /\ QueuesSame /\ OthersSame

(* XPutBackEvent: the list first, then the byte.                            *)
XPutBackEvent ==
  /\ stage = "client" /\ used < client.maxEvents
  /\ used' = used + 1
  /\ putBack' = putBack + 1
  /\ Goto("putBack")
  /\ UNCHANGED <<pipeVars, sdl, threadVars, timer>>

PutBackByte ==
  /\ stage = "putBack" /\ Goto("client")
  /\ ENQUEUE_EVENT_IN_PIPE
  /\ QueuesSame /\ OthersSame

(* pumpEventsSafe: SDL_PumpEvents may push host input, filter first; then   *)
(* the timer's byte is consumed.                                            *)
PumpInput ==
  /\ stage = "pump" /\ used < client.maxEvents
  /\ used' = used + 1
  /\ ENQUEUE_EVENT_IN_PIPE
  /\ Goto("pumpInsert")
  /\ UNCHANGED <<sdl, putBack, threadVars, timer>>

PumpInsert ==
  /\ stage = "pumpInsert" /\ Goto("pump")
  /\ sdl' = sdl + 1
  /\ UNCHANGED <<pipeVars, putBack>> /\ OthersSame

PumpCheck ==
  /\ stage = "pump"
  /\ Goto(IF pumpWakePending THEN "pumpRead"
          ELSE IF goal = "next" THEN "relook" ELSE "look")
  /\ UNCHANGED pipeVars /\ QueuesSame /\ OthersSame

PumpRead ==
  /\ stage = "pumpRead"
  /\ consumeRead
  /\ Goto(IF Readable THEN "pumpClear"
          ELSE IF goal = "next" THEN "relook" ELSE "look")
  /\ QueuesSame /\ OthersSame

PumpClear ==
  /\ stage = "pumpClear"
  /\ consumeClear
  /\ Goto(IF goal = "next" THEN "relook" ELSE "look")
  /\ QueuesSame /\ OthersSame

(* SDL_PeepEvents returns what SDL's queue holds, whatever qlen says.        *)
counterSaysEvent == sdl > 0 /\ qlen > 0

sdlHasEvent == sdl > 0

(* drainSdlEventsToPutBack takes the whole queue, XNextEvent one event.     *)
Take ==
  /\ stage \in {"look", "relook"} /\ sdlHasEvent
  /\ LET n == IF goal = "next" THEN 1 ELSE sdl
     IN  /\ sdl' = sdl - n
         /\ reads' = n /\ batch' = n
  /\ stage' = "read"
  /\ UNCHANGED <<pipeVars, putBack, goal, want>> /\ OthersSame

(* Nothing to take.  XEventsQueued returns what is put back, or goes through*)
(* XFlush and drains twice more; XNextEvent pumps once, then is idle.       *)
TakeNothing ==
  /\ stage \in {"look", "relook"} /\ ~sdlHasEvent
  /\ \/ /\ goal = "first"
        /\ IF putBack > 0 THEN stage' = "client" /\ goal' = "none"
                          ELSE stage' = "pump" /\ goal' = "flush"
        /\ UNCHANGED want
     \/ /\ goal = "next" /\ stage = "look"
        /\ stage' = "pump"
        /\ UNCHANGED <<goal, want>>
     \/ /\ goal \in {"flush", "last"} \/ stage = "relook"
        /\ stage' = "idleCheck"
        /\ want' = putBack
        /\ UNCHANGED goal
  /\ UNCHANGED <<pipeVars, reads, batch>> /\ QueuesSame /\ OthersSame

ReadByte ==
  /\ stage = "read"
  /\ READ_EVENTS_IN_PIPE(1)
  /\ reads' = reads - 1
  /\ stage' = IF reads = 1 THEN "convert" ELSE "read"
  /\ UNCHANGED <<goal, batch, want>> /\ QueuesSame /\ OthersSame

(* convertEvent swallows the event, or XNextEvent returns it, or a drain    *)
(* appends it to the put-back list and writes its byte.                     *)
ConvertSwallows ==
  /\ stage = "convert" /\ batch > 0
  /\ batch' = batch - 1
  /\ IF goal = "next" THEN stage' = "client" /\ goal' = "none"
                      ELSE UNCHANGED <<stage, goal>>
  /\ UNCHANGED <<pipeVars, reads, want>> /\ QueuesSame /\ OthersSame

ConvertAppends ==
  /\ stage = "convert" /\ batch > 0 /\ goal # "next"
  /\ batch' = batch - 1
  /\ putBack' = putBack + 1
  /\ stage' = "append"
  /\ UNCHANGED <<pipeVars, sdl, goal, reads, want>> /\ OthersSame

AppendByte ==
  /\ stage = "append" /\ Goto("convert")
  /\ ENQUEUE_EVENT_IN_PIPE
  /\ QueuesSame /\ OthersSame

(* The reconcile: count without the lock, compare under it, reset under it. *)
Recount ==
  /\ stage = "convert" /\ batch = 0 /\ goal # "next"
  /\ want' = putBack + sdl
  /\ stage' = "compare"
  /\ UNCHANGED <<pipeVars, goal, reads, batch>> /\ QueuesSame /\ OthersSame

(* The call the main thread is in is over, or goes on to its next drain.    *)
EndDrain ==
  /\ UNCHANGED <<reads, batch, want>>
  /\ \/ /\ goal = "flush"
        /\ goal' = "last" /\ stage' = "look"
     \/ /\ goal # "flush"
        /\ goal' = "none"
        /\ stage' = IF goal # "next" /\ putBack = 0 THEN "quiet" ELSE "client"

Agree ==
  /\ \/ stage = "compare" /\ qlen = want
     \/ stage = "idleCheck" /\ qlen <= want
  /\ EndDrain
  /\ UNCHANGED pipeVars /\ QueuesSame /\ OthersSame

Differ ==
  /\ \/ stage = "compare" /\ qlen # want
     \/ stage = "idleCheck" /\ qlen > want
  /\ Goto("reset")
  /\ UNCHANGED pipeVars /\ QueuesSame /\ OthersSame

Reset ==
  /\ stage = "reset"
  /\ resetEventWakeups(want)
  /\ EndDrain
  /\ QueuesSame /\ OthersSame

MainStep ==
  \/ CallPending \/ Poll \/ PollReturns
  \/ PopPutBack \/ PopRead \/ CallNextEvent \/ PutBackByte
  \/ PumpInsert \/ PumpCheck \/ PumpRead \/ PumpClear
  \/ Take \/ TakeNothing \/ ReadByte
  \/ ConvertSwallows \/ ConvertAppends \/ AppendByte
  \/ Recount \/ Agree \/ Differ \/ Reset

Next ==
  /\ UNCHANGED client
  /\ \/ MainStep \/ XPutBackEvent \/ PumpInput
     \/ TimerClaim \/ TimerWrite
     \/ \E p \in Others : BeginPush(p) \/ LoneWake(p) \/ ThreadStep(p)

(* The scheduler runs every thread; the timer fires again and again.        *)
Fairness ==
  /\ WF_vars(MainStep /\ UNCHANGED client)
  /\ WF_vars((TimerClaim \/ TimerWrite) /\ UNCHANGED client)
  /\ \A p \in Others : WF_vars(ThreadStep(p) /\ UNCHANGED client)

Spec == Init /\ [][Next]_vars
FairSpec == Spec /\ Fairness

-----------------------------------------------------------------------------
(* The counters are numbers and the control states the ones named above.    *)
TypeOK ==
  /\ bytes \in 0..PipeCapacity /\ qlen \in Nat
  /\ pumpWakePending \in BOOLEAN
  /\ sdl \in 0..client.maxEvents /\ putBack \in 0..client.maxEvents
  /\ reads \in 0..client.maxEvents /\ batch \in 0..client.maxEvents
  /\ reads <= batch
  /\ used \in 0..client.maxEvents

(* Nobody is in the middle of anything and the client sleeps in poll().     *)
Asleep ==
  /\ stage = "poll" /\ ~Readable
  /\ timer = "idle"
  /\ \A p \in Others : pc[p] = "idle"

(* A client asleep on the connection has nothing waiting for it: neither a  *)
(* put-back event nor one in SDL's queue (resetEventWakeups: "the reconcile *)
(* can no longer discard a wake byte the producer just wrote").             *)
NothingWaitsForSleeper == Asleep => sdl = 0 /\ putBack = 0

(* Whenever a client with one thread is back in control, display->qlen      *)
(* counts the two queues, and without the timer no byte is unaccounted for: *)
(* no stray one stays readable and spins an idle client's event loop.       *)
AccountingExact ==
  /\ TypeOK
  /\ (stage \in {"client", "quiet", "poll"} /\ client.threads = {})
       => /\ qlen = putBack + sdl
          /\ ~client.timer => bytes <= qlen

(* Every event is eventually taken from both queues by a client that blocks *)
(* in XNextEvent, whatever wake-ups are lost.                               *)
EventsAreDelivered ==
  client.blocking ~> [](sdl = 0 /\ putBack = 0 /\ batch = 0)

(* A polling client that has nothing to do still pumps the host's events    *)
(* again and again, because the timer wakes it ("This timer periodically    *)
(* wakes a client blocked in poll(ConnectionNumber)").                      *)
ClientKeepsPumping ==
  (client.timer /\ ~client.blocking) ~> (stage = "pump")
=============================================================================
