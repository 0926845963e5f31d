---------------------------- MODULE PresentWake ----------------------------
(***************************************************************************)
(* How what was drawn gets on the screen (src/src/drawing.c).  Drawing only *)
(* marks a window dirty and arms a one-shot timer; its callback, on SDL's   *)
(* timer thread, pushes a PRESENT event, whose conversion presents.  A      *)
(* client that has flushed presents at once, unless a repaint burst is      *)
(* being coalesced: then the wake has to come again.  Closing the display   *)
(* cancels the timer.  A step is one access to a flag the two threads share. *)
(***************************************************************************)
EXTENDS Naturals, FiniteSets, Sequences, SequencesExt

CONSTANTS Painters  \* the programs to explore, each of them a record:
                    \*  overlap  may the callback run between main's steps?
                    \*  works    bound: times it draws or is resized
                    \*  opens    bound: times it opens the display again
                    \*  failures bound: arms, pushes and presents that fail

ASSUME PaintersAssumption ==
  Painters \subseteq [overlap : BOOLEAN, works : Nat, opens : Nat, failures : Nat]

NoTimer == 0

VARIABLES painter,     \* one of Painters, never changed
          up,          \* is SDL initialised?
          dirty,       \* does a mapped top-level window need a present?
          coalesceDeadline,    \* coalesceDeadline: "none", "ahead" or "past"
          wakePending, timerPending, timerId, tornDown, \* presentWake...
          timers,      \* SDL: timers that have not fired
          callback,    \* presentWakeTimerCallback: its timer, its steps to come
          locked,      \* who holds presentWakeCallbackLock
          wakes,       \* PRESENT events in SDL's queue
          todo,        \* the main thread's steps to come
          drained,     \* has the client just seen that it has no event?
          asleep,      \* it sleeps in poll()
          unlucky,     \* did a call fail since the windows were clean?
          works, opens, failures

wakeVars == <<wakePending, timerPending, timerId, tornDown>>
timerVars == <<timers, callback, locked>>
clientSide == <<drained, asleep, works, opens>>
presentVars == <<painter, up, dirty, coalesceDeadline, wakeVars, timerVars, wakes, todo,
                 clientSide, unlucky, failures>>

NoCallback == [timer |-> NoTimer, todo |-> <<>>]

PresentInit ==
  /\ painter \in Painters
  /\ up = TRUE /\ dirty = FALSE /\ coalesceDeadline = "none"
  /\ wakePending = FALSE /\ timerPending = FALSE
  /\ timerId = NoTimer /\ tornDown = FALSE
  /\ timers = {} /\ callback = NoCallback /\ locked = "nobody"
  /\ wakes = 0 /\ todo = <<>> /\ drained = FALSE /\ asleep = FALSE
  /\ unlucky = FALSE /\ works = 0 /\ opens = 0 /\ failures = 0

Goes == UNCHANGED <<unlucky, failures>>
Fails ==
  /\ failures < painter.failures /\ failures' = failures + 1
  /\ unlucky' = TRUE

-----------------------------------------------------------------------------
(* The calls, as lists of steps.                                            *)
schedulePresentWake == <<"askWake", "askTimer", "ungag", "markTimer", "arm">>
markWindowNeedsPresent == <<"markDirty">> \o schedulePresentWake
drawWindowDataToScreen == <<"draw">>
gagOnly == <<"gag", "remove", "clearTimer", "clearWake">>
cancelPresentWakeTimer == <<"gag", "remove", "cycleLock", "clearTimer", "clearWake">>

presentWakeTimerCallback ==
  <<"lock", "askGag", "askWake", "push", "mark", "unlock", "clearTimer">>

Idle == up /\ todo = <<>> /\ ~asleep
Draws == works < painter.works /\ works' = works + 1 /\ drained' = FALSE

markWindowNeedsPresentRect ==
  /\ Idle /\ Draws
  /\ dirty' = TRUE
  /\ todo' = schedulePresentWake
  /\ UNCHANGED <<painter, up, coalesceDeadline, wakeVars, timerVars, wakes, asleep, opens>>
  /\ Goes

(* A resize by the host clears the window and expects the client's burst.   *)
beginCoalesceClientRepaint ==
  /\ Idle /\ Draws
  /\ dirty' = TRUE /\ coalesceDeadline' = "ahead"
  /\ todo' = schedulePresentWake
  /\ UNCHANGED <<painter, up, wakeVars, timerVars, wakes, asleep, opens>>
  /\ Goes

TimePasses ==
  /\ coalesceDeadline = "ahead" /\ coalesceDeadline' = "past"
  /\ UNCHANGED <<painter, up, dirty, wakeVars, timerVars, wakes, todo, clientSide>>
  /\ Goes

(* XEventsQueued drains the events there are, or flushes and drains again;  *)
(* the client sleeps in poll() when it has none.                            *)
XEventsQueued ==
  /\ Idle
  /\ todo' = IF wakes > 0 THEN <<"drain">>
             ELSE <<"drain">> \o drawWindowDataToScreen \o <<"drain">>
  /\ drained' = TRUE
  /\ UNCHANGED <<painter, up, dirty, coalesceDeadline, wakeVars, timerVars, wakes,
                 asleep, works, opens>>
  /\ Goes

endCoalesceClientRepaint ==
  IF coalesceDeadline = "none" THEN <<>> ELSE drawWindowDataToScreen

(* XNextEvent's loop presents when the queue is empty, and ends the burst.  *)
XNextEvent ==
  /\ Idle
  /\ IF wakes > 0
     THEN /\ wakes' = wakes - 1 /\ todo' = drawWindowDataToScreen
          /\ UNCHANGED coalesceDeadline
     ELSE /\ coalesceDeadline' = "none"
          /\ todo' = endCoalesceClientRepaint \o drawWindowDataToScreen
          /\ UNCHANGED wakes
  /\ UNCHANGED <<painter, up, dirty, wakeVars, timerVars, clientSide>>
  /\ Goes

(* Mapping a top-level window presents it before it is shown and again when *)
(* the host has shown it.                                                   *)
showTopLevelWindow ==
  /\ Idle /\ Draws
  /\ coalesceDeadline' = "none" /\ dirty' = TRUE
  /\ todo' = endCoalesceClientRepaint \o drawWindowDataToScreen
             \o markWindowNeedsPresent \o drawWindowDataToScreen
  /\ UNCHANGED <<painter, up, wakeVars, timerVars, wakes, asleep, opens>>
  /\ Goes

Poll ==
  /\ Idle /\ drained /\ wakes = 0
  /\ asleep' = TRUE
  /\ UNCHANGED <<painter, up, dirty, coalesceDeadline, wakeVars, timerVars, wakes, todo,
                 drained, works, opens>>
  /\ Goes

(* Its own event wakes it, or another one, after which it may draw.         *)
PollReturns ==
  /\ asleep /\ (wakes > 0 \/ works < painter.works)
  /\ asleep' = FALSE /\ drained' = FALSE
  /\ UNCHANGED <<painter, up, dirty, coalesceDeadline, wakeVars, timerVars, wakes, todo,
                 works, opens>>
  /\ Goes

XCloseDisplay ==
  /\ Idle
  /\ todo' = cancelPresentWakeTimer \o <<"quit">>
  /\ UNCHANGED <<painter, up, dirty, coalesceDeadline, wakeVars, timerVars, wakes, clientSide>>
  /\ Goes

XOpenDisplay ==
  /\ ~up /\ todo = <<>> /\ opens < painter.opens
  /\ opens' = opens + 1
  /\ todo' = cancelPresentWakeTimer \o <<"init">>
  /\ UNCHANGED <<painter, up, dirty, coalesceDeadline, wakeVars, timerVars, wakes, drained,
                 asleep, works>>
  /\ Goes

-----------------------------------------------------------------------------
(* The main thread's steps.                                                 *)
MainAt(s) == todo # <<>> /\ Head(todo) = s /\ (painter.overlap \/ callback = NoCallback)
Proceeds == todo' = Tail(todo)
Skips(n) == todo' = SubSeq(todo, n + 1, Len(todo))

AskWake ==
  /\ MainAt("askWake")
  /\ IF wakePending THEN Skips(Len(schedulePresentWake)) ELSE Proceeds
  /\ UNCHANGED <<dirty, coalesceDeadline, wakeVars, timerVars, wakes, up>> /\ Goes

AskTimer ==
  /\ MainAt("askTimer")
  /\ IF timerPending THEN Skips(Len(schedulePresentWake) - 1) ELSE Proceeds
  /\ UNCHANGED <<dirty, coalesceDeadline, wakeVars, timerVars, wakes, up>> /\ Goes

Gag ==
  /\ \/ MainAt("ungag") /\ tornDown' = FALSE
     \/ MainAt("gag") /\ tornDown' = TRUE
  /\ Proceeds
  /\ UNCHANGED <<dirty, coalesceDeadline, wakePending, timerPending, timerId, timerVars,
                 wakes, up>>
  /\ Goes

MarkDirty ==
  /\ MainAt("markDirty") /\ Proceeds
  /\ dirty' = TRUE
  /\ UNCHANGED <<coalesceDeadline, wakeVars, timerVars, wakes, up>> /\ Goes

MarkTimer ==
  /\ \/ MainAt("markTimer") /\ timerPending' = TRUE
     \/ MainAt("clearTimer") /\ timerPending' = FALSE
  /\ Proceeds
  /\ UNCHANGED <<dirty, coalesceDeadline, wakePending, timerId, tornDown, timerVars,
                 wakes, up>>
  /\ Goes

NewTimer == CHOOSE t \in 1..3 : t \notin timers \union {callback.timer, timerId}

Arm ==
  /\ MainAt("arm") /\ Proceeds
  /\ timerId' = NewTimer /\ timers' = timers \union {NewTimer}
  /\ UNCHANGED <<dirty, coalesceDeadline, wakePending, timerPending, tornDown, callback,
                 locked, wakes, up>>
  /\ Goes

ArmFails ==
  /\ MainAt("arm") /\ Proceeds /\ Fails
  /\ timerPending' = FALSE
  /\ UNCHANGED <<dirty, coalesceDeadline, wakePending, timerId, tornDown, timerVars,
                 wakes, up>>

RemoveTimer ==
  /\ MainAt("remove") /\ Proceeds
  /\ timers' = timers \ {timerId} /\ timerId' = NoTimer
  /\ UNCHANGED <<dirty, coalesceDeadline, wakePending, timerPending, tornDown,
                 callback, locked, wakes, up>>
  /\ Goes

CycleLock ==
  /\ MainAt("cycleLock") /\ locked = "nobody" /\ Proceeds
  /\ UNCHANGED <<dirty, coalesceDeadline, wakeVars, timerVars, wakes, up>> /\ Goes

ClearWake ==
  /\ MainAt("clearWake") /\ Proceeds
  /\ wakePending' = FALSE
  /\ UNCHANGED <<dirty, coalesceDeadline, timerPending, timerId, tornDown, timerVars,
                 wakes, up>>
  /\ Goes

Drain ==
  /\ MainAt("drain")
  /\ todo' = [i \in 1..wakes |-> "draw"] \o Tail(todo)
  /\ wakes' = 0
  /\ UNCHANGED <<dirty, coalesceDeadline, wakeVars, timerVars, up>> /\ Goes

(* drawWindowDataToScreen with nothing to present, within a burst, and with *)
(* a present, which a failing readback leaves dirty.                        *)
NothingToDraw ==
  /\ MainAt("draw") /\ ~dirty /\ Proceeds
  /\ wakePending' = FALSE
  /\ UNCHANGED <<dirty, coalesceDeadline, timerPending, timerId, tornDown, timerVars,
                 wakes, up>>
  /\ Goes

keepsWake == UNCHANGED wakePending
clearsWake == wakePending' = FALSE

HoldBack ==
  /\ MainAt("draw") /\ dirty /\ coalesceDeadline = "ahead"
  /\ clearsWake
  /\ todo' = schedulePresentWake \o Tail(todo)
  /\ UNCHANGED <<dirty, coalesceDeadline, timerPending, timerId, tornDown, timerVars,
                 wakes, up>>
  /\ Goes

coalesceActive == coalesceDeadline = "ahead"

Present ==
  /\ MainAt("draw") /\ dirty /\ ~coalesceActive
  /\ coalesceDeadline' = "none"
  /\ \/ dirty' = FALSE /\ unlucky' = FALSE /\ UNCHANGED failures
     \/ UNCHANGED dirty /\ Fails
  /\ todo' = <<"clearWake">> \o Tail(todo)
  /\ UNCHANGED <<wakeVars, timerVars, wakes, up>>

(* SDL_Quit joins the timer thread; its queue and timers go.                *)
SDL_Quit ==
  /\ MainAt("quit") /\ callback = NoCallback /\ Proceeds
  /\ up' = FALSE /\ dirty' = FALSE /\ wakes' = 0 /\ timers' = {}
  /\ unlucky' = FALSE
  /\ UNCHANGED <<coalesceDeadline, wakeVars, callback, locked, failures>>

SDL_Init ==
  /\ MainAt("init") /\ Proceeds /\ up' = TRUE
  /\ UNCHANGED <<dirty, coalesceDeadline, wakeVars, timerVars, wakes>> /\ Goes

MainStep ==
  /\ \/ AskWake \/ AskTimer \/ Gag \/ MarkDirty \/ MarkTimer \/ Arm \/ ArmFails \/ RemoveTimer
     \/ CycleLock \/ ClearWake \/ Drain \/ NothingToDraw \/ HoldBack \/ Present
     \/ SDL_Quit \/ SDL_Init
  /\ UNCHANGED <<painter, clientSide>>

-----------------------------------------------------------------------------
(* The callback's steps.                                                    *)
CallbackAt(s) == callback.todo # <<>> /\ Head(callback.todo) = s
Returned(rest) == IF rest = <<>> THEN NoCallback ELSE [callback EXCEPT !.todo = rest]
Then(rest) == callback' = Returned(rest)
SkipsPush == <<"unlock", "clearTimer">>

Fires ==
  /\ callback = NoCallback
  /\ \E t \in timers :
       /\ timers' = timers \ {t}
       /\ callback' = [timer |-> t, todo |-> presentWakeTimerCallback]
  /\ UNCHANGED <<wakeVars, locked, wakes>> /\ Goes

Lock ==
  /\ CallbackAt("lock") /\ locked = "nobody"
  /\ locked' = "callback" /\ Then(Tail(callback.todo))
  /\ UNCHANGED <<wakeVars, timers, wakes>> /\ Goes

Unlock ==
  /\ CallbackAt("unlock")
  /\ locked' = "nobody" /\ Then(Tail(callback.todo))
  /\ UNCHANGED <<wakeVars, timers, wakes>> /\ Goes

Ask ==
  /\ \/ CallbackAt("askGag") /\ Then(IF tornDown THEN SkipsPush ELSE Tail(callback.todo))
     \/ CallbackAt("askWake") /\ Then(IF wakePending THEN SkipsPush ELSE Tail(callback.todo))
  /\ UNCHANGED <<wakeVars, timers, locked, wakes>> /\ Goes

Push ==
  /\ CallbackAt("push") /\ Then(Tail(callback.todo))
  /\ wakes' = wakes + 1
  /\ UNCHANGED <<wakeVars, timers, locked>> /\ Goes

PushFails ==
  /\ CallbackAt("push") /\ Then(SkipsPush) /\ Fails
  /\ UNCHANGED <<wakeVars, timers, locked, wakes>>

Mark ==
  /\ CallbackAt("mark") /\ Then(Tail(callback.todo))
  /\ wakePending' = TRUE
  /\ UNCHANGED <<timerPending, timerId, tornDown, timers, locked, wakes>>
  /\ Goes

ClearTimer ==
  /\ CallbackAt("clearTimer") /\ Then(Tail(callback.todo))
  /\ timerPending' = FALSE
  /\ UNCHANGED <<wakePending, timerId, tornDown, timers, locked, wakes>>
  /\ Goes

CallbackStep ==
  /\ Fires \/ Lock \/ Unlock \/ Ask \/ Push \/ PushFails \/ Mark \/ ClearTimer
  /\ UNCHANGED <<painter, up, dirty, coalesceDeadline, todo, clientSide>>

PresentNext ==
  \/ markWindowNeedsPresentRect \/ beginCoalesceClientRepaint \/ TimePasses
  \/ XEventsQueued \/ XNextEvent \/ showTopLevelWindow \/ Poll \/ PollReturns
  \/ XCloseDisplay \/ XOpenDisplay
  \/ MainStep \/ CallbackStep

PresentSpec == PresentInit /\ [][PresentNext]_presentVars

-----------------------------------------------------------------------------
(* Types.                                                                   *)
PresentTypeOK ==
  /\ coalesceDeadline \in {"none", "ahead", "past"}
  /\ timers \subseteq 1..3 /\ callback.timer \in 0..3
  /\ locked \in {"nobody", "callback"}
  /\ wakes \in Nat

(* When cancelPresentWakeTimer has returned no callback will push any more: *)
(* none gets into an event subsystem that SDL_Quit or SDL_Init is working   *)
(* on (drawing.c:678-684).  RemoveTimer does not wait for a callback that   *)
(* runs, so tornDown and the lock have to be passed in the right order.     *)
TeardownIsQuiet ==
  /\ PresentTypeOK
  /\ todo # <<>> /\ Head(todo) \in {"quit", "init"} =>
       timers = {} /\ ("push" \in Range(callback.todo) =>
                         tornDown /\ Head(callback.todo) \in {"lock", "askGag"})

(* A client that goes to sleep with a window it has not presented is woken  *)
(* to present it, unless a call failed (drawing.c:1251-1262).               *)
WakeIsComing ==
  \/ wakes > 0 \/ CallbackAt("push")
  \/ ~wakePending /\ ~tornDown /\ (timers # {} \/ "push" \in Range(callback.todo))
BurstLands == asleep /\ dirty /\ ~unlucky => WakeIsComing

(* It is so when the callback does not run between the main thread's steps. *)
BurstLandsAlone == ~painter.overlap => BurstLands
=============================================================================
