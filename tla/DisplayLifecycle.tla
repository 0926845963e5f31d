-------------------------- MODULE DisplayLifecycle --------------------------
(***************************************************************************)
(* Opening and closing displays (src/src/display.c XOpenDisplay,            *)
(* XCloseDisplay; src/src/events.c initEventPipe, closeEventPipe).  All     *)
(* displays share SDL, the storages, one screen window, one pipe and the    *)
(* one userdata slot of SDL's event filter.  The first open makes them, any *)
(* step of an open may fail, and the last close takes them down; a close    *)
(* inside a live-resize frame waits for the end of the frame.               *)
(***************************************************************************)
EXTENDS LiveResize, Sequences, FiniteSets, SequencesExt

CONSTANTS Displays,      \* the Display structs a behaviour can allocate
          NoDisplay,
          Foreign,       \* an event filter that is not the library's
          Threads, Main,
          Programs,      \* what a behaviour's client does, see below
          FirstCapacity, FallbackSlots  \* of the queues of deferred closes

(* threads: those that open and close displays.  embedded: the program has  *)
(* initialised SDL itself.  host: there is a host whose drags and whose     *)
(* timer the library serves; otherwise the driver is "dummy".  Two bounds:  *)
(* displays are those it opens, failures how many steps of opens, and       *)
(* reallocs, fail.                                                          *)
ASSUME LifecycleAssumption ==
  /\ NoDisplay \notin Displays \union {Foreign} /\ Foreign \notin Displays
  /\ Main \in Threads /\ IsFiniteSet(Displays)
  /\ Programs \subseteq [threads : SUBSET Threads, embedded : BOOLEAN,
                         host : BOOLEAN, displays : SUBSET Displays,
                         failures : Nat]
  /\ FirstCapacity \in Nat \ {0} /\ FallbackSlots \in Nat

VARIABLES program,         \* one of Programs, never changed
          sdl, ttf,        \* SDL_WasInit, TTF_WasInit
          storages,        \* visuals, colours and fonts
          screen,          \* is there a SCREEN_WINDOW?
          numDisplaysOpen,
          trackedDisplays,
          filter,          \* the userdata of onSdlEvent, or Foreign
          pipe, locks, xtWakeTimer,
          step,            \* where each thread is in XOpenDisplay or XCloseDisplay
          open,            \* the displays the client has
          freed,           \* how often each display was freed
          pending, capacity, fallback, \* the queues of deferred closes
          leaked,
          frame,           \* libx11CompatPresentDuringLiveResizeEx, if it runs
          failures

sdlVars == <<sdl, ttf, storages, screen>>
pipeVars == <<trackedDisplays, filter, pipe, locks, xtWakeTimer>>
deferVars == <<pending, capacity, fallback, leaked>>
lifecycleVars == <<program, sdlVars, numDisplaysOpen, pipeVars, step, open,
                   freed, deferVars, frame, failures, liveResizeVars>>

Idle == [at |-> "idle", display |-> NoDisplay, opening |-> FALSE,
         owns |-> {}, count |-> 0]
NoFrame == [at |-> "none", by |-> "nobody", batch |-> <<>>]

LifecycleInit ==
  /\ program \in Programs
  /\ sdl = program.embedded /\ ttf = FALSE
  /\ storages = FALSE /\ screen = FALSE
  /\ numDisplaysOpen = 0
  /\ trackedDisplays = <<>> /\ filter = NoDisplay
  /\ pipe = FALSE /\ locks = FALSE /\ xtWakeTimer = FALSE
  /\ step = [t \in Threads |-> Idle]
  /\ open = {} /\ freed = [d \in Displays |-> 0]
  /\ pending = <<>> /\ capacity = 0 /\ fallback = <<>> /\ leaked = {}
  /\ frame = NoFrame
  /\ failures = 0
  /\ LiveResizeInit

(* libx11CompatInLiveResizePresent.                                         *)
InPresent == frame.at = "present"

(* A drag's modal loop runs nothing of the client but its reflow callback.  *)
ClientRuns(t) ==
  /\ t \in program.threads /\ step[t] = Idle
  /\ InPresent \/ (frame = NoFrame /\ hostDrag = NoWindow)

Goes(t, where) == step' = [step EXCEPT ![t].at = where]

Fails == failures < program.failures /\ failures' = failures + 1

Unused == {d \in program.displays : freed[d] = 0 /\ d \notin open \union leaked
             /\ d \notin Range(pending) \union Range(fallback)
             /\ d \notin Range(frame.batch)
             /\ \A t \in Threads : step[t].display # d}

-----------------------------------------------------------------------------
(* XOpenDisplay.  What this call has initialised itself, it quits when it   *)
(* fails; from its ++ on it fails through XCloseDisplay.                    *)
XOpenDisplay(t) ==
  /\ ClientRuns(t) /\ Unused # {}
  /\ LET d == CHOOSE any \in Unused : TRUE IN
       step' = [step EXCEPT ![t] = [Idle EXCEPT !.at = "sdl", !.display = d,
                                                !.opening = TRUE]]
  /\ UNCHANGED <<program, sdlVars, numDisplaysOpen, pipeVars, open, freed,
                 deferVars, frame, failures, liveResizeVars>>

Owning(t, what) ==
  step' = [step EXCEPT ![t].at = IF what = "sdl" THEN "ttf" ELSE "storages",
                       ![t].owns = @ \union {what}]

GivesUp(t) ==
  /\ sdl' = (sdl /\ "sdl" \notin step[t].owns)
  /\ ttf' = (ttf /\ "ttf" \notin step[t].owns)
  /\ freed' = [freed EXCEPT ![step[t].display] = @ + 1]
  /\ step' = [step EXCEPT ![t] = Idle]

OpenSdl(t) ==
  /\ step[t].at = "sdl"
  /\ \/ sdl /\ Goes(t, "ttf") /\ UNCHANGED <<sdlVars, freed, failures>>
     \/ /\ ~sdl /\ sdl' = TRUE /\ Owning(t, "sdl")
        /\ UNCHANGED <<ttf, storages, screen, freed, failures>>
     \/ ~sdl /\ Fails /\ GivesUp(t) /\ UNCHANGED <<storages, screen>>
  /\ UNCHANGED <<program, numDisplaysOpen, pipeVars, open, deferVars, frame,
                 liveResizeVars>>

OpenTtf(t) ==
  /\ step[t].at = "ttf"
  /\ \/ ttf /\ Goes(t, "storages") /\ UNCHANGED <<sdlVars, freed, failures>>
     \/ /\ ~ttf /\ ttf' = TRUE /\ Owning(t, "ttf")
        /\ UNCHANGED <<sdl, storages, screen, freed, failures>>
     \/ ~ttf /\ Fails /\ GivesUp(t) /\ UNCHANGED <<storages, screen>>
  /\ UNCHANGED <<program, numDisplaysOpen, pipeVars, open, deferVars, frame,
                 liveResizeVars>>

OpenStorages(t) ==
  /\ step[t].at = "storages"
  /\ \/ /\ numDisplaysOpen > 0 /\ Goes(t, "++")
        /\ UNCHANGED <<sdlVars, freed, failures>>
     \/ /\ numDisplaysOpen = 0 /\ storages' = TRUE /\ Goes(t, "++")
        /\ UNCHANGED <<sdl, ttf, screen, freed, failures>>
     \/ /\ numDisplaysOpen = 0 /\ Fails /\ GivesUp(t)
        /\ storages' = FALSE /\ UNCHANGED screen
  /\ UNCHANGED <<program, numDisplaysOpen, pipeVars, open, deferVars, frame,
                 liveResizeVars>>

(* numDisplaysOpen++ and --: no lock and no atomic, so two threads may lose *)
(* one of their updates.                                                    *)
Load(t) ==
  /\ step[t].at \in {"++", "--"}
  /\ step' = [step EXCEPT ![t].count = numDisplaysOpen,
                          ![t].at = IF @ = "++" THEN "+=" ELSE "-="]
  /\ UNCHANGED <<program, sdlVars, numDisplaysOpen, pipeVars, open, freed,
                 deferVars, frame, failures, liveResizeVars>>

Increment(t) ==
  /\ step[t].at = "+="
  /\ numDisplaysOpen' = step[t].count + 1
  /\ Goes(t, "pipe")
  /\ UNCHANGED <<program, sdlVars, pipeVars, open, freed, deferVars, frame,
                 failures, liveResizeVars>>

(* initEventPipe, under eventPipeGlobalLock.                                *)
initEventPipe(t) ==
  LET d == step[t].display
      first == trackedDisplays = <<>>
  IN  /\ step[t].at = "pipe"
      /\ \/ /\ locks' = TRUE /\ pipe' = TRUE
            /\ filter' = d
            /\ trackedDisplays' = Append(trackedDisplays, d)
            /\ IF first /\ ~xtWakeTimer /\ program.host
                 THEN xtWakeTimer' \in BOOLEAN /\ StartObserver
                 ELSE UNCHANGED <<xtWakeTimer, observerVars>>
            /\ Goes(t, "rest") /\ UNCHANGED failures
         \/ /\ ~locks /\ Fails /\ Goes(t, "close")
            /\ UNCHANGED <<pipeVars, observerVars>>
         \/ /\ first /\ Fails /\ locks' = TRUE /\ Goes(t, "close")
            /\ UNCHANGED <<trackedDisplays, filter, pipe, xtWakeTimer,
                           observerVars>>
  /\ UNCHANGED <<program, sdlVars, numDisplaysOpen, open, freed, deferVars,
                 frame, hostVars>>

(* Screens, locks, depths, the screen window and the default GCs.           *)
OpenRest(t) ==
  /\ step[t].at = "rest"
  /\ \/ /\ screen' = TRUE
        /\ open' = open \union {step[t].display}
        /\ step' = [step EXCEPT ![t] = Idle]
        /\ UNCHANGED failures
     \/ /\ Fails /\ Goes(t, "close")
        /\ screen' \in {screen, TRUE} /\ UNCHANGED open
  /\ UNCHANGED <<program, sdl, ttf, storages, numDisplaysOpen, pipeVars,
                 freed, deferVars, frame, liveResizeVars>>

-----------------------------------------------------------------------------
(* XCloseDisplay, called by the client, by an open that fails and by the    *)
(* drain of the deferred closes.  A client closes a display once.           *)
XCloseDisplay(t) ==
  /\ ClientRuns(t)
  /\ \E d \in open :
       /\ open' = open \ {d}
       /\ step' = [step EXCEPT ![t] = [Idle EXCEPT !.at = "close",
                                                   !.display = d]]
  /\ UNCHANGED <<program, sdlVars, numDisplaysOpen, pipeVars, freed,
                 deferVars, frame, failures, liveResizeVars>>

(* Inside a frame the close is queued: the queue doubles, unless realloc    *)
(* fails; then the fixed slots take it, and when they are full it is lost.  *)
mustDefer == InPresent

Queue(d, room) ==
  /\ capacity' = room
  /\ IF Len(pending) < room
       THEN pending' = Append(pending, d) /\ UNCHANGED <<fallback, leaked>>
     ELSE IF Len(fallback) < FallbackSlots
       THEN fallback' = Append(fallback, d) /\ UNCHANGED <<pending, leaked>>
     ELSE leaked' = leaked \union {d} /\ UNCHANGED <<pending, fallback>>

DeferClose(t) ==
  /\ step[t].at = "close" /\ mustDefer
  /\ LET d == step[t].display
         full == Len(pending) = capacity
         grown == IF capacity = 0 THEN FirstCapacity ELSE 2 * capacity
     IN  \/ /\ Queue(d, IF full THEN grown ELSE capacity)
            /\ UNCHANGED failures
         \/ full /\ Fails /\ Queue(d, capacity)
  /\ step' = [step EXCEPT ![t] = Idle]
  /\ UNCHANGED <<program, sdlVars, numDisplaysOpen, pipeVars, open, freed,
                 frame, liveResizeVars>>

(* replayStop and destroyScreenWindow, for the last display.                *)
isLast == numDisplaysOpen = 1

CloseScreen(t) ==
  /\ step[t].at = "close" /\ ~mustDefer
  /\ screen' = (screen /\ ~isLast)
  /\ Goes(t, "unpipe")
  /\ UNCHANGED <<program, sdl, ttf, storages, numDisplaysOpen, pipeVars, open,
                 freed, deferVars, frame, failures, liveResizeVars>>

(* closeEventPipe, under eventPipeGlobalLock.  The filter's slot goes to a  *)
(* display that is still there.                                             *)
findInArray(d) == CHOOSE i \in DOMAIN trackedDisplays : trackedDisplays[i] = d

untrackDisplay(d) ==
  IF d \in Range(trackedDisplays) THEN RemoveAt(trackedDisplays, findInArray(d))
                                  ELSE trackedDisplays

keepsSlot(d, rest) == IF rest = <<>> THEN NoDisplay ELSE filter
handoff(d, rest) ==
  IF filter # d THEN filter
  ELSE IF rest = <<>> THEN NoDisplay ELSE Last(rest)

closeEventPipe(t) ==
  LET d == step[t].display
      rest == untrackDisplay(d)
  IN  /\ step[t].at = "unpipe"
      /\ trackedDisplays' = rest
      /\ filter' = handoff(d, rest)
      /\ IF rest = <<>>
           THEN /\ xtWakeTimer' = FALSE /\ locks' = FALSE /\ pipe' = FALSE
                /\ StopObserver
           ELSE UNCHANGED <<xtWakeTimer, locks, pipe, observerVars>>
      /\ Goes(t, "quit")
  /\ UNCHANGED <<program, sdlVars, numDisplaysOpen, open, freed, deferVars,
                 frame, failures, hostVars>>

CloseSdl(t) ==
  /\ step[t].at = "quit"
  /\ IF isLast THEN sdl' = FALSE /\ ttf' = FALSE /\ storages' = FALSE
               ELSE UNCHANGED <<sdl, ttf, storages>>
  /\ Goes(t, IF numDisplaysOpen > 0 THEN "--" ELSE "free")
  /\ UNCHANGED <<program, screen, numDisplaysOpen, pipeVars, open, freed,
                 deferVars, frame, failures, liveResizeVars>>

Decrement(t) ==
  /\ step[t].at = "-="
  /\ numDisplaysOpen' = step[t].count - 1
  /\ Goes(t, "free")
  /\ UNCHANGED <<program, sdlVars, pipeVars, open, freed, deferVars, frame,
                 failures, liveResizeVars>>

FreeDisplay(t) ==
  /\ step[t].at = "free"
  /\ freed' = [freed EXCEPT ![step[t].display] = @ + 1]
  /\ step' = [step EXCEPT ![t] = Idle]
  /\ UNCHANGED <<program, sdlVars, numDisplaysOpen, pipeVars, open, deferVars,
                 frame, failures, liveResizeVars>>

(* An application that installs an event filter of its own.                 *)
SetEventFilter ==
  /\ program.embedded /\ ClientRuns(Main) /\ sdl /\ filter # Foreign
  /\ filter' = Foreign
  /\ UNCHANGED <<program, sdlVars, numDisplaysOpen, trackedDisplays, pipe,
                 locks, xtWakeTimer, step, open, freed, deferVars, frame,
                 failures, liveResizeVars>>

-----------------------------------------------------------------------------
(* libx11CompatPresentDuringLiveResizeEx: nothing without a screen window.  *)
Present(by) ==
  frame' = [NoFrame EXCEPT !.at = IF screen THEN "present" ELSE "after",
                           !.by = by]

libraryVars == <<program, sdlVars, numDisplaysOpen, pipeVars, step, open, freed,
                 deferVars, failures>>

(* Between two calls of the client the main thread is in its run loop.      *)
RunLoop == program.host /\ frame = NoFrame /\ step[Main] = Idle

HostAction ==
  /\ RunLoop
  /\ HostEnds \/ \E n \in HostWindows : HostStarts(n)
  /\ UNCHANGED <<libraryVars, frame>>

DidEnd ==
  /\ RunLoop /\ endsDue > 0
  /\ endsDue' = endsDue - 1
  /\ liveResizeDidEnd
  /\ IF observer /\ ~observer' THEN Present("end") ELSE UNCHANGED frame
  /\ UNCHANGED <<libraryVars, hostDrag, drags>>

Tick ==
  /\ RunLoop
  /\ CallbackBegins
  /\ Present("tick")
  /\ UNCHANGED <<libraryVars, hostVars>>

(* The frame ends, and libx11CompatRunDeferredDisplayClose takes both       *)
(* queues and closes what was in them.                                      *)
keptQueues == UNCHANGED <<pending, capacity, fallback>>
detachedQueues == pending' = <<>> /\ capacity' = 0 /\ fallback' = <<>>

FrameUnwinds ==
  /\ InPresent /\ step[Main] = Idle
  /\ frame' = [frame EXCEPT !.at = "drain", !.batch = pending \o fallback]
  /\ detachedQueues
  /\ UNCHANGED <<program, sdlVars, numDisplaysOpen, pipeVars, step, open, freed,
                 leaked, failures, liveResizeVars>>

DrainClose ==
  /\ frame.at = "drain" /\ step[Main] = Idle
  /\ IF frame.batch = <<>>
       THEN frame' = [frame EXCEPT !.at = "after"] /\ UNCHANGED step
       ELSE /\ frame' = [frame EXCEPT !.batch = Tail(@)]
            /\ step' = [step EXCEPT ![Main] =
                          [Idle EXCEPT !.at = "close",
                                       !.display = Head(frame.batch)]]
  /\ UNCHANGED <<program, sdlVars, numDisplaysOpen, pipeVars, open, freed,
                 deferVars, failures, liveResizeVars>>

(* The rest of the callback: honour a stop; or, if the drag is over, one    *)
(* more frame and then the stop; or wait for the next pass.                 *)
AfterFrame ==
  /\ frame.at = "after"
  /\ \/ frame.by = "end" /\ frame' = NoFrame /\ UNCHANGED observerVars
     \/ frame.by = "tick" /\ pendingStop /\ HonourStop /\ frame' = NoFrame
     \/ /\ frame.by = "tick" /\ ~pendingStop /\ ~inLiveResize
        /\ DragIsOver /\ Present("last")
     \/ /\ frame.by = "tick" /\ ~pendingStop /\ inLiveResize
        /\ CallbackReturns /\ frame' = NoFrame
     \/ /\ frame.by = "last" /\ HonourStop /\ frame' = NoFrame
  /\ UNCHANGED <<libraryVars, hostVars>>

LifecycleNext ==
  \/ \E t \in Threads :
       \/ XOpenDisplay(t) \/ OpenSdl(t) \/ OpenTtf(t) \/ OpenStorages(t)
       \/ Load(t) \/ Increment(t) \/ initEventPipe(t) \/ OpenRest(t)
       \/ XCloseDisplay(t) \/ DeferClose(t) \/ CloseScreen(t)
       \/ closeEventPipe(t) \/ CloseSdl(t) \/ Decrement(t) \/ FreeDisplay(t)
  \/ SetEventFilter
  \/ HostAction \/ DidEnd \/ Tick
  \/ FrameUnwinds \/ DrainClose \/ AfterFrame

LifecycleSpec == LifecycleInit /\ [][LifecycleNext]_lifecycleVars

-----------------------------------------------------------------------------
Quiescent == frame = NoFrame /\ \A t \in Threads : step[t] = Idle

(* The event filter never delivers to a display that is freed, and each     *)
(* display the client has is on a pipe that exists, with its locks, however *)
(* opens, failing opens and closes of two threads interleave (events.c:2346 *)
(* "leaves a dangling reference"); nothing of it is left with no display.   *)
ConnectionFollowsDisplays ==
  /\ filter \in Range(trackedDisplays) \union {NoDisplay, Foreign}
  /\ (trackedDisplays # <<>>) => filter # NoDisplay
  /\ \A d \in Range(trackedDisplays) : freed[d] = 0
  /\ open \subseteq Range(trackedDisplays)
  /\ trackedDisplays # <<>> => pipe /\ locks
  /\ Quiescent /\ trackedDisplays = <<>> /\ leaked = {} =>
       ~(pipe \/ locks \/ xtWakeTimer \/ registered)

(* With one thread, a display the client has finds SDL, the storages and    *)
(* the screen window there, whatever other opens failed half-way and        *)
(* whichever displays were closed, in a frame or not (display.c:492); and   *)
(* the last close leaves none of the library's own behind.                  *)
LibraryUpWhileOpen ==
  program.threads = {Main} =>
    /\ open # {} => sdl /\ ttf /\ storages /\ screen
    /\ Quiescent => numDisplaysOpen = Cardinality(open \union leaked)
    /\ Quiescent /\ open \union leaked = {} => ~ttf /\ ~storages /\ ~screen

(* So the client may use each display that it has not closed.               *)
OpenDisplaysAreUsable == ConnectionFollowsDisplays /\ LibraryUpWhileOpen

(* A close asked for inside a frame tears nothing down in the frame, happens *)
(* once and after it, and is only lost when both queues are full            *)
(* (display.c:396 "keep them all"): each display is in one place.           *)
PlacesOf(d) ==
  freed[d] + Cardinality({t \in Threads : step[t].display = d})
    + Cardinality({i \in 1..Len(pending) : pending[i] = d})
    + Cardinality({i \in 1..Len(fallback) : fallback[i] = d})
    + Cardinality({i \in 1..Len(frame.batch) : frame.batch[i] = d})
    + Cardinality({s \in {open, leaked} : d \in s})

DeferredCloseOnce ==
  /\ \A d \in Displays : PlacesOf(d) <= 1
  /\ \A d \in Range(trackedDisplays) : PlacesOf(d) = 1
  /\ pending \o fallback # <<>> => InPresent
  /\ InPresent => step[Main].at \notin {"unpipe", "quit", "--", "-=", "free"}
  /\ leaked # {} => failures > FallbackSlots
=============================================================================
