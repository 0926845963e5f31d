# libX11-compat: TLA+ models, model checking and proofs

libX11-compat is an Xlib that runs inside the client: there is no X server.
Windows are SDL windows, requests are function calls, and the event queue is
SDL's queue plus a list of the library's own.  What a server would have
serialised (one request at a time, one event order, one lock, one owner of each
selection) is done by a display lock, a pipe, a dispatcher that moves calls to
the thread that owns SDL, and by many small state machines that tolerate being
called again from their own callbacks.  Those are the hard part of the program
and the part modelled here; what it draws is not.

## 1. Inventory

### Threads and the event queue

**Display lock and handoff** (`src/src/display.c` 80-235).
State: `owner`, `depth`, `handoffOwner`, one condition variable.
Operations: `compatLockDisplay`, `compatUnlockDisplay`,
`displayLockReleaseForHandoff`, `displayLockReacquire`.
It is a recursive monitor that a worker blocked in `runOnMainThread` lends to
the main thread.  Hard: three kinds of waiters on one condition variable;
recursion depth put aside and restored; the lent section must exclude third
threads.  Correct when sections exclude each other, depth matches the client's
ledger, and no waiter sleeps through its chance.

**Main-thread dispatch** (`src/src/main-dispatch.c`, and its caller
`convertEvent`).  State: a command on the stack of each blocked worker, an SDL
event that points to it, the stack `deferredCmds` of parked commands.
Operations: `runOnMainThread`, `mainDispatchHandleEvent`,
`mainDispatchRunDeferred`, `mainDispatchDropCmd`.  Hard: the command pointer is
held by exactly one of the SDL queue, a drain's batch, the parked list, a
foreign thread's hands, or a running thunk; a push or a re-queue can fail; a
thunk can drain again; a command may have to wait for another worker's handoff.
Correct when no command is lost or kept after completion, a thunk that relies
on a lent lock finds it lent, and every call returns.

**Wake pipe and event pump** (`src/src/events.c` 230-580, 1240-1480,
4950-5260).  State: pipe bytes, `display->qlen`, `pumpWakePending`, SDL's
queue, the put-back list.  Operations: the event filter, `enqueueEvent`,
`XSendEvent`, `XPutBackEvent`, `XNextEvent`, `XEventsQueued`,
`drainSdlEventsToPutBack`, `wakeEventPipeForExternalEvent`, the pump-wake
timer.  Hard: five variables that must agree, each under its own lock or none,
changed by the main thread, senders, wakers and a timer thread.  Correct when a
client asleep in `poll()` on the connection has nothing waiting, does not spin,
and keeps pumping the host.

**Event queue** (`src/src/events.c` 1308-1476, 2089-2235, 4959-5064,
5957-6030; `src/src/window-internal.c` 1116-1141).  State: the same two queues
with named events, and what each thread has in hand.  Operations: `XNextEvent`,
`XPending`, `XCheckWindowEvent`, `XPutBackEvent`, the discard in
`XDestroyWindow`, a routed `XDestroyWindow` nested in a drain.  Hard: every
drain takes all of SDL's events before it knows what to do with them, converts
them one by one, and conversion swallows, adds or runs things.  Correct when no
event is lost or doubled, order is kept, and a destroyed window's events are
gone.

**Snapshot and replay round trips** (`src/src/snapshot.c`,
`src/src/state-snapshot.c`, `src/src/replay.c`).  State: for each of two
channels a generation, one result slot, `done`, a condition variable; the
envelopes in SDL's queue; the replay thread.  Operations: a request with its
time-out, the conversion that answers it, start, stop and join.  Hard: the
envelope outlives a request that gave up; the answer may be computed while the
next request has begun; the thread that answers is the one that joins.  Correct
when an answer reaches the request it was computed for and no other, each
envelope is freed once, and the close returns.

### Windows and what points at them

**Window tree and stacking** (`src/src/window.c` 351-1210, 1417-2229;
`src/src/window-internal.c` 755-1420, 1898-1976, 2345-2416).  State: parent and
stacked children, map state, SDL window, the popup's anchor.  Operations: create,
map, unmap, reparent, restack, destroy, and the host's show and hide.  Hard: a
child that asks to be mapped before its parent is; popups that SDL owns as
children of a window that is their sibling in the tree; a move that SDL may
refuse after it is made; a recursive destroy over an array that it must not
change.  Correct when each live window is once in its parent's list, a mapped
top-level has an SDL window, no popup outlives its anchor, and mapping a window
brings up all that waited for it.

**Pointer, grabs and input focus** (`src/src/pointer.c`, `src/src/input.c`,
`src/src/events.c` 1698-1865, 2587-2716, 3440-3590, 4010-4224).  State: focus
with its owner, keyboard grab, pointer grab, passive grabs, hovered and active
window.  Operations: the grab calls, `XSetInputFocus`, and the host's focus,
motion and button events.  Hard: each of these names a window that can be
destroyed, also while its own destruction converts the host events that name it
again.  Correct when none names a window that is gone, and a window that stops
being viewable keeps no active grab.

**Focus and crossing fan-outs** (`src/src/events.c` from 1886,
2587-2748; `XSetInputFocus` in `src/src/input.c`).  State: the focus or the hovered window, and the
events a client has not read.  Operations: `postFocusChange`,
`postPointerCrossingEvents`, the leaves of a destroyed window, grabs' crossings.
Hard: two paths to a common ancestor, with a detail for each window on them;
reverts when the target loses its window.  Correct when a client that keeps its
own idea of the place from these events alone has it right once it has read them
all.

**Where injected input goes** (`src/src/replay-target.c`, `src/src/xtest.c`).
State: a table of known top-level windows, the chosen target and its origin, the
injected pointer, a sequence counter.  Operations: offer, forget, select by three
rules, and the XTest calls that read with no lock.  Hard: a seqlock whose readers
give up after some attempts; three variables read apart from each other.  Correct
when a motion is local to the window it is sent to and the target exists.

**Opening, closing and live resize** (`src/src/display.c` 236-888,
`src/src/events.c` 2237-2417, `src/src/mac-live-resize.c`).  State: SDL, the
storages, the screen window, the pipe, the filter's userdata slot,
`numDisplaysOpen`, the queue of deferred closes, the drag's observer.
Operations: `XOpenDisplay` with each step failing, `XCloseDisplay`, the frames of
a border drag.  Hard: one slot for all displays; a close inside a frame waits for
its end, in a queue that may not grow; AppKit's notifications come late.  Correct
when an open display has all that it needs, each deferred close happens once, and
the observer belongs to the drag that goes on.

### Services

**Selections and the clipboard** (`src/src/selection.c`, and the properties of
`src/src/window-property.c` that a transfer writes).  State: the owner, one fetch
with its target and slot, an INCR transfer, what was pushed last.  Operations:
`XSetSelectionOwner`, the fetch and its retries, the chunks, the host's updates.
Hard: answers of superseded fetches; the library's own push comes back as an
update.  Correct when the host has the text of the current owner and of no other,
and a foreign copy revokes.

**Timeline** (`src/src/timeline.c` 351-449).  State: counters that wrap, samples
per bucket of time.  Hard: sampling while events are counted; buckets aligned with
a deadline.  Correct when "settled" and "diverged" are true of the program.

**Present wake** (`src/src/drawing.c`).  State: the dirty mark,
a coalescing deadline, `presentWakePending`, a one-shot timer with its id, a
teardown flag.  Operations: drawing, the timer's callback, the PRESENT event, the
flushes of the event calls, close and re-open.  Hard: flags shared with a timer
thread without a lock.  Correct when what was drawn is presented though the client
draws nothing more, and no callback runs into a display that is gone.

**Input contexts** (`src/src/input-method.c`).  State: the focused context,
preedit state, a focus still to be set.  Operations: create, destroy, focus,
unfocus, close, and the four preedit callbacks.  Hard: a callback may call any of
these.  Correct when nothing that was freed is used and done follows start.

**Typed text** (`src/src/events.c` 2800-3250, 3596-3735; `src/src/input-method.c`).  State: a ring of raw keys delivered, the last committed character, a
table of texts.  Hard: one stroke is two events, and which comes first differs;
the table is bounded.  Correct when each stroke reaches the client once and its
text is kept until it is looked up.

**XCB connection** (`src/compat/xcb-compat.c`, `src/compat/xcb-requests.c`).  State: a record per display, its users, waiters and
callbacks, the GCs it made, the table of answers.  Hard: waiting, closing and
disconnecting at once; sequence numbers kept in part.  Correct when each thread
finds its record and its display, returns, and each cookie gets its own answer.

**GLX contexts and surfaces** (`src/src/glx.c`).  State: contexts with a count of
sharers, of users and of threads, a pending destruction; a surface per drawable.
Operations: create, bind, swap, release, destroy, realize late, follow a resize,
drop with the drawable.  Hard: the last to let go frees, in any order, with a chain
of sharers behind it; each EGL call may fail.  Correct when no context is used
after it is freed, none is leaked, and a swap shows the drawable's own surface.

**Shared-memory segments** (`src/src/xshm.c`).  State: attachments with pins.
Correct when a segment stays mapped while an image is copied from it.

### How they interact

    worker --runOnMainThread--> sheds DisplayLock --> pushes a command event
                                                       | wakes the pipe
    main: poll / XNextEvent --pump--> drain SDL queue --> convertEvent
            ^                           |                   |-- thunk: run or park
            | pipe bytes, qlen          |                   |-- event: returned or
            +-- timer, senders, wakers  +-- put-back list <-+   put back
    worker <--complete-- takes the lock back, nudges the main thread
    convertEvent --host show, hide, focus, motion, button--> tree, focus, grabs
                 --SDL_KEYDOWN, SDL_TEXTINPUT, SDL_TEXTEDITING--> contexts, texts
                 --clipboard update, selection events--> owner, fetch
                 --envelope of the replay thread--> answer, signal
                 --PRESENT (from the wake's timer)--> present
    XDestroyWindow --discard--> convertEvent; then clears focus, grabs, pointer,
                                the replay target forgets it, and its GLX
                                surface is taken from the threads that drew
    XCloseDisplay  --> cancels the present wake, joins the replay thread,
                       tells the XCB record, hands the filter slot on
    live-resize frame --> client's reflow --> XCloseDisplay is deferred

## 2. Modules

| Module | Models | State and actions |
|---|---|---|
| `SectionLock` | abstract: what a lock with handoff promises | `section`, `inside`; `Open`, `Close`, `StepOut`, `StepIn`, `Visit`, `Leave` |
| `DisplayLock` | the monitor | one action per pass through its mutex: entry, wait, exit of each call; `waiting` is the condition variable's wait set, `nest` a ledger of what the client still has to unlock |
| `WakePipe` | the pipe, its counter and its flag | operators only, one per critical section of `eventQueueLengthLock` or per atomic |
| `EventPump` | the threads around `WakePipe` | events counted, not named; one action per critical section, queue access or atomic of each caller |
| `MainDispatch` | the dispatcher, composed of `DisplayLock` and `WakePipe` | worker: lock, shed, push, wake, wait, retake, nudge, foreign drain; main: a stack of drain frames, each with its stage, batch and running command |
| `EventList` | abstract: one ordered list per client | `Generate`, `Deliver`, `Return`, `Doom`, `Vanish` |
| `EventQueue` | the two queues with named events | a stack of calls per thread; conversion of one event is one action |
| `Snapshot` | the round trips of the replay thread | one action per hold of a channel's mutex: prepare, register, push, time out, take; answer, signal and free for each handler thread; stop and join |
| `WindowTree` | the tree's part of each call | operators only: `parent`, `children`, `mapState`, `sdlWindow`, `popupParent` |
| `InputTargets` | what refers to windows, composed of `WindowTree` | one action per call and per host event; a destroy is a stack of `frames`, each discarding or past it |
| `FocusCrossing` | the two fan-outs | a call posts its events in one action; `Reads` is the client's read of one of them |
| `ReplayTarget` | the target, its table and its seqlock | one action per atomic access of a writer or a reader |
| `Timeline` | waiting for convergence | one action per counter read, per bucket, per counted event |
| `LiveResize` | the drag observer | operators only, one per notification or tick |
| `DisplayLifecycle` | opening and closing displays, composed of `LiveResize` | one action per step of an open or a close that another thread or a failure can come between |
| `Clipboard` | the selection and its mirror | one action per claim, per SDL event converted and per handler of a client |
| `PresentWake` | the dirty mark and its wake | one action per access to a flag that the main and the timer thread share |
| `InputContext` | focus and preedit with re-entrant callbacks | a stack of calls; each callback is a state in which the client may call again |
| `TypedText` | the two events of a stroke, the table of texts | one action per SDL event converted and per call of the client |
| `XcbConnection` | the record, its users and its answers | one action per hold of a mutex by each thread |
| `GlxContext` | contexts, sharers, surfaces | one action per hold of `glxLock` or call of EGL; a thread works through a list of steps it has still to do |
| `SharedMemory` | attachments and pins | one action per hold of `shmAttachmentLock` |
| `MainDispatch_proofs` (also of `DisplayLock`), `EventPump_proofs` (also of `Snapshot`), `EventQueue_proofs`, `XcbConnection_proofs`, `Host_proofs` (of `PresentWake` and `Clipboard`), `DisplayLifecycle_proofs`, `Extensions_proofs` (of `GlxContext` and `SharedMemory`), `Input_proofs` (of `Timeline`, `ReplayTarget`, `InputContext` and `TypedText`) | theorems about the module they are named after | the invariant's parts, and one lemma per action or group of actions |
| `MCMainDispatch`, `MCEventQueue`, `MCWindows` | constants for TLC | |
| `MCEventPump` | `EventPump` beside `Snapshot` | the replay thread works while a client that has nothing to do sleeps |
| `MCServices`, `MCLibrary` | constants, and modules that share no state side by side | `part`, chosen at the start and never changed, says which one a behaviour is about |

`PROJECT.json` "map" gives the source lines of each definition.  In each module
the operators that stand directly before a definition and are named after a
mistake (`Signal`, `UnlockByAnyone`, `UncountOnly`, `AnyReader`, ...) are mutants of
it: `PROJECT.json` "mutants" says which property each one breaks.

Modelling choices that matter:

* **Granularity.**  In `EventPump` a step is one critical section: the filter,
  which counts and writes the byte, is a step before SDL's insertion; the drain's
  recount, comparison and reset are three steps.  In `MainDispatch` the SDL queue and
  the pipe change together, because there the question is who holds a command
  and not who is woken; `EventPump` asks the other question.  In `EventQueue`
  pipe and counter are left out.
* **The SDL queue of `MainDispatch`** holds only commands; other events pass
  through the same drains and change nothing a command depends on.
* **A conversion that adds events** (`Converted`): a motion into another window
  yields a crossing and the motion itself, and `convertEvent` then reports the
  SDL event as swallowed.
* **One destroy of a window at a time** (`MayDestroy` in `EventQueue`).  A second
  `XDestroyWindow` of the same window, routed and run by the first one's discard,
  frees the window under it; a client that does this has already used a dead id.
* **Destruction in `InputTargets`** is not one step: `Begin`, then for each
  window of the subtree its discard, its children, its teardown.  Host events happen
  only while the top frame is discarding, client calls only when there is no
  frame.
* **Windows as targets.**  The root never goes away, so a pointer hit on it is one
  on nothing, and nothing is grabbed on it.  PointerRoot focus is one on nothing too:
  host adoption, which the two treat differently, is then also tried where the
  code refuses it.  Button grabs are kept per window, not per button.
* **Variables that never change** (`device`, `client`, `program`, `kind`,
  `scenario`, `painter`, `typist`, `session`, `scene`, `part`) are chosen at the
  start, so that one run asks what several would: which threads there are, what a
  client does and how often, which failures may happen.
* **Stacking modes that ask for an overlap** move to the top or bottom, or do
  nothing, as geometry has it.
* **Alike values are chosen, not enumerated**, where nothing tells them apart: a
  display's address (`DisplayLifecycle`), a GLX context's address and the EGL
  names it is given (`GlxContext`; names are reused as soon as EGL may).
* **`Snapshot`**: two channels with the same steps, as the two files have them.
  A handler's work is one step between taking the envelope and storing the answer.
* **`ReplayTarget`**: a client offers windows of the areas it has (`areas`); the
  two coordinates, stored side by side, are one.
* **`DisplayLifecycle`**: a display is closed once and its address not used again.
  SDL_Quit, which also forgets the filter, is modelled by what the library then
  does.  The two capacities of the deferral queue are scaled to one each.
* **`FocusCrossing`**: a fixed tree in which every window selects the events; the
  capacity of a path (256) is not reached.  What a discard converts in the middle
  of a destroy is left to `InputTargets`.
* **`Clipboard`**: clients answer in the order of their events, fewer fetches than
  slots are unanswered, and an owner gives up an INCR transfer that stalls
  (`OwnersTimeOut`): assumptions on clients, as ICCCM has them.  The pool of eight
  properties is scaled to two.  A claim that its timestamp rejects changes nothing.
* **`PresentWake`**: one dirty mark for all windows; timer ids are 1 to 3.
* **`InputContext`**: callbacks are registered; a context that is freed may have its
  memory, hence its name, reused by the next.
* **`TypedText`**: a stroke's two events are contiguous in SDL's queue, except that
  keys may run ahead of their texts by as many as `ahead` says; a keypad key has no
  ASCII character of its own; `SDL_StopTextInput` may or may not drop texts in SDL's
  queue.  The table of 64 is scaled to 3, the ring of 4 keeps its size.
* **`XcbConnection`**: a display that is opened again has its old address.  A client
  makes no request on a connection while it closes or disconnects it.  Every
  request takes a number of its connection, and answers are kept per connection.
  A cookie tells 4 numbers apart in place of 2^32, and is used before another of
  its connection could look the same; a client that disconnects gives up the
  cookies it has there.  A client may still use one after the display is closed.
* **`GlxContext`**: no thread draws on a drawable that is being removed, which
  the source calls an application error.  Scenes with `together = FALSE` exclude two
  threads in one destruction or one late realization; section 4 says what happens
  then.  The drawable one reads from is the one drawn on.
* **External**: SDL's queue (`Insert`, `PumpInsert`, `Event`), `poll`
  (`Poll`, `PollReturns`), `pthread_cond_wait` (`Sleep`), the host and its input
  method, AppKit's notifications, EGL.

## 3. Runs

| Run | Question | Bounds and why they are enough |
|---|---|---|
| `pump` | Does the counter agree with the queues and is no byte left over; does the timer keep a sleeping client pumping; does a client in `XNextEvent` get every event? Does an answer reach its own request, and does the last close return? | a pipe of 5 bytes. Polling without the timer 7 events (overflow, drain and put-back all happen), with it 4, blocked beside a sender, a waker and the timer 3 (two threads inside a push while the drain resets). Beside a client at rest: 2 channels, 3 requests (one abandoned, one in flight, one fresh), 1 failed push, one thread that answers or two |
| `pump_lost_wakeup` | Can a drain's reset lose a concurrent wake? (violation) | a polling client, a sender, 3 events |
| `dispatch` | Do sections exclude each other, is no signal missed, does the monitor implement `SectionLock`; is each command held once, does a handoff's thunk run in its section; with a client that blocks, does every call return? | two workers with two calls each, or one with three (it nests the lock twice before it routes); main with one; one failing push, nested drains of depth 2, the timer, a pipe that does not overflow |
| `dispatch_parked_stuck` | Does the nudge wake a sleeping main thread for a parked command? (violation) | two calls each, no failure |
| `queue` | One thread: is the pair of queues one ordered list, also when conversion adds events? Two threads, all kinds of events, nested destroys: is each event somewhere exactly once? | two windows; one thread 4 events and 4 calls, two threads 3 events and 2 calls each |
| `queue_crossing_survives` | Can an event outlive its window's discard? (violation) | 3 events, 2 calls |
| `windows` | Does anything name a window that is gone, in a tree that is mapped, moved and destroyed? | two windows with the keyboard and with the pointer (a target and its parent or sibling), three with the tree alone and with one pointer grab (grandchildren, popups of popups), one failing SDL call; symmetric in the windows |
| `services` | Is injected input sound, is a verdict true, does the host's clipboard follow the owner, is a burst presented and teardown quiet, are contexts and texts sound, do XCB's waiters and closers return? | below |
| `raw_key_lost` | With no focus, is every key delivered raw? (violation) | key and keypad strokes, 2 of them, one change of focus |
| `decline_cancels` | Can a late decline end another owner's fetch? (violation) | two owners, one that declines, 3 claims |
| `library` | Does an open display have all it needs; does the client know where focus and pointer are; does a context outlive its use; is what is copied from mapped? | below |
| `glx_destroyed_in_use` | Does `glXDestroyContext` find its context at its second look? (violation) | two threads, 4 calls, no failure |

`services`, part by part:

* target: two windows, two origins.  A reader that races the writer (3 writes, 1
  call, 2 attempts: a retry, and giving up), none that races (3 writes, 2 calls: a
  call's pointer is the next one's start), and windows of two sizes (3 writes,
  1 call: the largest one gone);
* timeline: two kinds of events in counters of one bit (they wrap at once), a
  time-out of 4, an anchor now or 3 or 4 before it;
* clipboard: eight pairs of owners that answer at once, by INCR, only STRING,
  wrongly, or not at all, with two or three claims, or with a foreign copy;
* present: alone 3 works, 2 opens and a failure (a burst, and the wake of a display
  that was opened again); overlapping the timer's thread 2 works, 2 opens and a
  failure;
* contexts: two (one freed and its memory reused beside another), no callback that
  calls with 6 requests, one that destroys with 5, one that makes any call with 4;
* text: two characters, 5 keys that run ahead by 3 (the ring fills), 2 strokes of
  any kind with two changes of the focus (a stale entry, then the stroke it
  swallows), 3 strokes with one, 4 strokes without the focus;
* xcb: three threads (one waits, one closes, one disconnects), two records, two
  openings, 5 calls; the same with a display of XCB's own; 9 requests of one
  connection, so that numbers wrap twice; and 5 calls among requests with answers,
  closes and disconnects, so that cookies outlive their display.

`library`, part by part:

* displays: three (the slot passed on twice) with two failures for one thread, in
  a program of its own and embedded; two threads with two displays and a failure or
  three and none; two drags, two host windows, one place in each deferral queue (a
  full one and its fallback);
* places: every tree of three windows, focus or pointer, any windows unmapped, one
  unread event when the next move comes;
* glx: two threads, three contexts (a chain of sharers).  Making, sharing, binding
  and destroying with 4 calls and a failure; two drawables drawn on by both
  threads, swapped and removed, 3 calls and a failure; one that is resized,
  3 calls and a failure;
* segments: two, two readers, four addresses, mapped by the client or not.

`CHECK_DEADLOCK FALSE` is set everywhere: a polling client sleeps for ever when
nothing happens, and the bounded calls, events and windows run out.  That nobody
waits for ever is stated where it matters, by `RouteReturns`, `StopReturns` and
`NoMissedSignal`, and for XCB by `ClosersReturn`.

**Fairness.**  `dispatch` and `pump`: weak fairness for each thread's next step,
for the timer and for the client's loop: the operating system runs every thread
and SDL calls the timer again.  In `Snapshot`, weak fairness of the replay thread's
next step, of its time-out (`SDL_CondWaitTimeout` returns), of the script's end once
it is asked to stop, of the join and of each handler that has begun.  Nothing is
assumed of when a client makes a call or how many it makes.  A client that has
locked the display unlocks it (weak fairness of `WorkerUnlocks`, `MainUnlocks`),
which any client of a lock has to do.  A client does not call `XNextEvent` with
the display locked (`nest[Main] = 0` in `StartNext`): it would hold the lock while
it waits.  The other runs check safety only and assume no fairness.

## 4. Disagreements between code and comments

Kept as runs (`PROJECT.json` "findings"):

1. `pump_lost_wakeup`: `drainSdlEventsToPutBack` counts at 1466 and resets at
   1469, with nothing held in between.  A push in the gap loses its byte and its
   count, and a client in `poll()` sleeps on the event.  The pump-wake timer
   hides this after one period; under the "dummy" driver there is no timer.
2. `dispatch_parked_stuck`: the nudge after a handoff rewrites the pipe to as
   many bytes as there are queued events, which is none for a parked command.
3. `queue_crossing_survives`: the discard sweeps the put-back list and only then
   converts SDL's queue, and the conversion of a motion into the dying window
   appends a crossing and the motion to the list already swept.
4. `raw_key_lost`: the character that was committed last is matched before the
   focus is asked for, and no change of the focus forgets it, so that one raw key
   is swallowed for which no text will come.
5. `decline_cancels`: a decline names no slot, so two declines of a superseded
   owner end the fetch of the current one.
6. `glx_destroyed_in_use`: `glXDestroyContext` marks the context under one hold of
   `glxLock` and looks at it again under another; the thread that had it current may
   have freed it in between.

Found while modelling and not kept as runs of their own.  Unless they say otherwise,
each is a behaviour of these modules.

Event pump and queue:

* `wakeEventPipeForExternalEvent` discards the timer's byte and leaves
  `pumpWakePending` set, so the timer cannot fire while the client sleeps; and a
  drain whose event's byte was lost to a reset reads the timer's byte in its
  place, with the same effect.
* `consumePumpWakeByte` between the timer's claim and its write reads another
  event's byte and leaves a byte without a flag.  So the counter's agreement is
  checked for one thread without the timer.
* A handoff may begin after `mainDispatchHandleEvent` tested for one, so a
  lockless worker's thunk overlaps it; and the main thread's own `XLockDisplay`
  enters a lent section.  `SectionsExclusive` is therefore stated between workers.
* `XNextEvent` takes from SDL's queue without the lock, so its event outlives a
  discard by another thread; `XCheckWindowEvent` can pass over an event whose
  conversion put it on the put-back list; a destroy nested in a drain puts newer
  events in front of the rest of the outer batch.  So `ImplementsEventList` and
  `OwnDiscardStaysGone` ask less of two threads and of nested destroys.
* `postPointerCrossingEvents` (`events.c:2636`) takes other leaf locks while it
  holds the pointer lock, which the comment at `events.c:124` excludes.  Nobody takes
  them in the other order.

Windows:

* `window.h:36` says that a child keeps `MapRequested` until its ancestor becomes
  mapped.  The host's SHOWN and RESTORED make an ancestor mapped and promote
  nothing, and neither does reparenting a requested window under a mapped one.
  `MapPromotes` is therefore about `XMapWindow`.
* Destroying the window that the host focused reverts through `XSetInputFocus`,
  which makes the focus the client's (`input.c:833`): the host's focus is never
  adopted again.
* A host that hides or minimizes a window releases none of its grabs, unlike an
  unmap (`HostStep` in `GrabsFollowViewability`).  While it is hidden, `XMapWindow`
  does nothing, since it has an SDL window, and reparenting it to another window
  leaves that SDL window on a child.
* A reparent that SDL refuses puts the window on top of its old siblings, not
  where it was, although the comment at `window.c:2011` promises the original
  parent, position and map state; grabs it released stay released.
* A passive button grab ends in `convertMouseButtonEvent` after the return for an
  event that goes nowhere, so one that does not select ButtonRelease stays active.
* A passive key grab is never dropped with its window (`input.c:965`), unlike a
  button grab.  Key grabs are not modelled.
* Destroying the hovered window, and every grab and ungrab, move the hovered
  window without a Leave or an Enter for the windows above it; the next motion says
  Enter once more.  `ClientFollowsTarget` lets a client be told twice.
* A live-resize frame (`events.c:1042`) walks an array of children and a count that
  it read before the client's reflow, which may change both (not modelled).

Replay:

* A request that timed out is still carried out, if no newer one has replaced its
  generation, and a rollback after a failed push makes an abandoned envelope current
  again.  Its answer then goes nowhere.
* `replayStop` may have to wait for a request's time-out (two minutes for a
  settle), although `replay.c:585-588` speaks of 50 ms.
* An anchor slightly less than the time-out ago leaves fewer buckets than a quiet
  interval needs, so an idle system gets a time-out, against `timeline.c`'s "That
  handles the idle case".
* `XTestFakeButtonEvent` and `XTestFakeRelativeMotionEvent` read the target and the
  pointer one after the other (`xtest.c` 117-147, 155-202), and the last store of a
  motion may come after a retarget, so the pointer is then not where the target says
  (`replay-target.c` 445-465 against 437-438).  `InjectedInputIsSound` asks for an
  exact pointer where nobody races.

Displays:

* An embedding program's SDL is quit by the last close or a failed open
  (`display.c` 521-522 against 613-616).
* `numDisplaysOpen` is changed without a lock, though `display.c:585` allows
  concurrent opens: two threads may both be first, or neither the last.
  `OpenDisplaysAreUsable` is therefore stated for programs whose opens and closes do
  not overlap in those steps.
* A second thread that closes during the main thread's frame appends to a queue
  that its comment calls main-thread-only.

Clipboard:

* With two pushes under way the echo of the first clears `lastPushed`, so that of the
  second is taken for a foreign copy and revokes (`selection.c:37-43`); the same
  happens to a claim made after a foreign copy but before its update is converted.
* A superseded INCR transfer whose owner never gives up resumes when its slot comes
  round again, and its chunks mix with the new ones (`selection.c:183-188`).
* An extra request for STRING, after a stale decline, makes an INCR owner begin
  again, which ends the transfer.
* The owner stays owner when its window is destroyed.
* `COVERAGE.md:30` and `PORTING.md:140` call the bridge read-only, but it pushes;
  `selection.h:25` says that both CLIPBOARD and PRIMARY are revoked, the code
  (`selection.c:710-714`) revokes CLIPBOARD.

Present wake:

* When another thread's callback overlaps a burst, the wake can be consumed with the
  window still dirty (`drawing.c` 592-616 against 1257-1263; `BurstLands` states it).
  The pump-wake timer presents it later, except under the dummy driver.  So
  `BurstLandsAlone` is stated for painters that the callback does not overlap.
* A present that fails leaves the window dirty and asks for no new wake; nor does a
  push or a timer that fails.
* Drawing is not moved to the main thread, though the comment at 664-667 says that
  scheduling and cancelling happen there; 606-613 says that removing a timer waits
  for its callback, 696-702 that it does not.

Input contexts and text:

* `XSetICFocus` from a preedit callback leaves the old context in the middle of its
  preedit, although the comment at `input-method.c` 260-263 clears the flag "so the
  IC is not stuck mid-preedit"; `XUnsetICFocus` in one leaves a start without a
  done.
* Destroy and create in a callback, at the same address, go on with the new context.
  A reset keeps the focus that its own done callback gave to another context.  A
  nested `XSetICFocus` wins over the outer one.
* A done callback that drops the focus loses the committed text (`events.c`
  3637-3645).
* A stale pending character (its key was delivered raw, the focus changed before its
  text) doubles the next key; so do `XNClientWindow` changes, which throw texts away,
  and keys that run ahead by more than the ring holds.  `StrokesArriveOnce` is about a
  focus that stays and keys that run ahead by at most the ring.
* The low byte of the key codes of KP_9, KP_0 and KP_PERIOD is that of 'a', 'b'
  and 'c' in `asciiTextForKeydown` (keypad keys have no character in the model).

XCB:

* `xcb_disconnect` frees its GCs, each a request on the display, after leaving the
  list; a close that overlaps finds no record, does not wait, and the display may be
  gone (`GcsOnOpenDisplay` is stated where they do not overlap).
* `xcb-requests.c` 83-101 stores and takes answers by 32 bits of the number, while
  `xcb_discard_reply` widens them, so that it misses after 2^32 requests (the
  test at `test-xcb-setup.c:332` stores under the wide number by hand).
* A request past `xcbCompatRequestReady` stores its answer after the close has
  dropped all of them.  `xcb-compat.c` 107-110 says that `xcb_request_check` refuses a
  failed connection; the code does not look.
* `xcb_poll_for_event` can block in `XNextEvent` when another thread takes the only
  event.  An error that is pending makes every `XNextEvent` on the display return
  an event of type 0 until someone takes it through XCB.

GLX:

* Two threads that realize the same context both create one (`glx.c` 687-717): the
  first is leaked, and a sharer may share with either.  The comment at 145-146 says
  all three fields are guarded by `glxLock`.
* A drawable whose surface was dropped by a failed rebuild is destroyed without
  taking it from the thread that has it current; the next swap does.
* The binding that `tearDownContext` makes for gl4es (892-911) may fail to restore
  a surface that is gone (gl4es is not modelled).

A guard that no behaviour needs: `unrealizeTopLevelWindow` defends against popups
anchored to each other, and `TreeConsistent` shows that there are none.

## 5. Proofs

Each theorem holds for every value of the constants that satisfies the module's named
assumption.  The assumptions ask that a name for nothing (`NoThread`, `NoRecord`, ...)
is not one of the things, that capacities are natural numbers, and, where the code
counts, that the things counted are finitely many.  No theorem assumes fairness.

| Module | From | Theorems | Inductive invariant |
|---|---|---|---|
| `MainDispatch_proofs` | `ThreadsAssumption` | `LockTypeCorrect`, `LockSectionsExclusive`, `LockDepthIsLedger`, `LockNoMissedSignal`, `LockImplementsSections` | `LockInv` (`LockInvariant`) |
| the same | and `DispatchAssumption` | `DispatchUsesLock`, `DispatchSectionsExclusive`, `DispatchDepthIsLedger`, `DispatchCommandHeldOnce`, `DispatchHandoffThunkInSection` | `DispatchInv` (`DispatchInvariant`) |
| `EventPump_proofs` | `PumpAssumption`: finitely many threads | `PumpAccountingExact` | `PumpInv` (`PumpInvariant`) |
| the same, of `Snapshot` | `SnapshotAssumption` | `SnapshotAnswersOwnRequest`, `SnapshotEnvelopeOwnedOnce`, `SnapshotGivenAnswerReturned` | `SnapshotInv` (`SnapshotInvariant`) |
| `EventQueue_proofs` | `QueueAssumption` | `ConservedTheorem` | `QueueInv` (`QueueInvariant`) |
| `XcbConnection_proofs` | `SessionsAssumption`: finitely many threads, numbers narrowed to at least one value | `XcbClosersReturn`, `XcbWrapperIsSound` | `ConnectionInv` (`XcbInvariant`) |
| `Host_proofs`, of `PresentWake` | nothing: the theorems hold for any programs | `PresentTeardownIsQuiet`, `PresentBurstLandsAlone` | `PresentInv` (`PresentInvariant`) |
| the same, of `Clipboard` | `ClipboardAssumption`, and `OwnersTimeOut` | `HostTheorem` | `ClipboardInv` (`ClipboardInvariant`) |
| `DisplayLifecycle_proofs` | `LifecycleAssumption`, finitely many displays; `HostWindowsAssumption` | `DeferredCloseTheorem`, `DisplaysTheorem`, `ObserverTheorem` | `LifecycleInv` (`LifecycleInvariant`) |
| `Extensions_proofs`, of `GlxContext` | `ScenesAssumption`: finitely many threads, contexts and drawables | `ContextsTheorem`, `SwapsTheorem`, `DestroyerTheorem` | `GlxInv` (`GlxInvariant`) |
| the same, of `SharedMemory` | `SegmentsAssumption`: finitely many threads | `ShmMappedWhileCopied` | `ShmInv` (`ShmInvariant`) |
| `Input_proofs`, of `Timeline` | `TimelineAssumption`: finitely many kinds of event, a sample smaller than the width | `VerdictTheorem` | `TimelineInv` (`TimelineInvariant`) |
| the same, of `ReplayTarget` | `TargetAssumption` | `InjectedInputTheorem` | `TargetInv` (`TargetInvariant`) |
| the same, of `InputContext` | `ProgramsAssumption`: NULL is no context | `InputContextsTheorem` | `ContextInv` (`ContextInvariant`) |
| the same, of `TypedText` | `TypistsAssumption` | `CommitsTheorem` | `TextInv` (`TypedTextInvariant`) |

**The lock.**  Mutual exclusion is not inductive by itself, because a section stays
open while its owner is out of the lock.  `LockInv` adds that depth is the client's
ledger, that the recorded handoff owner is exactly the thread with depth put aside
and that only the main thread can then own the lock (`HandoffOwnerIsShedder`), that
only such a thread reacquires, and that whoever sleeps may not proceed
(`NoMissedSignal`).  `LockInitInv`, `LockStepInv` (a step per action) and
`LockStutterInv` give `LockInvariant`.  `LockImplementsSections` maps each monitor
step to a `SectionLock` step or a stutter.

**The dispatcher.**  `DispatchUsesLock` shows, action by action, that the dispatcher
moves the lock only as `DisplayLock` specifies, which carries the lock's theorems over
to any number of workers, calls, failures and nested drains.  For the commands,
"held once" says nothing of the order of a batch or of what a frame may do next, so
`DispatchInv` adds that each of SDL's queue, the parked list and each frame's batch
names a worker once (`OncePerPlace`), that no two of these places share one
(`Apart`), that a drain holds a batch only while it handles events
and that a worker holds a command only while it carries it (`ControlInv`), and that a worker whose command is a handoff has its depth put aside and
is in no call of the monitor (`HandoffInv`).  Lemmas on sequences (prefixing,
appending, splitting and rotating a list without repetition) carry most of it.

**The pump.**  `AccountingExact` holds only where no other thread counts, and between
two steps of the client's own thread the counter and the queues do differ.
`AloneInv` says by how much in each stage; `ReadInv` and `ControlOK` say which reads
are owed and which of the others' steps can be under way; `FlowInv`, that what is queued,
taken or about to be inserted was generated once, bounds the events when threads push.

**The queue.**  "Counted once" has to be shown of places that overlap: a drain holds
a batch while the calls nested in it take events too, and what is converted goes to the
put-back list, to the client, to nobody or back to SDL's queue.  `PlacesInv` says of each id
that one of the five places (the two lists, the calls' hands, what the client has,
what is gone) has it once and the others not at all, and of an id that has not been
pushed that none has.  `FramesInv` says what each stage of a call may hold: no batch
before it has taken one, one event for `XNextEvent`, which is never above another call.
Only ids of events that were pushed are even; a crossing event takes the odd one before.
`AppendCounts` to `OnlyCounts` say what each operation on a list does to the times an
id is in it, `HandsChange` to `RestCounts` the same of a stack of calls; each
action then moves one id from one place to another (`KeepList`, `TakeList`, `GiveList`, ...).
`CountsAre` and `HandsAre` turn "once" into the cardinalities that `Places` adds up.

**Round trips.**  A generation that a failed push rolled back is given out again, so
"newer request, larger generation" is false.  `GenerationInv` says what remains
(`Young`): an envelope's generation is at most its channel's, and among those under
way the one with the generation of the request that waits is that request's own.  `AnswerInv`
follows an answer from the result slot to the call that takes it; `OwnerInv` says that a
request has its envelope in the queue once or in one handler's hands, which freeing needs.
`SnapshotGivenAnswerReturned` is an action property.

**Segments.**  A copy is made with no lock held, and what keeps the mapping is a
count on an attachment that may have been asked to detach and whose address may have
been attached again.  `ShmInv` ties them: an attachment's `inUse` is the number of
threads that have it pinned (`AttachmentInv`), two live ones have mappings of their
own (`OwnMappings`), a segment's list agrees with them (`SegmentInv`), a copying
thread pins the one it found (`CopyInv`), and a live attachment's address is mapped
(`MappingInv`).

**XCB.**  The close and the disconnect wait for counts of threads that are
somewhere in another call.  `ConnectionInv` says that each thread in a call is on a
live record (`OnInv`), that the two counts are the numbers of such threads
(`CountInv`), that at most one record has the display, and one that is closing has
a thread that will take it off the list (`ListInv`), who may touch an unpublished
record (`SetupInv`), what a close callback and a disconnect find (`CallbackInv`,
`DisconnectInv`, `OwnedInv`), and that who sleeps waits for a count that is not
zero (`SleepInv`).  Replies are about numbers: `Division` to `KeysDiffer` show, by linear
arithmetic on quotients, that numbers less than `Narrow` apart have different
residues and that `widenSequence` inverts the narrowing; `CookieInv` says that every
cookie's number is among the last `Narrow` of its connection and that its answer is under
its key while the display is open, and that a record without a display has no answers at
all.  It rests on `ConnectionInv`: a cookie is on a connection in the client's hands,
hence on none that is being built, disconnected or freed, whose table starts again.

**The present wake.**  Both threads go through lists of steps, so the invariant starts
from where they can be: `MainInv` says that the main thread is in a call that draws, a
list in which the steps of a schedule follow each other (`Chained`), or in a suffix of a close's
or an open's (`Cancels`).  `TimerInv` says that there is one timer, being armed,
waiting or calling back, and that `timerPending` is set while there is unless a close
cleared it; `GagInv`, that once the close has been through the lock a callback
that has still to push has still to ask for `tornDown`.  `AloneInv` adds what holds
only when nothing overlaps: a wake that is marked pending is in the queue or about to be
forgotten, and what is dirty will be drawn.  `ChainTail`, `ChainJoin` and `ChainSkip` are the
lemmas about lists; from `AtDrawing`, `AtCancelling` and `AtCallback` there is one
lemma for each group of steps.

**The clipboard.**  That the text written to the host is whole and the owner's depends
on what is in SDL's queue and in the clients' inboxes about the slot of the fetch, and on the
order of it: a property that is reused must not see the pieces, the deletions or
the answers of an earlier use.  `SlotInv` says that the slot of a fetch is its owner's alone;
`PendingInv`, that the signs of an earlier use come before the request and that an answer
is there only with its property; `IncrInv`, how many pieces of an INCR transfer have come and that one
sign at most is under way; `StaysInv` and `MarkInv`, which change of the host's clipboard
has still to be told when an owner or the mark of a push remains; `ToldInv`, where the
`SelectionClear` of who lost the selection is.  `DropQueue` to `SwapInbox` say what each step of a
queue does to these orders (`Keeps`) and that it loses no event that counts (`Flows`).
The theorems are for owners that abandon a transfer which nobody reads (`OwnersTimeOut`):
a stalled one would send its next piece into a later fetch that reuses the slot.

**Opening and closing.**  A display's connection, its pipe, its count and its place in
the deferral queues are taken and given back in different steps, and a close inside
an event frame does half of its work later.  `PlacesInv` says that a display is in one
place at a time: open, about to be opened, in a queue once, or in the one step that
closes it.  `PipeInv` says what the record in a pipe refers to, through the steps of a
close (`Owed`, `Waiting`, `Closing`, `Resting`); `FrameInv`, when a queue may hold
something; `OthersIdle`, what the other threads cannot be doing while the frame's
thread works; `CountInv`, that with one thread the counter is the number of displays
that have been counted; `LibraryInv`, that the library is up while
there are any.  `CallbackInv` says what a live-resize callback has in hand; the
observer's property needs no more.  The proof corrected `ConnectionFollowsDisplays`: a
display whose pipe could not be made, and whose close is then lost because both
queues are full, leaves the locks behind with no display on the pipe.

**Contexts.**  Who lets go of a context last frees it, so everything rests on what the
two counts mean.  `CountInv` says that `currentCount` is the number of threads that have
the context current and of the calls that hold a count; `RefInv`, that the references
are those of the contexts that share with it and of the calls that hold one.
`LifeInv` follows a context from its handle through the time that it is kept or about
to be claimed to its one teardown, after which its memory is blank.  `EglInv` says
that each EGL context belongs to one context or to one thread that has yet to store
it; `RealInv`, what must have been realized; `BoundInv`, what EGL has bound in each
thread, one step ahead of the thread's own variables while a bind is installed.  `StepInv` says
what each step works on.  The theorems are for scenes without `together`: where it is
set, the run `GlxDestroyedInUse` finds the context freed.

**The timeline.**  A sample subtracts counters that wrap, and it is not one moment:
an event may come between the reads of two kinds.  `DeltaInv` ties each kind's two
counters to the events since its last read, as tokens whose number is what the difference
modulo the width gives; `BucketInv` says how the events already added up and the tokens
not yet read bound what happened in the bucket; `StreakInv`, which buckets the
two counts in a row are about; `ClockInv`, that time passes no faster than a sleep that
is late for each bucket.

**The target.**  The main thread publishes a decision in several stores, so what the
program has decided is not what can be read.  `DecidedInv` is about the target with
the stores that are left applied to it (`Decided`); `WriterInv`, about which lists of stores there can
be and in which of them the counter is odd; `PublishedInv`, about the stand-ins once
they are published.  `ReaderInv` is the argument for the lock-free read: a reader's
counter is an even one, and while it is the present one what has been read belongs to
the present target.  `SerialInv` adds where the pointer is when nothing overlaps, at each
step of a call and of a store.  `WriterLists` and `CallSteps` go through the lists, one
case each; `ReaderStep` reduces every step of a call to two conditions on its record.

**Input contexts.**  A callback may call the library again, and every step below it on
the stack then works on a context that may be gone.  The stack is counted from its bottom (`StepAt`),
so that what is pushed and popped leaves the rest its places.  `OrderInv` says which steps
stand on which: under a preedit's step is its next one, and at most one preedit is
handled.  `EndsInv` says what a call leaves below the preedit that it ends; `FreeInv`,
that a context is freed once and has lost the focus by then; `FocusInv`, that the context
that waits for the focus has a step that will give it, before which it is not freed.
`CalmInv` is about clients whose callbacks at most destroy contexts, of which alone
`PreeditIsBalanced` speaks: the context of a preedit keeps the focus or is gone (`CalmAt`), what the
step that is reached can rely on (`CalmStep`), and what the client shows (`Seen`).
`Pops` to `Replaces` are the lemmas about the stack; `QuietDrop`, `QuietCall`, `CallPushes`, `StepEnds`
and `PreeditBegins` keep it in order for groups of actions.

**The texts of strokes.**  That the text of a KeyPress is there, unless `MaxPending`
younger ones have come, is a statement about ids, while the table drops from its middle
when one is looked up and from its front when it is full.  `TableOK` says that ids are distinct
and that the text at each place has an id at least as old as the texts behind it are many
(`InOrder`), so that what is dropped for want of room is old; `FlightOK`, that each KeyPress on its
way has a number of its own; `MatchInv`, that the text with that number is its stroke's;
`HeldInv`, that it is in the table; `AwaitedInv`, that nothing else is but what the client
threw away.

Only model-checked:

* liveness: `EventsAreDelivered`, `ClientKeepsPumping`, `RouteReturns`, `StopReturns`;
* `WindowTree`, `InputTargets` and `FocusCrossing`: they follow paths and closures over
  a tree, which needs induction over data that these provers do not do;
* of `EventQueue`, the refinement of `EventList`, whose mapping folds over a batch, and
  `OwnDiscardStaysGone`, which speaks of one kind of client;
* `StrokesArriveOnce` of `TypedText`, which holds of some typists only (the model's
  parts name them: who runs ahead of the ring loses characters), and `OwnersTextArrives`
  of `Clipboard`.

## 6. Plan, and what is not modelled

Every part that the first plan named is modelled.  What is left is proof, in this order:
`OwnersTextArrives`; `OwnDiscardStaysGone`; `StrokesArriveOnce` for the typists of
which it holds.  `NoDangling`, `TreeConsistent` and what else is said of the tree stay
with TLC: the model has closures and folds over it.

Not modelled:

| Component | Why not |
|---|---|
| Drawing, images, paths, fonts, Xft, XRender, regions (`drawing.c` but for its wake, `image.c`, `font.c`, ...) | arithmetic on pixels and glyphs, one call at a time; better tested |
| Properties and atoms (`window-property.c`, `atoms.c`) | tables read and written by one call; the property writes of a clipboard transfer are in `Clipboard` |
| Resource ids, GCs, pixmaps, cursors, colours (`resource-types.c`, ...) | tables behind one mutex |
| Field-by-field conversion of events, exposure, EWMH requests | plain data |
| Resource database, errors, defaults, stubs (`xrm`, `missing.c`, ...) | parsing and functions that return a constant |
| SDL compatibility layer | forwards each call |
| Translating XCB requests | each is one Xlib call, without state |
| Vendored code: gl4es under `src/src/GL`, examples, tests | third-party, or drivers of the library |

Left out of modelled parts: lazy registration of SDL event types (but for
`Snapshot`); `XIfEvent`'s loops and several displays in one queue; geometry and
gravity, `XMapSubwindows`, the wasm build's borrowed canvas; passive key grabs,
confining, frozen devices, warps; `XConvertSelection` and `XGetSelectionOwner`, the
size cap of a transfer and failing allocations; attributes of input contexts and the
internal preedit window; the owner of XCB's event queue; GLX configurations, pbuffers
and a separate read drawable; the completion event of a shared-memory put.
`PROJECT.json` says the same component by component.
