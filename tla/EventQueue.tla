----------------------------- MODULE EventQueue -----------------------------
(***************************************************************************)
(* Which event a client gets, and when: SDL's process-wide queue, the       *)
(* put-back list in front of it, and the calls that take from them          *)
(* (src/src/events.c).  XNextEvent takes one event without the display      *)
(* lock; XPending, XCheckWindowEvent and the discard of a destroyed         *)
(* window's events take the whole SDL queue under it, convert the events    *)
(* one by one and append what is left to the put-back list.  Converting can *)
(* swallow an event, add a crossing event in front of it, or run a routed   *)
(* XDestroyWindow, whose own discard then nests inside the drain.           *)
(***************************************************************************)
EXTENDS Integers, Sequences, FiniteSets, SequencesExt, FiniteSetsExt

CONSTANTS Threads,      \* client threads that touch the queue
          Main,         \* the SDL-owning one
          NoThread,
          Windows,
          Clients       \* the clients to explore, each of them a record:
                        \*  threads   the threads it has
                        \*  calls     the calls it makes besides XPending
                        \*            and XDestroyWindow
                        \*  kinds     of SDL events: "plain", "swallow",
                        \*            "crossing", "destroy" (a routed
                        \*            XDestroyWindow)
                        \*  maxEvents bound: events pushed
                        \*  maxCalls  bound: Xlib calls in all

ASSUME QueueAssumption ==
  /\ Main \in Threads /\ NoThread \notin Threads
  /\ \A c \in Clients :
       /\ Main \in c.threads /\ c.threads \subseteq Threads
       /\ c.calls \subseteq {"next", "check", "putBack"}
       /\ c.kinds \subseteq {"plain", "swallow", "crossing", "destroy"}
       /\ c.maxEvents \in Nat /\ c.maxCalls \in Nat

VARIABLES client,   \* which of Clients this is, for good
          sdl,      \* SDL's queue
          putBack,  \* putBackEvents
          holder,   \* of the recursive display lock
          frames,   \* per thread: the calls it is in, innermost last
          taken,    \* events returned to the client
          gone,     \* events consumed without being returned
          dying,    \* windows whose destruction has begun
          sweptAt,  \* per window: events pushed when its discard began
          torn,     \* windows whose discard is over
          pushed, calls

vars == <<client, sdl, putBack, holder, frames, taken, gone, dying, sweptAt, torn,
          pushed, calls>>

Init ==
  /\ client \in Clients
  /\ sdl = <<>> /\ putBack = <<>>
  /\ holder = NoThread
  /\ frames = [t \in Threads |-> <<>>]
  /\ taken = {} /\ gone = {}
  /\ dying = {} /\ torn = {}
  /\ sweptAt = [w \in Windows |-> 0]
  /\ pushed = 0 /\ calls = 0

-----------------------------------------------------------------------------
(* The n-th pushed event has id 2n; the crossing event that converting it   *)
(* may add has the id before.                                               *)
Event(id, w, kind) == [id |-> id, win |-> w, kind |-> kind]

Converted(e) ==
  CASE e.kind = "plain" -> <<e>>
    [] e.kind = "crossing" -> <<Event(e.id - 1, e.win, "plain"),
                                Event(e.id, e.win, "plain")>>
    [] OTHER -> <<>>

NoEvent == Event(0, CHOOSE w \in Windows : TRUE, "none")

Frame(op, w, stage, batch) ==
  [op |-> op, win |-> w, stage |-> stage, batch |-> batch, got |-> NoEvent]

top(t) == Last(frames[t])
Enter(t, f) == frames' = [frames EXCEPT ![t] = Append(@, f)]
SetTop(t, f) == frames' = [frames EXCEPT ![t] = Front(@) \o <<f>>]

(* A thread that is in no call may start one.                               *)
Starts(t) ==
  /\ frames[t] = <<>> /\ calls < client.maxCalls
  /\ calls' = calls + 1

(* LockDisplay, and UnlockDisplay when the last locked call returns.        *)
NoLock(t) == holder' = t

LockDisplay(t) == holder \in {NoThread, t} /\ holder' = t

LeaveLocked(t) ==
  /\ frames' = [frames EXCEPT ![t] = Front(@)]
  /\ holder' = IF \E i \in 1..(Len(frames[t]) - 1) :
                    frames[t][i].op # "next"
                 THEN t ELSE NoThread

-----------------------------------------------------------------------------
(* What a thread took off SDL's queue and has not dealt with.               *)
InHand(t) ==
  UNION {Range(frames[t][d].batch) \union ({frames[t][d].got} \ {NoEvent}) :
           d \in DOMAIN frames[t]}

(* A client asks for the destruction of a window once.                      *)
MayDestroy(w) ==
  /\ w \notin dying
  /\ \A e \in Range(sdl) \union UNION {InHand(t) : t \in Threads} :
       e.kind = "destroy" => e.win # w

(* SDL_PushEvent: host input, XSendEvent, enqueueEvent or runOnMainThread.  *)
Push(w, kind) ==
  /\ pushed < client.maxEvents /\ w \notin dying
  /\ kind = "destroy" => MayDestroy(w)
  /\ pushed' = pushed + 1
  /\ sdl' = Append(sdl, Event(2 * (pushed + 1), w, kind))
  /\ UNCHANGED <<putBack, holder, frames, taken, gone, dying, sweptAt, torn,
                 calls>>

XPutBackEvent(t) ==
  /\ "putBack" \in client.calls /\ Starts(t)
  /\ holder \in {NoThread, t}
  /\ \E e \in taken :
       /\ e.win \notin dying
       /\ taken' = taken \ {e}
       /\ putBack' = <<e>> \o putBack
  /\ UNCHANGED <<sdl, holder, frames, gone, dying, sweptAt, torn, pushed>>

(* XNextEvent: popPutBackEvent, else take one SDL event.                    *)
popPutBackEvent(t) ==
  /\ "next" \in client.calls /\ putBack # <<>>
  /\ Starts(t)
  /\ taken' = taken \union {Head(putBack)}
  /\ putBack' = Tail(putBack)
  /\ UNCHANGED <<sdl, holder, frames, gone, dying, sweptAt, torn, pushed>>

SkipsPutBack(t) ==
  /\ "next" \in client.calls
  /\ Starts(t)
  /\ Enter(t, Frame("next", NoEvent.win, "take", <<>>))
  /\ UNCHANGED <<sdl, putBack, holder, taken, gone, dying, sweptAt, torn,
                 pushed>>

NextFindsNoPutBack(t) ==
  /\ "next" \in client.calls /\ putBack = <<>>
  /\ Starts(t)
  /\ Enter(t, Frame("next", NoEvent.win, "take", <<>>))
  /\ UNCHANGED <<sdl, putBack, holder, taken, gone, dying, sweptAt, torn,
                 pushed>>

NextTakes(t) ==
  /\ frames[t] # <<>> /\ top(t).op = "next" /\ top(t).stage = "take"
  /\ IF sdl = <<>>
       THEN frames' = [frames EXCEPT ![t] = <<>>] /\ UNCHANGED sdl
       ELSE /\ SetTop(t, [top(t) EXCEPT !.stage = "convert",
                                        !.batch = <<Head(sdl)>>])
            /\ sdl' = Tail(sdl)
  /\ UNCHANGED <<putBack, holder, taken, gone, dying, sweptAt, torn, pushed,
                 calls>>

(* XPending and XFlush; XCheckWindowEvent; destroyWindow, on the main       *)
(* thread, from the client or nested in a drain.                            *)
drainSdlEventsToPutBack(t) ==
  /\ Starts(t) /\ LockDisplay(t)
  /\ Enter(t, Frame("drain", NoEvent.win, "take", <<>>))
  /\ UNCHANGED <<sdl, putBack, taken, gone, dying, sweptAt, torn, pushed>>

checkTypedEvent(t, w) ==
  /\ "check" \in client.calls
  /\ Starts(t) /\ LockDisplay(t)
  /\ Enter(t, Frame("check", w, "search", <<>>))
  /\ UNCHANGED <<sdl, putBack, taken, gone, dying, sweptAt, torn, pushed>>

discardQueuedEventsForWindow(t, w) ==
  /\ w \notin dying
  /\ LockDisplay(t)
  /\ dying' = dying \union {w}
  /\ sweptAt' = [sweptAt EXCEPT ![w] = pushed]
  /\ UNCHANGED <<putBack, taken, torn, pushed>>

XDestroyWindow(w) ==
  /\ Starts(Main) /\ MayDestroy(w)
  /\ discardQueuedEventsForWindow(Main, w)
  /\ Enter(Main, Frame("discard", w, "sweep", <<>>))
  /\ UNCHANGED <<sdl, gone>>

(* removeMatchingPutBackEvent, before the drain and after it.               *)
Matches(w) == {i \in 1..Len(putBack) : putBack[i].win = w}

First(s) == CHOOSE i \in s : \A j \in s : i <= j

(* What is left of a list, in its order.                                    *)
Only(list, left) ==
  [n \in 1..Cardinality(left) |->
     list[CHOOSE i \in left : Cardinality({j \in left : j <= i}) = n]]

Search(t) ==
  /\ frames[t] # <<>> /\ top(t).op = "check" /\ top(t).stage = "search"
  /\ IF Matches(top(t).win) = {}
       THEN /\ SetTop(t, [top(t) EXCEPT !.stage = "take"])
            /\ UNCHANGED <<putBack, taken, holder>>
       ELSE LET i == First(Matches(top(t).win))
            IN  /\ taken' = taken \union {putBack[i]}
                /\ putBack' = RemoveAt(putBack, i)
                /\ LeaveLocked(t)
  /\ UNCHANGED <<sdl, gone, dying, sweptAt, torn, pushed, calls>>

Sweep(t) ==
  /\ frames[t] # <<>> /\ top(t).stage = "sweep"
  /\ putBack' = Only(putBack, DOMAIN putBack \ Matches(top(t).win))
  /\ gone' = gone \union {putBack[i] : i \in Matches(top(t).win)}
  /\ SetTop(t, [top(t) EXCEPT !.stage = "take"])
  /\ UNCHANGED <<sdl, holder, taken, dying, sweptAt, torn, pushed, calls>>

TakeAll(t) ==
  /\ frames[t] # <<>> /\ top(t).op # "next" /\ top(t).stage = "take"
  /\ SetTop(t, [top(t) EXCEPT !.stage = "convert", !.batch = sdl])
  /\ sdl' = <<>>
  /\ UNCHANGED <<putBack, holder, taken, gone, dying, sweptAt, torn, pushed,
                 calls>>

-----------------------------------------------------------------------------
(* convertEvent for the next event of a call's batch.                       *)
Converting(t, kinds) ==
  /\ frames[t] # <<>> /\ top(t).batch # <<>>
  /\ Head(top(t).batch).kind \in kinds

event(t) == Head(top(t).batch)

Rest(t) == [top(t) EXCEPT !.batch = Tail(@)]

(* The event is swallowed, or it and a crossing are appended to the         *)
(* put-back list and XNextEvent looks there again.                          *)
ConvertsToNone(t) ==
  /\ Converting(t, {"swallow", "crossing"})
  /\ putBack' = putBack \o Converted(event(t))
  /\ gone' = IF event(t).kind = "swallow" THEN gone \union {event(t)} ELSE gone
  /\ IF top(t).op = "next" THEN frames' = [frames EXCEPT ![t] = Front(@)]
                           ELSE SetTop(t, Rest(t))
  /\ UNCHANGED <<sdl, holder, taken, dying, sweptAt, torn, pushed, calls>>

ReturnsEvent(t) ==
  /\ Converting(t, {"plain"}) /\ top(t).op = "next"
  /\ taken' = taken \union {event(t)}
  /\ frames' = [frames EXCEPT ![t] = Front(@)]
  /\ UNCHANGED <<sdl, putBack, holder, gone, dying, sweptAt, torn, pushed,
                 calls>>

(* The first match of XCheckWindowEvent is kept, an event of a destroyed    *)
(* window dropped, and any other appended to the put-back list.             *)
KeepsLast(t) == top(t).op = "check" /\ event(t).win = top(t).win

Keeps(t) ==
  top(t).op = "check" /\ top(t).got = NoEvent /\ event(t).win = top(t).win

DropsNone(t) == top(t).op = "drop"

Drops(t) == top(t).op = "discard" /\ event(t).win = top(t).win

KeepsEvent(t) ==
  /\ Converting(t, {"plain"})
  /\ Keeps(t)
  /\ SetTop(t, [Rest(t) EXCEPT !.got = event(t)])
  /\ UNCHANGED <<sdl, putBack, holder, taken, gone, dying, sweptAt, torn,
                 pushed, calls>>

DropsEvent(t) ==
  /\ Converting(t, {"plain"})
  /\ Drops(t)
  /\ gone' = gone \union {event(t)}
  /\ SetTop(t, Rest(t))
  /\ UNCHANGED <<sdl, putBack, holder, taken, dying, sweptAt, torn, pushed,
                 calls>>

PrependsEvent(t) ==
  /\ Converting(t, {"plain"})
  /\ top(t).op # "next" /\ ~Keeps(t) /\ ~Drops(t)
  /\ putBack' = <<event(t)>> \o putBack
  /\ SetTop(t, Rest(t))
  /\ UNCHANGED <<sdl, holder, taken, gone, dying, sweptAt, torn, pushed,
                 calls>>

AppendsEvent(t) ==
  /\ Converting(t, {"plain"})
  /\ top(t).op # "next" /\ ~Keeps(t) /\ ~Drops(t)
  /\ putBack' = Append(putBack, event(t))
  /\ SetTop(t, Rest(t))
  /\ UNCHANGED <<sdl, holder, taken, gone, dying, sweptAt, torn, pushed,
                 calls>>

(* A routed XDestroyWindow runs on the main thread, nested in this call.    *)
RunsThunk(t) ==
  /\ Converting(t, {"destroy"}) /\ t = Main
  /\ discardQueuedEventsForWindow(t, event(t).win)
  /\ LET outer == IF top(t).op = "next" THEN <<>> ELSE <<Rest(t)>>
     IN  frames' = [frames EXCEPT ![t] = Front(@) \o outer
                      \o <<Frame("discard", event(t).win, "sweep", <<>>)>>]
  /\ gone' = gone \union {event(t)}
  /\ UNCHANGED <<sdl, calls>>

(* Another thread puts it back for the main thread.                         *)
Requeues(t) ==
  /\ Converting(t, {"destroy"}) /\ t # Main
  /\ sdl' = Append(sdl, event(t))
  /\ IF top(t).op = "next" THEN frames' = [frames EXCEPT ![t] = Front(@)]
                           ELSE SetTop(t, Rest(t))
  /\ UNCHANGED <<putBack, holder, taken, gone, dying, sweptAt, torn, pushed,
                 calls>>

(* The batch is done.  A check that found nothing searches once more.       *)
Ends(t) ==
  /\ frames[t] # <<>> /\ top(t).op # "next"
  /\ top(t).stage = "convert" /\ top(t).batch = <<>>
  /\ LeaveLocked(t)
  /\ LET late == IF top(t).op = "check" /\ top(t).got = NoEvent
                   THEN Matches(top(t).win) ELSE {}
     IN  /\ putBack' = IF late = {} THEN putBack
                                    ELSE RemoveAt(putBack, First(late))
         /\ taken' = taken \union ({top(t).got} \ {NoEvent})
                      \union {putBack[i] : i \in {First(late) : x \in late}}
  /\ torn' = IF top(t).op = "discard" THEN torn \union {top(t).win} ELSE torn
  /\ UNCHANGED <<sdl, gone, dying, sweptAt, pushed, calls>>

Next ==
  /\ UNCHANGED client
  /\ \/ \E w \in Windows, kind \in client.kinds : Push(w, kind)
     \/ \E w \in Windows : XDestroyWindow(w)
     \/ \E t \in client.threads :
          \/ XPutBackEvent(t) \/ popPutBackEvent(t) \/ NextFindsNoPutBack(t)
          \/ NextTakes(t) \/ drainSdlEventsToPutBack(t)
          \/ \E w \in Windows : checkTypedEvent(t, w)
          \/ Search(t) \/ Sweep(t) \/ TakeAll(t) \/ Ends(t)
          \/ ConvertsToNone(t) \/ ReturnsEvent(t)
          \/ KeepsEvent(t) \/ DropsEvent(t) \/ AppendsEvent(t)
          \/ RunsThunk(t) \/ Requeues(t)

Spec == Init /\ [][Next]_vars

-----------------------------------------------------------------------------
(* The number of places an event is in: at the place 0 of a call is what it  *)
(* keeps, at the others its batch.                                          *)
AtPlace(s, id) == {i \in 1..Len(s) : s[i].id = id}
InFrame(f, id) == AtPlace(f.batch, id) \union (IF f.got.id = id THEN {0} ELSE {})
InFrames(id) ==
  UNION {UNION {{<<t, d, i>> : i \in InFrame(frames[t][d], id)} : d \in DOMAIN frames[t]} :
           t \in Threads}
Places(id) ==
  Cardinality(AtPlace(sdl, id)) + Cardinality(AtPlace(putBack, id)) + Cardinality(InFrames(id))
    + Cardinality({e \in taken : e.id = id}) + Cardinality({e \in gone : e.id = id})

(* No event is lost or delivered twice, whatever calls take events at the   *)
(* same time, nest, or hand them back (every drain takes events off SDL's   *)
(* queue before it knows what to do with them).                             *)
EventsConserved == \A n \in 1..pushed : Places(2 * n) = 1

(* Once a window's discard is over, none of the events that were queued for *)
(* it when the discard began is left ("Holding it throughout makes the      *)
(* discard atomic against every consumer").                                 *)
DiscardedStaysGone ==
  \A w \in torn :
    \A e \in Range(sdl) \union Range(putBack)
               \union UNION {InHand(t) : t \in Threads} :
      (e.win = w /\ e.kind # "destroy") => e.id > 2 * sweptAt[w]

(* So it is for a client with one thread and no crossing events.            *)
Alone == client.threads = {Main}
OwnDiscardStaysGone ==
  Alone /\ "crossing" \notin client.kinds => DiscardedStaysGone

(* A single-threaded client sees one ordered list, however often the two    *)
(* queues are drained into each other.                                      *)
Expand(s) == FlattenSeq([i \in 1..Len(s) |-> Converted(s[i])])

EventListView ==
  INSTANCE EventList WITH
    list <- IF ~Alone THEN <<>>
            ELSE putBack
              \o (IF frames[Main] = <<>> THEN <<>> ELSE Expand(top(Main).batch))
              \o Expand(sdl),
    taken <- IF ~Alone THEN {}
             ELSE taken \union (IF frames[Main] = <<>> THEN {}
                                ELSE {top(Main).got} \ {NoEvent}),
    doomed <- IF Alone THEN dying ELSE {}

ImplementsEventList == EventListView!Spec
=============================================================================
