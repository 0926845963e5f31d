----------------------------- MODULE LiveResize -----------------------------
(***************************************************************************)
(* The run-loop observer of a macOS border drag (src/src/mac-live-resize.c). *)
(* AppKit keeps the main thread in a modal loop during a drag; only the     *)
(* observer's callback runs there.  Its notifications come late or out of   *)
(* order, so the observer asks the window whether the drag is still on.     *)
(* Operators only: the callback presents a frame, in which a client may     *)
(* close displays, so DisplayLifecycle composes them into steps.            *)
(***************************************************************************)
EXTENDS Integers

CONSTANTS HostWindows,  \* NSWindows
          NoWindow,
          MaxDrags      \* bound: drags of a behaviour

ASSUME HostWindowsAssumption == NoWindow \notin HostWindows /\ MaxDrags \in Nat

VARIABLES hostDrag,     \* AppKit: the window whose inLiveResize is YES
          endsDue,      \* AppKit: DidEnd notifications it has yet to post
          drags,        \* AppKit: drags so far
          registered,   \* liveResizeNotificationsRegistered
          observer,     \* is there a liveResizeObserver?
          running,      \* liveResizeObserverRunning
          pendingStop,  \* liveResizeObserverPendingStop
          captured,     \* liveResizeWindow
          retains,      \* retains of each window not yet released (a ledger)
          blind         \* was the last drag's start missed, or its arm
                        \* refused, or has a stop ended it? (a history)

hostVars == <<hostDrag, endsDue, drags>>
observerVars == <<registered, observer, running, pendingStop, captured,
                  retains, blind>>
liveResizeVars == <<hostVars, observerVars>>

LiveResizeInit ==
  /\ hostDrag = NoWindow /\ endsDue = 0 /\ drags = 0
  /\ registered = FALSE /\ observer = FALSE /\ running = FALSE
  /\ pendingStop = FALSE /\ captured = NoWindow
  /\ retains = [n \in HostWindows |-> 0] /\ blind = TRUE

Balance(released, retained) ==
  [n \in HostWindows |-> retains[n] - (IF n = released THEN 1 ELSE 0)
                                    + (IF n = retained THEN 1 ELSE 0)]

inLiveResize == captured # NoWindow /\ hostDrag = captured

(* disarmLiveResizeObserver, with the flag as the caller has left it.       *)
disarm(inCallback) ==
  IF inCallback
    THEN pendingStop' = TRUE /\ UNCHANGED <<observer, captured, retains>>
    ELSE /\ observer' = FALSE /\ captured' = NoWindow
         /\ retains' = Balance(captured, NoWindow)
         /\ UNCHANGED pendingStop

(* libx11CompatStartLiveResizeObserver, libx11CompatStopLiveResizeObserver. *)
StartObserver ==
  /\ registered' = TRUE
  /\ UNCHANGED <<observer, running, pendingStop, captured, retains, blind>>

StopObserver ==
  /\ registered' = FALSE
  /\ disarm(running)
  /\ blind' = TRUE
  /\ UNCHANGED running

(* liveResizeWillStart and armLiveResizeObserver, which may find no memory. *)
liveResizeWillStart(n) ==
  /\ retains' = Balance(captured, n) /\ captured' = n
  /\ observer' \in {TRUE, observer} /\ blind' = ~observer'
  /\ UNCHANGED <<registered, running, pendingStop>>

HostStarts(n) ==
  /\ hostDrag = NoWindow /\ drags < MaxDrags
  /\ hostDrag' = n /\ drags' = drags + 1
  /\ IF registered THEN liveResizeWillStart(n)
     ELSE /\ blind' = TRUE
          /\ UNCHANGED <<registered, observer, running, pendingStop, captured,
                         retains>>
  /\ UNCHANGED endsDue

(* The drag ends; its notification is posted later, or much later.          *)
HostEnds ==
  /\ hostDrag # NoWindow
  /\ hostDrag' = NoWindow /\ endsDue' = endsDue + 1
  /\ UNCHANGED <<drags, observerVars>>

(* liveResizeDidEnd up to its final frame: is the notification about the    *)
(* drag that the observer serves?                                           *)
everyEnd == FALSE
endIsOfEarlierDrag == inLiveResize

liveResizeDidEnd ==
  IF ~registered \/ endIsOfEarlierDrag THEN UNCHANGED observerVars
  ELSE disarm(running) /\ UNCHANGED <<registered, running, blind>>

(* liveResizeObserverCallback: around its frame and after it.               *)
CallbackBegins ==
  /\ observer /\ ~running /\ running' = TRUE
  /\ UNCHANGED <<registered, observer, pendingStop, captured, retains, blind>>

HonourStop ==
  /\ running' = FALSE /\ pendingStop' = FALSE
  /\ observer' = FALSE /\ captured' = NoWindow
  /\ retains' = Balance(captured, NoWindow)
  /\ UNCHANGED <<registered, blind>>

DragIsOver ==
  /\ disarm(running) /\ UNCHANGED <<registered, running, blind>>

CallbackReturns ==
  /\ running' = FALSE
  /\ UNCHANGED <<registered, observer, pendingStop, captured, retains, blind>>

-----------------------------------------------------------------------------
(* The observer is never removed inside its own callback, whatever the      *)
(* client closes in there ("CF may still dereference it"); each window is   *)
(* retained exactly while it is captured, also when notifications come out  *)
(* of order; a late DidEnd of an earlier drag leaves the present drag its   *)
(* observer; and nothing is left of it when the last display is gone.       *)
ObserverFollowsDrag ==
  /\ running => observer
  /\ \A n \in HostWindows : retains[n] = (IF captured = n THEN 1 ELSE 0)
  /\ (hostDrag # NoWindow /\ ~blind /\ ~running) => observer /\ inLiveResize
  /\ (~registered /\ ~running) => ~observer /\ ~pendingStop /\ captured = NoWindow
=============================================================================
