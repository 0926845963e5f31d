--------------------------- MODULE FocusCrossing ---------------------------
(***************************************************************************)
(* The events that tell a client where the keyboard focus and the pointer   *)
(* are (src/src/events.c postFocusChange, postPointerCrossingEvents;        *)
(* src/src/input.c XSetInputFocus): every window between the old place and  *)
(* the new one is told.  The client reads them later, in order, and keeps   *)
(* for each window what they say.  A behaviour is about one of the two.     *)
(***************************************************************************)
EXTENDS Naturals, FiniteSets, Sequences, SequencesExt

CONSTANTS TreeWindows, Root,
          NoTarget,      \* None
          PointerRoot,
          Kinds,         \* what a behaviour is about: "focus" or "pointer"
          MaxUnread      \* bound: unread events when the next are posted

ASSUME FocusCrossingAssumption ==
  /\ IsFiniteSet(TreeWindows) /\ Root \notin TreeWindows
  /\ NoTarget # PointerRoot
  /\ {NoTarget, PointerRoot} \intersect (TreeWindows \union {Root}) = {}
  /\ Kinds \subseteq {"focus", "pointer"}
  /\ MaxUnread \in Nat

VARIABLES kind,        \* one of Kinds, never changed
          above,       \* the parent of each window, never changed
          unmapped,    \* the windows that are not mapped, never changed
          alive,       \* the windows not yet destroyed
          target,      \* keyboardFocus with its kind, or pointerHoverWindow
          revertTo, clientOwned, \* of the focus
          grabWindow,  \* of the pointer
          unread,      \* events posted and not yet read by the client
          told,        \* per place, what the client has read of it
          unsure,      \* windows the target left or entered without an event
          misled       \* has an event contradicted those before it?

placeVars == <<kind, above, unmapped>>
focusCrossingVars == <<placeVars, alive, target, revertTo, clientOwned,
                       grabWindow, unread, told, unsure, misled>>

AnyWindow == TreeWindows \union {Root}
Nowhere == {NoTarget, PointerRoot}
Places == AnyWindow \union Nowhere

(* buildWindowPathToRoot, empty for what is no window.  Its capacity of 256 *)
(* windows is not modelled.                                                 *)
buildWindowPathToRoot(w) ==
  LET path[n \in 0..Cardinality(TreeWindows)] ==
        IF n = 0 THEN <<w>>
        ELSE LET up == path[n - 1]
             IN IF Last(up) = Root THEN up ELSE Append(up, above[Last(up)])
  IN IF w \in alive THEN path[Cardinality(TreeWindows)] ELSE <<>>

Below(w) == {x \in alive : \E i \in DOMAIN buildWindowPathToRoot(x) :
                              buildWindowPathToRoot(x)[i] = w}

IsTree(up) ==
  \A S \in SUBSET TreeWindows \ {{}} : \E w \in S : up[w] \notin S

Viewable(w) == \A x \in unmapped : w \notin Below(x)

FocusCrossingInit ==
  /\ kind \in Kinds
  /\ above \in {up \in [TreeWindows -> AnyWindow] : IsTree(up)}
  /\ unmapped \in SUBSET TreeWindows /\ Cardinality(unmapped) <= 1
  /\ alive = AnyWindow
  /\ target = NoTarget
  /\ revertTo = "None" /\ clientOwned = FALSE
  /\ grabWindow = NoTarget
  /\ unread = <<>>
  /\ told = [p \in Places |-> IF p = NoTarget THEN "here" ELSE "outside"]
  /\ unsure = {} /\ misled = FALSE

-----------------------------------------------------------------------------
(* The fan-outs.  A path goes from a window to the root.                    *)

(* findPathIndex: the first index of old whose window is on new, or 0.      *)
CommonIndex(old, new) ==
  LET shared == {i \in DOMAIN old : old[i] \in Range(new)}
  IN IF shared = {} THEN 0 ELSE CHOOSE i \in shared : \A j \in shared : i <= j

(* FocusOut or LeaveNotify from the leaf up, to the first n windows.        *)
Depart(path, n, leaf, between) ==
  [i \in 1..n |-> [at |-> path[i], type |-> "out",
                   detail |-> IF i = 1 THEN leaf ELSE between]]

(* FocusIn or EnterNotify down to the leaf, to the first n windows.         *)
Arrive(path, n, leaf, between) ==
  [i \in 1..n |-> [at |-> path[n + 1 - i], type |-> "in",
                   detail |-> IF i = n THEN leaf ELSE between]]

(* How many windows of a path a nonlinear move tells.                       *)
limitWithShared(lca, path) == IF lca > 0 THEN lca ELSE Len(path)
limit(lca, path) == IF lca > 0 THEN lca - 1 ELSE Len(path)

FanOut(old, new) ==
  LET oldLca == CommonIndex(old, new)
      newLca == CommonIndex(new, old)
  IN CASE oldLca = 1 -> Depart(old, 1, "Inferior", "Inferior")
                          \o Arrive(new, newLca - 1, "Ancestor", "Virtual")
       [] newLca = 1 -> Depart(old, oldLca - 1, "Ancestor", "Virtual")
                          \o Arrive(new, 1, "Inferior", "Inferior")
       [] OTHER -> Depart(old, limit(oldLca, old), "Nonlinear", "NonlinearVirtual")
                     \o Arrive(new, limit(newLca, new), "Nonlinear", "NonlinearVirtual")

(* The companion event on the root, which names None or PointerRoot.        *)
rootDetailFor(p, type) ==
  IF p \in Nowhere THEN <<[at |-> p, type |-> type, detail |-> "Root"]>> ELSE <<>>

postFocusChange(old, new) ==
  IF old = new THEN <<>>
  ELSE rootDetailFor(old, "out")
         \o FanOut(buildWindowPathToRoot(old), buildWindowPathToRoot(new))
         \o rootDetailFor(new, "in")

postPointerCrossingEvents(old, new) ==
  IF old = new THEN <<>>
  ELSE FanOut(buildWindowPathToRoot(old), buildWindowPathToRoot(new))

(* Whether each event starts from what the client knows.                    *)
Marked(events) ==
  [i \in DOMAIN events |->
     [sure |-> events[i].at \notin unsure] @@ events[i]]

Post(events) ==
  /\ unread' = unread \o Marked(events)
  /\ unsure' = unsure \ {events[i].at : i \in DOMAIN events}

MayPost(about) == kind = about /\ Len(unread) <= MaxUnread

-----------------------------------------------------------------------------
(* The focus.                                                               *)
XSetInputFocus(f, revert) ==
  /\ MayPost("focus")
  /\ target' = f /\ revertTo' = revert /\ clientOwned' = TRUE
  /\ Post(postFocusChange(target, f))
  /\ UNCHANGED <<placeVars, alive, grabWindow, told, misled>>

(* The first key of a window that the host gave the focus when it was born. *)
resolveKeyboardFocusWindow(w) ==
  /\ MayPost("focus")
  /\ target = NoTarget /\ ~clientOwned /\ above[w] = Root
  /\ target' = w /\ revertTo' = "None"
  /\ Post(postFocusChange(target, w))
  /\ UNCHANGED <<placeVars, alive, clientOwned, grabWindow, told, misled>>

(* Where the focus goes when its window is destroyed.                       *)
revertTarget ==
  LET path == buildWindowPathToRoot(target)
      viewable == {i \in 2..Len(path) : Viewable(path[i])}
  IN CASE revertTo = "PointerRoot" -> PointerRoot
       [] revertTo = "Parent" /\ viewable # {} ->
            path[CHOOSE i \in viewable : \A j \in viewable : i <= j]
       [] OTHER -> NoTarget

-----------------------------------------------------------------------------
(* The pointer.                                                             *)
MotionTo(w) ==
  /\ MayPost("pointer") /\ Viewable(w)
  /\ target' = w
  /\ Post(postPointerCrossingEvents(target, w))
  /\ UNCHANGED <<placeVars, alive, revertTo, clientOwned, grabWindow, told, misled>>

Position(p, t) ==
  CASE p = t -> "here"
    [] p \in alive /\ t \in Below(p) \ {p} -> "below"
    [] OTHER -> "outside"

Silently(t) == unsure \union {w \in alive : Position(w, target) # Position(w, t)}

(* A grab moves the hover window, and its end clears it, with an event of   *)
(* mode NotifyGrab or NotifyUngrab for the grab window alone.               *)
XGrabPointer(w) ==
  /\ MayPost("pointer") /\ Viewable(w) /\ grabWindow # w
  /\ grabWindow' = w
  /\ target' = w /\ unsure' = Silently(w)
  /\ UNCHANGED <<placeVars, alive, revertTo, clientOwned, unread, told, misled>>

XUngrabPointer ==
  /\ MayPost("pointer") /\ grabWindow # NoTarget
  /\ grabWindow' = NoTarget
  /\ target' = NoTarget /\ unsure' = Silently(NoTarget)
  /\ UNCHANGED <<placeVars, alive, revertTo, clientOwned, unread, told, misled>>

-----------------------------------------------------------------------------
(* Each window discards its queued events, then its children go, then the   *)
(* focus leaves it, so a focus that reverts inside the subtree goes on.     *)
RevertsFocus(gone) ==
  LET first == revertTarget
      second == IF first \in gone THEN NoTarget ELSE first
      events == postFocusChange(target, first) \o postFocusChange(first, second)
  IN IF target \in gone
       THEN /\ target' = second /\ revertTo' = "None" /\ clientOwned' = TRUE
            /\ unread' = SelectSeq(unread, LAMBDA e : e.at \notin gone)
                           \o Marked(events)
       ELSE /\ unread' = SelectSeq(unread, LAMBDA e : e.at \notin gone)
            /\ UNCHANGED <<target, revertTo, clientOwned>>

(* clearPointerStateForWindow and the end of a grab on the window.          *)
ForgetsPointer(gone) ==
  /\ unread' = SelectSeq(unread, LAMBDA e : e.at \notin gone)
  /\ grabWindow' = IF grabWindow \in gone THEN NoTarget ELSE grabWindow
  /\ IF {target, grabWindow} \intersect gone # {}
       THEN target' = NoTarget /\ unsure' = Silently(NoTarget) \ gone
       ELSE unsure' = unsure \ gone /\ UNCHANGED target

destroyWindow(w) ==
  /\ MayPost(kind) /\ w \in alive \ {Root}
  /\ alive' = alive \ Below(w)
  /\ IF kind = "focus"
       THEN RevertsFocus(Below(w)) /\ UNCHANGED <<grabWindow, unsure>>
       ELSE ForgetsPointer(Below(w)) /\ UNCHANGED <<revertTo, clientOwned>>
  /\ UNCHANGED <<placeVars, told, misled>>

-----------------------------------------------------------------------------
(* The client: what an event says of its window, and what must have been    *)
(* so before it.                                                            *)
Inside == {"Virtual", "NonlinearVirtual"}

Before(e) ==
  CASE e.type = "in" /\ e.detail = "Inferior" -> "below"
    [] e.type = "in" -> "outside"
    [] e.detail \in Inside -> "below"
    [] OTHER -> "here"

After(e) ==
  CASE e.type = "out" /\ e.detail = "Inferior" -> "below"
    [] e.type = "out" -> "outside"
    [] e.detail \in Inside -> "below"
    [] OTHER -> "here"

Reads ==
  /\ unread # <<>> /\ unread' = Tail(unread)
  /\ LET e == Head(unread)
     IN IF e.at \in alive \union Nowhere
          THEN /\ told' = [told EXCEPT ![e.at] = After(e)]
               /\ misled' = (misled \/ (e.sure /\ told[e.at] # Before(e)))
          ELSE UNCHANGED <<told, misled>>
  /\ UNCHANGED <<placeVars, alive, target, revertTo, clientOwned, grabWindow, unsure>>

FocusCrossingNext ==
  \/ \E f \in alive \union Nowhere, r \in {"None", "Parent", "PointerRoot"} :
       XSetInputFocus(f, r)
  \/ \E w \in alive \ {Root} :
       resolveKeyboardFocusWindow(w) \/ XGrabPointer(w) \/ destroyWindow(w)
  \/ \E w \in alive : MotionTo(w)
  \/ XUngrabPointer
  \/ Reads

-----------------------------------------------------------------------------
(* Windows the client's knowledge of is not that of the last event posted.  *)
Doubtful ==
  unsure \union {unread[i].at : i \in {j \in DOMAIN unread : ~unread[j].sure}}

NextFanOut(p) == IF kind = "focus" THEN postFocusChange(target, p)
                                   ELSE postPointerCrossingEvents(target, p)

(* What a client reads in its FocusIn and FocusOut, or EnterNotify and      *)
(* LeaveNotify, events (events.c postFocusChange, postPointerCrossingEvents)*)
(* never contradicts what it has read before; at each moment it describes   *)
(* one place, with every window above it told; and once it has read them    *)
(* all, it knows where the focus or the pointer is, whatever the sequence   *)
(* of moves, reverts and destroyed windows; and no next move would tell a   *)
(* window twice.  Windows that a grab or a destroy moved the pointer out of *)
(* or into silently are excepted until their next event.                    *)
ClientFollowsTarget ==
  LET known == alive \ Doubtful
      places == known \union IF kind = "focus" THEN Nowhere ELSE {}
  IN /\ ~misled
     /\ \A w \in known \ {Root} : told[w] # "outside" /\ above[w] \in known
                                    => told[above[w]] # "outside"
     /\ Cardinality({p \in places : told[p] = "here"}) <= 1
     /\ unread = <<>> =>
          /\ \A p \in places : told[p] = Position(p, target)
          /\ \A p \in alive :
               LET fan == NextFanOut(p)
               IN \A i, j \in DOMAIN fan : fan[i].at = fan[j].at => i = j
=============================================================================
