----------------------------- MODULE WindowTree -----------------------------
(***************************************************************************)
(* The window tree (src/src/window.c, src/src/window-internal.c): who is    *)
(* whose child and in which stacking order, what is mapped, which windows   *)
(* have an SDL window, and which override-redirect popups are anchored to   *)
(* which of those (SDL3 builds).  The operators are the tree's part of each *)
(* call, to be composed with what the call does to grabs and focus; all of  *)
(* it runs on the thread that owns SDL.  Ids of closed windows are never    *)
(* used again, so each window is created once.                              *)
(***************************************************************************)
EXTENDS Integers, Sequences, FiniteSets, SequencesExt

CONSTANTS Windows,     \* those a client may create
          Root,        \* SCREEN_WINDOW
          None,
          MaxFailures  \* bound: failing SDL calls

ASSUME TreeAssumption ==
  /\ IsFiniteSet(Windows)
  /\ Root \notin Windows /\ None \notin Windows \union {Root}
  /\ MaxFailures \in Nat

VARIABLES live,         \* windows with a WindowStruct
          closed,       \* windows of type CLOSED_WINDOW
          parent, children,
          mapState,
          sdlWindow,    \* windows that have one
          popupParent,  \* what a popup is anchored to
          failures

treeVars == <<live, closed, parent, children, mapState, sdlWindow,
              popupParent, failures>>

All == Windows \union {Root}

TreeInit ==
  /\ live = {} /\ closed = {}
  /\ parent = [w \in All |-> None]
  /\ children = [w \in All |-> <<>>]
  /\ mapState = [w \in All |-> IF w = Root THEN "Mapped" ELSE "UnMapped"]
  /\ sdlWindow = {}
  /\ popupParent = [w \in Windows |-> None]
  /\ failures = 0

TreeTypeOK ==
  /\ live \subseteq Windows /\ closed \subseteq Windows \ live
  /\ parent \in [All -> All \union {None}]
  /\ \A w \in All : children[w] \in Seq(Windows)
  /\ mapState \in [All -> {"UnMapped", "Mapped", "MapRequested"}]
  /\ sdlWindow \subseteq Windows
  /\ popupParent \in [Windows -> Windows \union {None}]
  /\ failures \in 0..MaxFailures

-----------------------------------------------------------------------------
(* The least set with start in it that Step adds nothing to: no chain is    *)
(* longer than the live windows and the root.                               *)
Closure(start, Step(_)) ==
  LET grow[n \in 0..Cardinality(live) + 1] ==
        IF n = 0 THEN start
                 ELSE LET s == grow[n - 1] IN s \union Step(s)
  IN  grow[Cardinality(live) + 1]

(* A window and its ancestors.                                              *)
Ancestry(w) ==
  LET Up(s) == {parent[x] : x \in s \ {None}}
  IN  Closure({w}, Up) \ {None}

isParent(a, w) == a \in Ancestry(w) \ {w}

Subtree(w) == {x \in Windows : w \in Ancestry(x)}

isWindowEffectivelyViewable(w) ==
  /\ w \in live \union {Root}
  /\ \A a \in Ancestry(w) : mapState[a] # "UnMapped"

IS_TOP_LEVEL(w) == parent[w] = Root

Index(s, w) == CHOOSE i \in 1..Len(s) : s[i] = w

Attached(w, p) ==
  /\ parent' = [parent EXCEPT ![w] = p]
  /\ children' = [c \in All |->
       LET rest == SelectSeq(children[c], LAMBDA x : x # w)
       IN  IF c = p THEN Append(rest, w) ELSE rest]

createWindow(w, p) ==
  /\ w \in Windows \ (live \union closed) /\ p \in live \union {Root}
  /\ live' = live \union {w}
  /\ Attached(w, p)
  /\ UNCHANGED <<closed, mapState, sdlWindow, popupParent, failures>>

-----------------------------------------------------------------------------
(* SDL windows and the popups anchored to them.                             *)
collectPopupChildren(s) == {p \in sdlWindow : popupParent[p] \in s}

(* The popups that go down with w's SDL window, cascades included.          *)
drainAnchoredPopups(w) ==
  IF w \in sdlWindow THEN Closure({w}, collectPopupChildren) \ {w} ELSE {}

unrealize(s) ==
  /\ sdlWindow' = sdlWindow \ s
  /\ popupParent' = [p \in Windows |-> IF p \in s THEN None ELSE popupParent[p]]

(* The windows of s and the drained popups are unmapped.                    *)
unmaps(s, popups) ==
  mapState' = [w \in All |->
    IF w \in s \union popups THEN "UnMapped" ELSE mapState[w]]

findPopupParentToplevel(w) ==
  {t \in sdlWindow \ {w} : mapState[t] = "Mapped"}

(* An override-redirect window may get an anchor, by where it lies.         *)
realizeTopLevelWindow(w) ==
  /\ sdlWindow' = sdlWindow \union {w}
  /\ IF w \in sdlWindow
       THEN UNCHANGED popupParent
       ELSE \E a \in findPopupParentToplevel(w) \union {None} :
              popupParent' = [popupParent EXCEPT ![w] = a]

-----------------------------------------------------------------------------
(* What mapRequestedChildren(w) visits when merging the drawables in failed *)
(* fails: a requested child that fails ends its level, a mapped one only    *)
(* its subtree.                                                             *)
directChildrenOnly(w, failed) ==
  {c \in live : parent[c] = w /\ mapState[c] # "UnMapped"}

mapRequestedChildren(w, failed) ==
  LET Before(c) ==
        Range(SubSeq(children[parent[c]], 1, Index(children[parent[c]], c) - 1))
      Down(s) ==
        {c \in live : /\ parent[c] \in s
                      /\ mapState[c] # "UnMapped"
                      /\ c \notin failed
                      /\ \A b \in Before(c) \intersect failed :
                           mapState[b] # "MapRequested"}
  IN  Closure({w}, Down) \ {w}

Fails(failed) ==
  /\ failures + Cardinality(failed) <= MaxFailures
  /\ failures' = failures + Cardinality(failed)

Promotes(w) ==
  \E failed \in SUBSET mapRequestedChildren(w, {}) :
    /\ Fails(failed)
    /\ mapState' = [x \in All |->
         IF x = w \/ (mapState[x] = "MapRequested"
                        /\ x \in mapRequestedChildren(w, failed))
           THEN "Mapped" ELSE mapState[x]]

mapWindow(w) ==
  /\ w \in live /\ mapState[w] # "Mapped"
  /\ \/ /\ IS_TOP_LEVEL(w) /\ w \notin sdlWindow
        /\ realizeTopLevelWindow(w)
        /\ Promotes(w)
     \/ /\ ~IS_TOP_LEVEL(w) /\ mapState[parent[w]] = "Mapped"
        /\ Promotes(w)
        /\ UNCHANGED <<sdlWindow, popupParent>>
     \/ /\ ~IS_TOP_LEVEL(w) /\ mapState[parent[w]] # "Mapped"
        /\ mapState' = [mapState EXCEPT ![w] = "MapRequested"]
        /\ UNCHANGED <<sdlWindow, popupParent, failures>>
  /\ UNCHANGED <<live, closed, parent, children>>

unmapWindowInternal(w) ==
  /\ w \in live /\ mapState[w] # "UnMapped"
  /\ unmaps({w}, drainAnchoredPopups(w))
  /\ unrealize({w} \union drainAnchoredPopups(w))
  /\ UNCHANGED <<live, closed, parent, children, failures>>

(* SHOWN, RESTORED, HIDDEN and MINIMIZED change nothing else.               *)
hostMaps(w, state) ==
  /\ w \in sdlWindow
  /\ mapState' = [mapState EXCEPT ![w] = state]
  /\ UNCHANGED <<live, closed, parent, children, sdlWindow, popupParent,
                 failures>>

-----------------------------------------------------------------------------
MayReparent(w, p) ==
  w \in live /\ p \in live \union {Root} /\ w \notin Ancestry(p)

reparentWindow(w, p) ==
  /\ MayReparent(w, p)
  /\ Attached(w, p)
  /\ LET leaves == mapState[w] # "UnMapped" /\ IS_TOP_LEVEL(w) /\ p # Root
         enters == mapState[w] # "UnMapped" /\ ~IS_TOP_LEVEL(w) /\ p = Root
     IN  \/ /\ leaves
            /\ unmaps({}, drainAnchoredPopups(w))
            /\ unrealize({w} \union drainAnchoredPopups(w))
         \/ /\ enters
            /\ mapState' = [mapState EXCEPT ![w] = "Mapped"]
            /\ realizeTopLevelWindow(w)
         \/ /\ ~leaves /\ ~enters
            /\ UNCHANGED <<mapState, sdlWindow, popupParent>>
  /\ UNCHANGED <<live, closed, failures>>

(* SDL fails: the window goes back to its parent, on top of its siblings.   *)
reparentRollback(w, p) ==
  /\ MayReparent(w, p) /\ mapState[w] # "UnMapped"
  /\ IS_TOP_LEVEL(w) # (p = Root)
  /\ Fails({w})
  /\ Attached(w, parent[w])
  /\ UNCHANGED <<live, closed, mapState, sdlWindow, popupParent>>

-----------------------------------------------------------------------------
(* Stacking, bottom to top.                                                 *)
moveChildToIndex(s, w, i) == InsertAt(Remove(s, w), i, w)

aimsAtSibling(s, w, sibling, mode) ==
  IF mode = "Above" /\ Index(s, sibling) < Len(s) THEN Index(s, sibling) + 1
                                                  ELSE Index(s, sibling)

(* Where restackWindow moves a window to be next to a sibling: one place    *)
(* less when taking the window out shifts the sibling.                      *)
siblingTarget(s, w, sibling, mode) ==
  LET target == IF mode = "Above" THEN Index(s, sibling) + 1
                                  ELSE Index(s, sibling)
  IN  IF Index(s, w) < target THEN target - 1 ELSE target

(* TopIf, BottomIf and Opposite, which ask for an overlap, move to the top  *)
(* or bottom as well.                                                       *)
restackWindow(w) ==
  /\ w \in live
  /\ LET s == children[parent[w]]
         targets == {1, Len(s)} \union
           {siblingTarget(s, w, x, mode) :
              x \in Range(s) \ {w}, mode \in {"Above", "Below"}}
     IN  \E i \in targets :
           children' = [children EXCEPT ![parent[w]] = moveChildToIndex(s, w, i)]
  /\ UNCHANGED <<live, closed, parent, mapState, sdlWindow, popupParent,
                 failures>>

removeChildAlways(w, freeParentData) ==
  [c \in All |-> IF c = w THEN <<>>
                          ELSE SelectSeq(children[c], LAMBDA x : x # w)]

(* The end of destroyWindow.  A child destroyed with its parent stays in    *)
(* the parent's list.                                                       *)
removeChildFromParent(w, freeParentData) ==
  [c \in All |-> IF c = w THEN <<>>
                 ELSE IF freeParentData
                        THEN SelectSeq(children[c], LAMBDA x : x # w)
                        ELSE children[c]]

SET_CLOSED_WINDOW(w) == live' = live \ {w} /\ closed' = closed \union {w}

closeWindow(w, freeParentData) ==
  /\ SET_CLOSED_WINDOW(w)
  /\ parent' = [parent EXCEPT ![w] = None]
  /\ children' = removeChildFromParent(w, freeParentData)
  /\ unmaps({w}, drainAnchoredPopups(w))
  /\ unrealize({w} \union drainAnchoredPopups(w))
  /\ UNCHANGED failures

-----------------------------------------------------------------------------
(* A popup's SDL window belongs to the SDL window it is anchored to, so     *)
(* none may outlive the other, and no two may be anchored to each other     *)
(* ("leave the popup's WindowStruct with a dangling sdlWindow").  And no    *)
(* top-level is left mapped without one, where a later XMapWindow could not *)
(* make it again.                                                           *)
AnchorsSound ==
  /\ \A p \in sdlWindow :
       popupParent[p] # None =>
         /\ popupParent[p] \in sdlWindow
         /\ p \notin Closure({popupParent[p]}, LAMBDA s :
              {popupParent[x] : x \in s \ {None}})
  /\ \A w \in live :
       (IS_TOP_LEVEL(w) /\ mapState[w] = "Mapped") => w \in sdlWindow

(* restackWindow with a sibling puts the window directly above or below it  *)
(* and leaves the order of the others alone.                                *)
RestackPlaces ==
  \A p \in live \union {Root} :
    \A w, x \in Range(children[p]) :
      \A mode \in {"Above", "Below"} :
        w # x =>
          LET s == children[p]
              r == moveChildToIndex(s, w, siblingTarget(s, w, x, mode))
          IN  /\ Index(r, w) = Index(r, x) + (IF mode = "Above" THEN 1 ELSE -1)
              /\ Remove(r, w) = Remove(s, w)
=============================================================================
