---------------------------- MODULE InputTargets ----------------------------
(***************************************************************************)
(* What refers to windows: the keyboard focus, the active and passive       *)
(* grabs, the window under the pointer and the one that holds it            *)
(* (src/src/input.c, src/src/pointer.c, src/src/events.c), against a tree   *)
(* that is mapped, reparented, hidden by the host and destroyed under them. *)
(* A destroy is a stack of frames: destroyWindow converts the queued events *)
(* of each window of the subtree before it goes on, so host events happen   *)
(* in the middle of it.                                                     *)
(***************************************************************************)
EXTENDS WindowTree

CONSTANTS MaxWindows  \* bound: windows created, by what a behaviour is
                      \* about: "keyboard"; "pointer"; "grab" (of the
                      \* pointer, alone); "tree" (no input, but failing SDL
                      \* calls and restacking)

Devices == DOMAIN MaxWindows

ASSUME DevicesAssumption ==
  /\ Devices \subseteq {"keyboard", "pointer", "grab", "tree"}
  /\ MaxWindows \in [Devices -> Nat]

VARIABLES device,        \* one of Devices, never changed
          focus,         \* keyboardFocus, its owner and revertTo
          keyboardGrab,
          pointerGrab,   \* its window, and whether a button press started it
          buttonGrabs,   \* windows with a passive button grab
          hover,         \* pointerHoverWindow
          active,        \* activePointerWindow: held by the pressed button
          pressed,
          frames         \* the windows whose destruction is under way

keyboardVars == <<focus, keyboardGrab>>
pointerVars == <<pointerGrab, buttonGrabs, hover, active, pressed>>
inputVars == <<keyboardVars, pointerVars>>
vars == <<treeVars, inputVars, device, frames>>

NoGrab == [win |-> None, passive |-> FALSE]

NoFocus == [win |-> None, owner |-> "nobody", revert |-> "none"]

Init ==
  /\ TreeInit
  /\ device \in Devices
  /\ focus = NoFocus
  /\ keyboardGrab = None
  /\ pointerGrab = NoGrab
  /\ buttonGrabs = {}
  /\ hover = None /\ active = None /\ pressed = FALSE
  /\ frames = <<>>

TypeOK ==
  /\ TreeTypeOK
  /\ device \in Devices
  /\ focus \in [win : All \union {None}, owner : {"nobody", "host", "client"},
                revert : {"none", "parent"}]
  /\ keyboardGrab \in All \union {None}
  /\ pointerGrab \in [win : All \union {None}, passive : BOOLEAN]
  /\ buttonGrabs \subseteq All
  /\ hover \in All \union {None} /\ active \in All \union {None}
  /\ pressed \in BOOLEAN
  /\ \A i \in 1..Len(frames) :
       frames[i] \in [op : {"destroy", "subwindows"}, win : All, next : Nat,
                      discarding : BOOLEAN]

-----------------------------------------------------------------------------
(* A client calls when no destroy is under way; host events are also        *)
(* converted while a window's events are discarded.                         *)
ClientCalls == frames = <<>> /\ UNCHANGED <<device, frames>>

HostEvent ==
  /\ frames # <<>> => Last(frames).discarding
  /\ UNCHANGED <<device, frames>>

Usable == live \union {Root}

Itself(s) == s

(* A window of s, or one under it.                                          *)
Under(s) == {x \in All : Ancestry(x) \intersect s # {}}

(* releaseActiveGrabsForUnviewableWindow, which looks for the grab among    *)
(* the windows that are lost.  Dropping a pointer grab forgets the active   *)
(* and hover windows too.                                                   *)
releaseActiveGrabs(lost) ==
  /\ keyboardGrab' = IF keyboardGrab \in lost THEN None ELSE keyboardGrab
  /\ IF pointerGrab.win \in lost
       THEN pointerGrab' = NoGrab /\ hover' = None /\ active' = None
       ELSE UNCHANGED <<pointerGrab, hover, active>>

(* Those a drain unmaps itself; the host has already hidden the others.     *)
drained(w) == {p \in drainAnchoredPopups(w) : mapState[p] # "UnMapped"}

-----------------------------------------------------------------------------
(* The tree calls.                                                          *)
XCreateWindow(w, p) ==
  /\ ClientCalls /\ Cardinality(live \union closed) < MaxWindows[device]
  /\ createWindow(w, p)
  /\ UNCHANGED inputVars

XMapWindow(w) ==
  /\ ClientCalls
  /\ mapWindow(w)
  /\ UNCHANGED inputVars

XUnmapWindow(w) ==
  /\ ClientCalls
  /\ unmapWindowInternal(w)
  /\ releaseActiveGrabs(Under({w} \union drained(w)))
  /\ UNCHANGED <<focus, buttonGrabs, pressed>>

(* A mapped window that is no longer viewable loses its grabs, and so do    *)
(* the popups that go with its SDL window, each with all that is under it   *)
(* in the new tree.                                                         *)
hiddenBy(w, p) ==
  IF mapState[w] # "UnMapped" /\ ~isWindowEffectivelyViewable(p)
    THEN {w} ELSE {}

drainedBy(w, p) ==
  IF mapState[w] # "UnMapped" /\ IS_TOP_LEVEL(w) /\ p # Root
    THEN drained(w) ELSE {}

XReparentWindow(w, p) ==
  /\ ClientCalls
  /\ \/ /\ reparentWindow(w, p)
        /\ \E s \in {hiddenBy(w, p) \union drainedBy(w, p)} :
             releaseActiveGrabs(Under(s)')
     \/ /\ device = "tree" /\ reparentRollback(w, p)
        /\ releaseActiveGrabs(Under(hiddenBy(w, p)))
  /\ UNCHANGED <<focus, buttonGrabs, pressed>>

XConfigureWindow(w) ==
  /\ ClientCalls /\ device = "tree"
  /\ restackWindow(w)
  /\ UNCHANGED inputVars

HostShows(w) == HostEvent /\ hostMaps(w, "Mapped") /\ UNCHANGED inputVars

HostHides(w) == HostEvent /\ hostMaps(w, "UnMapped") /\ UNCHANGED inputVars

-----------------------------------------------------------------------------
(* The keyboard.                                                            *)
XSetInputFocus(w, revert) ==
  /\ ClientCalls /\ device = "keyboard"
  /\ focus' = [win |-> w, owner |-> "client", revert |-> revert]
  /\ UNCHANGED <<treeVars, keyboardGrab, pointerVars>>

XGrabKeyboard(w) ==
  /\ ClientCalls /\ device = "keyboard"
  /\ keyboardGrab' = w
  /\ UNCHANGED <<treeVars, focus, pointerVars>>

XUngrabKeyboard ==
  /\ ClientCalls /\ device = "keyboard"
  /\ keyboardGrab' = None
  /\ UNCHANGED <<treeVars, focus, pointerVars>>

(* FOCUS_GAINED, or a key event when nothing has the focus.                 *)
HostFocuses(w) ==
  /\ HostEvent /\ device = "keyboard"
  /\ w \in sdlWindow
  /\ focus.owner # "client"
  /\ focus.win \in Usable => ~(w = focus.win \/ isParent(w, focus.win))
  /\ focus' = [win |-> w, owner |-> "host", revert |-> "none"]
  /\ UNCHANGED <<treeVars, keyboardGrab, pointerVars>>

HostUnfocuses(w) ==
  /\ HostEvent /\ device = "keyboard"
  /\ w \in sdlWindow /\ focus.win = w /\ focus.owner = "host"
  /\ focus' = [focus EXCEPT !.win = None]
  /\ UNCHANGED <<treeVars, keyboardGrab, pointerVars>>

closestViewable(w) ==
  LET viewable == {a \in Ancestry(w) : isWindowEffectivelyViewable(a)}
  IN  IF viewable = {} THEN None
                       ELSE CHOOSE a \in viewable : \A b \in viewable : b \in Ancestry(a)

revertClientFocusOnly(w) ==
  IF focus.win # w \/ focus.owner = "host" THEN focus
    ELSE [win |-> IF focus.revert = "parent" THEN closestViewable(parent[w])
                                             ELSE None,
          owner |-> "client", revert |-> "none"]

revertKeyboardFocus(w) ==
  IF focus.win # w THEN focus
    ELSE [win |-> IF focus.revert = "parent" THEN closestViewable(parent[w])
                                             ELSE None,
          owner |-> "client", revert |-> "none"]

-----------------------------------------------------------------------------
(* The pointer.                                                             *)
installPointerGrab(w, passive) ==
  /\ pointerGrab' = [win |-> w, passive |-> passive]
  /\ hover' = w

XGrabPointer(w) ==
  /\ ClientCalls /\ device \in {"pointer", "grab"}
  /\ isWindowEffectivelyViewable(w)
  /\ IF pointerGrab = [win |-> w, passive |-> FALSE]
       THEN UNCHANGED <<pointerGrab, hover, active>>
       ELSE /\ installPointerGrab(w, FALSE)
            /\ active' = IF pointerGrab = NoGrab THEN active ELSE None
  /\ UNCHANGED <<treeVars, keyboardVars, buttonGrabs, pressed>>

XUngrabPointer ==
  /\ ClientCalls /\ device = "pointer"
  /\ pointerGrab' = NoGrab /\ hover' = None /\ active' = None
  /\ UNCHANGED <<treeVars, keyboardVars, buttonGrabs, pressed>>

XGrabButton(w) ==
  /\ ClientCalls /\ device = "pointer"
  /\ buttonGrabs' = buttonGrabs \union {w}
  /\ UNCHANGED <<treeVars, keyboardVars, pointerGrab, hover, active, pressed>>

XUngrabButton(w) ==
  /\ ClientCalls /\ device = "pointer"
  /\ buttonGrabs' = buttonGrabs \ {w}
  /\ UNCHANGED <<treeVars, keyboardVars, pointerGrab, hover, active, pressed>>

(* Where a pointer event can land: an SDL window takes its events also when *)
(* the library thinks it unmapped.  The root, which never goes away, is no  *)
(* target here, and a hit on it is like one on nothing.                     *)
Hit == {w \in live : isWindowEffectivelyViewable(w)} \union sdlWindow

(* Motion, ENTER and LEAVE.                                                 *)
PointerMoves(w) ==
  /\ HostEvent /\ device = "pointer"
  /\ w \in Hit \union {None}
  /\ hover' = w
  /\ UNCHANGED <<treeVars, keyboardVars, pointerGrab, buttonGrabs, active, pressed>>

(* The press goes to a window between the one hit and the root, to the      *)
(* grab's, or, when none selects it, nowhere.                               *)
Recipients(w, grab) == (Ancestry(w) \ {Root}) \union {grab.win, None}

ButtonPress(w) ==
  /\ HostEvent /\ device = "pointer"
  /\ w \in Hit
  /\ \/ /\ pointerGrab = NoGrab /\ isWindowEffectivelyViewable(w)
        /\ \E g \in buttonGrabs \intersect Ancestry(w) :
             installPointerGrab(g, TRUE)
     \/ UNCHANGED <<pointerGrab, hover>>
  /\ \E x \in Recipients(w, pointerGrab') :
       active' = IF ~pressed /\ x # None THEN x ELSE active
  /\ pressed' = TRUE
  /\ UNCHANGED <<treeVars, keyboardVars, buttonGrabs>>

(* The last button, also one whose press a destroy has made it forget: a    *)
(* passive grab ends, unless nobody gets the release.                       *)
ButtonRelease ==
  /\ HostEvent /\ device = "pointer"
  /\ pressed' = FALSE /\ active' = None
  /\ \/ pointerGrab.passive /\ pointerGrab' = NoGrab /\ hover' = None
     \/ UNCHANGED <<pointerGrab, hover>>
  /\ UNCHANGED <<treeVars, keyboardVars, buttonGrabs>>

-----------------------------------------------------------------------------
(* Destruction.                                                             *)
Frame(op, w) == [op |-> op, win |-> w, next |-> 1, discarding |-> op = "destroy"]

Begin(op, w) ==
  /\ frames = <<>>
  /\ frames' = <<Frame(op, w)>>
  /\ UNCHANGED <<treeVars, inputVars, device>>

XDestroyWindow(w) == w \in live /\ Begin("destroy", w)

XDestroySubwindows(w) == w \in Usable /\ Begin("subwindows", w)

top == Last(frames)

(* The next child: destroyWindow goes up its array of children,             *)
(* XDestroySubwindows takes the last until there is none.                   *)
DestroyNextChild ==
  /\ frames # <<>> /\ top.op = "destroy" /\ top.next <= Len(children[top.win])
  /\ frames' = Front(frames)
                 \o <<[top EXCEPT !.next = @ + 1, !.discarding = FALSE],
                      Frame("destroy", children[top.win][top.next])>>
  /\ UNCHANGED <<treeVars, inputVars, device>>

DestroyLastChild ==
  /\ frames # <<>> /\ top.op = "subwindows" /\ children[top.win] # <<>>
  /\ frames' = Append(frames, Frame("destroy", Last(children[top.win])))
  /\ UNCHANGED <<treeVars, inputVars, device>>

freeParentData == Len(frames) = 1 \/ frames[Len(frames) - 1].op = "subwindows"

Teardown ==
  /\ frames # <<>> /\ top.op = "destroy" /\ top.next > Len(children[top.win])
  /\ \E w \in {top.win} :
       /\ closeWindow(w, freeParentData)
       /\ focus' = revertKeyboardFocus(w)
       /\ buttonGrabs' = buttonGrabs \ {w}
       /\ LET lost == Under({w} \union drained(w))
          IN  /\ keyboardGrab' = IF keyboardGrab \in lost THEN None ELSE keyboardGrab
              /\ pointerGrab' = IF pointerGrab.win \in lost THEN NoGrab ELSE pointerGrab
              /\ hover' = IF pointerGrab.win \in lost \/ hover \in Subtree(w)
                            THEN None ELSE hover
              /\ active' = IF pointerGrab.win \in lost \/ active \in Subtree(w)
                             THEN None ELSE active
              /\ pressed' = (pressed /\ (pointerGrab.win \in lost
                                          \/ active \notin Subtree(w)))
  /\ frames' = Front(frames)
  /\ UNCHANGED device

SubwindowsGone ==
  /\ frames # <<>> /\ top.op = "subwindows" /\ children[top.win] = <<>>
  /\ frames' = Front(frames)
  /\ UNCHANGED <<treeVars, inputVars, device>>

-----------------------------------------------------------------------------
Next ==
  \/ \E w \in Windows, p \in All : XCreateWindow(w, p) \/ XReparentWindow(w, p)
  \/ \E w \in live :
       \/ XMapWindow(w) \/ XUnmapWindow(w) \/ XConfigureWindow(w)
       \/ HostShows(w) \/ HostHides(w) \/ HostFocuses(w) \/ HostUnfocuses(w)
       \/ XGrabKeyboard(w) \/ XGrabPointer(w)
       \/ XGrabButton(w) \/ XUngrabButton(w) \/ ButtonPress(w)
       \/ XDestroyWindow(w)
  \/ \E w \in live \union {None} :
       \/ \E revert \in {"none", "parent"} : XSetInputFocus(w, revert)
       \/ PointerMoves(w)
  \/ XUngrabKeyboard \/ XUngrabPointer \/ ButtonRelease
  \/ \E w \in Usable : XDestroySubwindows(w)
  \/ DestroyNextChild \/ DestroyLastChild \/ Teardown \/ SubwindowsGone

Spec == Init /\ [][Next]_vars

-----------------------------------------------------------------------------
(* Nothing that routes input or owns SDL's attention outlives its window    *)
(* ("a later XID reuse cannot route events through a stale grab entry",     *)
(* "walks GET_PARENT(pointerHoverWindow) into a freed WindowStruct"), not   *)
(* even between the steps of a cascading destroy.                           *)
NoDangling ==
  /\ TypeOK
  /\ {focus.win, keyboardGrab, pointerGrab.win, hover, active} \ {None}
       \subseteq Usable
  /\ buttonGrabs \subseteq Usable
  /\ sdlWindow \subseteq live
  /\ \A w \in Windows : popupParent[w] \in live \union {None}

(* Each live window is once in the list of its live parent; a closed one    *)
(* lingers only in the list of a parent that is itself being destroyed      *)
(* (the cached children array of destroyWindow).  And the popups are sound.  *)
TreeConsistent ==
  /\ AnchorsSound
  /\ \A w \in live :
       /\ parent[w] \in Usable
       /\ Cardinality({i \in 1..Len(children[parent[w]]) :
                         children[parent[w]][i] = w}) = 1
  /\ \A p \in Usable : \A c \in Range(children[p]) :
       \/ c \in live /\ parent[c] = p
       \/ c \in closed /\ \E i \in 1..Len(frames) :
            frames[i].op = "destroy" /\ frames[i].win = p

(* When XMapWindow succeeds, no window below that asked to be mapped, and   *)
(* waits only for a mapped parent, is left behind.                          *)
MapPromotes ==
  [][\A w \in Windows :
       (/\ mapState[w] # "Mapped" /\ mapState'[w] = "Mapped"
        /\ failures' = failures /\ XMapWindow(w))
         => \A x \in live' :
              (w \in Ancestry(x) \ {x} /\ mapState'[parent[x]] = "Mapped"
                 /\ \A a \in Ancestry(x) \intersect Subtree(w) :
                      mapState'[a] # "UnMapped")
                => mapState'[x] # "MapRequested"]_vars

(* A window that stops being viewable, by whatever call, keeps no active    *)
(* grab ("every later pointer event routes to the now-invisible shell and   *)
(* the application appears frozen").  The host's hiding is the exception.   *)
HostStep == \E w \in Windows : HostHides(w)

GrabsFollowViewability ==
  [][~HostStep =>
       \A w \in {pointerGrab'.win, keyboardGrab'} \intersect live \intersect live' :
         isWindowEffectivelyViewable(w) => isWindowEffectivelyViewable(w)']_vars
=============================================================================
