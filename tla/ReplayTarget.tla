---------------------------- MODULE ReplayTarget ----------------------------
(***************************************************************************)
(* Which SDL window injected input goes to, and where                       *)
(* (src/src/replay-target.c, with its callers in src/src/xtest.c): the main *)
(* thread offers windows as it maps, moves and destroys them, the replay    *)
(* thread selects among them, and XTest calls read the target and the       *)
(* injected pointer with no lock, by a sequence counter that is odd while a *)
(* writer is at work.  Writers hold targetWriteMutex; every atomic access   *)
(* is a step.  The x and y of a position, stored and loaded side by side,   *)
(* are one coordinate.                                                      *)
(***************************************************************************)
EXTENDS Integers, Sequences, FiniteSets, SequencesExt

CONSTANTS Windows,      \* SDL window ids
          NoWindow,     \* the id 0
          Roots,        \* positions a window may have, and a motion's target
          Areas,        \* sizes a window may have
          Main, Replay, \* the two threads
          NoThread,
          MaxAttempts,  \* of a reader (8 in the code)
          Clients       \* what a behaviour may do: see below

ASSUME TargetAssumption ==
  /\ NoWindow \notin Windows /\ Main # Replay
  /\ NoThread \notin {Main, Replay}
  /\ Roots \subseteq Nat /\ Areas \subseteq Nat \ {0}
  /\ MaxAttempts \in Nat \ {0}
  /\ Clients \subseteq [overlap : BOOLEAN, relative : BOOLEAN,
                         areas : SUBSET Areas, writes : Nat, calls : Nat]

(* overlap: may a target change while an XTest call is under way?           *)
(* relative: does it also move the pointer by a distance?  areas: the sizes *)
(* its windows have.  writes and calls bound the offers, forgets and        *)
(* selections, and the XTest calls.                                         *)
Threads == {Main, Replay}

VARIABLES seq,        \* targetSeq
          target,     \* targetWindowId, targetRootX
          targetArea, targetAreaHighWater,
          known,      \* knownTargets: position and area by id
          order,      \* their ids in the order of their first offer
          stack,      \* their ids in the order of their last offer
          first, latest,  \* the published candidates
          pointer,    \* hasPointer, lastPointerX, lastPointerRootX
          holder,     \* of targetWriteMutex
          stores,     \* the atomic accesses its holder still has to make
          storing,    \* the target that they store
          call,       \* per thread: its XTest call, with the loads to come
          pushed,     \* per thread: the event its motion is to push
          client, writes, calls

scope == <<client, writes, calls>>
targetVars == <<seq, target, targetArea, targetAreaHighWater, known, order,
                stack, first, latest, holder, stores, storing>>
replayTargetVars == <<targetVars, pointer, call, pushed, scope>>

NoTarget == [id |-> NoWindow, root |-> 0]
Candidate(w) == [id |-> w, root |-> known[w].root, area |-> known[w].area]
NoCandidate == [id |-> NoWindow, root |-> 0, area |-> 0]

(* stable: the targets in force at some moment of the call (a history).     *)
NoCall == [todo |-> <<>>, tries |-> 0, before |-> 0, got |-> NoTarget,
           at |-> 0, stable |-> {}]
NoEvent == [id |-> NoWindow, at |-> 0, local |-> 0, stable |-> {}]

TargetInit ==
  /\ seq = 0 /\ target = NoTarget
  /\ targetArea = 0 /\ targetAreaHighWater = 0
  /\ known = [w \in {} |-> NoCandidate] /\ order = <<>> /\ stack = <<>>
  /\ first = NoCandidate /\ latest = NoCandidate
  /\ pointer = [has |-> FALSE, local |-> 0, root |-> 0]
  /\ holder = NoThread /\ stores = <<>> /\ storing = NoTarget
  /\ call = [t \in Threads |-> NoCall]
  /\ pushed = [t \in Threads |-> NoEvent]
  /\ client \in Clients /\ writes = 0 /\ calls = 0

-----------------------------------------------------------------------------
(* The writers: what a call decides under the mutex, and the accesses it    *)
(* then makes one by one.                                                   *)
publishBrackets == <<"seq", "publish", "seq">>

setUnbracketed == <<"root", "id", "seq", "seq">>
setBrackets == <<"seq", "root", "id", "seq">>

rebasePointerToTargetRoot == <<"rebase">>

Retarget == rebasePointerToTargetRoot \o setBrackets
Stores(fields, to) == stores' = fields /\ storing' = to

Without(s, w) ==
  IF \E i \in DOMAIN s : s[i] = w
    THEN RemoveAt(s, CHOOSE i \in DOMAIN s : s[i] = w) ELSE s

targetWriteLock(t) ==
  /\ holder = NoThread /\ call[t].todo = <<>>
  /\ (~client.overlap => \A u \in Threads : call[u].todo = <<>>)
  /\ holder' = t
  /\ writes < client.writes /\ writes' = writes + 1

(* A new window becomes the target unless it is smaller than the current    *)
(* one, or than half of the largest target so far when there is none; the   *)
(* current target is moved with its window.                                 *)
takesTarget(w, area) ==
  /\ w \notin DOMAIN known \/ target.id = w
  /\ IF targetArea # 0
       THEN area >= targetArea \/ target.id = w
       ELSE targetAreaHighWater > 0 => area >= targetAreaHighWater \div 2

rememberKnownTarget(w, p, area) ==
  /\ known' = [v \in DOMAIN known \union {w} |->
                 IF v = w THEN [root |-> p, area |-> area] ELSE known[v]]
  /\ order' = IF w \in DOMAIN known THEN order ELSE Append(order, w)
  /\ stack' = Append(Without(stack, w), w)

replayTargetOfferWindow(w, p, area) ==
  /\ targetWriteLock(Main)
  /\ rememberKnownTarget(w, p, area)
  /\ LET takes == takesTarget(w, area)
     IN  /\ targetArea' = IF takes THEN area ELSE targetArea
         /\ targetAreaHighWater' =
              IF takes /\ area > targetAreaHighWater THEN area
                                                     ELSE targetAreaHighWater
         /\ IF takes THEN Stores(publishBrackets \o Retarget, [id |-> w, root |-> p])
                     ELSE Stores(publishBrackets, NoTarget)
  /\ UNCHANGED <<seq, target, first, latest, pointer, call, pushed, client,
                 calls>>

replayTargetForgetWindow(w) ==
  /\ targetWriteLock(Main)
  /\ known' = [v \in DOMAIN known \ {w} |-> known[v]]
  /\ order' = Without(order, w) /\ stack' = Without(stack, w)
  /\ targetArea' = IF target.id = w THEN 0 ELSE targetArea
  /\ Stores(publishBrackets \o IF target.id = w THEN <<"seq", "id", "seq">> ELSE <<>>,
            NoTarget)
  /\ UNCHANGED <<seq, target, targetAreaHighWater, first, latest, pointer,
                 call, pushed, client, calls>>

storedArea(c) == c.area

replayTargetSelectStored(c) ==
  /\ targetWriteLock(Replay)
  /\ c.id # NoWindow
  /\ targetArea' = storedArea(c)
  /\ Stores(Retarget, [id |-> c.id, root |-> c.root])
  /\ UNCHANGED <<seq, target, targetAreaHighWater, known, order, stack,
                 first, latest, pointer, call, pushed, client, calls>>

replayTargetSelectFirst == replayTargetSelectStored(first)
replayTargetSelectLatest == replayTargetSelectStored(latest)

(* The most recently offered of the known windows that contain the point.   *)
replayTargetSelectAtRoot(hit) ==
  \E i \in 1..Len(stack) :
    /\ stack[i] \in hit
    /\ \A j \in (i + 1)..Len(stack) : stack[j] \notin hit
    /\ replayTargetSelectStored(Candidate(stack[i]))

publishFirstLatestLocked ==
  /\ first' = IF order = <<>> THEN NoCandidate ELSE Candidate(Head(order))
  /\ latest' = IF order = <<>> THEN NoCandidate ELSE Candidate(Last(order))

(* The holder's next access; with the last one it unlocks.  When the        *)
(* counter becomes even the target is in force.                             *)
Access ==
  /\ stores # <<>>
  /\ LET field == Head(stores)
     IN  /\ seq' = IF field = "seq" THEN seq + 1 ELSE seq
         /\ target' = CASE field = "root" -> [target EXCEPT !.root = storing.root]
                        [] field = "id" -> [target EXCEPT !.id = storing.id]
                        [] OTHER -> target
         /\ pointer' = IF field = "rebase" /\ pointer.has
                         THEN [pointer EXCEPT !.local = pointer.root - storing.root]
                         ELSE pointer
         /\ IF field = "publish" THEN publishFirstLatestLocked
                                 ELSE UNCHANGED <<first, latest>>
  /\ stores' = Tail(stores)
  /\ IF stores' = <<>> THEN holder' = NoThread /\ storing' = NoTarget
                       ELSE UNCHANGED <<holder, storing>>
  /\ call' = IF Head(stores) = "seq" /\ seq' % 2 = 0
               THEN [t \in Threads |->
                       IF call[t].todo = <<>> THEN call[t]
                       ELSE [call[t] EXCEPT !.stable = @ \union {target'}]]
               ELSE call
  /\ UNCHANGED <<targetArea, targetAreaHighWater, known, order, stack,
                 pushed, scope>>

-----------------------------------------------------------------------------
(* The readers.  A call is a list of loads and stores.                      *)
replayTargetTranslateRoot == <<"before", "id", "root", "after">>
replayTargetRememberPointer ==
  <<"before2", "root", "after2", "setLocal", "setRoot", "setHas">>
XTestFakeMotionEvent ==
  replayTargetTranslateRoot \o <<"local">> \o replayTargetRememberPointer
    \o <<"push">>

XTestFakeRelativeMotionEvent ==
  <<"id", "pointer">> \o replayTargetRememberPointer

(* at: the root position a motion goes to, or the distance it goes.         *)
StartCall(t, program, at) ==
  /\ call[t].todo = <<>> /\ holder # t
  /\ (~client.overlap => stores = <<>> /\ \A u \in Threads : call[u].todo = <<>>)
  /\ calls < client.calls /\ calls' = calls + 1
  /\ call' = [call EXCEPT ![t] =
       [NoCall EXCEPT !.todo = program, !.at = at,
                      !.stable = IF seq % 2 = 0 THEN {target} ELSE {}]]
  /\ UNCHANGED <<targetVars, pointer, pushed, client, writes>>

NextStep(t) == Head(call[t].todo)
At(t, step) == call[t].todo # <<>> /\ NextStep(t) = step
Advance(t) == IF Tail(call[t].todo) = <<>> THEN NoCall
              ELSE [call[t] EXCEPT !.todo = Tail(@)]
OnlyCall == UNCHANGED <<targetVars, pointer, pushed, scope>>

(* Eight attempts; then a translation fails and the call with it, while     *)
(* RememberPointer makes do with one load.                                  *)
Retry(t, loop, rest) ==
  LET c == call[t]
  IN  call' = [call EXCEPT ![t] =
        IF c.tries + 1 < MaxAttempts
          THEN [c EXCEPT !.tries = c.tries + 1, !.todo = loop \o rest]
        ELSE IF Head(loop) = "before" THEN NoCall
        ELSE [c EXCEPT !.tries = 0, !.todo = <<"root">> \o rest]]

LoopOf(step) == IF step \in {"before", "after"}
                  THEN replayTargetTranslateRoot
                  ELSE <<"before2", "root", "after2">>
RestAfter(t, n) == SubSeq(call[t].todo, n + 1, Len(call[t].todo))

ReadBefore(t) ==
  \E step \in {"before", "before2"} :
    /\ At(t, step)
    /\ IF seq % 2 = 1
         THEN Retry(t, LoopOf(step), RestAfter(t, Len(LoopOf(step))))
         ELSE call' = [call EXCEPT ![t] = [Advance(t) EXCEPT !.before = seq]]
    /\ OnlyCall

(* With no target the id is 0: XTest gives up at once, a translation when   *)
(* it has compared the counter.                                             *)
ReadId(t) ==
  /\ At(t, "id")
  /\ call' = [call EXCEPT ![t] =
       IF target.id = NoWindow /\ call[t].todo[2] = "pointer"
         THEN NoCall ELSE [Advance(t) EXCEPT !.got.id = target.id]]
  /\ OnlyCall

ReadRoot(t) ==
  /\ At(t, "root")
  /\ call' = [call EXCEPT ![t] = [Advance(t) EXCEPT !.got.root = target.root]]
  /\ OnlyCall

evenAgain(t) == seq % 2 = 0

unchangedSince(t) == seq = call[t].before

ReadAfter(t) ==
  \E step \in {"after", "after2"} :
    /\ At(t, step)
    /\ IF ~unchangedSince(t) THEN Retry(t, LoopOf(step), RestAfter(t, 1))
       ELSE call' = [call EXCEPT ![t] =
              IF step = "after" /\ @.got.id = NoWindow THEN NoCall
              ELSE [Advance(t) EXCEPT !.tries = 0]]
    /\ OnlyCall

(* A motion becomes local to the window read; the call keeps it as the      *)
(* event to push.                                                           *)
ToLocal(t) ==
  /\ At(t, "local")
  /\ call' = [call EXCEPT ![t] = [Advance(t) EXCEPT !.at = @ - call[t].got.root]]
  /\ pushed' = [pushed EXCEPT ![t] =
       [id |-> call[t].got.id, at |-> call[t].at,
        local |-> call[t].at - call[t].got.root, stable |-> call[t].stable]]
  /\ UNCHANGED <<targetVars, pointer, scope>>

(* replayTargetReadPointer; without a pointer SDL's mouse, at 0, is taken.  *)
ReadPointer(t) ==
  /\ At(t, "pointer")
  /\ call' = [call EXCEPT ![t] =
       [Advance(t) EXCEPT !.at = @ + IF pointer.has THEN pointer.local ELSE 0]]
  /\ OnlyCall

SetPointer(t) ==
  /\ call[t].todo # <<>>
  /\ \/ NextStep(t) = "setLocal" /\ pointer' = [pointer EXCEPT !.local = call[t].at]
     \/ NextStep(t) = "setRoot"
          /\ pointer' = [pointer EXCEPT !.root = call[t].got.root + call[t].at]
     \/ NextStep(t) = "setHas" /\ pointer' = [pointer EXCEPT !.has = TRUE]
  /\ call' = [call EXCEPT ![t] = Advance(t)]
  /\ UNCHANGED <<targetVars, pushed, scope>>

pushFakeEvent(t) ==
  /\ At(t, "push")
  /\ call' = [call EXCEPT ![t] = Advance(t)]
  /\ pushed' = [pushed EXCEPT ![t] = NoEvent]
  /\ UNCHANGED <<targetVars, pointer, scope>>

TargetNext ==
  \/ \E w \in Windows, p \in Roots, a \in client.areas :
       replayTargetOfferWindow(w, p, a)
  \/ \E w \in Windows : replayTargetForgetWindow(w)
  \/ replayTargetSelectFirst \/ replayTargetSelectLatest
  \/ \E hit \in SUBSET Windows : replayTargetSelectAtRoot(hit)
  \/ Access
  \/ \E t \in Threads :
       \/ \E p \in Roots : StartCall(t, XTestFakeMotionEvent, p)
       \/ /\ client.relative
          /\ \E d \in {-1, 1} : StartCall(t, XTestFakeRelativeMotionEvent, d)
       \/ ReadBefore(t) \/ ReadId(t) \/ ReadRoot(t) \/ ReadAfter(t)
       \/ ToLocal(t) \/ ReadPointer(t) \/ SetPointer(t) \/ pushFakeEvent(t)

TargetSpec == TargetInit /\ [][TargetNext]_replayTargetVars

-----------------------------------------------------------------------------
(* Types.                                                                   *)
TargetTypeOK ==
  /\ seq \in Nat /\ (holder = NoThread => seq % 2 = 0)
  /\ target.id \in Windows \union {NoWindow}
  /\ DOMAIN known \subseteq Windows
  /\ holder \in Threads \union {NoThread}
  /\ holder = NoThread <=> stores = <<>>
  /\ \A t \in Threads : call[t].tries < MaxAttempts

(* The position of a fake motion is relative to the window it is sent to,   *)
(* as that window was the target at some moment of the call: the reader's   *)
(* counter keeps one window's id from meeting another one's origin          *)
(* (xtest.c:90, replay-target.c:386).                                       *)
MotionIsCoherent ==
  \A t \in Threads : pushed[t].id # NoWindow =>
    \E s \in pushed[t].stable :
      s.id = pushed[t].id /\ pushed[t].local = pushed[t].at - s.root

(* Whenever no writer is at work, injected input has a target that exists,  *)
(* at the place and with the size of its last offer, whoever chose it.      *)
TargetIsKnown ==
  /\ TargetTypeOK
  /\ holder = NoThread =>
       IF target.id = NoWindow THEN targetArea = 0
       ELSE /\ target.id \in DOMAIN known
            /\ target.root = known[target.id].root
            /\ targetArea = known[target.id].area

(* The script's "target first" and "target latest" mean the oldest and the  *)
(* newest window still there, through offers and forgets in any order       *)
(* (replay-target.c:183).                                                   *)
CandidatesAreExtremes ==
  holder = NoThread =>
    IF order = <<>> THEN first = NoCandidate /\ latest = NoCandidate
    ELSE /\ first = Candidate(Head(order))
         /\ latest = Candidate(Last(order))

(* The injected pointer stays where it is on the screen when the target     *)
(* changes: its local position is its root position seen from the target    *)
(* (replay-target.c:81).                                                    *)
PointerMatches ==
  pointer.has /\ holder = NoThread /\ (\A t \in Threads : call[t].todo = <<>>)
    => pointer.local = pointer.root - target.root

(* That holds as long as no target changes during an XTest call.            *)
PointerFollowsTarget == ~client.overlap => PointerMatches

(* All of it: the target and its stand-ins are there to be read, for a      *)
(* script that names its target and one that does not, what is read of them *)
(* with no lock belongs together, and the pointer goes with the target.     *)
InjectedInputIsSound ==
  TargetIsKnown /\ CandidatesAreExtremes /\ MotionIsCoherent /\ PointerFollowsTarget
=============================================================================
