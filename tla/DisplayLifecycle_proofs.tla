---------------------- MODULE DisplayLifecycle_proofs ----------------------
(***************************************************************************)
(* Proofs about opening and closing displays and the observer of a live     *)
(* resize, for any displays, threads, failures and sizes of the queues.     *)
(*                                                                          *)
(* LifecycleInv is the inductive invariant.  Its parts are about the        *)
(* observer's callback, the place each display is in, the shared pipe, and, *)
(* for a program with one thread, what numDisplaysOpen counts.              *)
(***************************************************************************)
EXTENDS DisplayLifecycle, FiniteSetTheorems, SequenceTheorems, TLAPS

(* Where a thread can be in XOpenDisplay and in XCloseDisplay.              *)
Untracked == {"sdl", "ttf", "storages", "++", "+=", "pipe"}
Owing == {"close", "unpipe"}
Untracking == {"quit", "--", "-=", "free"}
Stages == {"idle", "rest"} \union Untracked \union Owing \union Untracking

StepType == [at : Stages, display : Displays \union {NoDisplay},
             opening : BOOLEAN, owns : SUBSET {"sdl", "ttf"}, count : Int]
FrameType == [at : {"none", "present", "drain", "after"},
              by : {"nobody", "tick", "end", "last"}, batch : Seq(Displays)]

LifecycleTypes ==
  /\ program \in Programs
  /\ {sdl, ttf, storages, screen, pipe, locks, xtWakeTimer} \subseteq BOOLEAN
  /\ numDisplaysOpen \in Int /\ failures \in Nat
  /\ trackedDisplays \in Seq(Displays)
  /\ filter \in Displays \union {NoDisplay, Foreign}
  /\ step \in [Threads -> StepType]
  /\ open \subseteq Displays /\ leaked \subseteq Displays
  /\ freed \in [Displays -> Nat]
  /\ pending \in Seq(Displays) /\ fallback \in Seq(Displays) /\ capacity \in Nat
  /\ frame \in FrameType

ObserverTypes ==
  /\ {hostDrag, captured} \subseteq HostWindows \union {NoWindow}
  /\ endsDue \in Nat /\ drags \in Nat
  /\ {registered, observer, running, pendingStop, blind} \subseteq BOOLEAN
  /\ retains \in [HostWindows -> Int]

(* What the callback has in hand.                                           *)
CallbackInv ==
  /\ frame.at = "none" => frame = NoFrame
  /\ frame.at # "none" => frame.by # "nobody"
  /\ running <=> frame.by \in {"tick", "last"}
  /\ frame.by = "last" => pendingStop
  /\ pendingStop => running /\ (hostDrag = NoWindow \/ blind)
  /\ running => observer

ObserverInv ==
  /\ CallbackInv
  /\ retains = [n \in HostWindows |-> IF captured = n THEN 1 ELSE 0]
  /\ hostDrag # NoWindow /\ ~blind => observer /\ captured = hostDrag
  /\ ~registered /\ ~running => ~observer /\ captured = NoWindow
  /\ ~registered /\ running => pendingStop

(* Where the displays are.                                                  *)
Stepping == {step[t].display : t \in Threads} \ {NoDisplay}
Gone == {d \in Displays : freed[d] # 0}
OncePerQueue ==
  /\ IsInjective(pending) /\ IsInjective(fallback) /\ IsInjective(frame.batch)
StepsApart ==
  /\ \A t, u \in Threads : t # u /\ step[t].display = step[u].display
                             => step[t].display = NoDisplay
  /\ \A t \in Threads : step[t].display = NoDisplay <=> step[t] = Idle
  /\ \A t \in Threads : step[t].at = "idle" <=> step[t] = Idle
PlacesApart ==
  /\ Stepping \intersect (Gone \union open \union leaked \union Range(pending)
        \union Range(fallback) \union Range(frame.batch)) = {}
  /\ Gone \intersect (open \union leaked \union Range(pending)
        \union Range(fallback) \union Range(frame.batch)) = {}
  /\ open \intersect (leaked \union Range(pending)
        \union Range(fallback) \union Range(frame.batch)) = {}
  /\ leaked \intersect (Range(pending)
        \union Range(fallback) \union Range(frame.batch)) = {}
  /\ Range(pending) \intersect (Range(fallback) \union Range(frame.batch)) = {}
  /\ Range(fallback) \intersect Range(frame.batch) = {}
PlacesInv ==
  /\ OncePerQueue /\ StepsApart /\ PlacesApart
  /\ \A d \in Displays : freed[d] <= 1

FrameInv ==
  /\ pending # <<>> \/ fallback # <<>> => InPresent
  /\ InPresent => step[Main].at \notin {"unpipe"} \union Untracking
  /\ frame.at = "after" => step[Main] = Idle
  /\ frame.batch # <<>> => frame.at = "drain"
  /\ Len(pending) <= capacity
  /\ Len(fallback) <= FallbackSlots /\ Len(fallback) <= failures
  /\ leaked # {} => failures > FallbackSlots

(* The displays that are owed a close.                                      *)
Waiting == leaked \union Range(pending) \union Range(fallback) \union Range(frame.batch)
Closing == {step[t].display : t \in {u \in Threads : step[u].at \in Owing}}
Resting == {step[t].display : t \in {u \in Threads : step[u].at = "rest"}}
Owed == Waiting \union Closing

PipeInv ==
  /\ IsInjective(trackedDisplays)
  /\ filter \in Range(trackedDisplays) \union {NoDisplay, Foreign}
  /\ trackedDisplays # <<>> => filter # NoDisplay /\ pipe /\ locks
  /\ Range(trackedDisplays) \subseteq open \union Owed \union Resting
  /\ open \union Resting \subseteq Range(trackedDisplays)
  /\ trackedDisplays = <<>> => ~pipe /\ ~xtWakeTimer /\ ~registered
  /\ trackedDisplays = <<>> /\ locks => Owed # {}

(* With one thread numDisplaysOpen counts.                                  *)
Mine == step[Main].at
Held == open \union Waiting
Counts == {"pipe", "rest", "quit", "--", "-="} \union Owing
Counted == Held \union (IF Mine \in Counts THEN {step[Main].display} ELSE {})

CountInv ==
  /\ numDisplaysOpen = Cardinality(Counted)
  /\ Mine \in {"+=", "-="} => step[Main].count = numDisplaysOpen

(* And the library is up from the step that brings it up to the one that    *)
(* takes it down.                                                           *)
Uses == {"++", "+=", "pipe", "rest", "quit"} \union Owing
NotYet == {"idle", "sdl", "ttf"}
NoLonger == {"--", "-=", "free"}

LibraryInv ==
  /\ Mine \in Uses \/ Held # {} => sdl /\ ttf /\ storages
  /\ Mine \in {"ttf", "storages"} => sdl
  /\ Mine = "storages" => ttf
  /\ Mine \in {"ttf", "storages"} /\ step[Main].owns # {} => Held = {}
  /\ Mine = "sdl" => step[Main].owns = {}
  /\ Held = {} /\ Mine \in NotYet \union NoLonger => ~ttf
  /\ Held = {} /\ Mine = "storages" => "ttf" \in step[Main].owns
  /\ Held = {} /\ Mine \in NotYet \union {"storages"} \union NoLonger => ~storages
  /\ open # {} => screen
  /\ Held = {} /\ Mine \in NotYet \union {"storages", "++", "+=", "unpipe", "quit"} \union NoLonger
        => ~screen

OthersIdle == \A t \in Threads \ (program.threads \union {Main}) : step[t] = Idle

LifecycleInv ==
  /\ LifecycleTypes /\ ObserverTypes /\ ObserverInv /\ PlacesInv /\ FrameInv /\ PipeInv
  /\ OthersIdle
  /\ program.threads = {Main} => CountInv /\ LibraryInv
-----------------------------------------------------------------------------
(* Sequences without duplicates, and what is in them.                       *)

(* What is in a sequence, by its positions.                                 *)
LEMMA InRange ==
  ASSUME NEW S, NEW s \in Seq(S)
  PROVE  /\ Range(s) \subseteq S
         /\ \A x : x \in Range(s) <=> \E i \in 1..Len(s) : s[i] = x
         /\ IsInjective(s) <=> \A i, j \in 1..Len(s) : s[i] = s[j] => i = j
         /\ Len(s) \in Nat /\ DOMAIN s = 1..Len(s)
         /\ s = <<>> <=> Len(s) = 0
         /\ s = <<>> <=> Range(s) = {}
<1>1. /\ Len(s) \in Nat /\ DOMAIN s = 1..Len(s)
      /\ \A i \in 1..Len(s) : s[i] \in S
  OBVIOUS
<1>2. \A x : x \in Range(s) <=> \E i \in 1..Len(s) : s[i] = x
  BY <1>1 DEF Range
<1>3. s = <<>> <=> Len(s) = 0
  OBVIOUS
<1>4. s = <<>> <=> Range(s) = {}
  <2>1. CASE s = <<>>
    BY <1>2, <2>1
  <2>2. CASE s # <<>>
    <3>1. 1 \in 1..Len(s)
      BY <1>1, <1>3, <2>2
    <3> QED BY <1>2, <2>2, <3>1
  <2> QED BY <2>1, <2>2
<1> QED BY <1>1, <1>2, <1>3, <1>4 DEF IsInjective

(* Nothing is in the empty one.                                             *)
LEMMA EmptyQueue ==
  ASSUME NEW S
  PROVE  <<>> \in Seq(S) /\ Range(<<>>) = {} /\ IsInjective(<<>>) /\ Len(<<>>) = 0
<1>1. <<>> \in Seq(S) /\ Len(<<>>) = 0
  OBVIOUS
<1> QED BY <1>1, InRange

(* What is not yet in a queue may be appended to it.                        *)
LEMMA AppendQueue ==
  ASSUME NEW S, NEW s \in Seq(S), NEW e \in S
  PROVE  /\ Append(s, e) \in Seq(S) /\ Len(Append(s, e)) = Len(s) + 1
         /\ Range(Append(s, e)) = Range(s) \union {e}
         /\ IsInjective(s) /\ e \notin Range(s) => IsInjective(Append(s, e))
<1> DEFINE z == Append(s, e)
<1>1. /\ z \in Seq(S) /\ Len(z) = Len(s) + 1 /\ Len(s) \in Nat
      /\ \A i \in 1..Len(s) : z[i] = s[i]
      /\ z[Len(s) + 1] = e
  OBVIOUS
<1> HIDE DEF z
<1>2. \A i \in 1..Len(z) : i \in 1..Len(s) \/ i = Len(s) + 1
  BY <1>1
<1>3. 1..Len(s) \subseteq 1..Len(z) /\ Len(s) + 1 \in 1..Len(z)
  BY <1>1
<1>4. \A x : x \in Range(z) <=> x \in Range(s) \/ x = e
  <2> SUFFICES ASSUME NEW x PROVE x \in Range(z) <=> x \in Range(s) \/ x = e
    OBVIOUS
  <2>1. x \in Range(s) <=> \E i \in 1..Len(s) : s[i] = x
    BY InRange
  <2>2. x \in Range(z) <=> \E i \in 1..Len(z) : z[i] = x
    BY <1>1, InRange
  <2> QED BY <1>1, <1>2, <1>3, <2>1, <2>2
<1>5. IsInjective(s) /\ e \notin Range(s) => IsInjective(z)
  <2> SUFFICES ASSUME IsInjective(s), e \notin Range(s),
                      NEW i \in 1..Len(z), NEW j \in 1..Len(z), z[i] = z[j]
               PROVE  i = j
    BY <1>1, InRange
  <2>1. CASE i \in 1..Len(s) /\ j \in 1..Len(s)
    BY <1>1, <2>1, InRange
  <2>2. CASE i = Len(s) + 1 /\ j \in 1..Len(s)
    BY <1>1, <2>2, InRange
  <2>3. CASE j = Len(s) + 1 /\ i \in 1..Len(s)
    BY <1>1, <2>3, InRange
  <2>4. CASE j = Len(s) + 1 /\ i = Len(s) + 1
    BY <2>4
  <2> QED BY <1>2, <2>1, <2>2, <2>3, <2>4
<1> QED BY <1>1, <1>4, <1>5 DEF z

(* Two queues that share nothing become one.                                *)
LEMMA JoinQueues ==
  ASSUME NEW S, NEW s \in Seq(S), NEW r \in Seq(S)
  PROVE  /\ s \o r \in Seq(S) /\ Len(s \o r) = Len(s) + Len(r)
         /\ Range(s \o r) = Range(s) \union Range(r)
         /\ IsInjective(s) /\ IsInjective(r) /\ Range(s) \intersect Range(r) = {}
              => IsInjective(s \o r)
<1> DEFINE z == s \o r
<1>1. /\ z \in Seq(S) /\ Len(z) = Len(s) + Len(r)
      /\ \A i \in 1..Len(s) + Len(r) : z[i] =
           IF i <= Len(s) THEN s[i] ELSE r[i - Len(s)]
  BY ConcatProperties
<1>2. Range(z) = Range(s) \union Range(r)
  BY RangeConcatenation
<1> HIDE DEF z
<1>3. Len(s) \in Nat /\ Len(r) \in Nat
  OBVIOUS
<1>4. \A i \in 1..Len(z) : \/ i \in 1..Len(s) /\ z[i] = s[i]
                           \/ i - Len(s) \in 1..Len(r) /\ z[i] = r[i - Len(s)]
  BY <1>1, <1>3
<1>5. ASSUME IsInjective(s), IsInjective(r), Range(s) \intersect Range(r) = {},
             NEW i \in 1..Len(z), NEW j \in 1..Len(z), z[i] = z[j]
      PROVE  i = j
  <2>0. /\ \A a, b \in 1..Len(s) : s[a] = s[b] => a = b
        /\ \A a, b \in 1..Len(r) : r[a] = r[b] => a = b
    BY <1>5, InRange
  <2>1. CASE i \in 1..Len(s) /\ z[i] = s[i] /\ j \in 1..Len(s) /\ z[j] = s[j]
    BY <1>5, <2>0, <2>1
  <2>2. CASE /\ i - Len(s) \in 1..Len(r) /\ z[i] = r[i - Len(s)]
             /\ j - Len(s) \in 1..Len(r) /\ z[j] = r[j - Len(s)]
    <3>1. i - Len(s) = j - Len(s)
      BY <1>5, <2>0, <2>2
    <3> QED BY <1>1, <1>3, <3>1
  <2>3. CASE /\ i \in 1..Len(s) /\ z[i] = s[i]
             /\ j - Len(s) \in 1..Len(r) /\ z[j] = r[j - Len(s)]
    <3>1. z[i] \in Range(s) /\ z[j] \in Range(r)
      BY <2>3, InRange
    <3> QED BY <1>5, <3>1
  <2>4. CASE /\ j \in 1..Len(s) /\ z[j] = s[j]
             /\ i - Len(s) \in 1..Len(r) /\ z[i] = r[i - Len(s)]
    <3>1. z[j] \in Range(s) /\ z[i] \in Range(r)
      BY <2>4, InRange
    <3> QED BY <1>5, <3>1
  <2> QED BY <1>4, <2>1, <2>2, <2>3, <2>4
<1>6. IsInjective(s) /\ IsInjective(r) /\ Range(s) \intersect Range(r) = {}
        => IsInjective(z)
  BY <1>1, <1>5, InRange
<1> QED BY <1>1, <1>2, <1>6 DEF z

(* The rest of a queue holds all but its head.                              *)
LEMMA TailQueue ==
  ASSUME NEW S, NEW s \in Seq(S), s # <<>>, IsInjective(s)
  PROVE  /\ Head(s) \in Range(s) /\ Head(s) \in S /\ Tail(s) \in Seq(S)
         /\ Range(Tail(s)) = Range(s) \ {Head(s)}
         /\ IsInjective(Tail(s)) /\ Len(Tail(s)) < Len(s)
<1> DEFINE z == Tail(s)
<1>1. /\ z \in Seq(S) /\ Len(z) = Len(s) - 1 /\ Len(s) \in Nat /\ Len(s) # 0
      /\ \A i \in 1..Len(z) : z[i] = s[i + 1]
      /\ Head(s) = s[1]
  BY HeadTailProperties
<1> HIDE DEF z
<1>2. 1 \in 1..Len(s) /\ \A i \in 1..Len(z) : i + 1 \in 1..Len(s) /\ i + 1 # 1
  BY <1>1
<1>3. \A i \in 1..Len(s) : i # 1 => i - 1 \in 1..Len(z) /\ z[i - 1] = s[i]
  <2> SUFFICES ASSUME NEW i \in 1..Len(s), i # 1
               PROVE  i - 1 \in 1..Len(z) /\ z[i - 1] = s[i]
    OBVIOUS
  <2>1. i - 1 \in 1..Len(z) /\ (i - 1) + 1 = i
    BY <1>1
  <2> QED BY <1>1, <2>1
<1>4. ASSUME NEW x PROVE x \in Range(z) <=> x \in Range(s) /\ x # s[1]
  <2>1. ASSUME x \in Range(z) PROVE x \in Range(s) /\ x # s[1]
    <3>1. PICK i \in 1..Len(z) : z[i] = x
      BY <1>1, <2>1, InRange
    <3>2. i + 1 \in 1..Len(s) /\ s[i + 1] = x /\ i + 1 # 1
      BY <1>1, <1>2, <3>1
    <3> QED BY <1>2, <3>2, InRange
  <2>2. ASSUME x \in Range(s), x # s[1] PROVE x \in Range(z)
    <3>1. PICK i \in 1..Len(s) : s[i] = x
      BY <2>2, InRange
    <3>2. i - 1 \in 1..Len(z) /\ z[i - 1] = x
      BY <1>3, <2>2, <3>1
    <3> QED BY <1>1, <3>2, InRange
  <2> QED BY <2>1, <2>2
<1>5. ASSUME NEW i \in 1..Len(z), NEW j \in 1..Len(z), z[i] = z[j]
      PROVE  i = j
  <2>1. i + 1 = j + 1
    BY <1>1, <1>2, <1>5, InRange
  <2> QED BY <1>1, <2>1
<1>6. IsInjective(z)
  BY <1>1, <1>5, InRange
<1> QED BY <1>1, <1>2, <1>4, <1>6, InRange DEF z

(* untrackDisplay takes the display off the list and nothing else.          *)
LEMMA UntrackQueue ==
  ASSUME trackedDisplays \in Seq(Displays), IsInjective(trackedDisplays), NEW d
  PROVE  /\ untrackDisplay(d) \in Seq(Displays)
         /\ Range(untrackDisplay(d)) = Range(trackedDisplays) \ {d}
         /\ IsInjective(untrackDisplay(d))
<1> DEFINE s == trackedDisplays
<1>1. CASE d \notin Range(s)
  BY <1>1 DEF untrackDisplay
<1>2. CASE d \in Range(s)
  <2> DEFINE k == findInArray(d)
             front == SubSeq(s, 1, k - 1)
             back == SubSeq(s, k + 1, Len(s))
  <2>1. k \in 1..Len(s) /\ s[k] = d
    BY <1>2, InRange DEF findInArray
  <2>2. /\ Len(s) \in Nat /\ \A i \in 1..Len(s) : s[i] \in Displays
        /\ \A i, j \in 1..Len(s) : s[i] = s[j] => i = j
    BY InRange
  <2> HIDE DEF k, s
  <2>3. /\ front \in Seq(Displays) /\ Len(front) = k - 1
        /\ \A i \in 1..(k - 1) : front[i] = s[i]
    <3>1. \A i \in 1..(k - 1) : s[i] \in Displays
      BY <2>1, <2>2
    <3>2. 1 \in Int /\ k - 1 \in Int /\ (1 <= k - 1 \/ k - 1 = 0)
      BY <2>1, <2>2
    <3>3. /\ front \in Seq(Displays)
          /\ Len(front) = IF 1 <= k - 1 THEN (k - 1) - 1 + 1 ELSE 0
          /\ \A i \in 1..((k - 1) - 1 + 1) : front[i] = s[1 + i - 1]
      BY <3>1, <3>2, SubSeqProperties
    <3>4. \A i \in 1..(k - 1) : i \in 1..((k - 1) - 1 + 1) /\ 1 + i - 1 = i
      BY <3>2
    <3> HIDE DEF front
    <3> QED BY <3>2, <3>3, <3>4
  <2>4. /\ back \in Seq(Displays) /\ Len(back) = Len(s) - k
        /\ \A i \in 1..(Len(s) - k) : back[i] = s[k + i]
    <3>1. \A i \in (k + 1)..Len(s) : s[i] \in Displays
      BY <2>1, <2>2
    <3>2. k + 1 \in Int /\ Len(s) \in Int /\ k \in Int /\ k <= Len(s)
      BY <2>1, <2>2
    <3>3. /\ back \in Seq(Displays)
          /\ Len(back) = IF k + 1 <= Len(s) THEN Len(s) - (k + 1) + 1 ELSE 0
          /\ \A i \in 1..(Len(s) - (k + 1) + 1) : back[i] = s[(k + 1) + i - 1]
      BY <3>1, <3>2, SubSeqProperties
    <3>4. \A i \in 1..(Len(s) - k) :
            i \in 1..(Len(s) - (k + 1) + 1) /\ (k + 1) + i - 1 = k + i
      BY <3>2
    <3> HIDE DEF back
    <3> QED BY <3>2, <3>3, <3>4
  <2> HIDE DEF front, back
  <2>5. ASSUME NEW x PROVE x \in Range(front) <=> \E i \in 1..(k - 1) : s[i] = x
    BY <2>3, InRange
  <2>6. ASSUME NEW x
        PROVE  x \in Range(back) <=> \E i \in 1..(Len(s) - k) : s[k + i] = x
    BY <2>4, InRange
  <2>7. \A i \in 1..(k - 1) : i \in 1..Len(s) /\ i # k
    BY <2>1, <2>2
  <2>8. \A i \in 1..(Len(s) - k) : k + i \in 1..Len(s) /\ k + i # k
    BY <2>1, <2>2
  <2>9. \A i \in 1..Len(s) : i # k => \/ i \in 1..(k - 1)
                                      \/ i - k \in 1..(Len(s) - k) /\ k + (i - k) = i
    BY <2>1, <2>2
  <2>10. ASSUME NEW x
         PROVE  x \in Range(front) \union Range(back) <=> x \in Range(s) /\ x # d
    <3>1. ASSUME x \in Range(front) \union Range(back)
          PROVE  x \in Range(s) /\ x # d
      <4>1. PICK i \in 1..Len(s) : s[i] = x /\ i # k
        BY <2>5, <2>6, <2>7, <2>8, <3>1
      <4> QED BY <2>1, <2>2, <4>1, InRange DEF s
    <3>2. ASSUME x \in Range(s), x # d PROVE x \in Range(front) \union Range(back)
      <4>1. PICK i \in 1..Len(s) : s[i] = x
        BY <3>2, InRange DEF s
      <4>2. i # k
        BY <2>1, <3>2, <4>1
      <4> QED BY <2>5, <2>6, <2>9, <4>1, <4>2
    <3> QED BY <3>1, <3>2
  <2>11. Range(front) \intersect Range(back) = {}
    <3> SUFFICES ASSUME NEW x \in Range(front), x \in Range(back) PROVE FALSE
      OBVIOUS
    <3>1. PICK i \in 1..(k - 1) : s[i] = x
      BY <2>5
    <3>2. PICK j \in 1..(Len(s) - k) : s[k + j] = x
      BY <2>6
    <3>3. i = k + j
      BY <2>2, <2>7, <2>8, <3>1, <3>2
    <3> QED BY <2>1, <2>2, <3>3
  <2>12. IsInjective(front)
    <3> SUFFICES ASSUME NEW i \in 1..(k - 1), NEW j \in 1..(k - 1), front[i] = front[j]
                 PROVE  i = j
      BY <2>3, InRange
    <3> QED BY <2>2, <2>3, <2>7
  <2>13. IsInjective(back)
    <3> SUFFICES ASSUME NEW i \in 1..(Len(s) - k), NEW j \in 1..(Len(s) - k),
                        back[i] = back[j]
                 PROVE  i = j
      BY <2>4, InRange
    <3>1. k + i = k + j
      BY <2>2, <2>4, <2>8
    <3> QED BY <2>1, <2>2, <3>1
  <2>14. untrackDisplay(d) = front \o back
    BY <1>2 DEF untrackDisplay, RemoveAt, front, back, k, s
  <2> QED BY <2>3, <2>4, <2>10, <2>11, <2>12, <2>13, <2>14, JoinQueues DEF s
<1> QED BY <1>1, <1>2

-----------------------------------------------------------------------------
(* Steps of a thread, and types.                                            *)

(* A thread that goes on keeps its display.                                 *)
KeepsOn(t) ==
  /\ step[t].at # "idle"
  /\ \E s \in StepType :
       /\ step' = [step EXCEPT ![t] = s]
       /\ s.at # "idle" /\ s.display = step[t].display
       /\ s.at \in {"unpipe"} \union Untracking
            => ~InPresent \/ step[t].at \in {"unpipe"} \union Untracking

(* Goes leads there.                                                        *)
LEMMA GoesTypes ==
  ASSUME step \in [Threads -> StepType], NEW t \in Threads, NEW w \in Stages,
         Goes(t, w)
  PROVE  \E s \in StepType :
           /\ step' = [step EXCEPT ![t] = s] /\ s.at = w
           /\ s.display = step[t].display /\ s.owns = step[t].owns
           /\ s.count = step[t].count
<1> DEFINE s == [step[t] EXCEPT !.at = w]
<1>1. step[t] \in StepType
  OBVIOUS
<1>2. /\ s \in StepType /\ s.at = w
      /\ s.display = step[t].display /\ s.owns = step[t].owns
      /\ s.count = step[t].count
  BY <1>1 DEF StepType
<1>3. step' = [step EXCEPT ![t] = s]
  BY DEF Goes
<1> HIDE DEF s
<1> QED BY <1>2, <1>3

(* So does Owning.                                                          *)
LEMMA OwningTypes ==
  ASSUME step \in [Threads -> StepType], NEW t \in Threads,
         NEW what \in {"sdl", "ttf"}, Owning(t, what)
  PROVE  \E s \in StepType :
           /\ step' = [step EXCEPT ![t] = s]
           /\ s.at = IF what = "sdl" THEN "ttf" ELSE "storages"
           /\ s.display = step[t].display /\ s.owns = step[t].owns \union {what}
<1> DEFINE s == [step[t] EXCEPT !.at = IF what = "sdl" THEN "ttf" ELSE "storages",
                                !.owns = @ \union {what}]
<1>1. step[t] \in StepType
  OBVIOUS
<1>2. /\ s \in StepType
      /\ s.at = IF what = "sdl" THEN "ttf" ELSE "storages"
      /\ s.display = step[t].display /\ s.owns = step[t].owns \union {what}
  BY <1>1 DEF StepType, Stages, Untracked
<1>3. step' = [step EXCEPT ![t] = s]
  BY DEF Owning
<1> HIDE DEF s
<1> QED BY <1>2, <1>3

(* And Load.                                                                *)
LEMMA LoadTypes ==
  ASSUME step \in [Threads -> StepType], numDisplaysOpen \in Int,
         NEW t \in Threads, Load(t)
  PROVE  \E s \in StepType :
           /\ step' = [step EXCEPT ![t] = s] /\ s.count = numDisplaysOpen
           /\ s.at = IF step[t].at = "++" THEN "+=" ELSE "-="
           /\ s.display = step[t].display
<1> DEFINE s == [step[t] EXCEPT !.count = numDisplaysOpen,
                                !.at = IF @ = "++" THEN "+=" ELSE "-="]
<1>1. step[t] \in StepType
  OBVIOUS
<1>2. /\ s \in StepType /\ s.count = numDisplaysOpen
      /\ s.at = IF step[t].at = "++" THEN "+=" ELSE "-="
      /\ s.display = step[t].display
  BY <1>1 DEF StepType, Stages, Untracked, Untracking
<1>3. step' = [step EXCEPT ![t] = s]
  BY DEF Load
<1> HIDE DEF s
<1> QED BY <1>2, <1>3

(* A thread starts an open or a close with a display and nothing else.      *)
LEMMA StartTypes ==
  ASSUME NEW d \in Displays
  PROVE  /\ Idle \in StepType /\ Idle.at = "idle" /\ Idle.display = NoDisplay
         /\ [Idle EXCEPT !.at = "sdl", !.display = d, !.opening = TRUE] \in StepType
         /\ [Idle EXCEPT !.at = "close", !.display = d] \in StepType
<1>1. Idle = [at |-> "idle", display |-> NoDisplay, opening |-> FALSE,
              owns |-> {}, count |-> 0]
  BY DEF Idle
<1>2. \A i \in StepType :
        [i EXCEPT !.at = "sdl", !.display = d, !.opening = TRUE] \in StepType
  BY DEF StepType, Stages, Untracked
<1>3. \A i \in StepType : [i EXCEPT !.at = "close", !.display = d] \in StepType
  BY DEF StepType, Stages, Owing
<1>4. Idle \in StepType
  BY DEF Idle, StepType, Stages
<1> HIDE DEF Idle
<1> QED BY <1>1, <1>2, <1>3, <1>4

(* What moves in the steps of a thread but a display's place.               *)
LEMMA GoingOn ==
  ASSUME LifecycleTypes, NEW t \in Threads,
         \/ Load(t) \/ Increment(t) \/ initEventPipe(t) \/ CloseScreen(t)
         \/ closeEventPipe(t) \/ CloseSdl(t) \/ Decrement(t)
  PROVE  KeepsOn(t)
<1>1. step \in [Threads -> StepType] /\ numDisplaysOpen \in Int
  BY DEF LifecycleTypes
<1>2. \A w \in Stages : Goes(t, w) =>
        \E s \in StepType : /\ step' = [step EXCEPT ![t] = s] /\ s.at = w
                            /\ s.display = step[t].display
  BY <1>1, GoesTypes
<1>3. {"pipe", "rest", "close", "unpipe", "quit", "--", "free"} \subseteq Stages
  BY DEF Stages, Untracked, Owing, Untracking
<1>4. CASE Load(t)
  <2>1. PICK s \in StepType :
           /\ step' = [step EXCEPT ![t] = s]
           /\ s.at = IF step[t].at = "++" THEN "+=" ELSE "-="
           /\ s.display = step[t].display
    BY <1>1, <1>4, LoadTypes
  <2>2. step[t].at \in {"++", "--"}
    BY <1>4 DEF Load
  <2> QED BY <2>1, <2>2 DEF KeepsOn, Untracking
<1>5. CASE Increment(t)
  BY <1>2, <1>3, <1>5 DEF Increment, KeepsOn, Untracking
<1>6. CASE initEventPipe(t)
  <2>1. step[t].at = "pipe" /\ (Goes(t, "rest") \/ Goes(t, "close"))
    BY <1>6 DEF initEventPipe
  <2> QED BY <1>2, <1>3, <2>1 DEF KeepsOn, Untracking
<1>7. CASE CloseScreen(t)
  <2>1. step[t].at = "close" /\ ~InPresent /\ Goes(t, "unpipe")
    BY <1>7 DEF CloseScreen, mustDefer
  <2> QED BY <1>2, <1>3, <2>1 DEF KeepsOn, Untracking
<1>8. CASE closeEventPipe(t)
  <2>1. step[t].at = "unpipe" /\ Goes(t, "quit")
    BY <1>8 DEF closeEventPipe
  <2> QED BY <1>2, <1>3, <2>1 DEF KeepsOn, Untracking
<1>9. CASE CloseSdl(t)
  <2>1. step[t].at = "quit" /\ (Goes(t, "--") \/ Goes(t, "free"))
    BY <1>9 DEF CloseSdl
  <2> QED BY <1>2, <1>3, <2>1 DEF KeepsOn, Untracking
<1>10. CASE Decrement(t)
  BY <1>2, <1>3, <1>10 DEF Decrement, KeepsOn, Untracking
<1> QED BY <1>4, <1>5, <1>6, <1>7, <1>8, <1>9, <1>10

(* An open that gives up, or fails its step.                                *)
LEMMA GivesUpTypes ==
  ASSUME LifecycleTypes, NEW t \in Threads, GivesUp(t)
  PROVE  /\ {sdl', ttf'} \subseteq BOOLEAN /\ freed' \in [Displays -> Nat]
         /\ step' \in [Threads -> StepType]
<1>1. Idle \in StepType
  BY DEF Idle, StepType, Stages
<1>2. step' \in [Threads -> StepType]
  BY <1>1 DEF GivesUp, LifecycleTypes
<1>3. freed' \in [Displays -> Nat]
  <2> DEFINE d == step[t].display
  <2>1. freed' = [freed EXCEPT ![d] = @ + 1] /\ freed \in [Displays -> Nat]
    BY DEF GivesUp, LifecycleTypes
  <2> HIDE DEF d
  <2>2. CASE d \in Displays
    <3>1. freed[d] + 1 \in Nat
      BY <2>1, <2>2
    <3> QED BY <2>1, <2>2, <3>1
  <2>3. CASE d \notin Displays
    BY <2>1, <2>3
  <2> QED BY <2>2, <2>3
<1> QED BY <1>2, <1>3 DEF GivesUp, LifecycleTypes

(* The types of what an open has before its pipe.                           *)
LEMMA OpeningTypes ==
  ASSUME LifecycleTypes, NEW t \in Threads,
         XOpenDisplay(t) \/ OpenSdl(t) \/ OpenTtf(t) \/ OpenStorages(t)
  PROVE  LifecycleTypes'
<1> USE DEF LifecycleTypes, sdlVars, pipeVars, deferVars, liveResizeVars
<1>1. \A s \in StepType : [step EXCEPT ![t] = s] \in [Threads -> StepType]
  OBVIOUS
<1>2. \A w \in Stages : Goes(t, w) => step' \in [Threads -> StepType]
  BY <1>1, GoesTypes
<1>3. \A what \in {"sdl", "ttf"} : Owning(t, what) => step' \in [Threads -> StepType]
  BY <1>1, OwningTypes
<1>4. Fails => failures' \in Nat
  BY DEF Fails
<1>5. {"ttf", "storages", "++"} \subseteq Stages
  BY DEF Stages, Untracked
<1>6. CASE XOpenDisplay(t)
  <2>1. PICK d \in Displays : step' = [step EXCEPT ![t] =
          [Idle EXCEPT !.at = "sdl", !.display = d, !.opening = TRUE]]
    <3>1. Unused # {}
      BY <1>6 DEF XOpenDisplay
    <3>2. (CHOOSE any \in Unused : TRUE) \in Unused
      BY <3>1
    <3>3. program.displays \subseteq Displays
      BY LifecycleAssumption
    <3>4. (CHOOSE any \in Unused : TRUE) \in Displays
      BY <3>2, <3>3 DEF Unused
    <3> QED BY <1>6, <3>4 DEF XOpenDisplay
  <2>2. step' \in [Threads -> StepType]
    BY <1>1, <2>1, StartTypes
  <2> QED BY <1>6, <2>2 DEF XOpenDisplay
<1>7. CASE OpenSdl(t)
  <2>1. {sdl', ttf'} \subseteq BOOLEAN /\ freed' \in [Displays -> Nat]
          /\ step' \in [Threads -> StepType] /\ failures' \in Nat
    BY <1>2, <1>3, <1>4, <1>5, <1>7, GivesUpTypes DEF OpenSdl
  <2> QED BY <1>7, <2>1 DEF OpenSdl
<1>8. CASE OpenTtf(t)
  <2>1. {sdl', ttf'} \subseteq BOOLEAN /\ freed' \in [Displays -> Nat]
          /\ step' \in [Threads -> StepType] /\ failures' \in Nat
    BY <1>2, <1>3, <1>4, <1>5, <1>8, GivesUpTypes DEF OpenTtf
  <2> QED BY <1>8, <2>1 DEF OpenTtf
<1>9. CASE OpenStorages(t)
  <2>1. {sdl', ttf'} \subseteq BOOLEAN /\ freed' \in [Displays -> Nat]
          /\ step' \in [Threads -> StepType] /\ failures' \in Nat
    BY <1>2, <1>4, <1>5, <1>9, GivesUpTypes DEF OpenStorages
  <2> QED BY <1>9, <2>1 DEF OpenStorages
<1> QED BY <1>6, <1>7, <1>8, <1>9

(* The types, in the steps that keep their display.                         *)
LEMMA KeepingTypes ==
  ASSUME LifecycleTypes, PipeInv, NEW t \in Threads,
         step[t].at = "pipe" => step[t].display \in Displays,
         \/ Load(t) \/ Increment(t) \/ initEventPipe(t) \/ CloseScreen(t)
         \/ closeEventPipe(t) \/ CloseSdl(t) \/ Decrement(t)
  PROVE  LifecycleTypes'
<1>1. step' \in [Threads -> StepType]
  <2>1. KeepsOn(t)
    BY GoingOn
  <2> QED BY <2>1 DEF KeepsOn, LifecycleTypes
<1> USE DEF LifecycleTypes, sdlVars, pipeVars, deferVars, liveResizeVars
<1>2. step[t] \in StepType
  OBVIOUS
<1>3. step[t].count \in Int
  BY <1>2 DEF StepType
<1>4. CASE Load(t)
  BY <1>1, <1>4 DEF Load
<1>5. CASE Increment(t)
  BY <1>1, <1>3, <1>5 DEF Increment
<1>6. CASE Decrement(t)
  BY <1>1, <1>3, <1>6 DEF Decrement
<1>7. CASE CloseScreen(t)
  BY <1>1, <1>7 DEF CloseScreen
<1>8. CASE CloseSdl(t)
  BY <1>1, <1>8 DEF CloseSdl
<1>9. CASE initEventPipe(t)
  <2> DEFINE d == step[t].display
  <2>1. d \in Displays
    BY <1>9 DEF initEventPipe
  <2>2. /\ {pipe', locks', xtWakeTimer'} \subseteq BOOLEAN
        /\ trackedDisplays' \in Seq(Displays)
        /\ filter' \in Displays \union {NoDisplay, Foreign} /\ failures' \in Nat
    <3>1. Append(trackedDisplays, d) \in Seq(Displays)
      BY <2>1, AppendQueue
    <3>2. Fails => failures' \in Nat
      BY DEF Fails
    <3> HIDE DEF d
    <3> QED BY <1>9, <2>1, <3>1, <3>2 DEF initEventPipe, d
  <2> QED BY <1>1, <1>9, <2>2 DEF initEventPipe
<1>10. CASE closeEventPipe(t)
  <2> DEFINE d == step[t].display
             rest == untrackDisplay(d)
  <2>1. rest \in Seq(Displays)
    BY UntrackQueue DEF PipeInv
  <2> HIDE DEF rest
  <2>2. /\ trackedDisplays' = rest /\ filter' = handoff(d, rest)
        /\ {pipe', locks', xtWakeTimer'} \subseteq BOOLEAN
    BY <1>10 DEF closeEventPipe, rest
  <2>3. handoff(d, rest) \in Displays \union {NoDisplay, Foreign}
    <3>1. rest # <<>> => Last(rest) \in Displays
      BY <2>1 DEF Last
    <3> QED BY <3>1 DEF handoff
  <2> QED BY <1>1, <1>10, <2>1, <2>2, <2>3 DEF closeEventPipe
<1> QED BY <1>4, <1>5, <1>6, <1>7, <1>8, <1>9, <1>10

(* The display of a thread that is not idle.                                *)
LEMMA StepDisplay ==
  ASSUME LifecycleTypes, PlacesInv, NEW t \in Threads
  PROVE  /\ step[t] \in StepType
         /\ step[t].at # "idle" => step[t].display \in Displays
         /\ step[t].at = "idle" => step[t] = Idle /\ step[t].display = NoDisplay
<1>1. step[t] \in StepType
  BY DEF LifecycleTypes
<1>2. step[t].display \in Displays \union {NoDisplay}
  BY <1>1 DEF StepType
<1> QED BY <1>1, <1>2 DEF PlacesInv, StepsApart, Idle

(* The types, when a display gets to a place of the client's or a queue.    *)
LEMMA MovingTypes ==
  ASSUME LifecycleTypes, PlacesInv, NEW t \in Threads,
         OpenRest(t) \/ XCloseDisplay(t) \/ DeferClose(t) \/ FreeDisplay(t)
  PROVE  LifecycleTypes'
<1> DEFINE d == step[t].display
<1>1. step[t].at # "idle" => d \in Displays
  BY StepDisplay
<1>2. Idle \in StepType /\ \A e \in Displays : [Idle EXCEPT !.at = "close", !.display = e] \in StepType
  <2>1. Idle \in StepType
    BY DEF Idle, StepType, Stages
  <2> QED BY <2>1, StartTypes
<1> HIDE DEF d
<1> USE DEF LifecycleTypes, sdlVars, pipeVars, deferVars, liveResizeVars
<1>3. \A s \in StepType : [step EXCEPT ![t] = s] \in [Threads -> StepType]
  OBVIOUS
<1>4. Fails => failures' \in Nat
  BY DEF Fails
<1>5. CASE OpenRest(t)
  <2>1. "close" \in Stages
    BY DEF Stages, Owing
  <2>2. ASSUME Goes(t, "close") PROVE step' \in [Threads -> StepType]
    <3>1. PICK s \in StepType : step' = [step EXCEPT ![t] = s]
      BY <2>1, <2>2, GoesTypes
    <3> QED BY <1>3, <3>1
  <2>3. d \in Displays
    BY <1>1, <1>5 DEF OpenRest
  <2>4. step' \in [Threads -> StepType] /\ screen' \in BOOLEAN
          /\ open' \subseteq Displays /\ failures' \in Nat
    BY <1>2, <1>3, <1>4, <1>5, <2>1, <2>2, <2>3 DEF OpenRest, d
  <2> QED BY <1>5, <2>4 DEF OpenRest
<1>6. CASE XCloseDisplay(t)
  BY <1>2, <1>3, <1>6 DEF XCloseDisplay
<1>7. CASE FreeDisplay(t)
  <2>1. d \in Displays
    BY <1>1, <1>7 DEF FreeDisplay
  <2>2. freed' = [freed EXCEPT ![d] = @ + 1]
    BY <1>7 DEF FreeDisplay, d
  <2>3. freed' \in [Displays -> Nat]
    <3>1. freed[d] + 1 \in Nat
      BY <2>1
    <3> QED BY <2>2, <3>1
  <2> QED BY <1>2, <1>3, <1>7, <2>3 DEF FreeDisplay
<1>8. CASE DeferClose(t)
  <2>1. d \in Displays
    BY <1>1, <1>8 DEF DeferClose
  <2>2. Append(pending, d) \in Seq(Displays) /\ Append(fallback, d) \in Seq(Displays)
    BY <2>1, AppendQueue
  <2>3. ASSUME NEW room \in Nat, Queue(d, room)
        PROVE  /\ pending' \in Seq(Displays) /\ fallback' \in Seq(Displays)
               /\ capacity' \in Nat /\ leaked' \subseteq Displays
    BY <2>1, <2>2, <2>3 DEF Queue
  <2>4. /\ capacity \in Nat /\ FirstCapacity \in Nat /\ 2 * capacity \in Nat
    BY LifecycleAssumption
  <2>5. \E room \in Nat : Queue(d, room)
    BY <1>8, <2>4 DEF DeferClose, d
  <2>6. failures' \in Nat
    BY <1>4, <1>8 DEF DeferClose
  <2> QED BY <1>2, <1>3, <1>8, <2>3, <2>5, <2>6 DEF DeferClose
<1> QED BY <1>5, <1>6, <1>7, <1>8

(* The frame.                                                               *)
LEMMA FrameTypes ==
  ASSUME LifecycleTypes
  PROVE  /\ \A by \in {"tick", "end", "last"} : Present(by) =>
              /\ frame' \in FrameType /\ frame'.by = by /\ frame'.batch = <<>>
              /\ frame'.at = IF screen THEN "present" ELSE "after"
         /\ NoFrame \in FrameType /\ NoFrame.at = "none" /\ NoFrame.by = "nobody"
         /\ NoFrame.batch = <<>>
         /\ frame.at \in {"none", "present", "drain", "after"}
         /\ frame.by \in {"nobody", "tick", "end", "last"}
         /\ frame.batch \in Seq(Displays)
<1>1. frame \in FrameType /\ screen \in BOOLEAN
  BY DEF LifecycleTypes
<1>2. NoFrame \in FrameType /\ NoFrame.at = "none" /\ NoFrame.by = "nobody"
        /\ NoFrame.batch = <<>>
  BY EmptyQueue DEF NoFrame, FrameType
<1>3. ASSUME NEW by \in {"tick", "end", "last"}, Present(by)
      PROVE  /\ frame' \in FrameType /\ frame'.by = by /\ frame'.batch = <<>>
             /\ frame'.at = IF screen THEN "present" ELSE "after"
  <2>1. \A f \in FrameType, w \in {"present", "after"} :
          /\ [f EXCEPT !.at = w, !.by = by] \in FrameType
          /\ [f EXCEPT !.at = w, !.by = by].at = w
          /\ [f EXCEPT !.at = w, !.by = by].by = by
          /\ [f EXCEPT !.at = w, !.by = by].batch = f.batch
    BY DEF FrameType
  <2> DEFINE w == IF screen THEN "present" ELSE "after"
  <2>2. w \in {"present", "after"} /\ frame' = [NoFrame EXCEPT !.at = w, !.by = by]
    BY <1>3 DEF Present
  <2> HIDE DEF w
  <2>3. frame' \in FrameType /\ frame'.by = by /\ frame'.batch = <<>> /\ frame'.at = w
    BY <1>2, <2>1, <2>2
  <2> QED BY <2>3 DEF w
<1> QED BY <1>1, <1>2, <1>3 DEF FrameType

(* The steps of the host and of the callback.                               *)
HostStep == HostAction \/ DidEnd \/ Tick \/ FrameUnwinds \/ DrainClose \/ AfterFrame

(* The frame after a step of them.                                          *)
LEMMA FrameSteps ==
  ASSUME LifecycleTypes, PlacesInv, HostStep
  PROVE  /\ frame' \in FrameType
         /\ FrameUnwinds => /\ frame'.at = "drain" /\ frame'.by = frame.by
                            /\ frame'.batch = pending \o fallback
         /\ DrainClose => /\ frame'.by = frame.by
                          /\ IF frame.batch = <<>>
                               THEN frame'.at = "after" /\ frame'.batch = <<>>
                               ELSE frame'.at = "drain" /\ frame'.batch = Tail(frame.batch)
<1>1. frame \in FrameType /\ pending \in Seq(Displays) /\ fallback \in Seq(Displays)
  BY DEF LifecycleTypes
<1>2. frame.batch \in Seq(Displays)
  BY <1>1 DEF FrameType
<1>3. CASE FrameUnwinds
  <2> DEFINE b == pending \o fallback
  <2>1. b \in Seq(Displays)
    BY <1>1
  <2> HIDE DEF b
  <2>2. frame' = [frame EXCEPT !.at = "drain", !.batch = b]
    BY <1>3 DEF FrameUnwinds, b
  <2>3. ~DrainClose
    BY <1>3 DEF FrameUnwinds, DrainClose, InPresent
  <2>4. /\ frame' \in FrameType /\ frame'.at = "drain" /\ frame'.by = frame.by
        /\ frame'.batch = b
    BY <1>1, <2>1, <2>2 DEF FrameType
  <2> QED BY <2>3, <2>4 DEF b
<1>4. CASE DrainClose
  <2> DEFINE b == Tail(frame.batch)
  <2>1. ~FrameUnwinds /\ frame.at = "drain"
    BY <1>4 DEF FrameUnwinds, DrainClose, InPresent
  <2>2. CASE frame.batch = <<>>
    <3>1. frame' = [frame EXCEPT !.at = "after"]
      BY <1>4, <2>2 DEF DrainClose
    <3>2. /\ frame' \in FrameType /\ frame'.at = "after" /\ frame'.by = frame.by
          /\ frame'.batch = frame.batch
      BY <1>1, <3>1 DEF FrameType
    <3> QED BY <2>1, <2>2, <3>2
  <2>3. CASE frame.batch # <<>>
    <3>1. b \in Seq(Displays)
      BY <1>2, <2>3
    <3> HIDE DEF b
    <3>2. frame' = [frame EXCEPT !.batch = b]
      BY <1>4, <2>3 DEF DrainClose, b
    <3>3. /\ frame' \in FrameType /\ frame'.at = "drain" /\ frame'.by = frame.by
          /\ frame'.batch = b
      BY <1>1, <2>1, <3>1, <3>2 DEF FrameType
    <3> QED BY <2>1, <2>3, <3>3 DEF b
  <2> QED BY <2>2, <2>3
<1>5. ASSUME ~FrameUnwinds, ~DrainClose PROVE frame' \in FrameType
  <2>1. frame' = frame \/ frame' = NoFrame \/ \E by \in {"tick", "end", "last"} : Present(by)
    BY <1>5 DEF HostStep, HostAction, DidEnd, Tick, AfterFrame
  <2> QED BY <1>1, <2>1, FrameTypes
<1> QED BY <1>3, <1>4, <1>5

(* The types in the other steps.                                            *)
LEMMA OtherTypes ==
  ASSUME LifecycleTypes, PlacesInv, SetEventFilter \/ HostStep
  PROVE  LifecycleTypes'
<1>0. Main \in Threads
  BY LifecycleAssumption
<1> USE DEF LifecycleTypes, sdlVars, pipeVars, deferVars, liveResizeVars,
            libraryVars
<1>1. CASE SetEventFilter
  BY <1>1 DEF SetEventFilter
<1>2. CASE HostStep
  <2>1. frame' \in FrameType
    BY <1>2, FrameSteps
  <2>2. CASE HostAction
    BY <2>1, <2>2 DEF HostAction
  <2>3. CASE DidEnd
    BY <2>1, <2>3 DEF DidEnd
  <2>4. CASE Tick
    BY <2>1, <2>4 DEF Tick
  <2>5. CASE AfterFrame
    BY <2>1, <2>5 DEF AfterFrame
  <2>6. CASE FrameUnwinds
    BY <2>1, <2>6, EmptyQueue DEF FrameUnwinds, detachedQueues
  <2>7. CASE DrainClose
    <3>1. step' \in [Threads -> StepType]
      <4>1. CASE frame.batch = <<>>
        BY <2>7, <4>1 DEF DrainClose
      <4>2. CASE frame.batch # <<>>
        <5>1. frame.batch \in Seq(Displays)
          BY FrameTypes
        <5>2. Head(frame.batch) \in Displays
          BY <4>2, <5>1
        <5>3. [Idle EXCEPT !.at = "close", !.display = Head(frame.batch)] \in StepType
          BY <5>2, StartTypes
        <5>4. step' = [step EXCEPT ![Main] =
                         [Idle EXCEPT !.at = "close", !.display = Head(frame.batch)]]
          BY <2>7, <4>2 DEF DrainClose
        <5> QED BY <1>0, <5>3, <5>4
      <4> QED BY <4>1, <4>2
    <3> QED BY <2>1, <2>7, <3>1 DEF DrainClose
  <2> QED BY <1>2, <2>2, <2>3, <2>4, <2>5, <2>6, <2>7 DEF HostStep
<1> QED BY <1>1, <1>2
-----------------------------------------------------------------------------
(* The observer of a live resize.                                           *)

(* The retain moves with the capture.                                       *)
LEMMA BalanceMoves ==
  ASSUME retains = [n \in HostWindows |-> IF captured = n THEN 1 ELSE 0],
         NEW w
  PROVE  Balance(captured, w) = [n \in HostWindows |-> IF w = n THEN 1 ELSE 0]
BY DEF Balance

(* What leaves the observer and the frame alone.                            *)
LEMMA ObserverStays ==
  ASSUME ObserverTypes, ObserverInv, UNCHANGED <<liveResizeVars, frame>>
  PROVE  ObserverTypes' /\ ObserverInv'
BY DEF ObserverTypes, ObserverInv, CallbackInv, liveResizeVars, hostVars, observerVars

(* A frame that only goes on from one part to the next, outside the start   *)
(* and the end of the callback.                                             *)
LEMMA FrameGoesOn ==
  ASSUME ObserverTypes, ObserverInv, UNCHANGED liveResizeVars,
         frame.at # "none", frame'.at # "none", frame'.by = frame.by
  PROVE  ObserverTypes' /\ ObserverInv'
BY DEF ObserverTypes, ObserverInv, CallbackInv, liveResizeVars, hostVars, observerVars

(* initEventPipe and closeEventPipe.                                        *)
LEMMA ObserverOfPipe ==
  ASSUME ObserverTypes, ObserverInv, NEW t \in Threads,
         initEventPipe(t) \/ closeEventPipe(t)
  PROVE  ObserverTypes' /\ ObserverInv'
<1>1. frame' = frame /\ UNCHANGED hostVars
  BY DEF initEventPipe, closeEventPipe
<1>2. StartObserver \/ StopObserver \/ UNCHANGED observerVars
  BY DEF initEventPipe, closeEventPipe, pipeVars
<1>3. CASE UNCHANGED observerVars
  BY <1>1, <1>3, ObserverStays DEF liveResizeVars
<1>4. CASE StartObserver
  BY <1>1, <1>4 DEF StartObserver, ObserverTypes, ObserverInv, CallbackInv, hostVars
<1>5. CASE StopObserver
  <2>1. CASE running
    BY <1>1, <1>5, <2>1 DEF StopObserver, disarm, ObserverTypes, ObserverInv, CallbackInv, hostVars
  <2>2. CASE ~running
    <3>1. retains' = [n \in HostWindows |-> IF captured' = n THEN 1 ELSE 0]
            /\ retains' \in [HostWindows -> Int]
      BY <1>5, <2>2, BalanceMoves DEF StopObserver, disarm, ObserverInv
    <3> QED BY <1>1, <1>5, <2>2, <3>1 DEF StopObserver, disarm, ObserverTypes, ObserverInv, CallbackInv, hostVars
  <2> QED BY <2>1, <2>2 DEF ObserverTypes
<1> QED BY <1>2, <1>3, <1>4, <1>5

(* A drag starts or ends, and the notification of its end arrives.          *)
LEMMA ObserverOfHost ==
  ASSUME LifecycleTypes, ObserverTypes, ObserverInv, HostAction \/ DidEnd
  PROVE  ObserverTypes' /\ ObserverInv'
<1>0. frame = NoFrame /\ ~running /\ ~pendingStop
  <2>1. frame = NoFrame
    BY DEF HostAction, DidEnd, RunLoop
  <2> QED BY <2>1 DEF NoFrame, ObserverInv, CallbackInv
<1>1. CASE HostAction /\ HostEnds
  BY <1>0, <1>1 DEF HostAction, HostEnds, ObserverTypes, ObserverInv, CallbackInv, observerVars
<1>2. ASSUME HostAction, NEW n \in HostWindows, HostStarts(n)
      PROVE  ObserverTypes' /\ ObserverInv'
  <2>1. n # NoWindow /\ frame' = frame
    BY <1>2, HostWindowsAssumption DEF HostAction
  <2>2. CASE registered
    <3>1. liveResizeWillStart(n) /\ hostDrag' = n /\ drags' = drags + 1 /\ endsDue' = endsDue
      BY <1>2, <2>2 DEF HostStarts
    <3>2. retains' = [m \in HostWindows |-> IF captured' = m THEN 1 ELSE 0]
            /\ retains' \in [HostWindows -> Int]
      BY <3>1, BalanceMoves DEF liveResizeWillStart, ObserverInv
    <3>3. /\ captured' = n /\ observer' \in BOOLEAN /\ blind' = ~observer'
          /\ UNCHANGED <<registered, running, pendingStop>>
      BY <3>1 DEF liveResizeWillStart, ObserverTypes
    <3>4. ObserverTypes'
      BY <3>1, <3>2, <3>3 DEF ObserverTypes
    <3>5. CallbackInv'
      BY <1>0, <2>1, <3>3 DEF CallbackInv, ObserverInv
    <3> QED BY <1>0, <2>1, <2>2, <3>1, <3>2, <3>3, <3>4, <3>5 DEF ObserverInv
  <2>3. CASE ~registered
    BY <1>0, <1>2, <2>1, <2>3 DEF HostStarts, ObserverTypes, ObserverInv, CallbackInv
  <2> QED BY <2>2, <2>3
<1>3. CASE DidEnd
  <2>1. /\ endsDue' = endsDue - 1 /\ endsDue > 0 /\ UNCHANGED <<hostDrag, drags>>
        /\ liveResizeDidEnd
        /\ IF observer /\ ~observer' THEN Present("end") ELSE frame' = frame
    BY <1>3 DEF DidEnd
  <2>2. endsDue' \in Nat
    BY <2>1 DEF ObserverTypes
  <2>3. \/ frame' = frame
        \/ frame'.at # "none" /\ frame'.by = "end"
    BY <2>1, FrameTypes
  <2>4. CASE UNCHANGED observerVars
    <3>1. frame' = frame
      BY <2>1, <2>4 DEF observerVars
    <3> QED BY <2>1, <2>2, <2>4, <3>1 DEF observerVars, ObserverTypes, ObserverInv, CallbackInv
  <2>5. CASE ~UNCHANGED observerVars
    <3>1. /\ registered /\ ~inLiveResize
          /\ observer' = FALSE /\ captured' = NoWindow
          /\ retains' = Balance(captured, NoWindow)
          /\ UNCHANGED <<pendingStop, registered, running, blind>>
      BY <1>0, <2>1, <2>5 DEF liveResizeDidEnd, endIsOfEarlierDrag, disarm
    <3>2. retains' = [m \in HostWindows |-> IF captured' = m THEN 1 ELSE 0]
            /\ retains' \in [HostWindows -> Int]
      BY <3>1, BalanceMoves DEF ObserverInv
    <3>3. hostDrag = NoWindow \/ blind
      BY <3>1 DEF inLiveResize, ObserverInv
    <3>4. ObserverTypes'
      BY <2>1, <2>2, <3>1, <3>2 DEF ObserverTypes
    <3>5. CallbackInv'
      BY <1>0, <2>3, <3>1 DEF CallbackInv, ObserverTypes, ObserverInv, NoFrame
    <3> QED BY <1>0, <2>1, <3>1, <3>2, <3>3, <3>4, <3>5 DEF ObserverInv, ObserverTypes
  <2> QED BY <2>4, <2>5
<1> QED BY <1>1, <1>2, <1>3 DEF HostAction

(* The callback.                                                            *)
LEMMA ObserverOfFrame ==
  ASSUME LifecycleTypes, PlacesInv, ObserverTypes, ObserverInv,
         Tick \/ FrameUnwinds \/ DrainClose \/ AfterFrame
  PROVE  ObserverTypes' /\ ObserverInv'
<1>1. CASE Tick
  <2>1. frame = NoFrame /\ CallbackBegins /\ UNCHANGED hostVars
          /\ frame'.at # "none" /\ frame'.by = "tick"
    BY <1>1, FrameTypes DEF Tick, RunLoop
  <2>2. ~pendingStop
    BY <2>1 DEF CallbackBegins, ObserverInv, CallbackInv, NoFrame
  <2> QED BY <2>1, <2>2 DEF CallbackBegins, hostVars, ObserverTypes, ObserverInv, CallbackInv
<1>2. CASE FrameUnwinds
  <2>1. frame.at # "none" /\ frame'.at # "none" /\ frame'.by = frame.by /\ UNCHANGED liveResizeVars
    BY <1>2, FrameSteps DEF FrameUnwinds, InPresent, HostStep
  <2> QED BY <2>1, FrameGoesOn
<1>3. CASE DrainClose
  <2>1. frame.at # "none" /\ frame'.at # "none" /\ frame'.by = frame.by /\ UNCHANGED liveResizeVars
    BY <1>3, FrameSteps DEF DrainClose, HostStep
  <2> QED BY <2>1, FrameGoesOn
<1>4. CASE AfterFrame
  <2>1. frame.at = "after" /\ UNCHANGED hostVars
    BY <1>4 DEF AfterFrame
  <2>2. CASE frame.by = "end" /\ frame' = NoFrame /\ UNCHANGED observerVars
    BY <2>1, <2>2 DEF hostVars, observerVars, ObserverTypes, ObserverInv, CallbackInv, NoFrame
  <2>3. ASSUME frame.by \in {"tick", "last"}, pendingStop, HonourStop, frame' = NoFrame
        PROVE  ObserverTypes' /\ ObserverInv'
    <3>1. retains' = [m \in HostWindows |-> IF captured' = m THEN 1 ELSE 0]
            /\ retains' \in [HostWindows -> Int]
      BY <2>3, BalanceMoves DEF HonourStop, ObserverInv
    <3>2. hostDrag = NoWindow \/ blind
      BY <2>3 DEF ObserverInv, CallbackInv
    <3> QED BY <2>1, <2>3, <3>1, <3>2 DEF HonourStop, hostVars, ObserverTypes, ObserverInv, CallbackInv, NoFrame
  <2>4. CASE frame.by = "tick" /\ ~pendingStop /\ ~inLiveResize /\ DragIsOver /\ Present("last")
    <3>1. running /\ (hostDrag = NoWindow \/ blind)
      BY <2>4 DEF ObserverInv, CallbackInv, inLiveResize
    <3>2. frame'.at # "none" /\ frame'.by = "last"
      BY <2>4, FrameTypes
    <3> QED BY <2>1, <2>4, <3>1, <3>2 DEF DragIsOver, disarm, hostVars, ObserverTypes, ObserverInv, CallbackInv
  <2>5. CASE frame.by = "tick" /\ ~pendingStop /\ inLiveResize /\ CallbackReturns /\ frame' = NoFrame
    BY <2>1, <2>5 DEF CallbackReturns, hostVars, ObserverTypes, ObserverInv, CallbackInv, NoFrame, inLiveResize
  <2>6. frame.by = "last" => pendingStop
    BY DEF ObserverInv, CallbackInv
  <2> QED BY <1>4, <2>2, <2>3, <2>4, <2>5, <2>6 DEF AfterFrame
<1> QED BY <1>1, <1>2, <1>3, <1>4
-----------------------------------------------------------------------------
(* The places of the displays.                                              *)

(* A thread's step with another display, or with none.                      *)
LEMMA SteppingMoves ==
  ASSUME LifecycleTypes, StepsApart, NEW t \in Threads, NEW s \in StepType,
         step' = [step EXCEPT ![t] = s],
         s.display = step[t].display \/ s.display \notin Stepping,
         s.display = NoDisplay <=> s = Idle, s.at = "idle" <=> s = Idle
  PROVE  /\ StepsApart'
         /\ Stepping' = (Stepping \ {step[t].display}) \union ({s.display} \ {NoDisplay})
<1>1. /\ step'[t] = s /\ \A u \in Threads \ {t} : step'[u] = step[u]
  BY DEF LifecycleTypes
<1> DEFINE all == Stepping
<1>2. \A u \in Threads : step[u].display # NoDisplay => step[u].display \in Stepping
  BY DEF Stepping
<1>3. ASSUME NEW u \in Threads \ {t}, step[u].display = s.display
      PROVE  s.display = NoDisplay
  <2>1. CASE s.display = step[t].display
    BY <1>3, <2>1 DEF StepsApart
  <2>2. CASE s.display \notin Stepping
    BY <1>2, <1>3, <2>2
  <2> QED BY <2>1, <2>2
<1>4. \A u, v \in Threads : u # v /\ step'[u].display = step'[v].display
                              => step'[u].display = NoDisplay
  <2> SUFFICES ASSUME NEW u \in Threads, NEW v \in Threads, u # v,
                      step'[u].display = step'[v].display
               PROVE  step'[u].display = NoDisplay
    OBVIOUS
  <2>1. CASE u = t
    BY <1>1, <1>3, <2>1
  <2>2. CASE v = t
    BY <1>1, <1>3, <2>2
  <2>3. CASE u # t /\ v # t
    BY <1>1, <2>3 DEF StepsApart
  <2> QED BY <2>1, <2>2, <2>3
<1>5. StepsApart'
  BY <1>1, <1>4 DEF StepsApart
<1>6. ASSUME NEW d
      PROVE  d \in Stepping' <=> \/ d \in Stepping /\ d # step[t].display
                                 \/ d = s.display /\ d # NoDisplay
  <2>1. d \in Stepping' <=> d # NoDisplay /\ \E u \in Threads : step'[u].display = d
    BY DEF Stepping
  <2>2. d \in Stepping <=> d # NoDisplay /\ \E u \in Threads : step[u].display = d
    BY DEF Stepping
  <2>3. ASSUME d # NoDisplay, NEW u \in Threads \ {t}, step[u].display = d
        PROVE  d # step[t].display
    BY <2>3 DEF StepsApart
  <2> HIDE DEF Stepping
  <2> QED BY <1>1, <2>1, <2>2, <2>3
<1> QED BY <1>5, <1>6

(* What an open does with its display: keep it, or free it.                 *)
LEMMA OpeningMoves ==
  ASSUME LifecycleTypes, NEW t \in Threads,
         OpenSdl(t) \/ OpenTtf(t) \/ OpenStorages(t)
  PROVE  /\ \/ KeepsOn(t) /\ freed' = freed
            \/ GivesUp(t)
         /\ step[t].at \in {"sdl", "ttf", "storages"}
         /\ UNCHANGED <<open, deferVars, frame>> /\ failures' >= failures
<1>1. \A w \in Stages : Goes(t, w) => \E s \in StepType :
         step' = [step EXCEPT ![t] = s] /\ s.at = w /\ s.display = step[t].display
  BY GoesTypes DEF LifecycleTypes
<1>2. \A what \in {"sdl", "ttf"} : Owning(t, what) => \E s \in StepType :
         /\ step' = [step EXCEPT ![t] = s] /\ s.at \in {"ttf", "storages"}
         /\ s.display = step[t].display
  BY OwningTypes DEF LifecycleTypes
<1>3. {"ttf", "storages", "++"} \subseteq Stages
  BY DEF Stages, Untracked
<1>4. failures \in Nat /\ (Fails => failures' >= failures) /\ failures >= failures
  BY DEF Fails, LifecycleTypes
<1>5. CASE OpenSdl(t)
  <2>1. /\ step[t].at = "sdl" /\ UNCHANGED <<open, deferVars, frame>>
        /\ \/ (Goes(t, "ttf") \/ Owning(t, "sdl")) /\ UNCHANGED <<freed, failures>>
           \/ GivesUp(t) /\ Fails
    BY <1>5 DEF OpenSdl
  <2> QED BY <1>1, <1>2, <1>3, <1>4, <2>1 DEF KeepsOn, Untracking
<1>6. CASE OpenTtf(t)
  <2>1. /\ step[t].at = "ttf" /\ UNCHANGED <<open, deferVars, frame>>
        /\ \/ (Goes(t, "storages") \/ Owning(t, "ttf")) /\ UNCHANGED <<freed, failures>>
           \/ GivesUp(t) /\ Fails
    BY <1>6 DEF OpenTtf
  <2> QED BY <1>1, <1>2, <1>3, <1>4, <2>1 DEF KeepsOn, Untracking
<1>7. CASE OpenStorages(t)
  <2>1. /\ step[t].at = "storages" /\ UNCHANGED <<open, deferVars, frame>>
        /\ \/ Goes(t, "++") /\ UNCHANGED <<freed, failures>>
           \/ GivesUp(t) /\ Fails
    BY <1>7 DEF OpenStorages
  <2> QED BY <1>1, <1>2, <1>3, <1>4, <2>1 DEF KeepsOn, Untracking
<1> QED BY <1>5, <1>6, <1>7

(* And the steps of GoingOn.                                                *)
LEMMA GoingOnMoves ==
  ASSUME LifecycleTypes, NEW t \in Threads,
         \/ Load(t) \/ Increment(t) \/ initEventPipe(t) \/ CloseScreen(t)
         \/ closeEventPipe(t) \/ CloseSdl(t) \/ Decrement(t)
  PROVE  /\ KeepsOn(t) /\ UNCHANGED <<open, freed, deferVars, frame>>
         /\ failures' >= failures
<1>1. failures \in Nat /\ (Fails => failures' >= failures) /\ failures >= failures
  BY DEF Fails, LifecycleTypes
<1>2. UNCHANGED <<open, freed, deferVars, frame>> /\ (failures' = failures \/ Fails)
  BY DEF Load, Increment, initEventPipe, CloseScreen, closeEventPipe, CloseSdl, Decrement
<1> QED BY <1>1, <1>2, GoingOn

(* A step that keeps its display leaves every display where it is.          *)
LEMMA PlacesKept ==
  ASSUME LifecycleTypes, PlacesInv, NEW t \in Threads, KeepsOn(t),
         UNCHANGED <<open, freed, deferVars, frame>>
  PROVE  PlacesInv' /\ Stepping' = Stepping
<1>1. PICK s \in StepType :
        /\ step' = [step EXCEPT ![t] = s] /\ s.at # "idle"
        /\ s.display = step[t].display
  BY DEF KeepsOn
<1>2. step[t].display \in Displays /\ NoDisplay \notin Displays
  BY StepDisplay, LifecycleAssumption DEF KeepsOn
<1>3. s # Idle /\ s.display # NoDisplay
  BY <1>1, <1>2 DEF Idle
<1>4. StepsApart' /\ Stepping' = (Stepping \ {step[t].display}) \union ({s.display} \ {NoDisplay})
  BY <1>1, <1>3, SteppingMoves DEF PlacesInv
<1>5. step[t].display \in Stepping
  BY <1>2 DEF Stepping
<1>6. Stepping' = Stepping
  BY <1>1, <1>2, <1>4, <1>5
<1>7. Gone' = Gone /\ PlacesApart'
  BY <1>6 DEF Gone, PlacesInv, PlacesApart, deferVars
<1> QED BY <1>4, <1>6, <1>7 DEF PlacesInv, OncePerQueue, deferVars

(* So does one in which no thread moves and no queue.                       *)
LEMMA PlacesStay ==
  ASSUME LifecycleTypes, PlacesInv,
         UNCHANGED <<step, open, freed, leaked, pending, fallback, frame.batch>>
  PROVE  PlacesInv' /\ Stepping' = Stepping
BY DEF PlacesInv, StepsApart, PlacesApart, OncePerQueue, Stepping, Gone

(* A thread's display is freed.                                             *)
LEMMA PlacesFree ==
  ASSUME LifecycleTypes, PlacesInv, NEW t \in Threads, step[t].at # "idle",
         step' = [step EXCEPT ![t] = Idle],
         freed' = [freed EXCEPT ![step[t].display] = @ + 1],
         UNCHANGED <<open, deferVars, frame>>
  PROVE  PlacesInv' /\ Stepping' = Stepping \ {step[t].display}
<1> DEFINE d == step[t].display
<1>1. d \in Displays /\ NoDisplay \notin Displays
  BY StepDisplay, LifecycleAssumption
<1>2. Idle \in StepType /\ Idle.at = "idle" /\ Idle.display = NoDisplay
  BY DEF Idle, StepType, Stages
<1>3. d \in Stepping /\ NoDisplay \notin Stepping
  BY <1>1 DEF Stepping
<1>4. StepsApart' /\ Stepping' = Stepping \ {d}
  BY <1>2, <1>3, SteppingMoves DEF PlacesInv
<1> HIDE DEF d
<1>5. d \notin Gone
  BY <1>3 DEF PlacesInv, PlacesApart
<1>6. freed \in [Displays -> Nat] /\ freed[d] = 0
  BY <1>1, <1>5 DEF Gone, LifecycleTypes
<1>7. freed' = [freed EXCEPT ![d] = 1]
  BY <1>1, <1>6 DEF d
<1>8. Gone' = Gone \union {d}
  BY <1>1, <1>6, <1>7 DEF Gone
<1>9. \A e \in Displays : freed'[e] <= 1
  BY <1>6, <1>7 DEF PlacesInv
<1>10. PlacesApart'
  BY <1>3, <1>4, <1>8 DEF PlacesInv, PlacesApart, deferVars
<1> QED BY <1>4, <1>9, <1>10 DEF PlacesInv, OncePerQueue, deferVars, d

(* What a thread's new step does to Stepping, for a display it takes.       *)
LEMMA SteppingTakes ==
  ASSUME LifecycleTypes, PlacesInv, NEW t \in Threads, step[t] = Idle,
         NEW d \in Displays, d \notin Stepping, NEW s \in StepType,
         s.display = d, s.at # "idle", step' = [step EXCEPT ![t] = s]
  PROVE  StepsApart' /\ Stepping' = Stepping \union {d}
<1>1. NoDisplay \notin Displays /\ Idle.display = NoDisplay /\ Idle.at = "idle"
  BY LifecycleAssumption DEF Idle
<1>2. s # Idle /\ d # NoDisplay
  BY <1>1
<1>3. NoDisplay \notin Stepping
  BY DEF Stepping
<1>4. /\ StepsApart /\ s.display \notin Stepping
      /\ s.display = NoDisplay <=> s = Idle
      /\ s.at = "idle" <=> s = Idle
  BY <1>1, <1>2 DEF PlacesInv
<1>5. /\ StepsApart'
      /\ Stepping' = (Stepping \ {step[t].display}) \union ({s.display} \ {NoDisplay})
  BY <1>4, SteppingMoves
<1> QED BY <1>1, <1>2, <1>3, <1>5

(* And for one it lets go.                                                  *)
LEMMA SteppingDrops ==
  ASSUME LifecycleTypes, PlacesInv, NEW t \in Threads, step[t].at # "idle",
         step' = [step EXCEPT ![t] = Idle]
  PROVE  /\ StepsApart' /\ Stepping' = Stepping \ {step[t].display}
         /\ step[t].display \in Stepping /\ step[t].display \in Displays
<1>1. step[t].display \in Displays /\ NoDisplay \notin Displays
  BY StepDisplay, LifecycleAssumption
<1>2. Idle \in StepType /\ Idle.at = "idle" /\ Idle.display = NoDisplay
  BY DEF Idle, StepType, Stages
<1>3. step[t].display \in Stepping /\ NoDisplay \notin Stepping
  BY <1>1 DEF Stepping
<1> QED BY <1>1, <1>2, <1>3, SteppingMoves DEF PlacesInv

(* XOpenDisplay takes an unused display.                                    *)
LEMMA XOpenDisplayTakes ==
  ASSUME LifecycleTypes, NEW t \in Threads, XOpenDisplay(t)
  PROVE  \E d \in Displays :
           /\ d \notin Stepping \union Gone \union open \union leaked
                  \union Range(pending) \union Range(fallback) \union Range(frame.batch)
           /\ step[t] = Idle
           /\ step' = [step EXCEPT ![t] =
                [Idle EXCEPT !.at = "sdl", !.display = d, !.opening = TRUE]]
<1> DEFINE d == CHOOSE any \in Unused : TRUE
<1>1. Unused # {} /\ step[t] = Idle
  BY DEF XOpenDisplay, ClientRuns
<1>2. d \in Unused
  BY <1>1
<1>3. step' = [step EXCEPT ![t] =
        [Idle EXCEPT !.at = "sdl", !.display = d, !.opening = TRUE]]
  BY DEF XOpenDisplay
<1>4. program.displays \subseteq Displays
  BY LifecycleAssumption DEF LifecycleTypes
<1> HIDE DEF d
<1> QED BY <1>1, <1>2, <1>3, <1>4 DEF Unused, Stepping, Gone

(* The fields of a new step.                                                *)
LEMMA StartFields ==
  ASSUME NEW d
  PROVE  /\ [Idle EXCEPT !.at = "sdl", !.display = d, !.opening = TRUE].display = d
         /\ [Idle EXCEPT !.at = "sdl", !.display = d, !.opening = TRUE].at = "sdl"
         /\ [Idle EXCEPT !.at = "sdl", !.display = d, !.opening = TRUE].owns = {}
         /\ [Idle EXCEPT !.at = "close", !.display = d].display = d
         /\ [Idle EXCEPT !.at = "close", !.display = d].at = "close"
BY DEF Idle

(* The places after XOpenDisplay.                                           *)
LEMMA PlacesOpen ==
  ASSUME LifecycleTypes, PlacesInv, NEW t \in Threads, XOpenDisplay(t)
  PROVE  PlacesInv'
<1>1. PICK d \in Displays :
        /\ d \notin Stepping \union Gone \union open \union leaked
               \union Range(pending) \union Range(fallback) \union Range(frame.batch)
        /\ step[t] = Idle
        /\ step' = [step EXCEPT ![t] =
             [Idle EXCEPT !.at = "sdl", !.display = d, !.opening = TRUE]]
  BY XOpenDisplayTakes
<1>2. StepsApart' /\ Stepping' = Stepping \union {d}
  <2> DEFINE s == [Idle EXCEPT !.at = "sdl", !.display = d, !.opening = TRUE]
  <2>1. s \in StepType /\ s.display = d /\ s.at # "idle"
    BY StartTypes, StartFields
  <2>2. step' = [step EXCEPT ![t] = s] /\ d \notin Stepping /\ step[t] = Idle
    BY <1>1
  <2> HIDE DEF s
  <2> QED BY <2>1, <2>2, SteppingTakes
<1>3. UNCHANGED <<open, freed, leaked, pending, fallback, frame>>
  BY DEF XOpenDisplay, deferVars
<1>4. Gone' = Gone
  BY <1>3 DEF Gone
<1>5. PlacesApart'
  BY <1>1, <1>2, <1>3, <1>4 DEF PlacesInv, PlacesApart
<1> QED BY <1>2, <1>3, <1>5 DEF PlacesInv, OncePerQueue

(* An open that ends well.                                                  *)
LEMMA PlacesOpened ==
  ASSUME LifecycleTypes, PlacesInv, NEW t \in Threads, OpenRest(t)
  PROVE  PlacesInv' /\ UNCHANGED <<freed, deferVars, frame>>
<1>1. step[t].at = "rest" /\ UNCHANGED <<freed, deferVars, frame>>
  BY DEF OpenRest
<1>2. CASE open' = open \union {step[t].display} /\ step' = [step EXCEPT ![t] = Idle]
  <2>1. /\ StepsApart' /\ Stepping' = Stepping \ {step[t].display}
        /\ step[t].display \in Stepping
    BY <1>1, <1>2, SteppingDrops
  <2>2. Gone' = Gone
    BY <1>1 DEF Gone
  <2>3. PlacesApart'
    BY <1>1, <1>2, <2>1, <2>2 DEF PlacesInv, PlacesApart, deferVars
  <2> QED BY <1>1, <2>1, <2>3 DEF PlacesInv, OncePerQueue, deferVars
<1>3. CASE Goes(t, "close") /\ open' = open
  <2>1. KeepsOn(t)
    <3>1. "close" \in Stages
      BY DEF Stages, Owing
    <3>2. \E s \in StepType : /\ step' = [step EXCEPT ![t] = s] /\ s.at = "close"
                              /\ s.display = step[t].display
      BY <1>3, <3>1, GoesTypes DEF LifecycleTypes
    <3> QED BY <1>1, <3>2 DEF KeepsOn, Untracking
  <2> QED BY <1>1, <1>3, <2>1, PlacesKept
<1> QED BY <1>2, <1>3 DEF OpenRest

(* A close the client asks for.                                             *)
LEMMA PlacesClose ==
  ASSUME LifecycleTypes, PlacesInv, NEW t \in Threads, XCloseDisplay(t)
  PROVE  PlacesInv'
<1>1. PICK d \in open : /\ open' = open \ {d}
                        /\ step' = [step EXCEPT ![t] = [Idle EXCEPT !.at = "close", !.display = d]]
  BY DEF XCloseDisplay
<1>2. step[t] = Idle /\ UNCHANGED <<freed, leaked, pending, fallback, frame>>
  BY DEF XCloseDisplay, ClientRuns, deferVars
<1>3. StepsApart' /\ Stepping' = Stepping \union {d}
  <2> DEFINE s == [Idle EXCEPT !.at = "close", !.display = d]
  <2>1. d \in Displays
    BY DEF LifecycleTypes
  <2>2. s \in StepType /\ s.display = d /\ s.at # "idle"
    BY <2>1, StartTypes, StartFields
  <2>3. step' = [step EXCEPT ![t] = s] /\ d \notin Stepping /\ step[t] = Idle
    BY <1>1, <1>2 DEF PlacesInv, PlacesApart
  <2> HIDE DEF s
  <2> QED BY <2>1, <2>2, <2>3, SteppingTakes
<1>4. Gone' = Gone
  BY <1>2 DEF Gone
<1>5. PlacesApart'
  BY <1>1, <1>2, <1>3, <1>4 DEF PlacesInv, PlacesApart
<1> QED BY <1>2, <1>3, <1>5 DEF PlacesInv, OncePerQueue

(* Where a deferred close goes.                                             *)
Queues(d) ==
  \/ /\ pending' = Append(pending, d) /\ Len(pending) < capacity'
     /\ UNCHANGED <<fallback, leaked>>
  \/ /\ fallback' = Append(fallback, d) /\ Len(fallback) < FallbackSlots
     /\ failures' = failures + 1 /\ UNCHANGED <<pending, leaked>>
  \/ /\ leaked' = leaked \union {d} /\ Len(fallback) >= FallbackSlots
     /\ failures' = failures + 1 /\ UNCHANGED <<pending, fallback>>

(* A deferred close goes to one of them, whatever fails.                   *)
LEMMA DeferCloseQueues ==
  ASSUME LifecycleTypes, FrameInv, NEW t \in Threads, DeferClose(t)
  PROVE  /\ Queues(step[t].display) /\ capacity' >= capacity
         /\ failures' >= failures /\ capacity' \in Nat
<1> DEFINE d == step[t].display
           full == Len(pending) = capacity
           grown == IF capacity = 0 THEN FirstCapacity ELSE 2 * capacity
<1>1. /\ capacity \in Nat /\ FirstCapacity \in Nat \ {0} /\ FallbackSlots \in Nat
      /\ Len(pending) \in Nat /\ Len(fallback) \in Nat /\ Len(pending) <= capacity
      /\ failures \in Nat
  BY LifecycleAssumption DEF LifecycleTypes, FrameInv
<1>2. grown \in Nat /\ grown > capacity
  BY <1>1
<1>3. \/ Queue(d, IF full THEN grown ELSE capacity) /\ failures' = failures
      \/ full /\ Fails /\ Queue(d, capacity)
  BY DEF DeferClose
<1> HIDE DEF d, grown
<1>4. CASE Queue(d, IF full THEN grown ELSE capacity) /\ failures' = failures
  <2> DEFINE room == IF full THEN grown ELSE capacity
  <2>1. room \in Nat /\ room >= capacity /\ Len(pending) < room
    BY <1>1, <1>2
  <2>2. Queue(d, room) /\ failures' = failures
    BY <1>4
  <2> HIDE DEF room
  <2> QED BY <1>1, <2>1, <2>2 DEF Queue, Queues, d
<1>5. CASE full /\ Fails /\ Queue(d, capacity)
  BY <1>1, <1>5 DEF Queue, Queues, Fails, d
<1> QED BY <1>3, <1>4, <1>5

(* A deferred close.                                                        *)
LEMMA PlacesDefer ==
  ASSUME LifecycleTypes, PlacesInv, FrameInv, NEW t \in Threads, DeferClose(t)
  PROVE  PlacesInv'
<1> DEFINE d == step[t].display
<1>1. /\ step[t].at # "idle" /\ step' = [step EXCEPT ![t] = Idle]
      /\ UNCHANGED <<freed, open, frame>>
  BY DEF DeferClose
<1>2. StepsApart' /\ Stepping' = Stepping \ {d} /\ d \in Stepping /\ d \in Displays
  BY <1>1, SteppingDrops
<1>3. Queues(d)
  BY DeferCloseQueues
<1>4. Gone' = Gone
  BY <1>1 DEF Gone
<1>5. pending \in Seq(Displays) /\ fallback \in Seq(Displays)
  BY DEF LifecycleTypes
<1>6. d \notin Range(pending) /\ d \notin Range(fallback)
  BY <1>2 DEF PlacesInv, PlacesApart
<1>7. /\ Range(Append(pending, d)) = Range(pending) \union {d}
      /\ Range(Append(fallback, d)) = Range(fallback) \union {d}
      /\ IsInjective(pending) => IsInjective(Append(pending, d))
      /\ IsInjective(fallback) => IsInjective(Append(fallback, d))
  BY <1>2, <1>5, <1>6, AppendQueue
<1> HIDE DEF d
<1>8. OncePerQueue'
  BY <1>1, <1>3, <1>7 DEF Queues, PlacesInv, OncePerQueue
<1>9. PlacesApart'
  <2>1. CASE pending' = Append(pending, d) /\ UNCHANGED <<fallback, leaked>>
    BY <1>1, <1>2, <1>4, <1>7, <2>1 DEF PlacesInv, PlacesApart
  <2>2. CASE fallback' = Append(fallback, d) /\ UNCHANGED <<pending, leaked>>
    BY <1>1, <1>2, <1>4, <1>7, <2>2 DEF PlacesInv, PlacesApart
  <2>3. CASE leaked' = leaked \union {d} /\ UNCHANGED <<pending, fallback>>
    BY <1>1, <1>2, <1>4, <2>3 DEF PlacesInv, PlacesApart
  <2> QED BY <1>3, <2>1, <2>2, <2>3 DEF Queues
<1> QED BY <1>1, <1>2, <1>8, <1>9 DEF PlacesInv

(* The end of a frame takes both queues.                                    *)
LEMMA PlacesUnwind ==
  ASSUME LifecycleTypes, PlacesInv, FrameInv, FrameUnwinds
  PROVE  PlacesInv' /\ Range(frame'.batch) = Range(pending) \union Range(fallback)
<1>1. /\ frame'.batch = pending \o fallback /\ pending' = <<>> /\ fallback' = <<>>
      /\ UNCHANGED <<step, open, freed, leaked>>
  BY FrameSteps DEF FrameUnwinds, HostStep, detachedQueues
<1>2. frame.batch = <<>>
  BY DEF FrameUnwinds, InPresent, FrameInv
<1>3. /\ Range(frame'.batch) = Range(pending) \union Range(fallback)
      /\ IsInjective(frame'.batch)
  <2>1. pending \in Seq(Displays) /\ fallback \in Seq(Displays)
    BY DEF LifecycleTypes
  <2>2. /\ IsInjective(pending) /\ IsInjective(fallback)
        /\ Range(pending) \intersect Range(fallback) = {}
    BY DEF PlacesInv, OncePerQueue, PlacesApart
  <2> QED BY <1>1, <2>1, <2>2, JoinQueues
<1>4. Range(pending') = {} /\ Range(fallback') = {}
        /\ IsInjective(pending') /\ IsInjective(fallback')
  BY <1>1, EmptyQueue
<1>5. Stepping' = Stepping /\ Gone' = Gone /\ StepsApart'
  BY <1>1 DEF Stepping, Gone, PlacesInv, StepsApart
<1>6. PlacesApart'
  BY <1>1, <1>3, <1>4, <1>5 DEF PlacesInv, PlacesApart
<1> QED BY <1>1, <1>3, <1>4, <1>5, <1>6 DEF PlacesInv, OncePerQueue

(* The drain takes the first of the batch, or is done.                      *)
LEMMA PlacesDrain ==
  ASSUME LifecycleTypes, PlacesInv, DrainClose
  PROVE  /\ PlacesInv'
         /\ \/ frame.batch = <<>> /\ frame'.batch = <<>> /\ step' = step
            \/ \E d \in Displays :
                 /\ d \in Range(frame.batch)
                 /\ Range(frame'.batch) = Range(frame.batch) \ {d}
                 /\ step' = [step EXCEPT ![Main] =
                               [Idle EXCEPT !.at = "close", !.display = d]]
<1>1. /\ UNCHANGED <<open, freed, leaked, pending, fallback>> /\ step[Main] = Idle
      /\ Main \in Threads
  BY LifecycleAssumption DEF DrainClose, deferVars
<1>2. CASE frame.batch = <<>>
  <2>1. step' = step /\ frame'.batch = frame.batch
    BY <1>2, FrameSteps DEF DrainClose, HostStep
  <2> QED BY <1>1, <1>2, <2>1, PlacesStay
<1>3. CASE frame.batch # <<>>
  <2> DEFINE d == Head(frame.batch)
  <2>1. /\ d \in Range(frame.batch) /\ d \in Displays
        /\ Range(Tail(frame.batch)) = Range(frame.batch) \ {d}
        /\ IsInjective(Tail(frame.batch))
    <3>1. frame.batch \in Seq(Displays) /\ IsInjective(frame.batch)
      BY FrameTypes DEF PlacesInv, OncePerQueue
    <3> QED BY <1>3, <3>1, TailQueue
  <2>2. frame'.batch = Tail(frame.batch)
    BY <1>3, FrameSteps DEF HostStep
  <2>3. step' = [step EXCEPT ![Main] = [Idle EXCEPT !.at = "close", !.display = d]]
    BY <1>3 DEF DrainClose
  <2>4. StepsApart' /\ Stepping' = Stepping \union {d}
    <3> DEFINE s == [Idle EXCEPT !.at = "close", !.display = d]
    <3>1. s \in StepType /\ s.display = d /\ s.at # "idle"
      BY <2>1, StartTypes, StartFields
    <3>2. step' = [step EXCEPT ![Main] = s] /\ d \notin Stepping
      BY <2>1, <2>3 DEF PlacesInv, PlacesApart
    <3> HIDE DEF s
    <3> QED BY <1>1, <2>1, <3>1, <3>2, SteppingTakes
  <2>5. Gone' = Gone
    BY <1>1 DEF Gone
  <2> HIDE DEF d
  <2>6. PlacesApart'
    BY <1>1, <2>1, <2>2, <2>4, <2>5 DEF PlacesInv, PlacesApart
  <2>7. PlacesInv'
    BY <1>1, <2>1, <2>2, <2>4, <2>6 DEF PlacesInv, OncePerQueue
  <2> QED BY <2>1, <2>2, <2>3, <2>7
<1> QED BY <1>2, <1>3
-----------------------------------------------------------------------------
(* Frames and the queues of deferred closes.                                *)

(* A step of a thread outside the queues and the frame.                     *)
LEMMA FrameStays ==
  ASSUME LifecycleTypes, FrameInv, NEW t \in Threads, NEW s \in StepType,
         step' = [step EXCEPT ![t] = s],
         failures' >= failures, UNCHANGED <<deferVars, frame>>, failures' \in Nat,
         InPresent => \/ s.at \notin {"unpipe"} \union Untracking
                      \/ step[t].at \in {"unpipe"} \union Untracking,
         frame.at = "after" => t # Main
  PROVE  FrameInv'
<1>1. Main \in Threads /\ FallbackSlots \in Nat
  BY LifecycleAssumption
<1>2. /\ t = Main => step'[Main] = s
      /\ t # Main => step'[Main] = step[Main]
  BY <1>1 DEF LifecycleTypes
<1>3. /\ failures \in Nat /\ Len(fallback) \in Nat
      /\ UNCHANGED <<pending, fallback, capacity, leaked, frame, InPresent>>
  BY DEF LifecycleTypes, deferVars, InPresent
<1>4. (InPresent => step[Main].at \notin {"unpipe"} \union Untracking)'
  BY <1>2, <1>3 DEF FrameInv
<1>5. (frame.at = "after" => step[Main] = Idle)'
  BY <1>2, <1>3 DEF FrameInv
<1> QED BY <1>1, <1>3, <1>4, <1>5 DEF FrameInv

(* The steps of an open and of a close, but the deferred one.               *)
LEMMA FrameOfThread ==
  ASSUME LifecycleTypes, LifecycleTypes', PlacesInv, FrameInv, NEW t \in Threads,
         \/ XOpenDisplay(t) \/ OpenSdl(t) \/ OpenTtf(t) \/ OpenStorages(t)
         \/ Load(t) \/ Increment(t) \/ initEventPipe(t) \/ OpenRest(t)
         \/ XCloseDisplay(t) \/ CloseScreen(t)
         \/ closeEventPipe(t) \/ CloseSdl(t) \/ Decrement(t) \/ FreeDisplay(t)
  PROVE  FrameInv'
<1>1. failures' \in Nat /\ failures \in Nat
  BY DEF LifecycleTypes
<1>2. Idle.at = "idle" /\ Idle \in StepType
  BY DEF Idle, StepType, Stages
<1>3. frame.at = "after" => step[Main].at = "idle"
  BY <1>2 DEF FrameInv
<1>4. ASSUME KeepsOn(t), UNCHANGED <<deferVars, frame>>, failures' >= failures
      PROVE  FrameInv'
  BY <1>1, <1>3, <1>4, FrameStays DEF KeepsOn
<1>5. ASSUME step' = [step EXCEPT ![t] = Idle], UNCHANGED <<deferVars, frame>>,
             failures' >= failures, step[t].at # "idle"
      PROVE  FrameInv'
  BY <1>1, <1>2, <1>3, <1>5, FrameStays DEF Untracking
<1>6. ASSUME ClientRuns(t), NEW s \in StepType, s.at \in {"sdl", "close"},
             step' = [step EXCEPT ![t] = s],
             UNCHANGED <<deferVars, frame>>, failures' >= failures
      PROVE  FrameInv'
  <2>1. frame.at # "after"
    BY <1>6 DEF ClientRuns, InPresent, NoFrame
  <2> QED BY <1>1, <1>6, <2>1, FrameStays DEF Untracking
<1>7. CASE XOpenDisplay(t)
  <2>1. PICK d \in Displays : step' = [step EXCEPT ![t] =
             [Idle EXCEPT !.at = "sdl", !.display = d, !.opening = TRUE]]
    BY <1>7, XOpenDisplayTakes
  <2>2. ClientRuns(t) /\ UNCHANGED <<deferVars, frame>> /\ failures' >= failures
    BY <1>1, <1>7 DEF XOpenDisplay
  <2> DEFINE s == [Idle EXCEPT !.at = "sdl", !.display = d, !.opening = TRUE]
  <2>3. s \in StepType /\ s.at = "sdl"
    BY StartTypes, StartFields
  <2> HIDE DEF s
  <2>4. step' = [step EXCEPT ![t] = s]
    BY <2>1 DEF s
  <2> QED BY <1>6, <2>2, <2>3, <2>4
<1>8. CASE XCloseDisplay(t)
  <2>1. PICK d \in open : step' = [step EXCEPT ![t] = [Idle EXCEPT !.at = "close", !.display = d]]
    BY <1>8 DEF XCloseDisplay
  <2>2. d \in Displays
    BY DEF LifecycleTypes
  <2>3. ClientRuns(t) /\ UNCHANGED <<deferVars, frame>> /\ failures' >= failures
    <3>1. ClientRuns(t) /\ UNCHANGED <<deferVars, frame>> /\ failures' = failures
      BY <1>8 DEF XCloseDisplay
    <3> QED BY <1>1, <3>1
  <2> DEFINE s == [Idle EXCEPT !.at = "close", !.display = d]
  <2>4. s \in StepType /\ s.at = "close"
    BY <2>2, StartTypes, StartFields
  <2> HIDE DEF s
  <2>5. step' = [step EXCEPT ![t] = s]
    BY <2>1 DEF s
  <2> QED BY <1>6, <2>3, <2>4, <2>5
<1>9. CASE OpenSdl(t) \/ OpenTtf(t) \/ OpenStorages(t)
  BY <1>4, <1>5, <1>9, OpeningMoves DEF GivesUp
<1>10. CASE \/ Load(t) \/ Increment(t) \/ initEventPipe(t) \/ CloseScreen(t)
            \/ closeEventPipe(t) \/ CloseSdl(t) \/ Decrement(t)
  BY <1>4, <1>10, GoingOnMoves
<1>11. CASE OpenRest(t)
  <2>1. step[t].at = "rest" /\ UNCHANGED <<deferVars, frame>> /\ failures' >= failures
    <3>1. step[t].at = "rest" /\ UNCHANGED <<deferVars, frame>>
            /\ (failures' = failures \/ Fails)
      BY <1>11 DEF OpenRest
    <3> QED BY <1>1, <3>1 DEF Fails
  <2>2. CASE step' = [step EXCEPT ![t] = Idle]
    BY <1>5, <2>1, <2>2
  <2>3. CASE Goes(t, "close")
    <3>1. "close" \in Stages
      BY DEF Stages, Owing
    <3>2. \E s \in StepType : /\ step' = [step EXCEPT ![t] = s] /\ s.at = "close"
                              /\ s.display = step[t].display
      BY <2>3, <3>1, GoesTypes DEF LifecycleTypes
    <3>3. KeepsOn(t)
      BY <2>1, <3>2 DEF KeepsOn, Untracking
    <3> QED BY <1>4, <2>1, <3>3
  <2> QED BY <1>11, <2>2, <2>3 DEF OpenRest
<1>12. CASE FreeDisplay(t)
  BY <1>1, <1>5, <1>12 DEF FreeDisplay
<1> QED BY <1>7, <1>8, <1>9, <1>10, <1>11, <1>12

(* The deferred close.                                                      *)
LEMMA FrameOfDefer ==
  ASSUME LifecycleTypes, LifecycleTypes', PlacesInv, FrameInv, NEW t \in Threads,
         DeferClose(t)
  PROVE  FrameInv'
<1>1. /\ Queues(step[t].display) /\ capacity' >= capacity
      /\ failures' >= failures /\ capacity' \in Nat /\ capacity \in Nat
      /\ failures \in Nat /\ failures' \in Nat /\ FallbackSlots \in Nat /\ Main \in Threads
  BY DeferCloseQueues, LifecycleAssumption DEF LifecycleTypes
<1>2. /\ InPresent /\ step' = [step EXCEPT ![t] = Idle] /\ frame' = frame
      /\ step[t].at # "idle"
  BY DEF DeferClose, mustDefer
<1>3. step[t].display \in Displays
  BY <1>2, StepDisplay
<1>4. /\ Len(Append(pending, step[t].display)) = Len(pending) + 1
      /\ Len(Append(fallback, step[t].display)) = Len(fallback) + 1
      /\ Len(pending) \in Nat /\ Len(fallback) \in Nat
  BY <1>3, AppendQueue DEF LifecycleTypes
<1>5. step'[Main].at \in {"idle", step[Main].at} /\ frame.at = "present"
  BY <1>1, <1>2 DEF Idle, LifecycleTypes, InPresent
<1>6. (InPresent => step[Main].at \notin {"unpipe"} \union Untracking)'
  BY <1>2, <1>5 DEF FrameInv, Untracking
<1>7. /\ Len(pending') <= capacity'
      /\ Len(fallback') <= FallbackSlots /\ Len(fallback') <= failures'
      /\ leaked' # {} => failures' > FallbackSlots
  <2> HIDE DEF LifecycleTypes
  <2>1. CASE pending' = Append(pending, step[t].display) /\ Len(pending) < capacity'
               /\ UNCHANGED <<fallback, leaked>>
    BY <1>1, <1>4, <2>1 DEF FrameInv
  <2>2. CASE fallback' = Append(fallback, step[t].display) /\ Len(fallback) < FallbackSlots
               /\ failures' = failures + 1 /\ UNCHANGED <<pending, leaked>>
    BY <1>1, <1>4, <2>2 DEF FrameInv
  <2>3. CASE leaked' = leaked \union {step[t].display} /\ Len(fallback) >= FallbackSlots
               /\ failures' = failures + 1 /\ UNCHANGED <<pending, fallback>>
    BY <1>1, <1>4, <2>3 DEF FrameInv
  <2> QED BY <1>1, <2>1, <2>2, <2>3 DEF Queues
<1> QED BY <1>2, <1>5, <1>6, <1>7 DEF FrameInv, InPresent

(* The steps of the host and of the callback, and an event filter.          *)
LEMMA FrameOfHost ==
  ASSUME LifecycleTypes, PlacesInv, FrameInv, SetEventFilter \/ HostStep
  PROVE  FrameInv'
<1>1. Main \in Threads /\ NoFrame.at = "none" /\ NoFrame.batch = <<>>
        /\ Idle.at = "idle"
  BY LifecycleAssumption DEF NoFrame, Idle
<1>2. ASSUME UNCHANGED <<step, deferVars, failures>>, frame' = frame
      PROVE  FrameInv'
  BY <1>2 DEF FrameInv, deferVars, InPresent
<1>3. ASSUME UNCHANGED <<step, deferVars, failures>>, step[Main] = Idle,
             frame.at # "present", frame'.batch = <<>>
      PROVE  FrameInv'
  BY <1>1, <1>3 DEF FrameInv, deferVars, InPresent, Untracking
<1>4. CASE SetEventFilter \/ HostAction
  BY <1>2, <1>4 DEF SetEventFilter, HostAction, libraryVars
<1>5. CASE DidEnd \/ Tick
  <2>1. UNCHANGED <<step, deferVars, failures>> /\ step[Main] = Idle /\ frame = NoFrame
    BY <1>5 DEF DidEnd, Tick, RunLoop, libraryVars
  <2>2. frame' = frame \/ \E by \in {"tick", "end", "last"} : Present(by)
    BY <1>5 DEF DidEnd, Tick
  <2> QED BY <1>1, <1>3, <2>1, <2>2, FrameTypes
<1>6. CASE AfterFrame
  <2>1. UNCHANGED <<step, deferVars, failures>> /\ step[Main] = Idle /\ frame.at = "after"
    BY <1>6 DEF AfterFrame, libraryVars, FrameInv
  <2>2. frame' = NoFrame \/ Present("last")
    BY <1>6 DEF AfterFrame
  <2> QED BY <1>1, <1>3, <2>1, <2>2, FrameTypes
<1>7. CASE FrameUnwinds
  <2>1. /\ frame'.at = "drain" /\ pending' = <<>> /\ fallback' = <<>> /\ capacity' = 0
        /\ UNCHANGED <<step, leaked, failures>>
    BY <1>7, FrameSteps DEF FrameUnwinds, HostStep, detachedQueues
  <2>2. Len(<<>>) = 0 /\ failures \in Nat /\ FallbackSlots \in Nat
    BY LifecycleAssumption DEF LifecycleTypes
  <2> QED BY <2>1, <2>2 DEF FrameInv, InPresent
<1>8. CASE DrainClose
  <2>1. /\ UNCHANGED <<deferVars, failures>> /\ step[Main] = Idle /\ frame.at = "drain"
        /\ IF frame.batch = <<>>
             THEN frame'.at = "after" /\ frame'.batch = <<>> /\ step' = step
             ELSE frame'.at = "drain"
    BY <1>8, FrameSteps DEF DrainClose, HostStep
  <2> QED BY <2>1 DEF FrameInv, InPresent, deferVars
<1> QED BY <1>4, <1>5, <1>6, <1>7, <1>8 DEF HostStep
-----------------------------------------------------------------------------
(* The pipe that the displays share.                                        *)

(* The displays that the other threads close, or open.                      *)
OthersClosing(t) == {step[u].display : u \in {v \in Threads \ {t} : step[v].at \in Owing}}
OthersResting(t) == {step[u].display : u \in {v \in Threads \ {t} : step[v].at = "rest"}}
Just(condition, d) == IF condition THEN {d} ELSE {}

(* A step of a thread changes what it closes and opens.                     *)
LEMMA StepSets ==
  ASSUME LifecycleTypes, NEW t \in Threads, NEW s \in StepType,
         step' = [step EXCEPT ![t] = s]
  PROVE  /\ Closing = OthersClosing(t) \union Just(step[t].at \in Owing, step[t].display)
         /\ Closing' = OthersClosing(t) \union Just(s.at \in Owing, s.display)
         /\ Resting = OthersResting(t) \union Just(step[t].at = "rest", step[t].display)
         /\ Resting' = OthersResting(t) \union Just(s.at = "rest", s.display)
<1>1. /\ step'[t] = s /\ \A u \in Threads \ {t} : step'[u] = step[u]
  BY DEF LifecycleTypes
<1>2. \A d : d \in OthersClosing(t) <=>
        \E u \in Threads \ {t} : step[u].at \in Owing /\ step[u].display = d
  BY DEF OthersClosing
<1>3. \A d : d \in OthersResting(t) <=>
        \E u \in Threads \ {t} : step[u].at = "rest" /\ step[u].display = d
  BY DEF OthersResting
<1>4. /\ \A d : d \in Closing <=> \E u \in Threads : step[u].at \in Owing /\ step[u].display = d
      /\ \A d : d \in Closing' <=> \E u \in Threads : step'[u].at \in Owing /\ step'[u].display = d
      /\ \A d : d \in Resting <=> \E u \in Threads : step[u].at = "rest" /\ step[u].display = d
      /\ \A d : d \in Resting' <=> \E u \in Threads : step'[u].at = "rest" /\ step'[u].display = d
  BY DEF Closing, Resting
<1>5. Closing = OthersClosing(t) \union Just(step[t].at \in Owing, step[t].display)
  <2> HIDE DEF Owing
  <2> QED BY <1>2, <1>4 DEF Just
<1>6. Closing' = OthersClosing(t) \union Just(s.at \in Owing, s.display)
  BY <1>1, <1>2, <1>4 DEF Just
<1>7. Resting = OthersResting(t) \union Just(step[t].at = "rest", step[t].display)
  BY <1>3, <1>4 DEF Just
<1>8. Resting' = OthersResting(t) \union Just(s.at = "rest", s.display)
  BY <1>1, <1>3, <1>4 DEF Just
<1> QED BY <1>5, <1>6, <1>7, <1>8

(* What leaves the pipe alone.                                              *)
LEMMA PipeStays ==
  ASSUME PipeInv,
         UNCHANGED <<trackedDisplays, pipe, locks, xtWakeTimer, registered>>,
         filter' \in {filter, Foreign},
         Owed \subseteq Owed',
         open \union Owed \union Resting \subseteq open' \union Owed' \union Resting',
         open' \union Resting' \subseteq Range(trackedDisplays)
  PROVE  PipeInv'
<1>1. Foreign # NoDisplay
  BY LifecycleAssumption
<1> QED BY <1>1 DEF PipeInv

(* The steps of a thread that change neither what it opens nor what it      *)
(* closes.                                                                  *)
LEMMA PipeOfEarlyAndLate ==
  ASSUME LifecycleTypes, PipeInv, NEW t \in Threads,
         \/ XOpenDisplay(t) \/ OpenSdl(t) \/ OpenTtf(t) \/ OpenStorages(t)
         \/ Load(t) \/ Increment(t) \/ CloseSdl(t) \/ Decrement(t) \/ FreeDisplay(t)
  PROVE  PipeInv'
<1>1. ASSUME NEW s \in StepType, step' = [step EXCEPT ![t] = s],
             step[t].at \notin Owing \union {"rest"}, s.at \notin Owing \union {"rest"}
      PROVE  Closing' = Closing /\ Resting' = Resting
  BY <1>1, StepSets DEF Just
<1>2. Idle \in StepType /\ Idle.at = "idle"
  BY DEF Idle, StepType, Stages
<1>3. {"ttf", "storages", "++", "pipe", "--", "free"} \subseteq Stages
  BY DEF Stages, Untracked, Untracking
<1>4. \A w \in Stages : Goes(t, w) => \E s \in StepType :
         step' = [step EXCEPT ![t] = s] /\ s.at = w
  BY GoesTypes DEF LifecycleTypes
<1>5. \A what \in {"sdl", "ttf"} : Owning(t, what) => \E s \in StepType :
         step' = [step EXCEPT ![t] = s] /\ s.at \in {"ttf", "storages"}
  BY OwningTypes DEF LifecycleTypes
<1>6. step[t].at \notin Owing \union {"rest"} /\ \E s \in StepType :
         step' = [step EXCEPT ![t] = s] /\ s.at \notin Owing \union {"rest"}
  <2>1. CASE XOpenDisplay(t)
    <3>1. PICK d \in Displays : /\ step[t] = Idle
            /\ step' = [step EXCEPT ![t] =
                          [Idle EXCEPT !.at = "sdl", !.display = d, !.opening = TRUE]]
      BY <2>1, XOpenDisplayTakes
    <3> DEFINE s == [Idle EXCEPT !.at = "sdl", !.display = d, !.opening = TRUE]
    <3>2. s \in StepType /\ s.at = "sdl"
      BY StartTypes, StartFields
    <3> HIDE DEF s
    <3>3. step' = [step EXCEPT ![t] = s]
      BY <3>1 DEF s
    <3> QED BY <1>2, <3>1, <3>2, <3>3 DEF Owing
  <2>2. CASE OpenSdl(t)
    <3>1. step[t].at = "sdl" /\ (GivesUp(t) \/ Owning(t, "sdl") \/ Goes(t, "ttf"))
      BY <2>2 DEF OpenSdl
    <3> QED BY <1>2, <1>3, <1>4, <1>5, <3>1 DEF GivesUp, Owing
  <2>3. CASE OpenTtf(t)
    <3>1. step[t].at = "ttf" /\ (GivesUp(t) \/ Owning(t, "ttf") \/ Goes(t, "storages"))
      BY <2>3 DEF OpenTtf
    <3> QED BY <1>2, <1>3, <1>4, <1>5, <3>1 DEF GivesUp, Owing
  <2>4. CASE OpenStorages(t)
    <3>1. step[t].at = "storages" /\ (GivesUp(t) \/ Goes(t, "++"))
      BY <2>4 DEF OpenStorages
    <3> QED BY <1>2, <1>3, <1>4, <3>1 DEF GivesUp, Owing
  <2>5. CASE Load(t)
    <3>1. step[t].at \in {"++", "--"}
      BY <2>5 DEF Load
    <3>2. \E s \in StepType : /\ step' = [step EXCEPT ![t] = s]
             /\ s.at = IF step[t].at = "++" THEN "+=" ELSE "-="
      BY <2>5, LoadTypes DEF LifecycleTypes
    <3> QED BY <3>1, <3>2 DEF Owing
  <2>6. CASE Increment(t)
    <3>1. step[t].at = "+=" /\ Goes(t, "pipe")
      BY <2>6 DEF Increment
    <3> QED BY <1>3, <1>4, <3>1 DEF Owing
  <2>7. CASE CloseSdl(t)
    <3>1. step[t].at = "quit" /\ (Goes(t, "--") \/ Goes(t, "free"))
      BY <2>7 DEF CloseSdl
    <3> QED BY <1>3, <1>4, <3>1 DEF Owing
  <2>8. CASE Decrement(t)
    <3>1. step[t].at = "-=" /\ Goes(t, "free")
      BY <2>8 DEF Decrement
    <3> QED BY <1>3, <1>4, <3>1 DEF Owing
  <2>9. CASE FreeDisplay(t)
    BY <1>2, <2>9 DEF FreeDisplay, Owing
  <2> QED BY <2>1, <2>2, <2>3, <2>4, <2>5, <2>6, <2>7, <2>8, <2>9
<1>7. Closing' = Closing /\ Resting' = Resting
  BY <1>1, <1>6
<1>8. UNCHANGED <<pipeVars, registered, open, deferVars, frame>>
  BY DEF XOpenDisplay, OpenSdl, OpenTtf, OpenStorages, Load, Increment, CloseSdl,
         Decrement, FreeDisplay, liveResizeVars, observerVars
<1>9. Waiting' = Waiting
  BY <1>8 DEF Waiting, deferVars
<1>10. Owed' = Owed
  BY <1>7, <1>9 DEF Owed
<1>11. open' \union Resting' \subseteq Range(trackedDisplays)
  BY <1>7, <1>8 DEF PipeInv
<1> QED BY <1>7, <1>8, <1>10, <1>11, PipeStays DEF pipeVars

(* The end of an open, and the closes.                                      *)
LEMMA PipeOfOpenRest ==
  ASSUME LifecycleTypes, PipeInv, NEW t \in Threads, OpenRest(t)
  PROVE  PipeInv'
<1>1. /\ step[t].at = "rest"
      /\ UNCHANGED <<trackedDisplays, pipe, locks, xtWakeTimer, registered, filter,
                     deferVars, frame>>
  BY DEF OpenRest, pipeVars, liveResizeVars, observerVars
<1>2. \/ open' = open \union {step[t].display} /\ step' = [step EXCEPT ![t] = Idle]
      \/ open' = open /\ Goes(t, "close")
  BY DEF OpenRest
<1>3. Waiting' = Waiting
  BY <1>1 DEF Waiting, deferVars
<1>4. PICK s \in StepType :
        /\ step' = [step EXCEPT ![t] = s] /\ s.at \in {"idle", "close"}
        /\ s.at = "close" => s.display = step[t].display /\ open' = open
        /\ s.at = "idle" => open' = open \union {step[t].display}
  <2>1. Idle \in StepType /\ Idle.at = "idle" /\ "close" \in Stages
    BY DEF Idle, StepType, Stages, Owing
  <2>2. Goes(t, "close") => \E s \in StepType :
          step' = [step EXCEPT ![t] = s] /\ s.at = "close" /\ s.display = step[t].display
    BY <2>1, GoesTypes DEF LifecycleTypes
  <2> QED BY <1>2, <2>1, <2>2
<1>5. /\ Closing' = Closing \union Just(s.at = "close", step[t].display)
      /\ Resting = OthersResting(t) \union {step[t].display}
      /\ Resting' = OthersResting(t)
  <2>1. /\ Closing = OthersClosing(t) \union Just(step[t].at \in Owing, step[t].display)
        /\ Closing' = OthersClosing(t) \union Just(s.at \in Owing, s.display)
        /\ Resting = OthersResting(t) \union Just(step[t].at = "rest", step[t].display)
        /\ Resting' = OthersResting(t) \union Just(s.at = "rest", s.display)
    BY <1>4, StepSets
  <2> QED BY <1>1, <1>4, <2>1 DEF Just, Owing
<1>6. open' \union Resting' \subseteq Range(trackedDisplays)
  BY <1>4, <1>5 DEF PipeInv
<1>7. Owed \subseteq Owed'
  BY <1>3, <1>5 DEF Owed
<1>8. open \union Owed \union Resting \subseteq open' \union Owed' \union Resting'
  BY <1>3, <1>4, <1>5 DEF Owed, Just
<1> QED BY <1>1, <1>6, <1>7, <1>8, PipeStays

(* The client's close.                                                      *)
LEMMA PipeOfXClose ==
  ASSUME LifecycleTypes, PipeInv, NEW t \in Threads, XCloseDisplay(t)
  PROVE  PipeInv'
<1>1. PICK d \in open : /\ open' = open \ {d}
                        /\ step' = [step EXCEPT ![t] = [Idle EXCEPT !.at = "close", !.display = d]]
  BY DEF XCloseDisplay
<1>2. /\ step[t].at = "idle"
      /\ UNCHANGED <<trackedDisplays, pipe, locks, xtWakeTimer, registered, filter,
                     deferVars, frame>>
  BY DEF XCloseDisplay, ClientRuns, pipeVars, liveResizeVars, observerVars, Idle
<1>3. Waiting' = Waiting
  BY <1>2 DEF Waiting, deferVars
<1>4. Closing' = Closing \union {d} /\ Resting' = Resting
  <2> DEFINE s == [Idle EXCEPT !.at = "close", !.display = d]
  <2>1. s \in StepType /\ s.at = "close" /\ s.display = d
    <3>1. d \in Displays
      BY DEF LifecycleTypes
    <3> QED BY <3>1, StartTypes, StartFields
  <2>2. step' = [step EXCEPT ![t] = s]
    BY <1>1
  <2> HIDE DEF s
  <2> QED BY <1>2, <2>1, <2>2, StepSets DEF Just, Owing
<1>5. open' \union Resting' \subseteq Range(trackedDisplays)
  BY <1>1, <1>4 DEF PipeInv
<1>6. Owed \subseteq Owed' /\ open \union Owed \subseteq open' \union Owed'
  BY <1>1, <1>3, <1>4 DEF Owed
<1> QED BY <1>2, <1>4, <1>5, <1>6, PipeStays

(* A close that waits is still owed.                                        *)
LEMMA PipeOfDefer ==
  ASSUME LifecycleTypes, PlacesInv, FrameInv, PipeInv, NEW t \in Threads, DeferClose(t)
  PROVE  PipeInv'
<1> DEFINE d == step[t].display
<1>1. /\ step[t].at = "close" /\ step' = [step EXCEPT ![t] = Idle]
      /\ UNCHANGED <<trackedDisplays, pipe, locks, xtWakeTimer, registered, filter,
                     open, frame>>
  BY DEF DeferClose, pipeVars, liveResizeVars, observerVars
<1>2. d \in Displays
  BY <1>1, StepDisplay
<1>3. Idle \in StepType /\ Idle.at = "idle"
  BY DEF Idle, StepType, Stages
<1>4. /\ Closing = OthersClosing(t) \union {d} /\ Closing' = OthersClosing(t)
      /\ Resting' = Resting
  <2>1. /\ Closing = OthersClosing(t) \union Just(step[t].at \in Owing, d)
        /\ Closing' = OthersClosing(t) \union Just(Idle.at \in Owing, Idle.display)
        /\ Resting = OthersResting(t) \union Just(step[t].at = "rest", d)
        /\ Resting' = OthersResting(t) \union Just(Idle.at = "rest", Idle.display)
    BY <1>1, <1>3, StepSets
  <2> HIDE DEF d
  <2> QED BY <1>1, <1>3, <2>1 DEF Just, Owing
<1>5. Range(Append(pending, d)) = Range(pending) \union {d}
        /\ Range(Append(fallback, d)) = Range(fallback) \union {d}
  BY <1>2, AppendQueue DEF LifecycleTypes
<1>6. Queues(d)
  BY DeferCloseQueues
<1> HIDE DEF d
<1>7. Waiting' = Waiting \union {d}
  BY <1>1, <1>5, <1>6 DEF Waiting, Queues
<1>8. Owed' = Owed
  BY <1>4, <1>7 DEF Owed
<1>9. open' \union Resting' \subseteq Range(trackedDisplays)
  BY <1>1, <1>4 DEF PipeInv
<1> QED BY <1>1, <1>4, <1>8, <1>9, PipeStays

(* So is one that goes on to the pipe.                                      *)
LEMMA PipeOfCloseScreen ==
  ASSUME LifecycleTypes, PipeInv, NEW t \in Threads, CloseScreen(t)
  PROVE  PipeInv'
<1>1. /\ step[t].at = "close" /\ Goes(t, "unpipe")
      /\ UNCHANGED <<trackedDisplays, pipe, locks, xtWakeTimer, registered, filter,
                     open, deferVars, frame>>
  BY DEF CloseScreen, pipeVars, liveResizeVars, observerVars
<1>2. PICK s \in StepType : /\ step' = [step EXCEPT ![t] = s] /\ s.at = "unpipe"
                            /\ s.display = step[t].display
  <2>1. "unpipe" \in Stages
    BY DEF Stages, Owing
  <2> QED BY <1>1, <2>1, GoesTypes DEF LifecycleTypes
<1>3. Closing' = Closing /\ Resting' = Resting
  <2>1. /\ Closing = OthersClosing(t) \union Just(step[t].at \in Owing, step[t].display)
        /\ Closing' = OthersClosing(t) \union Just(s.at \in Owing, s.display)
        /\ Resting = OthersResting(t) \union Just(step[t].at = "rest", step[t].display)
        /\ Resting' = OthersResting(t) \union Just(s.at = "rest", s.display)
    BY <1>2, StepSets
  <2> QED BY <1>1, <1>2, <2>1 DEF Just, Owing
<1>4. Waiting' = Waiting
  BY <1>1 DEF Waiting, deferVars
<1>5. Owed' = Owed /\ open' \union Resting' \subseteq Range(trackedDisplays)
  BY <1>1, <1>3, <1>4 DEF Owed, PipeInv
<1> QED BY <1>1, <1>3, <1>5, PipeStays

(* The frame and its drain, the host and an event filter.                   *)
LEMMA PipeOfHost ==
  ASSUME LifecycleTypes, PlacesInv, FrameInv, PipeInv, SetEventFilter \/ HostStep
  PROVE  PipeInv'
<1>1. /\ UNCHANGED <<trackedDisplays, pipe, locks, xtWakeTimer, registered, open>>
      /\ filter' \in {filter, Foreign}
  <2>1. CASE SetEventFilter
    BY <2>1 DEF SetEventFilter, liveResizeVars, observerVars
  <2>2. CASE HostAction
    BY <2>2 DEF HostAction, libraryVars, pipeVars, HostEnds, HostStarts,
                liveResizeWillStart, observerVars
  <2>3. CASE DidEnd
    BY <2>3 DEF DidEnd, libraryVars, pipeVars, liveResizeDidEnd, observerVars
  <2>4. CASE Tick
    BY <2>4 DEF Tick, libraryVars, pipeVars, CallbackBegins
  <2>5. CASE FrameUnwinds
    BY <2>5 DEF FrameUnwinds, pipeVars, liveResizeVars, observerVars
  <2>6. CASE DrainClose
    BY <2>6 DEF DrainClose, pipeVars, liveResizeVars, observerVars
  <2>7. CASE AfterFrame
    BY <2>7 DEF AfterFrame, libraryVars, pipeVars, HonourStop, DragIsOver,
                CallbackReturns, observerVars
  <2> QED BY <2>1, <2>2, <2>3, <2>4, <2>5, <2>6, <2>7 DEF HostStep
<1>2. ASSUME step' = step, Waiting \subseteq Waiting' PROVE PipeInv'
  <2>1. Closing' = Closing /\ Resting' = Resting
    BY <1>2 DEF Closing, Resting
  <2>2. Owed \subseteq Owed'
    BY <1>2, <2>1 DEF Owed
  <2>3. open' \union Resting' \subseteq Range(trackedDisplays)
    BY <1>1, <2>1 DEF PipeInv
  <2> QED BY <1>1, <2>1, <2>2, <2>3, PipeStays
<1>3. ASSUME UNCHANGED <<step, deferVars>>, frame.batch = <<>> \/ frame' = frame PROVE PipeInv'
  <2>1. Waiting \subseteq Waiting'
    <3>1. Range(<<>>) = {}
      BY EmptyQueue
    <3> QED BY <1>3, <3>1 DEF Waiting, deferVars
  <2> QED BY <1>2, <1>3, <2>1
<1>4. CASE SetEventFilter \/ HostAction
  BY <1>3, <1>4 DEF SetEventFilter, HostAction, libraryVars
<1>5. CASE DidEnd \/ Tick \/ AfterFrame
  <2>1. UNCHANGED <<step, deferVars>> /\ frame.at # "drain"
    BY <1>5 DEF DidEnd, Tick, AfterFrame, libraryVars, RunLoop, NoFrame
  <2> QED BY <1>3, <2>1 DEF FrameInv
<1>6. CASE FrameUnwinds
  <2>1. Range(frame'.batch) = Range(pending) \union Range(fallback) /\ step' = step /\ leaked' = leaked
    BY <1>6, PlacesUnwind DEF FrameUnwinds
  <2>2. Range(frame.batch) = {}
    <3>1. frame.batch = <<>>
      BY <1>6 DEF FrameUnwinds, InPresent, FrameInv
    <3> QED BY <3>1, EmptyQueue
  <2>3. Waiting \subseteq Waiting'
    BY <2>1, <2>2 DEF Waiting
  <2> QED BY <1>2, <2>1, <2>3
<1>7. CASE DrainClose
  <2>1. /\ UNCHANGED deferVars /\ step[Main] = Idle /\ Main \in Threads
    BY <1>7, LifecycleAssumption DEF DrainClose
  <2>2. CASE frame.batch = <<>> /\ step' = step
    BY <1>3, <2>1, <2>2
  <2>3. ASSUME NEW d \in Displays, d \in Range(frame.batch),
               Range(frame'.batch) = Range(frame.batch) \ {d},
               step' = [step EXCEPT ![Main] = [Idle EXCEPT !.at = "close", !.display = d]]
        PROVE  PipeInv'
    <3> DEFINE s == [Idle EXCEPT !.at = "close", !.display = d]
    <3>1. s \in StepType /\ s.at = "close" /\ s.display = d
      BY StartTypes, StartFields
    <3>2. step' = [step EXCEPT ![Main] = s] /\ step[Main].at = "idle"
      BY <2>1, <2>3 DEF Idle
    <3> HIDE DEF s
    <3>3. Closing' = Closing \union {d} /\ Resting' = Resting
      BY <2>1, <3>1, <3>2, StepSets DEF Just, Owing
    <3>4. Waiting' \union {d} = Waiting
      BY <2>1, <2>3 DEF Waiting, deferVars
    <3>5. Owed \subseteq Owed' /\ open' \union Resting' \subseteq Range(trackedDisplays)
      BY <1>1, <3>3, <3>4 DEF Owed, PipeInv
    <3> QED BY <1>1, <3>3, <3>5, PipeStays
  <2> QED BY <1>7, <2>2, <2>3, PlacesDrain
<1> QED BY <1>4, <1>5, <1>6, <1>7 DEF HostStep

(* initEventPipe: the display is not tracked yet.                           *)
LEMMA PipeOfInit ==
  ASSUME LifecycleTypes, PlacesInv, PipeInv, NEW t \in Threads, initEventPipe(t)
  PROVE  PipeInv'
<1> DEFINE d == step[t].display
<1>1. step[t].at = "pipe" /\ d \in Displays
  BY StepDisplay DEF initEventPipe
<1>2. UNCHANGED <<open, deferVars, frame>>
  BY DEF initEventPipe
<1>3. Waiting' = Waiting
  BY <1>2 DEF Waiting, deferVars
<1>4. \A w \in {"rest", "close"} : Goes(t, w) =>
        /\ Closing' = Closing \union Just(w = "close", d)
        /\ Resting' = Resting \union Just(w = "rest", d)
  <2> SUFFICES ASSUME NEW w \in {"rest", "close"}, Goes(t, w)
               PROVE  /\ Closing' = Closing \union Just(w = "close", d)
                      /\ Resting' = Resting \union Just(w = "rest", d)
    OBVIOUS
  <2>1. w \in Stages
    BY DEF Stages, Owing
  <2>2. PICK s \in StepType : step' = [step EXCEPT ![t] = s] /\ s.at = w /\ s.display = d
    BY <2>1, GoesTypes DEF LifecycleTypes
  <2>3. /\ Closing = OthersClosing(t) \union Just(step[t].at \in Owing, d)
        /\ Closing' = OthersClosing(t) \union Just(s.at \in Owing, s.display)
        /\ Resting = OthersResting(t) \union Just(step[t].at = "rest", d)
        /\ Resting' = OthersResting(t) \union Just(s.at = "rest", s.display)
    BY <2>2, StepSets
  <2> HIDE DEF d
  <2> QED BY <1>1, <2>2, <2>3 DEF Just, Owing
<1>5. d \notin Range(trackedDisplays)
  <2>1. d \in Stepping
    BY <1>1, LifecycleAssumption DEF Stepping
  <2>2. d \notin open \union Waiting
    BY <2>1 DEF PlacesInv, PlacesApart, Waiting
  <2>3. \A u \in Threads \ {t} : step[u].display # d
    BY <1>1, LifecycleAssumption DEF PlacesInv, StepsApart
  <2>4. d \notin Closing \union Resting
    BY <1>1, <2>3 DEF Closing, Resting, Owing
  <2> QED BY <2>2, <2>4 DEF PipeInv, Owed
<1>6. /\ trackedDisplays \in Seq(Displays)
      /\ Range(Append(trackedDisplays, d)) = Range(trackedDisplays) \union {d}
      /\ IsInjective(Append(trackedDisplays, d))
      /\ Append(trackedDisplays, d) # <<>>
  <2>1. trackedDisplays \in Seq(Displays) /\ IsInjective(trackedDisplays)
    BY DEF LifecycleTypes, PipeInv
  <2>2. /\ Range(Append(trackedDisplays, d)) = Range(trackedDisplays) \union {d}
        /\ IsInjective(Append(trackedDisplays, d))
        /\ Len(Append(trackedDisplays, d)) = Len(trackedDisplays) + 1
    BY <1>1, <1>5, <2>1, AppendQueue
  <2>3. Len(trackedDisplays) \in Nat /\ Len(<<>>) = 0
    BY <2>1
  <2> QED BY <2>1, <2>2, <2>3
<1>7. \/ /\ locks' = TRUE /\ pipe' = TRUE /\ filter' = d
         /\ trackedDisplays' = Append(trackedDisplays, d) /\ Goes(t, "rest")
      \/ UNCHANGED <<pipeVars, registered>> /\ Goes(t, "close")
      \/ /\ locks' = TRUE /\ Goes(t, "close")
         /\ UNCHANGED <<trackedDisplays, filter, pipe, xtWakeTimer, registered>>
  BY DEF initEventPipe, observerVars
<1> HIDE DEF d
<1>8. CASE /\ locks' = TRUE /\ pipe' = TRUE /\ filter' = d
           /\ trackedDisplays' = Append(trackedDisplays, d) /\ Goes(t, "rest")
  <2>1. Closing' = Closing /\ Resting' = Resting \union {d}
    BY <1>4, <1>8 DEF Just
  <2>2. Owed' = Owed
    BY <1>3, <2>1 DEF Owed
  <2>3. d # NoDisplay
    BY <1>1, LifecycleAssumption
  <2> QED BY <1>2, <1>6, <1>8, <2>1, <2>2, <2>3 DEF PipeInv
<1>9. CASE UNCHANGED <<trackedDisplays, filter, pipe, xtWakeTimer, registered>>
             /\ Goes(t, "close")
  <2>1. Closing' = Closing \union {d} /\ Resting' = Resting
    BY <1>4, <1>9 DEF Just
  <2>2. Owed' = Owed \union {d}
    BY <1>3, <2>1 DEF Owed
  <2>3. locks' = TRUE \/ locks' = locks
    BY <1>7 DEF pipeVars
  <2> QED BY <1>2, <1>9, <2>1, <2>2, <2>3 DEF PipeInv
<1> QED BY <1>7, <1>8, <1>9 DEF pipeVars

(* closeEventPipe: the slot goes to a display that is still there.          *)
LEMMA PipeOfClose ==
  ASSUME LifecycleTypes, PlacesInv, PipeInv, NEW t \in Threads, closeEventPipe(t)
  PROVE  PipeInv'
<1> DEFINE d == step[t].display
           rest == untrackDisplay(d)
<1>1. step[t].at = "unpipe" /\ d \in Displays
  BY StepDisplay DEF closeEventPipe
<1>2. UNCHANGED <<open, deferVars, frame>> /\ Goes(t, "quit")
  BY DEF closeEventPipe
<1>3. Waiting' = Waiting
  BY <1>2 DEF Waiting, deferVars
<1>4. Closing \subseteq Closing' \union {d} /\ Resting' = Resting
  <2>1. "quit" \in Stages
    BY DEF Stages, Untracking
  <2>2. PICK s \in StepType : step' = [step EXCEPT ![t] = s] /\ s.at = "quit" /\ s.display = d
    BY <1>2, <2>1, GoesTypes DEF LifecycleTypes
  <2>3. /\ Closing = OthersClosing(t) \union Just(step[t].at \in Owing, d)
        /\ Closing' = OthersClosing(t) \union Just(s.at \in Owing, s.display)
        /\ Resting = OthersResting(t) \union Just(step[t].at = "rest", d)
        /\ Resting' = OthersResting(t) \union Just(s.at = "rest", s.display)
    BY <2>2, StepSets
  <2> HIDE DEF d, rest
  <2> QED BY <1>1, <2>2, <2>3 DEF Just, Owing
<1>5. /\ rest \in Seq(Displays) /\ Range(rest) = Range(trackedDisplays) \ {d}
      /\ IsInjective(rest)
  BY UntrackQueue DEF LifecycleTypes, PipeInv
<1>6. rest = <<>> <=> Range(rest) = {}
  BY <1>5, InRange
<1>7. rest # <<>> => Last(rest) \in Range(rest)
  <2>1. Len(rest) \in Nat /\ (rest # <<>> => Len(rest) # 0)
    BY <1>5
  <2>2. rest # <<>> => Len(rest) \in 1..Len(rest)
    BY <2>1
  <2> HIDE DEF rest
  <2> QED BY <1>5, <2>2, InRange DEF Last
<1>8. /\ trackedDisplays' = rest /\ filter' = handoff(d, rest)
      /\ IF rest = <<>> THEN xtWakeTimer' = FALSE /\ locks' = FALSE /\ pipe' = FALSE
                                /\ registered' = FALSE
                        ELSE UNCHANGED <<xtWakeTimer, locks, pipe, registered>>
  BY DEF closeEventPipe, StopObserver, observerVars
<1>9. d \notin open \union Resting
  <2>1. d \in Stepping
    BY <1>1, LifecycleAssumption DEF Stepping
  <2>2. d \notin open
    BY <2>1 DEF PlacesInv, PlacesApart
  <2>3. \A u \in Threads \ {t} : step[u].display # d
    BY <1>1, LifecycleAssumption DEF PlacesInv, StepsApart
  <2> QED BY <1>1, <2>2, <2>3 DEF Resting
<1> HIDE DEF d, rest
<1>10. open' \union Resting' \subseteq Range(rest)
  BY <1>2, <1>4, <1>5, <1>9 DEF PipeInv
<1>11. Range(rest) \subseteq open' \union Owed' \union Resting'
  BY <1>2, <1>3, <1>4, <1>5 DEF PipeInv, Owed
<1>12. filter' \in Range(rest) \union {NoDisplay, Foreign}
  BY <1>5, <1>7, <1>8 DEF handoff, PipeInv
<1>13. rest # <<>> => filter' # NoDisplay /\ pipe' /\ locks'
  <2>1. rest # <<>> => trackedDisplays # <<>>
    <3>1. Range(<<>>) = {}
      BY EmptyQueue
    <3> QED BY <1>5, <1>6, <3>1
  <2>2. NoDisplay \notin Range(rest)
    <3>1. Range(rest) \subseteq Displays
      BY <1>5, InRange
    <3> QED BY <3>1, LifecycleAssumption
  <2> QED BY <1>7, <1>8, <2>1, <2>2 DEF handoff, PipeInv
<1> QED BY <1>5, <1>8, <1>10, <1>11, <1>12, <1>13 DEF PipeInv
-----------------------------------------------------------------------------
(* Which threads open and close.                                            *)

(* A thread that steps is one of the program's, or Main in a drain.         *)
ThreadSteps(t) ==
  \/ XOpenDisplay(t) \/ OpenSdl(t) \/ OpenTtf(t) \/ OpenStorages(t)
  \/ Load(t) \/ Increment(t) \/ initEventPipe(t) \/ OpenRest(t)
  \/ XCloseDisplay(t) \/ DeferClose(t) \/ CloseScreen(t)
  \/ closeEventPipe(t) \/ CloseSdl(t) \/ Decrement(t) \/ FreeDisplay(t)

(* Its step is in one of the two.                                           *)
LEMMA ThreadMoves ==
  ASSUME LifecycleTypes, OthersIdle, NEW t \in Threads, ThreadSteps(t)
  PROVE  /\ program' = program /\ t \in program.threads \union {Main}
         /\ \E s : step' = [step EXCEPT ![t] = s]
<1>1. Idle.at = "idle"
  BY DEF Idle
<1>2. program' = program
  BY DEF ThreadSteps, XOpenDisplay, OpenSdl, OpenTtf, OpenStorages, Load, Increment,
         initEventPipe, OpenRest, XCloseDisplay, DeferClose, CloseScreen,
         closeEventPipe, CloseSdl, Decrement, FreeDisplay
<1>3. CASE XOpenDisplay(t)
  BY <1>2, <1>3, XOpenDisplayTakes DEF XOpenDisplay, ClientRuns
<1>4. CASE XCloseDisplay(t)
  BY <1>2, <1>4 DEF XCloseDisplay, ClientRuns
<1>5. CASE OpenSdl(t) \/ OpenTtf(t) \/ OpenStorages(t)
  BY <1>1, <1>2, <1>5, OpeningMoves DEF KeepsOn, GivesUp, OthersIdle
<1>6. CASE \/ Load(t) \/ Increment(t) \/ initEventPipe(t) \/ CloseScreen(t)
           \/ closeEventPipe(t) \/ CloseSdl(t) \/ Decrement(t)
  BY <1>1, <1>2, <1>6, GoingOnMoves DEF KeepsOn, OthersIdle
<1>7. CASE OpenRest(t)
  <2>1. step[t].at = "rest" /\ (step' = [step EXCEPT ![t] = Idle] \/ Goes(t, "close"))
    BY <1>7 DEF OpenRest
  <2>2. "close" \in Stages
    BY DEF Stages, Owing
  <2> QED BY <1>1, <1>2, <2>1, <2>2, GoesTypes DEF LifecycleTypes, OthersIdle
<1>8. CASE DeferClose(t) \/ FreeDisplay(t)
  BY <1>1, <1>2, <1>8 DEF DeferClose, FreeDisplay, OthersIdle
<1> QED BY <1>3, <1>4, <1>5, <1>6, <1>7, <1>8 DEF ThreadSteps

(* No other one steps.                                                      *)
LEMMA OthersStayIdle ==
  ASSUME LifecycleTypes, PlacesInv, OthersIdle,
         (\E t \in Threads : ThreadSteps(t)) \/ SetEventFilter \/ HostStep
  PROVE  OthersIdle' /\ program' = program
<1>1. ASSUME NEW t \in Threads, ThreadSteps(t) PROVE OthersIdle' /\ program' = program
  <2>1. program' = program /\ t \in program.threads \union {Main}
    BY <1>1, ThreadMoves
  <2>2. PICK s : step' = [step EXCEPT ![t] = s]
    BY <1>1, ThreadMoves
  <2>3. \A u \in Threads \ {t} : step'[u] = step[u]
    BY <2>2 DEF LifecycleTypes
  <2> QED BY <2>1, <2>3 DEF OthersIdle
<1>2. CASE SetEventFilter
  BY <1>2 DEF SetEventFilter, OthersIdle
<1>3. CASE DrainClose
  <2>1. program' = program
    BY <1>3 DEF DrainClose
  <2>2. Main \in Threads
    BY LifecycleAssumption
  <2>3. \A u \in Threads \ {Main} : step'[u] = step[u]
    BY <1>3, <2>2, PlacesDrain DEF LifecycleTypes
  <2> QED BY <2>1, <2>3 DEF OthersIdle
<1>4. CASE HostAction \/ DidEnd \/ Tick \/ FrameUnwinds \/ AfterFrame
  <2>1. step' = step /\ program' = program
    BY <1>4 DEF HostAction, DidEnd, Tick, FrameUnwinds, AfterFrame, libraryVars
  <2> QED BY <2>1 DEF OthersIdle
<1> QED BY <1>1, <1>2, <1>3, <1>4 DEF HostStep

-----------------------------------------------------------------------------
(* A program with one thread.                                               *)

(* What numDisplaysOpen says then.                                          *)
LEMMA CountSays ==
  ASSUME LifecycleTypes, PlacesInv, CountInv
  PROVE  /\ IsFiniteSet(Counted) /\ IsFiniteSet(Held) /\ Counted \subseteq Displays
         /\ numDisplaysOpen \in Nat
         /\ numDisplaysOpen = 0 <=> Counted = {}
         /\ Mine \in Counts => (numDisplaysOpen = 1 <=> Held = {}) /\ numDisplaysOpen > 0
<1> DEFINE d == step[Main].display
<1>1. Main \in Threads /\ IsFiniteSet(Displays)
  BY LifecycleAssumption
<1>2. Mine \in Counts => d \in Displays
  <2>1. step[Main].at # "idle" => d \in Displays
    BY <1>1, StepDisplay
  <2> QED BY <2>1 DEF Mine, Counts, Owing
<1>3. Held \subseteq Displays
  <2>1. /\ open \subseteq Displays /\ leaked \subseteq Displays
        /\ pending \in Seq(Displays) /\ fallback \in Seq(Displays)
        /\ frame.batch \in Seq(Displays)
    BY FrameTypes DEF LifecycleTypes
  <2>2. /\ Range(pending) \subseteq Displays /\ Range(fallback) \subseteq Displays
        /\ Range(frame.batch) \subseteq Displays
    BY <2>1, InRange
  <2> QED BY <2>1, <2>2 DEF Held, Waiting
<1>4. Mine \in Counts => d \notin Held
  <2>1. Mine \in Counts => d \in Stepping
    BY <1>1, <1>2, LifecycleAssumption DEF Stepping
  <2> QED BY <2>1 DEF PlacesInv, PlacesApart, Held, Waiting
<1>5. Counted = IF Mine \in Counts THEN Held \union {d} ELSE Held
  BY DEF Counted
<1> HIDE DEF d
<1>6. Counted \subseteq Displays
  BY <1>2, <1>3, <1>5
<1>7. IsFiniteSet(Counted) /\ IsFiniteSet(Held)
  BY <1>1, <1>3, <1>6, FS_Subset
<1>8. Cardinality(Held) \in Nat /\ (Cardinality(Held) = 0 <=> Held = {})
  BY <1>7, FS_CardinalityType, FS_EmptySet
<1>9. Cardinality(Counted) \in Nat /\ (Cardinality(Counted) = 0 <=> Counted = {})
  BY <1>7, FS_CardinalityType, FS_EmptySet
<1>10. Mine \in Counts => Cardinality(Counted) = Cardinality(Held) + 1
  BY <1>4, <1>5, <1>7, FS_AddElement
<1> QED BY <1>6, <1>7, <1>8, <1>9, <1>10 DEF CountInv

(* numDisplaysOpen does not change, nor what it counts.                     *)
LEMMA CountStays ==
  ASSUME CountInv, numDisplaysOpen' = numDisplaysOpen, Counted' = Counted,
         Mine' \notin {"+=", "-="} \/ step'[Main].count = numDisplaysOpen
  PROVE  CountInv'
BY DEF CountInv

(* A step of Main's that leaves alone what is counted.                      *)
LEMMA CountKept ==
  ASSUME LifecycleTypes, PlacesInv, CountInv, NEW s \in StepType,
         step' = [step EXCEPT ![Main] = s],
         Held' = Held, numDisplaysOpen' = numDisplaysOpen,
         s.at \in Counts <=> Mine \in Counts,
         s.at \in Counts => s.display = step[Main].display,
         s.at \in {"+=", "-="} => s.count = numDisplaysOpen
  PROVE  CountInv'
<1>1. step'[Main] = s
  BY LifecycleAssumption DEF LifecycleTypes
<1>2. Mine' = s.at
  BY <1>1 DEF Mine
<1>3. Counted' = Counted
  BY <1>1, <1>2 DEF Counted
<1> QED BY <1>1, <1>2, <1>3, CountStays

(* The queues, the frame and the client's displays hold the same.           *)
LEMMA HeldStays ==
  ASSUME UNCHANGED <<open, deferVars, frame>>
  PROVE  Held' = Held
BY DEF Held, Waiting, deferVars

(* What Main holds when it queues a close, and when an open ends well.      *)
LEMMA HeldGrows ==
  ASSUME LifecycleTypes, PlacesInv, CountInv, NEW d \in Displays,
         step[Main].at \in Counts, step[Main].display = d,
         step' = [step EXCEPT ![Main] = Idle], Held' = Held \union {d},
         numDisplaysOpen' = numDisplaysOpen
  PROVE  CountInv' /\ Mine' = "idle"
<1>1. step'[Main] = Idle /\ Idle.at = "idle"
  BY LifecycleAssumption DEF LifecycleTypes, Idle
<1>2. Mine' = "idle"
  BY <1>1 DEF Mine
<1>3. Counted' = Counted
  BY <1>2 DEF Counted, Counts, Owing, Mine
<1> QED BY <1>2, <1>3, CountStays

(* And when it takes one to close.                                          *)
LEMMA HeldShrinks ==
  ASSUME LifecycleTypes, PlacesInv, CountInv, NEW d \in Displays, d \in Held,
         step[Main] = Idle,
         step' = [step EXCEPT ![Main] = [Idle EXCEPT !.at = "close", !.display = d]],
         Held' = Held \ {d}, numDisplaysOpen' = numDisplaysOpen
  PROVE  CountInv' /\ Mine' = "close"
<1> DEFINE s == [Idle EXCEPT !.at = "close", !.display = d]
<1>1. s.at = "close" /\ s.display = d
  BY StartFields
<1>2. step'[Main] = s
  BY LifecycleAssumption DEF LifecycleTypes
<1> HIDE DEF s
<1>3. Mine = "idle" /\ Mine' = "close"
  BY <1>1, <1>2 DEF Mine, Idle
<1>4. Counted' = Counted
  BY <1>1, <1>2, <1>3 DEF Counted, Counts, Owing
<1> QED BY <1>3, <1>4, CountStays

(* The count goes up by the display of an open ...                          *)
LEMMA CountUp ==
  ASSUME LifecycleTypes, PlacesInv, CountInv, Increment(Main)
  PROVE  CountInv' /\ Held' = Held /\ Mine = "+=" /\ Mine' = "pipe"
<1> DEFINE d == step[Main].display
<1>1. /\ Mine = "+=" /\ numDisplaysOpen' = numDisplaysOpen + 1 /\ Main \in Threads
      /\ Goes(Main, "pipe") /\ UNCHANGED <<open, deferVars, frame>>
  BY LifecycleAssumption DEF Increment, CountInv, Mine
<1>2. PICK s \in StepType : step' = [step EXCEPT ![Main] = s] /\ s.at = "pipe" /\ s.display = d
  <2>1. "pipe" \in Stages
    BY DEF Stages, Untracked
  <2> QED BY <1>1, <2>1, GoesTypes DEF LifecycleTypes
<1>3. step'[Main] = s
  BY <1>1, <1>2 DEF LifecycleTypes
<1>4. Mine' = "pipe"
  BY <1>2, <1>3 DEF Mine
<1>5. Held' = Held
  BY <1>1, HeldStays
<1>6. Counted = Held /\ Counted' = Held \union {d}
  BY <1>1, <1>2, <1>3, <1>4, <1>5 DEF Counted, Counts, Owing
<1>7. d \notin Held /\ d \in Displays
  <2>1. d \in Displays
    BY <1>1, StepDisplay DEF Mine
  <2>2. d \in Stepping
    BY <1>1, <2>1, LifecycleAssumption DEF Stepping
  <2> QED BY <2>1, <2>2 DEF PlacesInv, PlacesApart, Held, Waiting
<1> HIDE DEF d
<1>8. IsFiniteSet(Held)
  BY CountSays
<1>9. Cardinality(Counted') = Cardinality(Counted) + 1
  BY <1>6, <1>7, <1>8, FS_AddElement
<1> QED BY <1>1, <1>4, <1>5, <1>9 DEF CountInv

(* ... and down by that of a close.                                         *)
LEMMA CountDown ==
  ASSUME LifecycleTypes, PlacesInv, CountInv, Decrement(Main)
  PROVE  CountInv' /\ Held' = Held /\ Mine = "-=" /\ Mine' = "free"
<1> DEFINE d == step[Main].display
<1>1. /\ Mine = "-=" /\ numDisplaysOpen' = numDisplaysOpen - 1 /\ Main \in Threads
      /\ Goes(Main, "free") /\ UNCHANGED <<open, deferVars, frame>>
  BY LifecycleAssumption DEF Decrement, CountInv, Mine
<1>2. PICK s \in StepType : step' = [step EXCEPT ![Main] = s] /\ s.at = "free" /\ s.display = d
  <2>1. "free" \in Stages
    BY DEF Stages, Untracking
  <2> QED BY <1>1, <2>1, GoesTypes DEF LifecycleTypes
<1>3. step'[Main] = s
  BY <1>1, <1>2 DEF LifecycleTypes
<1>4. Mine' = "free"
  BY <1>2, <1>3 DEF Mine
<1>5. Held' = Held
  BY <1>1, HeldStays
<1>6. Counted = Held \union {d} /\ Counted' = Held
  BY <1>1, <1>2, <1>3, <1>4, <1>5 DEF Counted, Counts, Owing
<1>7. d \notin Held
  <2>1. d \in Displays
    BY <1>1, StepDisplay DEF Mine
  <2>2. d \in Stepping
    BY <1>1, <2>1, LifecycleAssumption DEF Stepping
  <2> QED BY <2>2 DEF PlacesInv, PlacesApart, Held, Waiting
<1> HIDE DEF d
<1>8. IsFiniteSet(Held) /\ Cardinality(Held) \in Nat
  BY CountSays, FS_CardinalityType
<1>9. Cardinality(Counted) = Cardinality(Counted') + 1
  BY <1>6, <1>7, <1>8, FS_AddElement
<1> QED BY <1>1, <1>4, <1>5, <1>6, <1>8, <1>9 DEF CountInv

(* Main's steps that leave alone what is counted, and where they lead.      *)
LEMMA OpeningCounts ==
  ASSUME LifecycleTypes, PlacesInv, CountInv,
         OpenSdl(Main) \/ OpenTtf(Main) \/ OpenStorages(Main)
  PROVE  CountInv' /\ Held' = Held
<1>0. Main \in Threads
  BY LifecycleAssumption
<1>1. /\ step[Main].at \in {"sdl", "ttf", "storages"}
      /\ numDisplaysOpen' = numDisplaysOpen /\ UNCHANGED <<open, deferVars, frame>>
  BY <1>0, OpeningMoves DEF OpenSdl, OpenTtf, OpenStorages
<1>2. Held' = Held
  BY <1>1, HeldStays
<1>3. {"ttf", "storages", "++"} \subseteq Stages
  BY DEF Stages, Untracked
<1>4. Idle \in StepType /\ Idle.at = "idle"
  BY DEF Idle, StepType, Stages
<1>5. \E s \in StepType : /\ step' = [step EXCEPT ![Main] = s]
                          /\ s.at \in {"ttf", "storages", "++", "idle"}
  <2>1. \A w \in Stages : Goes(Main, w) => \E s \in StepType :
           step' = [step EXCEPT ![Main] = s] /\ s.at = w
    BY <1>0, GoesTypes DEF LifecycleTypes
  <2>2. \A what \in {"sdl", "ttf"} : Owning(Main, what) => \E s \in StepType :
           step' = [step EXCEPT ![Main] = s] /\ s.at \in {"ttf", "storages"}
    BY <1>0, OwningTypes DEF LifecycleTypes
  <2>3. \/ GivesUp(Main) \/ \E w \in {"ttf", "storages", "++"} : Goes(Main, w)
        \/ \E what \in {"sdl", "ttf"} : Owning(Main, what)
    BY DEF OpenSdl, OpenTtf, OpenStorages
  <2> QED BY <1>3, <1>4, <2>1, <2>2, <2>3 DEF GivesUp
<1> QED BY <1>1, <1>2, <1>5, CountKept DEF Counts, Owing, Mine

(* The same of the steps that keep the display.                             *)
LEMMA KeepingCounts ==
  ASSUME LifecycleTypes, PlacesInv, CountInv,
         \/ Load(Main) \/ initEventPipe(Main) \/ CloseScreen(Main)
         \/ closeEventPipe(Main) \/ CloseSdl(Main)
  PROVE  CountInv' /\ Held' = Held
<1>0. Main \in Threads
  BY LifecycleAssumption
<1>1. numDisplaysOpen' = numDisplaysOpen /\ UNCHANGED <<open, deferVars, frame>>
  BY DEF Load, initEventPipe, CloseScreen, closeEventPipe, CloseSdl
<1>2. Held' = Held
  BY <1>1, HeldStays
<1>3. {"rest", "close", "unpipe", "quit", "--"} \subseteq Stages
  BY DEF Stages, Owing, Untracking
<1>4. \A w \in Stages : Goes(Main, w) => \E s \in StepType :
         /\ step' = [step EXCEPT ![Main] = s] /\ s.at = w
         /\ s.display = step[Main].display
  BY <1>0, GoesTypes DEF LifecycleTypes
<1>5. CASE Load(Main)
  <2>1. PICK s \in StepType :
           /\ step' = [step EXCEPT ![Main] = s] /\ s.count = numDisplaysOpen
           /\ s.at = IF step[Main].at = "++" THEN "+=" ELSE "-="
           /\ s.display = step[Main].display
    BY <1>0, <1>5, LoadTypes DEF LifecycleTypes
  <2>2. step[Main].at \in {"++", "--"}
    BY <1>5 DEF Load
  <2> QED BY <1>1, <1>2, <2>1, <2>2, CountKept DEF Counts, Owing, Mine
<1>6. ASSUME NEW v \in {"pipe", "close", "unpipe", "quit"}, step[Main].at = v,
             NEW w \in {"rest", "close", "unpipe", "quit", "--"}, Goes(Main, w)
      PROVE  CountInv'
  <2>1. PICK s \in StepType : /\ step' = [step EXCEPT ![Main] = s] /\ s.at = w
                              /\ s.display = step[Main].display
    BY <1>3, <1>4, <1>6
  <2>2. s.at \in Counts /\ Mine \in Counts /\ s.at \notin {"+=", "-="}
    BY <1>6, <2>1 DEF Counts, Owing, Mine
  <2> QED BY <1>1, <1>2, <2>1, <2>2, CountKept
<1>7. CASE initEventPipe(Main)
  <2>1. step[Main].at = "pipe" /\ (Goes(Main, "rest") \/ Goes(Main, "close"))
    BY <1>7 DEF initEventPipe
  <2> QED BY <1>2, <1>6, <2>1
<1>8. CASE CloseScreen(Main)
  <2>1. step[Main].at = "close" /\ Goes(Main, "unpipe")
    BY <1>8 DEF CloseScreen
  <2> QED BY <1>2, <1>6, <2>1
<1>9. CASE closeEventPipe(Main)
  <2>1. step[Main].at = "unpipe" /\ Goes(Main, "quit")
    BY <1>9 DEF closeEventPipe
  <2> QED BY <1>2, <1>6, <2>1
<1>10. CASE CloseSdl(Main)
  <2>1. step[Main].at = "quit" /\ (numDisplaysOpen > 0 => Goes(Main, "--"))
    BY <1>10 DEF CloseSdl
  <2>2. numDisplaysOpen > 0
    BY <2>1, CountSays DEF Counts, Mine
  <2> QED BY <1>2, <1>6, <2>1, <2>2
<1> QED BY <1>5, <1>7, <1>8, <1>9, <1>10

(* XOpenDisplay and FreeDisplay count nothing.                              *)
LEMMA EndsCount ==
  ASSUME LifecycleTypes, PlacesInv, CountInv, XOpenDisplay(Main) \/ FreeDisplay(Main)
  PROVE  CountInv' /\ Held' = Held
<1>0. Main \in Threads
  BY LifecycleAssumption
<1>1. numDisplaysOpen' = numDisplaysOpen /\ UNCHANGED <<open, deferVars, frame>>
  BY DEF XOpenDisplay, FreeDisplay
<1>2. Held' = Held
  BY <1>1, HeldStays
<1>3. Idle \in StepType /\ Idle.at = "idle"
  BY DEF Idle, StepType, Stages
<1>4. CASE XOpenDisplay(Main)
  <2>1. PICK d \in Displays : /\ step[Main] = Idle
          /\ step' = [step EXCEPT ![Main] =
                        [Idle EXCEPT !.at = "sdl", !.display = d, !.opening = TRUE]]
    BY <1>0, <1>4, XOpenDisplayTakes
  <2> DEFINE s == [Idle EXCEPT !.at = "sdl", !.display = d, !.opening = TRUE]
  <2>2. s \in StepType /\ s.at = "sdl"
    BY StartTypes, StartFields
  <2>3. step' = [step EXCEPT ![Main] = s] /\ Mine = "idle"
    BY <1>3, <2>1 DEF Mine
  <2> HIDE DEF s
  <2> QED BY <1>1, <1>2, <2>2, <2>3, CountKept DEF Counts, Owing
<1>5. CASE FreeDisplay(Main)
  <2>1. step' = [step EXCEPT ![Main] = Idle] /\ Mine = "free"
    BY <1>5 DEF FreeDisplay, Mine
  <2> QED BY <1>1, <1>2, <1>3, <2>1, CountKept DEF Counts, Owing
<1> QED BY <1>4, <1>5

(* OpenRest either gives its display to the client or closes it.            *)
LEMMA OpenRestCounts ==
  ASSUME LifecycleTypes, PlacesInv, CountInv, OpenRest(Main)
  PROVE  /\ CountInv' /\ Mine = "rest"
         /\ \/ Mine' = "idle" /\ screen' = TRUE /\ Held' # {}
            \/ Mine' = "close" /\ Held' = Held /\ open' = open /\ (screen => screen')
<1> DEFINE d == step[Main].display
<1>1. /\ Main \in Threads /\ Mine = "rest" /\ d \in Displays
      /\ UNCHANGED <<deferVars, frame, numDisplaysOpen>>
  BY LifecycleAssumption, StepDisplay DEF OpenRest, Mine
<1>2. \/ /\ screen' = TRUE /\ open' = open \union {d}
         /\ step' = [step EXCEPT ![Main] = Idle]
      \/ open' = open /\ Goes(Main, "close") /\ screen' \in {screen, TRUE}
  BY DEF OpenRest
<1> HIDE DEF d
<1>3. CASE /\ screen' = TRUE /\ open' = open \union {d}
           /\ step' = [step EXCEPT ![Main] = Idle]
  <2>1. Held' = Held \union {d}
    BY <1>1, <1>3 DEF Held, Waiting, deferVars
  <2>2. CountInv' /\ Mine' = "idle"
    BY <1>1, <1>3, <2>1, HeldGrows DEF Counts, Mine, d
  <2> QED BY <1>1, <1>3, <2>1, <2>2
<1>4. CASE open' = open /\ Goes(Main, "close") /\ screen' \in {screen, TRUE}
  <2>1. Held' = Held
    BY <1>1, <1>4, HeldStays
  <2>2. "close" \in Stages
    BY DEF Stages, Owing
  <2>3. PICK s \in StepType : /\ step' = [step EXCEPT ![Main] = s] /\ s.at = "close"
                              /\ s.display = d
    BY <1>1, <1>4, <2>2, GoesTypes DEF LifecycleTypes, d
  <2>4. CountInv'
    BY <1>1, <2>1, <2>3, CountKept DEF Counts, Owing, Mine, d
  <2>5. Mine' = "close"
    BY <1>1, <2>3 DEF Mine, LifecycleTypes
  <2>6. screen => screen'
    <3>1. screen' = screen \/ screen' = TRUE
      BY <1>4
    <3> QED BY <3>1
  <2> QED BY <1>1, <1>4, <2>1, <2>4, <2>5, <2>6
<1> QED BY <1>2, <1>3, <1>4

(* The close of one of the client's, and the deferred close.                *)
LEMMA CloseCounts ==
  ASSUME LifecycleTypes, PlacesInv, FrameInv, CountInv,
         XCloseDisplay(Main) \/ DeferClose(Main)
  PROVE  /\ CountInv' /\ UNCHANGED <<sdlVars>>
         /\ \/ /\ Mine = "idle" /\ Mine' = "close" /\ Held # {} /\ open' \subseteq open
               /\ open # {}
            \/ Mine = "close" /\ Mine' = "idle" /\ Held' # {} /\ open' = open
<1>1. Main \in Threads
  BY LifecycleAssumption
<1>2. CASE XCloseDisplay(Main)
  <2>1. PICK d \in open : /\ open' = open \ {d}
          /\ step' = [step EXCEPT ![Main] = [Idle EXCEPT !.at = "close", !.display = d]]
    BY <1>2 DEF XCloseDisplay
  <2>2. UNCHANGED <<deferVars, frame, numDisplaysOpen, sdlVars>> /\ step[Main] = Idle
    BY <1>2 DEF XCloseDisplay, ClientRuns
  <2>3. d \in Displays /\ d \in Held /\ d \notin Waiting
    BY DEF LifecycleTypes, Held, Waiting, PlacesInv, PlacesApart
  <2>4. Held' = Held \ {d}
    BY <2>1, <2>2, <2>3 DEF Held, Waiting, deferVars
  <2>5. CountInv' /\ Mine' = "close"
    BY <2>1, <2>2, <2>3, <2>4, HeldShrinks
  <2> QED BY <2>1, <2>2, <2>3, <2>5 DEF Mine, Idle
<1>3. CASE DeferClose(Main)
  <2> DEFINE d == step[Main].display
  <2>1. /\ step[Main].at = "close" /\ step' = [step EXCEPT ![Main] = Idle]
        /\ UNCHANGED <<open, frame, numDisplaysOpen, sdlVars>>
    BY <1>3 DEF DeferClose
  <2>2. Queues(d) /\ d \in Displays
    BY <1>1, <1>3, <2>1, DeferCloseQueues, StepDisplay
  <2>3. Range(Append(pending, d)) = Range(pending) \union {d}
          /\ Range(Append(fallback, d)) = Range(fallback) \union {d}
    BY <2>2, AppendQueue DEF LifecycleTypes
  <2> HIDE DEF d
  <2>4. Held' = Held \union {d}
    BY <2>1, <2>2, <2>3 DEF Held, Waiting, Queues
  <2>5. CountInv' /\ Mine' = "idle"
    BY <2>1, <2>2, <2>4, HeldGrows DEF Counts, Owing, d
  <2> QED BY <2>1, <2>4, <2>5 DEF Mine
<1> QED BY <1>2, <1>3

(* The host, the frame and an event filter.                                 *)
LEMMA HostCounts ==
  ASSUME LifecycleTypes, PlacesInv, FrameInv, CountInv, SetEventFilter \/ HostStep
  PROVE  /\ CountInv' /\ UNCHANGED <<sdlVars, open>>
         /\ \/ step' = step /\ Held' = Held
            \/ Mine = "idle" /\ Mine' = "close" /\ Held # {}
<1>1. /\ UNCHANGED <<sdlVars, open, leaked, numDisplaysOpen>>
      /\ ~DrainClose => step' = step
  BY DEF HostStep, SetEventFilter, HostAction, DidEnd, Tick, FrameUnwinds, DrainClose,
         AfterFrame, libraryVars, deferVars
<1>2. ASSUME step' = step, Held' = Held PROVE CountInv'
  <2>1. Mine' = Mine /\ Counted' = Counted /\ step'[Main] = step[Main]
    BY <1>2 DEF Mine, Counted
  <2> QED BY <1>1, <2>1 DEF CountInv
<1>3. CASE FrameUnwinds
  <2>1. Range(frame'.batch) = Range(pending) \union Range(fallback)
    BY <1>3, PlacesUnwind
  <2>2. Range(frame.batch) = {} /\ Range(pending') = {} /\ Range(fallback') = {}
    <3>1. frame.batch = <<>> /\ pending' = <<>> /\ fallback' = <<>>
      BY <1>3 DEF FrameUnwinds, InPresent, FrameInv, detachedQueues
    <3> QED BY <3>1, EmptyQueue
  <2>3. Held' = Held
    BY <1>1, <2>1, <2>2 DEF Held, Waiting
  <2>4. step' = step
    BY <1>3 DEF FrameUnwinds
  <2> QED BY <1>1, <1>2, <2>3, <2>4
<1>4. CASE DrainClose
  <2>1. step[Main] = Idle /\ UNCHANGED deferVars
    BY <1>4 DEF DrainClose
  <2>2. CASE frame.batch = <<>> /\ frame'.batch = <<>> /\ step' = step
    <3>1. Held' = Held
      BY <1>1, <2>1, <2>2 DEF Held, Waiting, deferVars
    <3> QED BY <1>1, <1>2, <2>2, <3>1
  <2>3. ASSUME NEW d \in Displays, d \in Range(frame.batch),
               Range(frame'.batch) = Range(frame.batch) \ {d},
               step' = [step EXCEPT ![Main] = [Idle EXCEPT !.at = "close", !.display = d]]
        PROVE  CountInv' /\ Mine' = "close" /\ Mine = "idle" /\ Held # {}
    <3>1. d \notin open \union leaked \union Range(pending) \union Range(fallback)
      BY <2>3 DEF PlacesInv, PlacesApart
    <3>2. Held' = Held \ {d} /\ d \in Held
      BY <1>1, <2>1, <2>3, <3>1 DEF Held, Waiting, deferVars
    <3>3. CountInv' /\ Mine' = "close"
      BY <1>1, <2>1, <2>3, <3>2, HeldShrinks
    <3> QED BY <2>1, <3>2, <3>3 DEF Mine, Idle
  <2> QED BY <1>1, <1>4, <2>2, <2>3, PlacesDrain
<1>5. CASE ~FrameUnwinds /\ ~DrainClose
  <2>1. Waiting' = Waiting
    <3>1. UNCHANGED deferVars
      BY <1>5 DEF HostStep, SetEventFilter, HostAction, DidEnd, Tick, AfterFrame, libraryVars
    <3>2. frame' = frame \/ (frame.batch = <<>> /\ frame'.batch = <<>>)
      <4>1. frame.at # "drain" => frame.batch = <<>>
        BY DEF FrameInv
      <4>2. frame' = frame \/ frame' = NoFrame
              \/ \E by \in {"tick", "end", "last"} : Present(by)
        BY <1>5 DEF HostStep, SetEventFilter, HostAction, DidEnd, Tick, AfterFrame
      <4>3. frame' = frame \/ frame.at # "drain"
        BY <1>5 DEF HostStep, SetEventFilter, HostAction, DidEnd, Tick, AfterFrame,
                    RunLoop, NoFrame
      <4> QED BY <4>1, <4>2, <4>3, FrameTypes
    <3> QED BY <3>1, <3>2 DEF Waiting, deferVars
  <2>2. Held' = Held
    BY <1>1, <2>1 DEF Held
  <2> QED BY <1>1, <1>2, <1>5, <2>2
<1> QED BY <1>3, <1>4, <1>5

(* What the library has up depends on where Main is and on what is held.    *)
LEMMA LibraryOpens ==
  ASSUME LifecycleTypes, PlacesInv, CountInv, LibraryInv, Held' = Held,
         OpenSdl(Main) \/ OpenTtf(Main) \/ OpenStorages(Main)
  PROVE  LibraryInv'
<1>0. /\ Main \in Threads /\ {sdl, ttf, storages, screen} \subseteq BOOLEAN
      /\ step[Main] \in StepType /\ step[Main].owns \subseteq {"sdl", "ttf"}
      /\ step \in [Threads -> StepType]
  BY LifecycleAssumption DEF LifecycleTypes, StepType
<1>1. open' = open /\ screen' = screen
  BY DEF OpenSdl, OpenTtf, OpenStorages, sdlVars
<1>2. \A w \in {"ttf", "storages", "++"} : Goes(Main, w) =>
        Mine' = w /\ step'[Main].owns = step[Main].owns
  <2>1. {"ttf", "storages", "++"} \subseteq Stages
    BY DEF Stages, Untracked
  <2>2. \A w \in Stages : Goes(Main, w) => \E s \in StepType :
           /\ step' = [step EXCEPT ![Main] = s] /\ s.at = w
           /\ s.owns = step[Main].owns
    BY <1>0, GoesTypes
  <2> QED BY <1>0, <2>1, <2>2 DEF Mine
<1>3. \A what \in {"sdl", "ttf"} : Owning(Main, what) =>
        /\ Mine' = IF what = "sdl" THEN "ttf" ELSE "storages"
        /\ step'[Main].owns = step[Main].owns \union {what}
  <2>1. \A what \in {"sdl", "ttf"} : Owning(Main, what) => \E s \in StepType :
           /\ step' = [step EXCEPT ![Main] = s]
           /\ s.at = IF what = "sdl" THEN "ttf" ELSE "storages"
           /\ s.owns = step[Main].owns \union {what}
    BY <1>0, OwningTypes
  <2> QED BY <1>0, <2>1 DEF Mine
<1>4. GivesUp(Main) =>
        /\ Mine' = "idle"
        /\ sdl' = (sdl /\ "sdl" \notin step[Main].owns)
        /\ ttf' = (ttf /\ "ttf" \notin step[Main].owns)
  BY <1>0 DEF GivesUp, Mine, Idle
<1>5. CASE OpenSdl(Main)
  <2>0. Mine = "sdl" /\ step[Main].owns = {}
    BY <1>5 DEF OpenSdl, Mine, LibraryInv
  <2>1. CASE sdl /\ Goes(Main, "ttf") /\ UNCHANGED sdlVars
    <3>1. Mine' = "ttf" /\ step'[Main].owns = {}
      BY <1>2, <2>0, <2>1
    <3> QED BY <1>0, <1>1, <2>0, <2>1, <3>1 DEF LibraryInv, sdlVars, Uses, Owing, NotYet, NoLonger
  <2>2. CASE ~sdl /\ sdl' = TRUE /\ Owning(Main, "sdl") /\ UNCHANGED <<ttf, storages>>
    <3>1. Mine' = "ttf"
      BY <1>3, <2>2
    <3> QED BY <1>0, <1>1, <2>0, <2>2, <3>1 DEF LibraryInv, Uses, Owing, NotYet, NoLonger
  <2>3. CASE ~sdl /\ GivesUp(Main) /\ UNCHANGED storages
    <3>1. Mine' = "idle" /\ ~sdl' /\ ttf' = ttf
      BY <1>0, <1>4, <2>0, <2>3
    <3> QED BY <1>0, <1>1, <2>0, <2>3, <3>1 DEF LibraryInv, Uses, Owing, NotYet, NoLonger
  <2> QED BY <1>5, <2>1, <2>2, <2>3 DEF OpenSdl
<1>6. CASE OpenTtf(Main)
  <2>0. Mine = "ttf"
    BY <1>6 DEF OpenTtf, Mine
  <2>1. CASE ttf /\ Goes(Main, "storages") /\ UNCHANGED sdlVars
    <3>1. Mine' = "storages" /\ step'[Main].owns = step[Main].owns
      BY <1>2, <2>1
    <3> QED BY <1>0, <1>1, <2>0, <2>1, <3>1 DEF LibraryInv, sdlVars, Uses, Owing, NotYet, NoLonger
  <2>2. CASE ~ttf /\ ttf' = TRUE /\ Owning(Main, "ttf") /\ UNCHANGED <<sdl, storages>>
    <3>1. Mine' = "storages" /\ step'[Main].owns = step[Main].owns \union {"ttf"}
      BY <1>3, <2>2
    <3> QED BY <1>0, <1>1, <2>0, <2>2, <3>1 DEF LibraryInv, Uses, Owing, NotYet, NoLonger
  <2>3. CASE ~ttf /\ GivesUp(Main) /\ UNCHANGED storages
    <3>1. Mine' = "idle" /\ ~ttf'
      BY <1>0, <1>4, <2>3
    <3>2. Held = {}
      BY <2>3 DEF LibraryInv
    <3> QED BY <1>0, <1>1, <2>0, <2>3, <3>1, <3>2 DEF LibraryInv, Uses, Owing, NotYet, NoLonger
  <2> QED BY <1>6, <2>1, <2>2, <2>3 DEF OpenTtf
<1>7. CASE OpenStorages(Main)
  <2>0. Mine = "storages" /\ (numDisplaysOpen = 0 <=> Held = {}) /\ numDisplaysOpen \in Nat
    <3>1. Mine = "storages"
      BY <1>7 DEF OpenStorages, Mine
    <3>2. Counted = Held
      BY <3>1 DEF Counted, Counts, Owing
    <3> QED BY <3>1, <3>2, CountSays
  <2>1. CASE numDisplaysOpen > 0 /\ Goes(Main, "++") /\ UNCHANGED sdlVars
    <3>1. Mine' = "++" /\ Held # {}
      BY <1>2, <2>0, <2>1
    <3> QED BY <1>0, <1>1, <2>0, <2>1, <3>1 DEF LibraryInv, sdlVars, Uses, Owing, NotYet, NoLonger
  <2>2. CASE numDisplaysOpen = 0 /\ storages' = TRUE /\ Goes(Main, "++") /\ UNCHANGED <<sdl, ttf>>
    <3>1. Mine' = "++" /\ Held = {}
      BY <1>2, <2>0, <2>2
    <3> QED BY <1>0, <1>1, <2>0, <2>2, <3>1 DEF LibraryInv, Uses, Owing, NotYet, NoLonger
  <2>3. CASE numDisplaysOpen = 0 /\ GivesUp(Main) /\ storages' = FALSE
    <3>1. Mine' = "idle" /\ Held = {}
      BY <1>4, <2>0, <2>3
    <3>2. ~ttf'
      BY <1>4, <2>0, <2>3, <3>1 DEF LibraryInv
    <3> QED BY <1>0, <1>1, <2>0, <2>3, <3>1, <3>2 DEF LibraryInv, Uses, Owing, NotYet, NoLonger
  <2> QED BY <1>7, <2>1, <2>2, <2>3 DEF OpenStorages
<1> QED BY <1>5, <1>6, <1>7

(* Steps that leave SDL and the rest up, and go on.                         *)
LEMMA LibraryStays ==
  ASSUME LifecycleTypes, LibraryInv, Held' = Held, open' = open,
         UNCHANGED sdlVars,
         \/ Mine' = Mine /\ step'[Main].owns = step[Main].owns
         \/ Mine = "idle" /\ Mine' = "sdl" /\ step'[Main].owns = {}
         \/ Mine = "++" /\ Mine' = "+="
         \/ Mine = "+=" /\ Mine' = "pipe"
         \/ Mine = "pipe" /\ Mine' \in {"rest", "close"}
         \/ Mine = "unpipe" /\ Mine' = "quit"
         \/ Mine = "--" /\ Mine' = "-="
         \/ Mine = "-=" /\ Mine' = "free"
         \/ Mine = "free" /\ Mine' = "idle"
  PROVE  LibraryInv'
<1>1. {sdl, ttf, storages, screen} \subseteq BOOLEAN
  BY DEF LifecycleTypes
<1> QED BY <1>1 DEF LibraryInv, sdlVars, Uses, Owing, NotYet, NoLonger

(* The last close takes the screen window and then the rest down.           *)
LEMMA LibraryCloses ==
  ASSUME LifecycleTypes, PlacesInv, CountInv, LibraryInv, Held' = Held,
         CloseScreen(Main) \/ CloseSdl(Main)
  PROVE  LibraryInv'
<1>0. /\ Main \in Threads /\ {sdl, ttf, storages, screen} \subseteq BOOLEAN
      /\ step \in [Threads -> StepType] /\ open' = open
  BY LifecycleAssumption DEF LifecycleTypes, CloseScreen, CloseSdl
<1>1. \A w \in {"unpipe", "--"} : Goes(Main, w) => Mine' = w
  <2>1. {"unpipe", "--"} \subseteq Stages
    BY DEF Stages, Owing, Untracking
  <2>2. \A w \in Stages : Goes(Main, w) => \E s \in StepType :
           step' = [step EXCEPT ![Main] = s] /\ s.at = w
    BY <1>0, GoesTypes
  <2> QED BY <1>0, <2>1, <2>2 DEF Mine
<1>2. open # {} => Held # {}
  BY DEF Held
<1>3. CASE CloseScreen(Main)
  <2>1. Mine = "close" /\ Mine' = "unpipe"
    BY <1>1, <1>3 DEF CloseScreen, Mine
  <2>2. isLast <=> Held = {}
    BY <2>1, CountSays DEF Counts, Owing, isLast
  <2>3. screen' = (screen /\ Held # {}) /\ UNCHANGED <<sdl, ttf, storages>>
    BY <1>3, <2>2 DEF CloseScreen
  <2> QED BY <1>0, <1>2, <2>1, <2>3 DEF LibraryInv, Uses, Owing, NotYet, NoLonger
<1>4. CASE CloseSdl(Main)
  <2>1. Mine = "quit"
    BY <1>4 DEF CloseSdl, Mine
  <2>2. (isLast <=> Held = {}) /\ numDisplaysOpen > 0
    BY <2>1, CountSays DEF Counts, isLast
  <2>3. Mine' = "--"
    BY <1>1, <1>4, <2>2 DEF CloseSdl
  <2>4. CASE Held = {}
    <3>1. ~sdl' /\ ~ttf' /\ ~storages' /\ screen' = screen
      BY <1>4, <2>2, <2>4 DEF CloseSdl
    <3> QED BY <1>0, <1>2, <2>1, <2>3, <2>4, <3>1 DEF LibraryInv, Uses, Owing, NotYet, NoLonger
  <2>5. CASE Held # {}
    <3>1. UNCHANGED <<sdl, ttf, storages, screen>>
      BY <1>4, <2>2, <2>5 DEF CloseSdl
    <3> QED BY <1>0, <1>2, <2>1, <2>3, <2>5, <3>1 DEF LibraryInv, Uses, Owing, NotYet, NoLonger
  <2> QED BY <2>4, <2>5
<1> QED BY <1>3, <1>4

(* A display that comes to be held, or that was.                            *)
LEMMA LibraryHolds ==
  ASSUME LifecycleTypes, LibraryInv, UNCHANGED <<sdl, ttf, storages>>,
         \/ Mine = "rest" /\ Mine' = "idle" /\ screen' /\ Held' # {}
         \/ Mine = "rest" /\ Mine' = "close" /\ Held' = Held /\ open' = open /\ (screen => screen')
         \/ /\ Mine = "idle" /\ Mine' = "close" /\ Held # {} /\ open' \subseteq open
            /\ screen' = screen
         \/ Mine = "close" /\ Mine' = "idle" /\ Held' # {} /\ open' = open /\ screen' = screen
  PROVE  LibraryInv'
<1>1. {sdl, ttf, storages, screen} \subseteq BOOLEAN
  BY DEF LifecycleTypes
<1> QED BY <1>1 DEF LibraryInv, Uses, Owing, NotYet, NoLonger

(* Every step of a program with one thread.                                 *)
LEMMA SoleSteps ==
  ASSUME LifecycleTypes, PlacesInv, FrameInv, CountInv, LibraryInv,
         ThreadSteps(Main) \/ SetEventFilter \/ HostStep
  PROVE  CountInv' /\ LibraryInv'
<1>0. Main \in Threads /\ step \in [Threads -> StepType] /\ Idle.at = "idle" /\ Idle.owns = {}
  BY LifecycleAssumption DEF LifecycleTypes, Idle
<1>1. CASE OpenSdl(Main) \/ OpenTtf(Main) \/ OpenStorages(Main)
  BY <1>1, OpeningCounts, LibraryOpens
<1>2. \A w \in {"rest", "close", "quit"} : Goes(Main, w) => Mine' = w
  <2>1. {"rest", "close", "quit"} \subseteq Stages
    BY DEF Stages, Owing, Untracking
  <2>2. \A w \in Stages : Goes(Main, w) => \E s \in StepType :
           step' = [step EXCEPT ![Main] = s] /\ s.at = w
    BY <1>0, GoesTypes
  <2> QED BY <1>0, <2>1, <2>2 DEF Mine
<1>3. CASE Load(Main)
  <2>1. CountInv' /\ Held' = Held
    BY <1>3, KeepingCounts
  <2>2. UNCHANGED <<open, sdlVars>> /\ Mine \in {"++", "--"}
    BY <1>3 DEF Load, Mine
  <2>3. Mine' = IF Mine = "++" THEN "+=" ELSE "-="
    BY <1>0, <1>3, LoadTypes DEF Mine, LifecycleTypes
  <2> QED BY <2>1, <2>2, <2>3, LibraryStays
<1>4. CASE initEventPipe(Main)
  <2>1. CountInv' /\ Held' = Held
    BY <1>4, KeepingCounts
  <2>2. UNCHANGED <<open, sdlVars>> /\ Mine = "pipe" /\ Mine' \in {"rest", "close"}
    BY <1>2, <1>4 DEF initEventPipe, Mine
  <2> QED BY <2>1, <2>2, LibraryStays
<1>5. CASE closeEventPipe(Main)
  <2>1. CountInv' /\ Held' = Held
    BY <1>5, KeepingCounts
  <2>2. UNCHANGED <<open, sdlVars>> /\ Mine = "unpipe" /\ Mine' = "quit"
    BY <1>2, <1>5 DEF closeEventPipe, Mine
  <2> QED BY <2>1, <2>2, LibraryStays
<1>6. CASE CloseScreen(Main) \/ CloseSdl(Main)
  BY <1>6, KeepingCounts, LibraryCloses
<1>7. CASE Increment(Main)
  <2>1. UNCHANGED <<open, sdlVars>>
    BY <1>7 DEF Increment
  <2> QED BY <1>7, <2>1, CountUp, LibraryStays
<1>8. CASE Decrement(Main)
  <2>1. UNCHANGED <<open, sdlVars>>
    BY <1>8 DEF Decrement
  <2> QED BY <1>8, <2>1, CountDown, LibraryStays
<1>9. CASE XOpenDisplay(Main)
  <2>1. CountInv' /\ Held' = Held
    BY <1>9, EndsCount
  <2>2. UNCHANGED <<open, sdlVars>>
    BY <1>9 DEF XOpenDisplay
  <2>3. Mine = "idle" /\ Mine' = "sdl" /\ step'[Main].owns = {}
    <3>1. PICK d \in Displays : /\ step[Main] = Idle
            /\ step' = [step EXCEPT ![Main] =
                          [Idle EXCEPT !.at = "sdl", !.display = d, !.opening = TRUE]]
      BY <1>0, <1>9, XOpenDisplayTakes
    <3>2. step'[Main] = [Idle EXCEPT !.at = "sdl", !.display = d, !.opening = TRUE]
      BY <1>0, <3>1
    <3> QED BY <1>0, <3>1, <3>2, StartFields DEF Mine
  <2> QED BY <2>1, <2>2, <2>3, LibraryStays
<1>10. CASE FreeDisplay(Main)
  <2>1. CountInv' /\ Held' = Held
    BY <1>10, EndsCount
  <2>2. UNCHANGED <<open, sdlVars>> /\ Mine = "free" /\ Mine' = "idle"
    BY <1>0, <1>10 DEF FreeDisplay, Mine
  <2> QED BY <2>1, <2>2, LibraryStays
<1>11. CASE OpenRest(Main)
  <2>1. UNCHANGED <<sdl, ttf, storages>>
    BY <1>11 DEF OpenRest
  <2> QED BY <1>11, <2>1, OpenRestCounts, LibraryHolds
<1>12. CASE XCloseDisplay(Main) \/ DeferClose(Main)
  BY <1>12, CloseCounts, LibraryHolds DEF sdlVars
<1>13. CASE SetEventFilter \/ HostStep
  <2>1. CountInv' /\ UNCHANGED <<sdlVars, open>>
    BY <1>13, HostCounts
  <2>2. CASE step' = step /\ Held' = Held
    <3>1. Mine' = Mine /\ step'[Main].owns = step[Main].owns
      BY <2>2 DEF Mine
    <3> QED BY <2>1, <2>2, <3>1, LibraryStays
  <2>3. CASE Mine = "idle" /\ Mine' = "close" /\ Held # {}
    BY <2>1, <2>3, LibraryHolds DEF sdlVars
  <2> QED BY <1>13, <2>2, <2>3, HostCounts
<1> QED BY <1>1, <1>3, <1>4, <1>5, <1>6, <1>7, <1>8, <1>9, <1>10, <1>11, <1>12, <1>13
    DEF ThreadSteps
-----------------------------------------------------------------------------
(* The theorems.                                                            *)

(* The program starts with nothing open, but for its own SDL.               *)
LEMMA LifecycleStart ==
  ASSUME LifecycleInit
  PROVE  LifecycleInv
<1> USE DEF LifecycleInit, LiveResizeInit
<1>1. /\ Idle \in StepType /\ Idle.at = "idle" /\ Idle.display = NoDisplay
      /\ NoFrame \in FrameType /\ NoFrame.at = "none" /\ NoFrame.by = "nobody"
      /\ NoFrame.batch = <<>> /\ <<>> \in Seq(Displays)
      /\ Range(<<>>) = {} /\ IsInjective(<<>>) /\ Len(<<>>) = 0
      /\ Main \in Threads
  BY EmptyQueue, LifecycleAssumption DEF Idle, StepType, Stages, NoFrame, FrameType
<1>2. program.embedded \in BOOLEAN
  BY LifecycleAssumption
<1>3. LifecycleTypes
  <2>1. /\ sdl \in BOOLEAN /\ ttf \in BOOLEAN /\ storages \in BOOLEAN /\ screen \in BOOLEAN
        /\ pipe \in BOOLEAN /\ locks \in BOOLEAN /\ xtWakeTimer \in BOOLEAN
    BY <1>2
  <2>2. step \in [Threads -> StepType] /\ freed \in [Displays -> Nat]
    BY <1>1
  <2> QED BY <1>1, <2>1, <2>2 DEF LifecycleTypes
<1>4. ObserverTypes
  <2>1. /\ registered \in BOOLEAN /\ observer \in BOOLEAN /\ running \in BOOLEAN
        /\ pendingStop \in BOOLEAN /\ blind \in BOOLEAN
    OBVIOUS
  <2>2. retains \in [HostWindows -> Int]
    OBVIOUS
  <2> QED BY <2>1, <2>2 DEF ObserverTypes
<1>5. ObserverInv
  BY <1>1, HostWindowsAssumption DEF ObserverInv, CallbackInv
<1>6. \A t \in Threads : step[t] = Idle
  OBVIOUS
<1>7. Stepping = {} /\ Gone = {} /\ Closing = {} /\ Resting = {} /\ Waiting = {}
  BY <1>1, <1>6 DEF Stepping, Gone, Closing, Resting, Waiting, Owing
<1>8. StepsApart /\ OthersIdle
  BY <1>1, <1>6 DEF StepsApart, OthersIdle
<1>9. PlacesInv
  BY <1>1, <1>7, <1>8 DEF PlacesInv, OncePerQueue, PlacesApart
<1>10. FrameInv
  BY <1>1, <1>6, LifecycleAssumption DEF FrameInv, InPresent
<1>11. PipeInv
  BY <1>1, <1>7 DEF PipeInv, Owed
<1>12. Held = {} /\ Mine = "idle"
  BY <1>1, <1>6, <1>7 DEF Held, Mine
<1>13. Counted = {}
  BY <1>12 DEF Counted, Counts, Owing
<1>14. CountInv
  BY <1>12, <1>13, FS_EmptySet DEF CountInv
<1>15. LibraryInv
  BY <1>12 DEF LibraryInv, Uses, Owing, NotYet, NoLonger
<1> QED BY <1>3, <1>4, <1>5, <1>8, <1>9, <1>10, <1>11, <1>14, <1>15 DEF LifecycleInv

(* A step of a thread keeps all of it ...                                   *)
LEMMA ThreadKeeps ==
  ASSUME LifecycleInv, NEW t \in Threads, ThreadSteps(t)
  PROVE  LifecycleInv'
<1> USE DEF LifecycleInv
<1>1. step[t].at = "pipe" => step[t].display \in Displays
  BY StepDisplay
<1>2. LifecycleTypes'
  BY <1>1, OpeningTypes, KeepingTypes, MovingTypes DEF ThreadSteps
<1>3. ObserverTypes' /\ ObserverInv'
  <2>1. CASE initEventPipe(t) \/ closeEventPipe(t)
    BY <2>1, ObserverOfPipe
  <2>2. CASE ~(initEventPipe(t) \/ closeEventPipe(t))
    <3>1. UNCHANGED <<liveResizeVars, frame>>
      BY <2>2 DEF ThreadSteps, XOpenDisplay, OpenSdl, OpenTtf, OpenStorages, Load,
            Increment, OpenRest, XCloseDisplay, DeferClose, CloseScreen, CloseSdl,
            Decrement, FreeDisplay
    <3> QED BY <3>1, ObserverStays
  <2> QED BY <2>1, <2>2
<1>4. PlacesInv'
  <2>1. CASE OpenSdl(t) \/ OpenTtf(t) \/ OpenStorages(t)
    <3>1. /\ UNCHANGED <<open, deferVars, frame>> /\ step[t].at # "idle"
          /\ (KeepsOn(t) /\ freed' = freed) \/ GivesUp(t)
      BY <2>1, OpeningMoves
    <3>2. CASE KeepsOn(t) /\ freed' = freed
      BY <3>1, <3>2, PlacesKept
    <3>3. CASE GivesUp(t)
      BY <3>1, <3>3, PlacesFree DEF GivesUp
    <3> QED BY <3>1, <3>2, <3>3
  <2>2. CASE \/ Load(t) \/ Increment(t) \/ initEventPipe(t) \/ CloseScreen(t)
             \/ closeEventPipe(t) \/ CloseSdl(t) \/ Decrement(t)
    BY <2>2, GoingOnMoves, PlacesKept
  <2>3. CASE FreeDisplay(t)
    BY <2>3, PlacesFree DEF FreeDisplay
  <2>4. CASE XOpenDisplay(t) \/ OpenRest(t) \/ XCloseDisplay(t) \/ DeferClose(t)
    BY <2>4, PlacesOpen, PlacesOpened, PlacesClose, PlacesDefer
  <2> QED BY <2>1, <2>2, <2>3, <2>4 DEF ThreadSteps
<1>5. FrameInv'
  BY <1>2, FrameOfThread, FrameOfDefer DEF ThreadSteps
<1>6. PipeInv'
  BY PipeOfEarlyAndLate, PipeOfOpenRest, PipeOfXClose, PipeOfDefer, PipeOfCloseScreen,
     PipeOfInit, PipeOfClose DEF ThreadSteps
<1>7. OthersIdle' /\ program' = program
  BY OthersStayIdle
<1>8. program.threads = {Main} => CountInv' /\ LibraryInv'
  <2> SUFFICES ASSUME program.threads = {Main} PROVE CountInv' /\ LibraryInv'
    OBVIOUS
  <2>1. t = Main
    BY ThreadMoves
  <2> QED BY <2>1, SoleSteps
<1> QED BY <1>2, <1>3, <1>4, <1>5, <1>6, <1>7, <1>8

(* ... and so does every other.                                             *)
LEMMA HostKeeps ==
  ASSUME LifecycleInv, SetEventFilter \/ HostStep
  PROVE  LifecycleInv'
<1> USE DEF LifecycleInv
<1>1. LifecycleTypes'
  BY OtherTypes
<1>2. ObserverTypes' /\ ObserverInv'
  <2>1. CASE SetEventFilter
    BY <2>1, ObserverStays DEF SetEventFilter
  <2>2. CASE HostStep
    BY <2>2, ObserverOfHost, ObserverOfFrame DEF HostStep
  <2> QED BY <2>1, <2>2
<1>3. PlacesInv'
  <2>1. CASE FrameUnwinds \/ DrainClose
    BY <2>1, PlacesUnwind, PlacesDrain
  <2>2. CASE ~FrameUnwinds /\ ~DrainClose
    <3>1. UNCHANGED <<step, open, freed, leaked, pending, fallback>>
      BY <2>2 DEF HostStep, SetEventFilter, HostAction, DidEnd, Tick, AfterFrame,
            libraryVars, deferVars
    <3>2. frame' = frame \/ (frame.batch = <<>> /\ frame'.batch = <<>>)
      <4>1. frame.at # "drain" => frame.batch = <<>>
        BY DEF FrameInv
      <4>2. frame' = frame \/ frame' = NoFrame
              \/ \E by \in {"tick", "end", "last"} : Present(by)
        BY <2>2 DEF HostStep, SetEventFilter, HostAction, DidEnd, Tick, AfterFrame
      <4>3. frame' = frame \/ frame.at # "drain"
        BY <2>2 DEF HostStep, SetEventFilter, HostAction, DidEnd, Tick, AfterFrame,
                    RunLoop, NoFrame
      <4> QED BY <4>1, <4>2, <4>3, FrameTypes
    <3>3. frame'.batch = frame.batch
      BY <3>2
    <3> QED BY <3>1, <3>3, PlacesStay
  <2> QED BY <2>1, <2>2
<1>4. FrameInv'
  BY FrameOfHost
<1>5. PipeInv'
  BY PipeOfHost
<1>6. OthersIdle' /\ program' = program
  BY OthersStayIdle
<1>7. program.threads = {Main} => CountInv' /\ LibraryInv'
  BY SoleSteps
<1> QED BY <1>1, <1>2, <1>3, <1>4, <1>5, <1>6, <1>7

(* A step in which nothing happens.                                         *)
LEMMA LifecycleStutter ==
  ASSUME LifecycleInv, UNCHANGED lifecycleVars
  PROVE  LifecycleInv'
<1>1. UNCHANGED <<program, sdl, ttf, storages, screen, numDisplaysOpen, trackedDisplays,
        filter, pipe, locks, xtWakeTimer, step, open, freed, pending, capacity,
        fallback, leaked, frame, failures, liveResizeVars>>
  BY DEF lifecycleVars, sdlVars, pipeVars, deferVars
<1>2. LifecycleTypes'
  BY <1>1 DEF LifecycleInv, LifecycleTypes
<1>3. ObserverTypes' /\ ObserverInv'
  BY <1>1, ObserverStays DEF LifecycleInv
<1>4. PlacesInv'
  BY <1>1, PlacesStay DEF LifecycleInv
<1>5. FrameInv'
  BY <1>1 DEF LifecycleInv, FrameInv, InPresent
<1>6. Closing' = Closing /\ Resting' = Resting /\ Waiting' = Waiting /\ registered' = registered
  BY <1>1 DEF Closing, Resting, Waiting, liveResizeVars, observerVars
<1>7. PipeInv'
  BY <1>1, <1>6 DEF LifecycleInv, PipeInv, Owed
<1>8. OthersIdle'
  BY <1>1 DEF LifecycleInv, OthersIdle
<1>9. Mine' = Mine /\ Held' = Held /\ Counted' = Counted /\ step'[Main] = step[Main]
  BY <1>1, <1>6 DEF Mine, Held, Counted
<1>10. program.threads = {Main} => CountInv' /\ LibraryInv'
  BY <1>1, <1>9 DEF LifecycleInv, CountInv, LibraryInv
<1> QED BY <1>1, <1>2, <1>3, <1>4, <1>5, <1>7, <1>8, <1>10 DEF LifecycleInv

(* The invariant is inductive.                                              *)
THEOREM LifecycleInvariant == LifecycleSpec => []LifecycleInv
<1>1. LifecycleInit => LifecycleInv
  BY LifecycleStart
<1>2. LifecycleInv /\ [LifecycleNext]_lifecycleVars => LifecycleInv'
  <2> SUFFICES ASSUME LifecycleInv, [LifecycleNext]_lifecycleVars PROVE LifecycleInv'
    OBVIOUS
  <2>1. CASE LifecycleNext
    <3>1. (\E t \in Threads : ThreadSteps(t)) \/ SetEventFilter \/ HostStep
      BY <2>1 DEF LifecycleNext, ThreadSteps, HostStep
    <3> QED BY <3>1, ThreadKeeps, HostKeeps
  <2> QED BY <2>1, LifecycleStutter
<1> QED BY <1>1, <1>2, PTL DEF LifecycleSpec

(* Types.                                                                   *)
THEOREM LifecycleTyped == LifecycleSpec => [](LifecycleTypes /\ ObserverTypes)
BY LifecycleInvariant, PTL DEF LifecycleInv

(* The observer of a drag is never removed in its own callback, and serves  *)
(* the drag there is, with one retain.                                      *)
THEOREM ObserverTheorem == LifecycleSpec => []ObserverFollowsDrag
<1>1. LifecycleInv => ObserverFollowsDrag
  BY DEF LifecycleInv, ObserverTypes, ObserverInv, CallbackInv, ObserverFollowsDrag,
         inLiveResize
<1> QED BY <1>1, LifecycleInvariant, PTL

(* Each display the client has is one it may use, for any threads, failures *)
(* and closes inside frames.                                                *)
THEOREM DisplaysTheorem == LifecycleSpec => []OpenDisplaysAreUsable
<1>1. LifecycleInv => ConnectionFollowsDisplays
  <2> SUFFICES ASSUME LifecycleInv PROVE ConnectionFollowsDisplays
    OBVIOUS
  <2> USE DEF LifecycleInv
  <2>1. /\ Gone \intersect (open \union Waiting) = {} /\ Gone \intersect Stepping = {}
    BY DEF PlacesInv, PlacesApart, Waiting
  <2>2. \A d \in Closing \union Resting : d \in Stepping
    <3>1. ASSUME NEW t \in Threads, step[t].at \in Owing \union {"rest"}
          PROVE  step[t].display \in Stepping
      BY <3>1, StepDisplay, LifecycleAssumption DEF Stepping, Owing
    <3> QED BY <3>1 DEF Closing, Resting
  <2>3. ASSUME NEW d \in Range(trackedDisplays) PROVE freed[d] = 0
    <3>1. d \in Displays
      BY InRange DEF LifecycleTypes
    <3>2. d \notin Gone
      BY <2>1, <2>2 DEF PipeInv, Owed
    <3> QED BY <3>1, <3>2 DEF Gone
  <2>4. ASSUME Quiescent, trackedDisplays = <<>>, leaked = {}
        PROVE  ~(pipe \/ locks \/ xtWakeTimer \/ registered)
    <3>1. Closing = {}
      BY <2>4 DEF Quiescent, Closing, Owing, Idle
    <3>2. frame.batch = <<>> /\ pending = <<>> /\ fallback = <<>>
      BY <2>4 DEF Quiescent, FrameInv, InPresent, NoFrame
    <3>3. Range(<<>>) = {}
      BY EmptyQueue
    <3>4. Owed = {}
      BY <2>4, <3>1, <3>2, <3>3 DEF Owed, Waiting
    <3> QED BY <2>4, <3>4 DEF PipeInv
  <2> QED BY <2>3, <2>4 DEF PipeInv, ConnectionFollowsDisplays
<1>2. LifecycleInv => LibraryUpWhileOpen
  <2> SUFFICES ASSUME LifecycleInv, program.threads = {Main}
               PROVE  /\ open # {} => sdl /\ ttf /\ storages /\ screen
                      /\ Quiescent => numDisplaysOpen = Cardinality(open \union leaked)
                      /\ Quiescent /\ open \union leaked = {} => ~ttf /\ ~storages /\ ~screen
    BY DEF LibraryUpWhileOpen
  <2> USE DEF LifecycleInv
  <2>1. open # {} => sdl /\ ttf /\ storages /\ screen
    BY DEF LibraryInv, Held
  <2>2. Quiescent => Held = open \union leaked /\ Mine = "idle" /\ Counted = Held
    <3> SUFFICES ASSUME Quiescent PROVE Held = open \union leaked /\ Mine = "idle" /\ Counted = Held
      OBVIOUS
    <3>1. frame.batch = <<>> /\ pending = <<>> /\ fallback = <<>>
      BY DEF Quiescent, FrameInv, InPresent, NoFrame
    <3>2. Range(<<>>) = {}
      BY EmptyQueue
    <3>3. Mine = "idle"
      BY LifecycleAssumption DEF Quiescent, Mine, Idle
    <3> QED BY <3>1, <3>2, <3>3 DEF Held, Waiting, Counted, Counts, Owing
  <2>3. Quiescent /\ open \union leaked = {} => ~ttf /\ ~storages /\ ~screen
    BY <2>2 DEF LibraryInv, NotYet
  <2> QED BY <2>1, <2>2, <2>3 DEF CountInv
<1> QED BY <1>1, <1>2, LifecycleInvariant, PTL DEF OpenDisplaysAreUsable

(* How often a display is in a queue.                                       *)
LEMMA OnceInQueue ==
  ASSUME NEW s \in Seq(Displays), IsInjective(s), NEW d
  PROVE  Cardinality({i \in 1..Len(s) : s[i] = d}) = IF d \in Range(s) THEN 1 ELSE 0
<1> DEFINE at == {i \in 1..Len(s) : s[i] = d}
<1>1. CASE d \in Range(s)
  <2>1. PICK k \in 1..Len(s) : s[k] = d
    BY <1>1, InRange
  <2>2. \A i \in 1..Len(s) : s[i] = d => i = k
    BY <2>1, InRange
  <2>3. at = {k}
    BY <2>1, <2>2
  <2> QED BY <1>1, <2>3, FS_Singleton
<1>2. CASE d \notin Range(s)
  <2>1. at = {}
    BY <1>2, InRange
  <2> QED BY <1>2, <2>1, FS_EmptySet
<1> QED BY <1>1, <1>2

(* Each term of PlacesOf is 1 where the display is, and 0 elsewhere.        *)
LEMMA PlacesCount ==
  ASSUME LifecycleInv, NEW d \in Displays
  PROVE  /\ freed[d] = IF d \in Gone THEN 1 ELSE 0
         /\ Cardinality({t \in Threads : step[t].display = d})
              = IF d \in Stepping THEN 1 ELSE 0
         /\ Cardinality({i \in 1..Len(pending) : pending[i] = d})
              = IF d \in Range(pending) THEN 1 ELSE 0
         /\ Cardinality({i \in 1..Len(fallback) : fallback[i] = d})
              = IF d \in Range(fallback) THEN 1 ELSE 0
         /\ Cardinality({i \in 1..Len(frame.batch) : frame.batch[i] = d})
              = IF d \in Range(frame.batch) THEN 1 ELSE 0
         /\ Cardinality({s \in {open, leaked} : d \in s})
              = IF d \in open \union leaked THEN 1 ELSE 0
<1> USE DEF LifecycleInv
<1>0. d # NoDisplay
  BY LifecycleAssumption
<1>1. freed[d] = IF d \in Gone THEN 1 ELSE 0
  <2>1. freed[d] \in Nat /\ freed[d] <= 1
    BY DEF LifecycleTypes, PlacesInv
  <2> QED BY <2>1 DEF Gone
<1>2. Cardinality({t \in Threads : step[t].display = d}) = IF d \in Stepping THEN 1 ELSE 0
  <2>1. CASE d \in Stepping
    <3>1. PICK u \in Threads : step[u].display = d
      BY <2>1 DEF Stepping
    <3>2. {t \in Threads : step[t].display = d} = {u}
      BY <1>0, <3>1 DEF PlacesInv, StepsApart
    <3> QED BY <2>1, <3>2, FS_Singleton
  <2>2. CASE d \notin Stepping
    <3>1. {t \in Threads : step[t].display = d} = {}
      BY <1>0, <2>2 DEF Stepping
    <3> QED BY <2>2, <3>1, FS_EmptySet
  <2> QED BY <2>1, <2>2
<1>3. /\ pending \in Seq(Displays) /\ fallback \in Seq(Displays)
      /\ frame.batch \in Seq(Displays)
      /\ IsInjective(pending) /\ IsInjective(fallback) /\ IsInjective(frame.batch)
  BY FrameTypes DEF LifecycleTypes, PlacesInv, OncePerQueue
<1>4. Cardinality({s \in {open, leaked} : d \in s}) = IF d \in open \union leaked THEN 1 ELSE 0
  <2>0. open \intersect leaked = {}
    BY DEF PlacesInv, PlacesApart
  <2>1. CASE d \in open
    <3>1. {s \in {open, leaked} : d \in s} = {open}
      BY <2>0, <2>1
    <3> QED BY <2>1, <3>1, FS_Singleton
  <2>2. CASE d \in leaked
    <3>1. {s \in {open, leaked} : d \in s} = {leaked}
      BY <2>0, <2>2
    <3> QED BY <2>2, <3>1, FS_Singleton
  <2>3. CASE d \notin open \union leaked
    <3>1. {s \in {open, leaked} : d \in s} = {}
      BY <2>3
    <3> QED BY <2>3, <3>1, FS_EmptySet
  <2> QED BY <2>1, <2>2, <2>3
<1> QED BY <1>1, <1>2, <1>3, <1>4, OnceInQueue

(* So each display is in at most one place, and a tracked one is in one.    *)
LEMMA OnePlace ==
  ASSUME LifecycleInv, NEW d \in Displays
  PROVE  PlacesOf(d) <= 1 /\ (d \in Range(trackedDisplays) => PlacesOf(d) = 1)
<1> DEFINE somewhere == Stepping \union Gone \union open \union Waiting
<1>1. PlacesOf(d) = IF d \in somewhere THEN 1 ELSE 0
  <2>1. PlacesOf(d) = (IF d \in Gone THEN 1 ELSE 0) + (IF d \in Stepping THEN 1 ELSE 0)
          + (IF d \in Range(pending) THEN 1 ELSE 0)
          + (IF d \in Range(fallback) THEN 1 ELSE 0)
          + (IF d \in Range(frame.batch) THEN 1 ELSE 0)
          + (IF d \in open \union leaked THEN 1 ELSE 0)
    BY PlacesCount DEF PlacesOf
  <2>2. PlacesApart
    BY DEF LifecycleInv, PlacesInv
  <2> QED BY <2>1, <2>2 DEF PlacesApart, Waiting
<1>2. d \in Closing \union Resting => d \in Stepping
  <2>1. ASSUME NEW t \in Threads, step[t].at \in Owing \union {"rest"}
        PROVE  step[t].display \in Stepping
    BY <2>1, StepDisplay, LifecycleAssumption DEF LifecycleInv, Stepping, Owing
  <2> QED BY <2>1 DEF Closing, Resting
<1>3. d \in Range(trackedDisplays) => d \in somewhere
  BY <1>2 DEF LifecycleInv, PipeInv, Owed
<1> QED BY <1>1, <1>3

(* A close asked for in a frame happens once and after it, or waits, or is  *)
(* lost when both queues are full: for queues of any size.                  *)
THEOREM DeferredCloseTheorem == LifecycleSpec => []DeferredCloseOnce
<1>1. LifecycleInv => DeferredCloseOnce
  <2> SUFFICES ASSUME LifecycleInv PROVE DeferredCloseOnce
    OBVIOUS
  <2>1. \A d \in Displays : PlacesOf(d) <= 1
    BY OnePlace
  <2>2. \A d \in Range(trackedDisplays) : PlacesOf(d) = 1
    <3>1. Range(trackedDisplays) \subseteq Displays
      BY InRange DEF LifecycleInv, LifecycleTypes
    <3> QED BY <3>1, OnePlace
  <2>3. pending \o fallback # <<>> => InPresent
    <3> SUFFICES ASSUME ~InPresent PROVE pending \o fallback = <<>>
      OBVIOUS
    <3>1. pending = <<>> /\ fallback = <<>>
      BY DEF LifecycleInv, FrameInv
    <3> QED BY <3>1
  <2>4. /\ InPresent => step[Main].at \notin {"unpipe", "quit", "--", "-=", "free"}
        /\ leaked # {} => failures > FallbackSlots
    BY DEF LifecycleInv, FrameInv, Untracking
  <2> QED BY <2>1, <2>2, <2>3, <2>4 DEF DeferredCloseOnce
<1> QED BY <1>1, LifecycleInvariant, PTL
=============================================================================
