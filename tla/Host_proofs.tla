----------------------------- MODULE Host_proofs -----------------------------
(***************************************************************************)
(* Proofs about what the host shows of a program.                           *)
(*                                                                          *)
(* PresentWake, for any programs: no wake is pushed into an event subsystem *)
(* that is being torn down or set up, and what was drawn is presented when  *)
(* the callback does not overlap the main thread.                           *)
(*                                                                          *)
(* Clipboard, for any owners, claims and copies: the host's clipboard holds *)
(* the whole text of the owner it was taken from, who loses the selection   *)
(* is told, and a copy by another program revokes it.                       *)
(***************************************************************************)
EXTENDS PresentWake, Clipboard, SequenceTheorems, TLAPS

(* Where the main thread is.  A call that draws works through a list in     *)
(* which the steps of a schedule follow each other.                         *)
Inner == {"askTimer", "ungag", "markTimer", "arm"}
DrawSteps == {"draw", "drain", "markDirty", "clearWake", "askWake"} \union Inner
Leads == {"markDirty", "askWake", "askTimer", "ungag", "markTimer"}
After(s) == CASE s = "markDirty" -> "askWake" [] s = "askWake" -> "askTimer"
              [] s = "askTimer" -> "ungag" [] s = "ungag" -> "markTimer"
              [] OTHER -> "arm"
Chained(z) ==
  /\ z \in Seq(DrawSteps)
  /\ \A i \in 1..Len(z) :
       /\ z[i] \in Leads => i + 1 \in 1..Len(z) /\ z[i + 1] = After(z[i])
       /\ i > 1 /\ z[i] \in Inner => z[i - 1] \in Leads /\ z[i] = After(z[i - 1])
       /\ i > 1 => z[i] # "clearWake"

(* A close or an open, from its first step on and from each later one.      *)
Cancels(x) ==
  {<<"gag", "remove", "cycleLock", "clearTimer", "clearWake", x>>,
   <<"remove", "cycleLock", "clearTimer", "clearWake", x>>,
   <<"cycleLock", "clearTimer", "clearWake", x>>,
   <<"clearTimer", "clearWake", x>>, <<"clearWake", x>>, <<x>>}
Cancelling == todo \in Cancels("quit") \union Cancels("init")
HeadIs(s) == todo # <<>> /\ Head(todo) = s
Gagged == Cancelling /\ ~HeadIs("gag")
Removed == Gagged /\ ~HeadIs("remove")
Passed == Removed /\ ~HeadIs("cycleLock")
Cleared == Passed /\ ~HeadIs("clearTimer")

(* Where the callback is.                                                   *)
CallbackTodos ==
  {<<"lock", "askGag", "askWake", "push", "mark", "unlock", "clearTimer">>,
   <<"askGag", "askWake", "push", "mark", "unlock", "clearTimer">>,
   <<"askWake", "push", "mark", "unlock", "clearTimer">>,
   <<"push", "mark", "unlock", "clearTimer">>, <<"mark", "unlock", "clearTimer">>,
   <<"unlock", "clearTimer">>, <<"clearTimer">>, <<>>}
MayPush == \E s \in {"lock", "askGag", "askWake", "push"} : CallbackAt(s)
Fired == callback.todo # <<>>

PresentTypes ==
  /\ PresentTypeOK
  /\ timerId \in 0..3 /\ callback \in [timer : 0..3, todo : CallbackTodos]
  /\ {up, dirty, wakePending, timerPending, tornDown, asleep, unlucky} \subseteq BOOLEAN
  /\ ~Fired => callback = NoCallback

(* A display that is closed has no timer, and a client sleeps in no call.   *)
MainInv ==
  /\ Chained(todo) \/ Cancelling
  /\ todo \in Cancels("quit") => up
  /\ todo \in Cancels("init") => ~up
  /\ ~up => timers = {} /\ ~Fired /\ (todo = <<>> \/ todo \in Cancels("init"))
  /\ asleep => todo = <<>> /\ up

(* There is one timer: being armed, waiting, or calling back; and the flag  *)
(* is set while there is, unless a close has cleared it.                    *)
TimerInv ==
  /\ timers \subseteq {timerId}
  /\ HeadIs("ungag") \/ HeadIs("markTimer") \/ HeadIs("arm") \/ Fired => timers = {}
  /\ HeadIs("ungag") \/ HeadIs("markTimer") \/ HeadIs("arm") => ~Fired
  /\ HeadIs("arm") \/ timers # {} \/ Fired => timerPending \/ Cleared
  /\ timerPending => \/ HeadIs("arm") \/ timers # {} \/ Fired
                     \/ Cancelling /\ ~Cleared

(* The close shuts the callback out.                                        *)
GagInv ==
  /\ locked = "callback" <=> Fired /\ ~CallbackAt("lock") /\ ~CallbackAt("clearTimer")
  /\ Gagged => tornDown
  /\ Removed => timers = {}
  /\ Passed /\ MayPush => CallbackAt("lock") \/ CallbackAt("askGag")

(* When nothing overlaps, a wake that is marked pending is in the queue or   *)
(* about to be forgotten, and what is dirty will be drawn.                  *)
HasDraw(z) == \E i \in 1..Len(z) : z[i] = "draw"
WillDraw == HasDraw(todo)
AloneInv ==
  /\ wakePending => wakes > 0 \/ WillDraw \/ HeadIs("clearWake")
  /\ CallbackAt("mark") => wakes > 0 \/ WillDraw
  /\ Removed => ~Fired
  /\ todo = <<"quit">> \/ todo = <<"init">> => ~wakePending
  /\ timers # {} \/ MayPush \/ HeadIs("markTimer") \/ HeadIs("arm") => ~tornDown \/ Cancelling
  /\ ~up => ~dirty
  /\ dirty /\ ~unlucky => \/ Cancelling \/ WillDraw
                          \/ \E s \in Inner \union {"askWake"} : HeadIs(s)
                          \/ wakes > 0 \/ CallbackAt("push")
                          \/ ~wakePending /\ ~tornDown /\ (timers # {} \/ MayPush)

PresentInv ==
  /\ PresentTypes /\ MainInv /\ TimerInv /\ GagInv
  /\ ~painter.overlap => AloneInv
-----------------------------------------------------------------------------
(* Lists of steps.  Where a list may be put behind another.                 *)
Entry(z) == z # <<>> => Head(z) \notin Inner \union {"clearWake"}

(* One step further in a list.                                              *)
LEMMA ChainTail ==
  ASSUME NEW z, Chained(z), z # <<>>
  PROVE  /\ Head(z) \in DrawSteps /\ Chained(Tail(z))
         /\ Head(z) \in Leads => Tail(z) # <<>> /\ Head(Tail(z)) = After(Head(z))
         /\ Head(z) \notin Leads => Entry(Tail(z))
         /\ Tail(z) # <<>> => Head(Tail(z)) # "clearWake"
         /\ HasDraw(z) /\ Head(z) # "draw" => HasDraw(Tail(z))
<1>0. z \in Seq(DrawSteps) /\ Len(z) \in Nat /\ Len(z) >= 1
  BY DEF Chained
<1>10. /\ Tail(z) \in Seq(DrawSteps) /\ Len(Tail(z)) = Len(z) - 1
       /\ \A i \in 1..Len(Tail(z)) : Tail(z)[i] = z[i + 1]
       /\ Head(z) = z[1]
  BY <1>0
<1>1. /\ Tail(z) \in Seq(DrawSteps) /\ Len(Tail(z)) = Len(z) - 1
      /\ \A i \in 1..Len(Tail(z)) : i + 1 \in 1..Len(z) /\ Tail(z)[i] = z[i + 1]
      /\ Head(z) = z[1] /\ 1 \in 1..Len(z)
      /\ Tail(z) # <<>> => /\ 2 \in 1..Len(z) /\ 1 \in 1..Len(Tail(z)) /\ Head(Tail(z)) = z[2]
      /\ 2 \in 1..Len(z) => Tail(z) # <<>>
  <2>1. Tail(z) # <<>> => Len(Tail(z)) >= 1 /\ Head(Tail(z)) = Tail(z)[1]
    BY <1>10
  <2>2. 2 \in 1..Len(z) => Len(Tail(z)) # 0
    BY <1>0, <1>10
  <2>3. \A i \in 1..Len(Tail(z)) : i + 1 \in 1..Len(z)
    BY <1>0, <1>10
  <2>4. Tail(z) # <<>> => 2 \in 1..Len(z) /\ 1 \in 1..Len(Tail(z)) /\ Tail(z)[1] = z[2]
    <3> SUFFICES ASSUME Tail(z) # <<>>
                 PROVE  2 \in 1..Len(z) /\ 1 \in 1..Len(Tail(z)) /\ Tail(z)[1] = z[2]
      OBVIOUS
    <3>1. 2 \in 1..Len(z) /\ 1 \in 1..Len(Tail(z)) /\ 1 + 1 = 2
      BY <1>0, <1>10, <2>1
    <3>2. Tail(z)[1] = z[1 + 1]
      BY <1>10, <3>1
    <3> QED BY <3>1, <3>2
  <2>5. 2 \in 1..Len(z) => Tail(z) # <<>>
    <3>1. Len(<<>>) = 0
      OBVIOUS
    <3> QED BY <2>2, <3>1
  <2>6. 1 \in 1..Len(z)
    BY <1>0
  <2> QED BY <1>10, <2>1, <2>3, <2>4, <2>5, <2>6
<1>2. /\ z[1] \in DrawSteps
      /\ \A i \in 1..Len(z) :
           /\ z[i] \in Leads => i + 1 \in 1..Len(z) /\ z[i + 1] = After(z[i])
           /\ i > 1 /\ z[i] \in Inner => z[i - 1] \in Leads /\ z[i] = After(z[i - 1])
           /\ i > 1 => z[i] # "clearWake"
  BY <1>0, <1>1 DEF Chained
<1> DEFINE t == Tail(z)
<1>3. Chained(t)
  <2> SUFFICES ASSUME NEW i \in 1..Len(t)
               PROVE  /\ t[i] \in Leads => i + 1 \in 1..Len(t) /\ t[i + 1] = After(t[i])
                      /\ i > 1 /\ t[i] \in Inner => t[i - 1] \in Leads /\ t[i] = After(t[i - 1])
                      /\ i > 1 => t[i] # "clearWake"
    BY <1>0, <1>1 DEF Chained
  <2>1. /\ i \in Nat /\ i + 1 \in 1..Len(z) /\ t[i] = z[i + 1] /\ i + 1 > 1
        /\ (i + 1) - 1 = i /\ (i + 1) + 1 = i + 2
    BY <1>0, <1>1
  <2>2. z[i + 1] \in Leads => i + 1 \in 1..Len(t) /\ t[i + 1] = After(z[i + 1])
    <3> SUFFICES ASSUME z[i + 1] \in Leads
                 PROVE  i + 1 \in 1..Len(t) /\ t[i + 1] = After(z[i + 1])
      OBVIOUS
    <3>1. i + 2 \in 1..Len(z) /\ z[i + 2] = After(z[i + 1])
      BY <1>2, <2>1
    <3>2. i + 1 \in 1..Len(t)
      BY <1>0, <1>1, <3>1
    <3> QED BY <1>0, <1>1, <2>1, <3>1, <3>2
  <2>3. i > 1 => i - 1 \in 1..Len(t) /\ t[i - 1] = z[i]
    <3>1. i > 1 => i - 1 \in 1..Len(t) /\ (i - 1) + 1 = i
      BY <1>0, <1>1
    <3> QED BY <1>0, <1>1, <3>1
  <2>4. z[i + 1] \in Inner => z[i] \in Leads /\ z[i + 1] = After(z[i])
    BY <1>2, <2>1
  <2>5. z[i + 1] # "clearWake"
    BY <1>2, <2>1
  <2> QED BY <2>1, <2>2, <2>3, <2>4, <2>5
<1>4. Head(z) \in Leads => t # <<>> /\ Head(t) = After(Head(z))
  BY <1>0, <1>1, <1>2
<1>5. t # <<>> => Head(t) # "clearWake" /\ (Head(t) \in Inner => Head(z) \in Leads)
  <2> SUFFICES ASSUME t # <<>>
               PROVE  Head(t) # "clearWake" /\ (Head(t) \in Inner => Head(z) \in Leads)
    OBVIOUS
  <2>1. 2 \in 1..Len(z) /\ 2 > 1 /\ 2 - 1 = 1 /\ Head(t) = z[2]
    BY <1>0, <1>1
  <2>2. z[2] # "clearWake" /\ (z[2] \in Inner => z[2 - 1] \in Leads)
    BY <1>2, <2>1
  <2> QED BY <1>0, <1>1, <2>1, <2>2
<1>6. HasDraw(z) /\ Head(z) # "draw" => HasDraw(t)
  <2> SUFFICES ASSUME NEW i \in 1..Len(z), z[i] = "draw", z[1] # "draw"
               PROVE  \E j \in 1..Len(t) : t[j] = "draw"
    BY <1>0, <1>1 DEF HasDraw
  <2>1. i # 1 /\ i - 1 \in 1..Len(t) /\ (i - 1) + 1 = i
    BY <1>0, <1>1
  <2> QED BY <1>0, <1>1, <2>1
<1> QED BY <1>0, <1>1, <1>2, <1>3, <1>4, <1>5, <1>6 DEF Entry

(* A list put in front of another.                                          *)
LEMMA ChainJoin ==
  ASSUME NEW p, NEW z, Chained(p), Chained(z), Entry(z)
  PROVE  /\ Chained(p \o z)
         /\ HasDraw(p \o z) <=> HasDraw(p) \/ HasDraw(z)
         /\ p # <<>> => p \o z # <<>> /\ Head(p \o z) = Head(p)
         /\ p = <<>> => p \o z = z
<1> DEFINE j == p \o z
<1>1. /\ p \in Seq(DrawSteps) /\ z \in Seq(DrawSteps) /\ j \in Seq(DrawSteps)
      /\ Len(p) \in Nat /\ Len(z) \in Nat /\ Len(j) = Len(p) + Len(z)
      /\ \A i \in 1..Len(p) : i \in 1..Len(j) /\ j[i] = p[i]
      /\ \A i \in 1..Len(z) : i + Len(p) \in 1..Len(j) /\ j[i + Len(p)] = z[i]
  BY DEF Chained
<1>2. \A i \in 1..Len(j) : i \in 1..Len(p) \/ (i - Len(p) \in 1..Len(z) /\ (i - Len(p)) + Len(p) = i)
  BY <1>1
<1>3. /\ \A i \in 1..Len(p) :
           /\ p[i] \in Leads => i + 1 \in 1..Len(p) /\ p[i + 1] = After(p[i])
           /\ i > 1 /\ p[i] \in Inner => p[i - 1] \in Leads /\ p[i] = After(p[i - 1])
           /\ i > 1 => p[i] # "clearWake"
      /\ \A i \in 1..Len(z) :
           /\ z[i] \in Leads => i + 1 \in 1..Len(z) /\ z[i + 1] = After(z[i])
           /\ i > 1 /\ z[i] \in Inner => z[i - 1] \in Leads /\ z[i] = After(z[i - 1])
           /\ i > 1 => z[i] # "clearWake"
      /\ Len(z) >= 1 => z[1] \notin Inner \union {"clearWake"}
  BY <1>1 DEF Chained, Entry
<1>4. ASSUME NEW i \in 1..Len(j)
      PROVE  /\ j[i] \in Leads => i + 1 \in 1..Len(j) /\ j[i + 1] = After(j[i])
             /\ i > 1 /\ j[i] \in Inner => j[i - 1] \in Leads /\ j[i] = After(j[i - 1])
             /\ i > 1 => j[i] # "clearWake"
  <2>1. CASE i \in 1..Len(p)
    <3>1. j[i] = p[i] /\ (i > 1 => i - 1 \in 1..Len(p))
      BY <1>1, <2>1
    <3>2. i > 1 => j[i - 1] = p[i - 1]
      BY <1>1, <3>1
    <3>3. p[i] \in Leads => i + 1 \in 1..Len(j) /\ j[i + 1] = After(p[i])
      BY <1>1, <1>3, <2>1
    <3>4. /\ i > 1 /\ p[i] \in Inner => p[i - 1] \in Leads /\ p[i] = After(p[i - 1])
          /\ i > 1 => p[i] # "clearWake"
      BY <1>3, <2>1
    <3> QED BY <3>1, <3>2, <3>3, <3>4
  <2>2. CASE i \notin 1..Len(p)
    <3> SUFFICES ASSUME NEW k \in 1..Len(z), i = k + Len(p)
                 PROVE  /\ j[i] \in Leads => i + 1 \in 1..Len(j) /\ j[i + 1] = After(j[i])
                        /\ i > 1 /\ j[i] \in Inner => j[i - 1] \in Leads /\ j[i] = After(j[i - 1])
                        /\ i > 1 => j[i] # "clearWake"
      BY <1>2, <2>2
    <3>1. j[i] = z[k]
      BY <1>1
    <3>2. z[k] \in Leads => i + 1 \in 1..Len(j) /\ j[i + 1] = After(z[k])
      <4> SUFFICES ASSUME z[k] \in Leads
                   PROVE  i + 1 \in 1..Len(j) /\ j[i + 1] = After(z[k])
        OBVIOUS
      <4>1. k + 1 \in 1..Len(z) /\ z[k + 1] = After(z[k]) /\ (k + 1) + Len(p) = i + 1
        BY <1>1, <1>3
      <4> QED BY <1>1, <4>1
    <3>3. CASE k = 1
      BY <1>1, <1>3, <3>1, <3>2, <3>3
    <3>4. CASE k > 1
      <4>1. k - 1 \in 1..Len(z) /\ (k - 1) + Len(p) = i - 1
        BY <1>1, <3>4
      <4>2. j[i - 1] = z[k - 1]
        BY <1>1, <4>1
      <4>3. /\ z[k] \in Inner => z[k - 1] \in Leads /\ z[k] = After(z[k - 1])
            /\ z[k] # "clearWake"
        BY <1>3, <3>4
      <4> QED BY <3>1, <3>2, <4>2, <4>3
    <3> QED BY <3>3, <3>4
  <2> QED BY <2>1, <2>2
<1>5. Chained(j)
  BY <1>1, <1>4 DEF Chained
<1>6. HasDraw(j) <=> HasDraw(p) \/ HasDraw(z)
  <2>1. ASSUME NEW i \in 1..Len(j), j[i] = "draw" PROVE HasDraw(p) \/ HasDraw(z)
    <3>1. CASE i \in 1..Len(p)
      BY <1>1, <2>1, <3>1 DEF HasDraw
    <3>2. CASE i - Len(p) \in 1..Len(z) /\ (i - Len(p)) + Len(p) = i
      <4>1. z[i - Len(p)] = j[i]
        BY <1>1, <3>2
      <4> QED BY <2>1, <3>2, <4>1 DEF HasDraw
    <3> QED BY <1>2, <3>1, <3>2
  <2> QED BY <1>1, <2>1 DEF HasDraw
<1>7. /\ p # <<>> => j # <<>> /\ Head(j) = Head(p)
      /\ p = <<>> => j = z
  BY <1>1
<1> QED BY <1>5, <1>6, <1>7

(* A schedule that is not needed is left out.                               *)
LEMMA ChainSkip ==
  ASSUME NEW z, Chained(z), z # <<>>, NEW n \in Nat,
         \/ Head(z) = "askWake" /\ n = 5
         \/ Head(z) = "askTimer" /\ n = 4
  PROVE  LET w == SubSeq(z, n + 1, Len(z)) IN
         Chained(w) /\ Entry(w) /\ (HasDraw(z) => HasDraw(w))
<1> DEFINE w == SubSeq(z, n + 1, Len(z))
<1>1. /\ z \in Seq(DrawSteps) /\ Len(z) \in Nat /\ Len(z) >= 1 /\ Head(z) = z[1]
      /\ \A i \in 1..Len(z) :
           /\ z[i] \in Leads => i + 1 \in 1..Len(z) /\ z[i + 1] = After(z[i])
           /\ i > 1 /\ z[i] \in Inner => z[i - 1] \in Leads /\ z[i] = After(z[i - 1])
           /\ i > 1 => z[i] # "clearWake"
  BY DEF Chained
<1>2. n \in 1..Len(z) /\ z[n] = "arm" /\ \A i \in 1..n : z[i] # "draw"
  <2>1. CASE Head(z) = "askWake" /\ n = 5
    <3>1. 1 \in 1..Len(z) /\ z[1] = "askWake" BY <1>1, <2>1
    <3>2. 2 \in 1..Len(z) /\ z[2] = "askTimer" BY <1>1, <3>1 DEF Leads, After
    <3>3. 3 \in 1..Len(z) /\ z[3] = "ungag" BY <1>1, <3>2 DEF Leads, After
    <3>4. 4 \in 1..Len(z) /\ z[4] = "markTimer" BY <1>1, <3>3 DEF Leads, After
    <3>5. 5 \in 1..Len(z) /\ z[5] = "arm" BY <1>1, <3>4 DEF Leads, After
    <3>6. \A i \in 1..5 : i = 1 \/ i = 2 \/ i = 3 \/ i = 4 \/ i = 5
      OBVIOUS
    <3> QED BY <2>1, <3>1, <3>2, <3>3, <3>4, <3>5, <3>6
  <2>2. CASE Head(z) = "askTimer" /\ n = 4
    <3>1. 1 \in 1..Len(z) /\ z[1] = "askTimer" BY <1>1, <2>2
    <3>2. 2 \in 1..Len(z) /\ z[2] = "ungag" BY <1>1, <3>1 DEF Leads, After
    <3>3. 3 \in 1..Len(z) /\ z[3] = "markTimer" BY <1>1, <3>2 DEF Leads, After
    <3>4. 4 \in 1..Len(z) /\ z[4] = "arm" BY <1>1, <3>3 DEF Leads, After
    <3>5. \A i \in 1..4 : i = 1 \/ i = 2 \/ i = 3 \/ i = 4
      OBVIOUS
    <3> QED BY <2>2, <3>1, <3>2, <3>3, <3>4, <3>5
  <2> QED BY <2>1, <2>2
<1>3. /\ w \in Seq(DrawSteps) /\ Len(w) = Len(z) - n
      /\ \A i \in 1..Len(w) : w[i] = z[i + n]
  <2>1. n + 1 \in 1..(Len(z) + 1)
    BY <1>1, <1>2
  <2>2. Len(w) = Len(z) - n
    BY <1>1, <1>2, <2>1
  <2>3. \A i \in 1..Len(w) : w[i] = z[i + n]
    <3>1. \A i \in 1..Len(w) : w[i] = z[(n + 1) + i - 1]
      BY <1>1, <1>2, <2>2
    <3>2. \A i \in 1..Len(w) : (n + 1) + i - 1 = i + n
      BY <1>1, <1>2, <2>2
    <3> QED BY <3>1, <3>2
  <2>4. \A i \in 1..Len(w) : i + n \in 1..Len(z)
    BY <1>1, <1>2, <2>2
  <2>5. w \in Seq(DrawSteps)
    BY <1>1, <1>2, SubSeqProperties
  <2> QED BY <2>2, <2>3, <2>5
<1>4. \A i \in 1..Len(w) : i + n \in 1..Len(z) /\ i + n > 1
  BY <1>1, <1>2, <1>3
<1>5. ASSUME NEW i \in 1..Len(w)
      PROVE  /\ w[i] \in Leads => i + 1 \in 1..Len(w) /\ w[i + 1] = After(w[i])
             /\ i > 1 /\ w[i] \in Inner => w[i - 1] \in Leads /\ w[i] = After(w[i - 1])
             /\ w[i] # "clearWake"
             /\ i = 1 => w[i] \notin Inner
  <2>1. /\ w[i] = z[i + n] /\ i + n \in 1..Len(z) /\ i + n > 1
        /\ (i + n) + 1 = (i + 1) + n /\ (i + n) - 1 = (i - 1) + n
    BY <1>1, <1>2, <1>3, <1>4
  <2>2. w[i] \in Leads => i + 1 \in 1..Len(w) /\ w[i + 1] = After(w[i])
    <3> SUFFICES ASSUME w[i] \in Leads
                 PROVE  i + 1 \in 1..Len(w) /\ w[i + 1] = After(w[i])
      OBVIOUS
    <3>1. (i + 1) + n \in 1..Len(z) /\ z[(i + 1) + n] = After(w[i])
      BY <1>1, <2>1
    <3>2. i + 1 \in 1..Len(w)
      BY <1>1, <1>2, <1>3, <3>1
    <3> QED BY <1>3, <3>1, <3>2
  <2>3. w[i] \in Inner => z[(i - 1) + n] \in Leads /\ w[i] = After(z[(i - 1) + n])
    BY <1>1, <2>1
  <2>4. i > 1 => w[i - 1] = z[(i - 1) + n]
    <3>1. i > 1 => i - 1 \in 1..Len(w)
      BY <1>1, <1>3
    <3> QED BY <1>3, <3>1
  <2>5. i = 1 => (i - 1) + n = n
    BY <1>2
  <2>6. i = 1 => w[i] \notin Inner
    BY <1>2, <2>3, <2>5 DEF Leads
  <2>7. w[i] # "clearWake"
    BY <1>1, <2>1
  <2> QED BY <2>2, <2>3, <2>4, <2>6, <2>7
<1>6. Chained(w)
  BY <1>3, <1>5 DEF Chained
<1>7. Entry(w)
  <2> SUFFICES ASSUME w # <<>> PROVE Head(w) \notin Inner \union {"clearWake"}
    BY DEF Entry
  <2>1. 1 \in 1..Len(w) /\ Head(w) = w[1]
    BY <1>3
  <2> QED BY <1>5, <2>1
<1>8. HasDraw(z) => HasDraw(w)
  <2> SUFFICES ASSUME NEW i \in 1..Len(z), z[i] = "draw"
               PROVE  \E k \in 1..Len(w) : w[k] = "draw"
    BY DEF HasDraw
  <2>1. i \notin 1..n
    BY <1>2
  <2>2. i - n \in 1..Len(w) /\ (i - n) + n = i
    BY <1>1, <1>2, <1>3, <2>1
  <2> QED BY <1>3, <2>2
<1> QED BY <1>6, <1>7, <1>8

(* The lists that the calls start from.                                     *)
LEMMA ChainLists ==
  /\ Chained(<<>>) /\ Entry(<<>>) /\ ~HasDraw(<<>>)
  /\ Chained(<<"draw">>) /\ Entry(<<"draw">>) /\ HasDraw(<<"draw">>)
  /\ Chained(<<"drain">>) /\ Entry(<<"drain">>) /\ ~HasDraw(<<"drain">>)
  /\ Chained(<<"clearWake">>)
  /\ Chained(schedulePresentWake) /\ Entry(schedulePresentWake)
  /\ schedulePresentWake # <<>> /\ Head(schedulePresentWake) = "askWake"
<1>1. Chained(<<>>) /\ Entry(<<>>) /\ ~HasDraw(<<>>)
  BY DEF Chained, Entry, HasDraw
<1>2. Chained(<<"draw">>) /\ Entry(<<"draw">>) /\ HasDraw(<<"draw">>)
  <2>1. Chained(<<"draw">>)
    BY DEF Chained, DrawSteps, Leads, Inner
  <2>2. Entry(<<"draw">>)
    BY DEF Entry, Inner
  <2>3. 1 \in 1..Len(<<"draw">>) /\ <<"draw">>[1] = "draw"
    OBVIOUS
  <2> QED BY <2>1, <2>2, <2>3 DEF HasDraw
<1>3. Chained(<<"drain">>) /\ Entry(<<"drain">>) /\ ~HasDraw(<<"drain">>)
  BY DEF Chained, Entry, HasDraw, DrawSteps, Leads, Inner
<1>4. Chained(<<"clearWake">>)
  BY DEF Chained, DrawSteps, Leads, Inner
<1>5. Chained(schedulePresentWake)
  <2> DEFINE z == schedulePresentWake
  <2>1. /\ z \in Seq(DrawSteps) /\ Len(z) = 5 /\ z[1] = "askWake" /\ z[2] = "askTimer"
        /\ z[3] = "ungag" /\ z[4] = "markTimer" /\ z[5] = "arm"
    BY DEF schedulePresentWake, DrawSteps, Inner
  <2>2. \A i \in 1..5 : i = 1 \/ i = 2 \/ i = 3 \/ i = 4 \/ i = 5
    OBVIOUS
  <2> HIDE DEF z
  <2>3. ASSUME NEW i \in 1..5
        PROVE  /\ z[i] \in Leads => i + 1 \in 1..5 /\ z[i + 1] = After(z[i])
               /\ i > 1 /\ z[i] \in Inner => z[i - 1] \in Leads /\ z[i] = After(z[i - 1])
               /\ i > 1 => z[i] # "clearWake"
    BY <2>1, <2>2 DEF Leads, Inner, After
  <2> QED BY <2>1, <2>3 DEF Chained, z
<1>6. /\ Entry(schedulePresentWake)
      /\ schedulePresentWake # <<>> /\ Head(schedulePresentWake) = "askWake"
  BY DEF schedulePresentWake, Entry, Inner
<1> QED BY <1>1, <1>2, <1>3, <1>4, <1>5, <1>6

(* A window is marked before its wake is scheduled.                         *)
LEMMA ChainMark ==
  LET m == <<"markDirty">> \o schedulePresentWake IN Chained(m) /\ Entry(m)
<1> DEFINE p == <<"markDirty">>
           z == schedulePresentWake
           m == p \o z
<1>1. /\ p \in Seq(DrawSteps) /\ Len(p) = 1 /\ p[1] = "markDirty"
      /\ z \in Seq(DrawSteps) /\ Len(z) = 5 /\ z[1] = "askWake" /\ z[2] = "askTimer"
      /\ z[3] = "ungag" /\ z[4] = "markTimer" /\ z[5] = "arm"
  BY DEF schedulePresentWake, DrawSteps, Inner
<1> HIDE DEF p, z
<1>2. /\ m \in Seq(DrawSteps) /\ Len(m) = Len(p) + Len(z)
      /\ \A i \in 1..(Len(p) + Len(z)) : m[i] = IF i <= Len(p) THEN p[i] ELSE z[i - Len(p)]
  BY <1>1, ConcatProperties
<1> HIDE DEF m
<1>3. /\ Len(m) = 6 /\ m[1] = "markDirty" /\ m[2] = "askWake" /\ m[3] = "askTimer"
      /\ m[4] = "ungag" /\ m[5] = "markTimer" /\ m[6] = "arm"
  BY <1>1, <1>2
<1>4. \A i \in 1..6 : i = 1 \/ i = 2 \/ i = 3 \/ i = 4 \/ i = 5 \/ i = 6
  OBVIOUS
<1>5. ASSUME NEW i \in 1..6
      PROVE  /\ m[i] \in Leads => i + 1 \in 1..6 /\ m[i + 1] = After(m[i])
             /\ i > 1 /\ m[i] \in Inner => m[i - 1] \in Leads /\ m[i] = After(m[i - 1])
             /\ i > 1 => m[i] # "clearWake"
  BY <1>3, <1>4 DEF Leads, Inner, After
<1>6. Chained(m)
  BY <1>2, <1>3, <1>5 DEF Chained
<1>7. Entry(m)
  BY <1>2, <1>3 DEF Entry, Inner
<1> QED BY <1>6, <1>7 DEF m, p, z

(* As many presents as there were events.                                   *)
LEMMA ChainDraws ==
  ASSUME NEW n \in Nat
  PROVE  LET d == [i \in 1..n |-> "draw"] IN
         /\ Chained(d) /\ Entry(d) /\ (n > 0 => HasDraw(d)) /\ (d # <<>> => Head(d) = "draw")
<1> DEFINE d == [i \in 1..n |-> "draw"]
<1>1. d \in Seq(DrawSteps) /\ Len(d) = n /\ \A i \in 1..n : d[i] = "draw"
  BY DEF DrawSteps
<1>2. Chained(d)
  BY <1>1 DEF Chained, Leads, Inner
<1>3. d # <<>> => Head(d) = "draw"
  <2>1. d # <<>> => Len(d) > 0 /\ Head(d) = d[1]
    BY <1>1
  <2> QED BY <1>1, <2>1
<1>4. n > 0 => HasDraw(d)
  <2>1. n > 0 => 1 \in 1..n
    OBVIOUS
  <2> QED BY <1>1, <2>1 DEF HasDraw
<1> QED BY <1>2, <1>3, <1>4 DEF Entry, Inner

(* The steps of a close or an open, and what follows each of them.          *)
LEMMA CancelTail ==
  ASSUME NEW x \in {"quit", "init"}, NEW z \in Cancels(x)
  PROVE  /\ z # <<>> /\ Tail(z) # <<>> => Tail(z) \in Cancels(x)
         /\ Head(z) \in {"gag", "remove", "cycleLock", "clearTimer", "clearWake", x}
         /\ Head(z) = "gag" => Tail(z) # <<>> /\ Head(Tail(z)) = "remove"
         /\ Head(z) = "remove" => Tail(z) # <<>> /\ Head(Tail(z)) = "cycleLock"
         /\ Head(z) = "cycleLock" => Tail(z) # <<>> /\ Head(Tail(z)) = "clearTimer"
         /\ Head(z) = "clearTimer" => Tail(z) # <<>> /\ Head(Tail(z)) = "clearWake"
         /\ Head(z) = "clearWake" => Tail(z) = <<x>>
         /\ Head(z) = x => Tail(z) = <<>> /\ z = <<x>>
<1>1. CASE z = <<"gag", "remove", "cycleLock", "clearTimer", "clearWake", x>>
  BY <1>1 DEF Cancels
<1>2. CASE z = <<"remove", "cycleLock", "clearTimer", "clearWake", x>>
  BY <1>2 DEF Cancels
<1>3. CASE z = <<"cycleLock", "clearTimer", "clearWake", x>>
  BY <1>3 DEF Cancels
<1>4. CASE z = <<"clearTimer", "clearWake", x>>
  BY <1>4 DEF Cancels
<1>5. CASE z = <<"clearWake", x>>
  BY <1>5 DEF Cancels
<1>6. CASE z = <<x>>
  BY <1>6 DEF Cancels
<1> QED BY <1>1, <1>2, <1>3, <1>4, <1>5, <1>6 DEF Cancels

(* None is a list of a call that draws, or of the other kind.               *)
LEMMA CancelAlone ==
  ASSUME NEW x \in {"quit", "init"}, NEW z \in Cancels(x)
  PROVE  /\ ~Chained(z) /\ ~HasDraw(z)
         /\ \A y \in {"quit", "init"} : z \in Cancels(y) => y = x
<1>1. /\ \E i \in 1..Len(z) : z[i] = x
      /\ \A i \in 1..Len(z) : z[i] \in {"gag", "remove", "cycleLock", "clearTimer", "clearWake", x}
  <2>1. CASE z = <<"gag", "remove", "cycleLock", "clearTimer", "clearWake", x>>
    <3>1. 6 \in 1..Len(z) /\ z[6] = x
      BY <2>1
    <3> QED BY <2>1, <3>1
  <2>2. CASE z = <<"remove", "cycleLock", "clearTimer", "clearWake", x>>
    <3>1. 5 \in 1..Len(z) /\ z[5] = x
      BY <2>2
    <3> QED BY <2>2, <3>1
  <2>3. CASE z = <<"cycleLock", "clearTimer", "clearWake", x>>
    <3>1. 4 \in 1..Len(z) /\ z[4] = x
      BY <2>3
    <3> QED BY <2>3, <3>1
  <2>4. CASE z = <<"clearTimer", "clearWake", x>>
    <3>1. 3 \in 1..Len(z) /\ z[3] = x
      BY <2>4
    <3> QED BY <2>4, <3>1
  <2>5. CASE z = <<"clearWake", x>>
    <3>1. 2 \in 1..Len(z) /\ z[2] = x
      BY <2>5
    <3> QED BY <2>5, <3>1
  <2>6. CASE z = <<x>>
    <3>1. 1 \in 1..Len(z) /\ z[1] = x
      BY <2>6
    <3> QED BY <2>6, <3>1
  <2> QED BY <2>1, <2>2, <2>3, <2>4, <2>5, <2>6 DEF Cancels
<1>2. ~Chained(z)
  <2> SUFFICES ASSUME Chained(z) PROVE FALSE
    OBVIOUS
  <2>1. \A i \in 1..Len(z) : z[i] \in DrawSteps
    BY DEF Chained
  <2> QED BY <1>1, <2>1 DEF DrawSteps, Inner
<1>3. ASSUME NEW y \in {"quit", "init"}, z \in Cancels(y), y # x PROVE FALSE
  <2>1. \A i \in 1..Len(z) : z[i] \in {"gag", "remove", "cycleLock", "clearTimer", "clearWake", y}
    <3>1. CASE z = <<"gag", "remove", "cycleLock", "clearTimer", "clearWake", y>>
      BY <3>1
    <3>2. CASE z = <<"remove", "cycleLock", "clearTimer", "clearWake", y>>
      BY <3>2
    <3>3. CASE z = <<"cycleLock", "clearTimer", "clearWake", y>>
      BY <3>3
    <3>4. CASE z = <<"clearTimer", "clearWake", y>>
      BY <3>4
    <3>5. CASE z = <<"clearWake", y>>
      BY <3>5
    <3>6. CASE z = <<y>>
      BY <3>6
    <3> QED BY <1>3, <3>1, <3>2, <3>3, <3>4, <3>5, <3>6 DEF Cancels
  <2> QED BY <1>1, <1>3, <2>1
<1>4. ~HasDraw(z)
  BY <1>1 DEF HasDraw
<1> QED BY <1>2, <1>3, <1>4

(* One more step behind a list of five.                                     *)
LEMMA SixSteps ==
  ASSUME NEW S, NEW p \in Seq(S), NEW q \in Seq(S), Len(p) = 5, Len(q) = 1
  PROVE  /\ p \o q \in Seq(S) /\ Len(p \o q) = 6
         /\ \A i \in 1..5 : (p \o q)[i] = p[i]
         /\ (p \o q)[6] = q[1]
<1> DEFINE z == p \o q
<1>1. /\ z \in Seq(S) /\ Len(z) = 6
      /\ \A i \in 1..6 : z[i] = IF i <= 5 THEN p[i] ELSE q[i - 5]
  <2>1. /\ z \in Seq(S) /\ Len(z) = Len(p) + Len(q)
        /\ \A i \in 1..(Len(p) + Len(q)) :
             z[i] = IF i <= Len(p) THEN p[i] ELSE q[i - Len(p)]
    BY ConcatProperties
  <2>2. Len(p) + Len(q) = 6
    OBVIOUS
  <2> HIDE DEF z
  <2>3. \A i \in 1..6 : z[i] = IF i <= Len(p) THEN p[i] ELSE q[i - Len(p)]
    BY <2>1, <2>2, Zenon
  <2> QED BY <2>1, <2>2, <2>3
<1> HIDE DEF z
<1>2. \A i \in 1..5 : i \in 1..6 /\ i <= 5
  OBVIOUS
<1>3. 6 \in 1..6 /\ ~(6 <= 5) /\ 6 - 5 = 1
  OBVIOUS
<1>4. \A i \in 1..5 : z[i] = p[i]
  BY <1>1, <1>2
<1>5. z[6] = q[1]
  BY <1>1, <1>3
<1> QED BY <1>1, <1>4, <1>5 DEF z

(* And the list that a close or an open starts from.                        *)
LEMMA CancelStart ==
  ASSUME NEW x \in {"quit", "init"}
  PROVE  /\ cancelPresentWakeTimer \o <<x>> \in Cancels(x)
         /\ Head(cancelPresentWakeTimer \o <<x>>) = "gag"
<1> DEFINE S == {"gag", "remove", "cycleLock", "clearTimer", "clearWake", "quit", "init"}
           z == cancelPresentWakeTimer \o <<x>>
           w == <<"gag", "remove", "cycleLock", "clearTimer", "clearWake", x>>
<1>1. /\ cancelPresentWakeTimer \in Seq(S) /\ Len(cancelPresentWakeTimer) = 5
      /\ <<x>> \in Seq(S) /\ Len(<<x>>) = 1 /\ <<x>>[1] = x
  BY DEF cancelPresentWakeTimer
<1>2. z \in Seq(S) /\ Len(z) = 6
  <2> HIDE DEF S
  <2> QED BY <1>1, SixSteps
<1>3. /\ z[1] = "gag" /\ z[2] = "remove" /\ z[3] = "cycleLock" /\ z[4] = "clearTimer"
      /\ z[5] = "clearWake" /\ z[6] = x
  <2>1. /\ \A i \in 1..5 : z[i] = cancelPresentWakeTimer[i]
        /\ z[6] = <<x>>[1]
    <3> HIDE DEF S
    <3> QED BY <1>1, SixSteps, ZenonT(60)
  <2> QED BY <1>1, <2>1 DEF cancelPresentWakeTimer
<1>4. /\ w \in Seq(S) /\ Len(w) = 6 /\ w[1] = "gag" /\ w[2] = "remove"
      /\ w[3] = "cycleLock" /\ w[4] = "clearTimer" /\ w[5] = "clearWake" /\ w[6] = x
  OBVIOUS
<1>5. z = w
  <2>1. \A i \in 1..6 : i = 1 \/ i = 2 \/ i = 3 \/ i = 4 \/ i = 5 \/ i = 6
    OBVIOUS
  <2>2. \A i \in 1..6 : z[i] = w[i]
    BY <1>3, <1>4, <2>1
  <2> HIDE DEF S, z, w
  <2>3. \A i \in 1..Len(z) : z[i] = w[i]
    BY <1>2, <2>2
  <2> QED BY <1>2, <1>4, <2>3, SeqEqual
<1>6. w \in Cancels(x) /\ Head(w) = "gag"
  BY DEF Cancels
<1> HIDE DEF z, w
<1> QED BY <1>5, <1>6 DEF z

(* The steps of the callback, and what follows each of them.                *)
LEMMA CallbackNext ==
  ASSUME NEW c \in CallbackTodos
  PROVE  /\ c # <<>> => /\ Tail(c) \in CallbackTodos
                        /\ Head(c) \in {"lock", "askGag", "askWake", "push", "mark", "unlock",
                                        "clearTimer"}
         /\ c # <<>> /\ Head(c) = "lock" => Tail(c) # <<>> /\ Head(Tail(c)) = "askGag"
         /\ c # <<>> /\ Head(c) = "askGag" => Tail(c) # <<>> /\ Head(Tail(c)) = "askWake"
         /\ c # <<>> /\ Head(c) = "askWake" => Tail(c) # <<>> /\ Head(Tail(c)) = "push"
         /\ c # <<>> /\ Head(c) = "push" => Tail(c) # <<>> /\ Head(Tail(c)) = "mark"
         /\ c # <<>> /\ Head(c) = "mark" => Tail(c) # <<>> /\ Head(Tail(c)) = "unlock"
         /\ c # <<>> /\ Head(c) = "unlock" => Tail(c) # <<>> /\ Head(Tail(c)) = "clearTimer"
         /\ c # <<>> /\ Head(c) = "clearTimer" => Tail(c) = <<>>
         /\ "push" \in Range(c)
              <=> c # <<>> /\ Head(c) \in {"lock", "askGag", "askWake", "push"}
<1>1. CASE c = <<>>
  BY <1>1 DEF CallbackTodos, Range
<1>2. CASE c = <<"clearTimer">>
  BY <1>2 DEF CallbackTodos, Range
<1>3. CASE c = <<"unlock", "clearTimer">>
  BY <1>3 DEF CallbackTodos, Range
<1>4. CASE c = <<"mark", "unlock", "clearTimer">>
  BY <1>4 DEF CallbackTodos, Range
<1>5. CASE c = <<"push", "mark", "unlock", "clearTimer">>
  <2>1. 1 \in DOMAIN c /\ c[1] = "push"
    BY <1>5
  <2> QED BY <1>5, <2>1 DEF CallbackTodos, Range
<1>6. CASE c = <<"askWake", "push", "mark", "unlock", "clearTimer">>
  <2>1. 2 \in DOMAIN c /\ c[2] = "push"
    BY <1>6
  <2> QED BY <1>6, <2>1 DEF CallbackTodos, Range
<1>7. CASE c = <<"askGag", "askWake", "push", "mark", "unlock", "clearTimer">>
  <2>1. 3 \in DOMAIN c /\ c[3] = "push"
    BY <1>7
  <2> QED BY <1>7, <2>1 DEF CallbackTodos, Range
<1>8. CASE c = <<"lock", "askGag", "askWake", "push", "mark", "unlock", "clearTimer">>
  <2>1. 4 \in DOMAIN c /\ c[4] = "push"
    BY <1>8
  <2> QED BY <1>8, <2>1 DEF CallbackTodos, Range
<1> QED BY <1>1, <1>2, <1>3, <1>4, <1>5, <1>6, <1>7, <1>8 DEF CallbackTodos

(* A call that draws is in no close and no open.                            *)
LEMMA DrawsOnly ==
  ASSUME NEW z, Chained(z)
  PROVE  z \notin Cancels("quit") \union Cancels("init") /\ z # <<"quit">> /\ z # <<"init">>
BY CancelAlone DEF Cancels

-----------------------------------------------------------------------------
(* The invariant holds at the start.                                        *)
LEMMA PresentInitInv == PresentInit => PresentInv
<1> SUFFICES ASSUME PresentInit PROVE PresentInv
  OBVIOUS
<1> USE DEF PresentInit, NoCallback, NoTimer
<1>1. /\ todo = <<>> /\ Chained(todo) /\ callback.todo = <<>> /\ callback.timer = 0
      /\ ~Cancelling /\ todo # <<"quit">> /\ todo # <<"init">>
      /\ todo \notin Cancels("quit") /\ todo \notin Cancels("init")
  BY ChainLists, DrawsOnly DEF Cancelling
<1>2. PresentTypes
  <2>1. <<>> \in CallbackTodos
    BY DEF CallbackTodos
  <2>2. callback \in [timer : 0..3, todo : CallbackTodos]
    <3> HIDE DEF PresentInit
    <3>1. callback = [timer |-> 0, todo |-> <<>>]
      BY DEF PresentInit
    <3> QED BY <2>1, <3>1
  <2>3. PresentTypeOK
    BY <1>1 DEF PresentTypeOK
  <2>4. {up, dirty, wakePending, timerPending, tornDown, asleep, unlucky} \subseteq BOOLEAN
    OBVIOUS
  <2> QED BY <1>1, <2>2, <2>3, <2>4 DEF PresentTypes, Fired
<1>3. MainInv
  BY <1>1 DEF MainInv
<1>4. TimerInv
  BY <1>1 DEF TimerInv, HeadIs, Fired
<1>5. GagInv
  BY <1>1 DEF GagInv, Fired, Gagged, Removed, Passed, MayPush, CallbackAt
<1>6. AloneInv
  BY <1>1 DEF AloneInv, Removed, Gagged, HeadIs, MayPush, CallbackAt
<1> QED BY <1>2, <1>3, <1>4, <1>5, <1>6 DEF PresentInv

(* A call that draws begins, or the client goes to sleep or wakes up.       *)
LEMMA ClientInv ==
  ASSUME PresentInv, todo = <<>>, up,
         UNCHANGED <<painter, up, wakeVars, timerVars, unlucky>>,
         Chained(todo'), Entry(todo'),
         coalesceDeadline' \in {"none", "ahead", "past"}, wakes' \in Nat,
         dirty' \in BOOLEAN, asleep' \in BOOLEAN, asleep' => todo' = <<>>,
         wakes' = wakes \/ HasDraw(todo'),
         dirty' = dirty \/ HasDraw(todo') \/ HeadIs("askWake")'
  PROVE  PresentInv'
<1>1. /\ PresentTypes /\ MainInv /\ TimerInv /\ GagInv /\ (~painter.overlap => AloneInv)
      /\ ~Cancelling /\ ~Cancelling'
      /\ todo' \notin Cancels("quit") /\ todo' \notin Cancels("init")
      /\ todo' # <<"quit">> /\ todo' # <<"init">>
      /\ ~HasDraw(todo)
  BY ChainLists, DrawsOnly DEF PresentInv, Cancelling
<1>2. /\ \A s \in Inner \union {"clearWake"} : ~HeadIs(s) /\ ~HeadIs(s)'
      /\ ~HeadIs("askWake")
      /\ Fired' <=> Fired
      /\ \A s : CallbackAt(s)' <=> CallbackAt(s)
      /\ MayPush' <=> MayPush
  BY DEF HeadIs, Entry, Fired, CallbackAt, MayPush, timerVars
<1>3. PresentTypes'
  BY <1>1, <1>2 DEF PresentTypes, PresentTypeOK, wakeVars, timerVars, Fired
<1>4. MainInv'
  BY <1>1, <1>2 DEF MainInv, timerVars
<1>5. TimerInv'
  BY <1>1, <1>2 DEF TimerInv, timerVars, wakeVars, Inner, Cleared, Passed, Removed, Gagged
<1>6. GagInv'
  BY <1>1, <1>2 DEF GagInv, timerVars, wakeVars, Passed, Removed, Gagged
<1>7. ~painter.overlap => AloneInv'
  BY <1>1, <1>2 DEF AloneInv, timerVars, wakeVars, Removed, Gagged, WillDraw, Inner
<1> QED BY <1>3, <1>4, <1>5, <1>6, <1>7 DEF PresentInv

(* The calls that draw, flush or wait.                                      *)
LEMMA ClientStepInv ==
  ASSUME PresentInv,
         \/ markWindowNeedsPresentRect \/ beginCoalesceClientRepaint \/ XEventsQueued
         \/ XNextEvent \/ showTopLevelWindow \/ Poll \/ PollReturns
  PROVE  PresentInv'
<1>1. /\ wakes \in Nat /\ dirty \in BOOLEAN /\ asleep \in BOOLEAN
      /\ coalesceDeadline \in {"none", "ahead", "past"}
      /\ asleep => todo = <<>> /\ up
  BY DEF PresentInv, PresentTypes, PresentTypeOK, MainInv
<1> DEFINE Begins ==
      /\ todo = <<>> /\ up /\ UNCHANGED <<painter, up, wakeVars, timerVars, unlucky>>
      /\ coalesceDeadline' \in {"none", "ahead", "past"} /\ wakes' \in Nat
      /\ dirty' \in BOOLEAN /\ asleep' \in BOOLEAN
<1>2. CASE markWindowNeedsPresentRect \/ beginCoalesceClientRepaint
  <2>1. /\ Begins /\ ~asleep' /\ wakes' = wakes /\ todo' = schedulePresentWake
    <3>1. CASE markWindowNeedsPresentRect
      BY <1>1, <3>1 DEF markWindowNeedsPresentRect, Idle, Goes
    <3>2. CASE beginCoalesceClientRepaint
      BY <1>1, <3>2 DEF beginCoalesceClientRepaint, Idle, Goes
    <3> QED BY <1>2, <3>1, <3>2
  <2>2. Chained(todo') /\ Entry(todo') /\ HeadIs("askWake")'
    BY <2>1, ChainLists DEF HeadIs
  <2> QED BY <2>1, <2>2, ClientInv
<1>3. CASE XEventsQueued
  <2>1. Begins /\ ~asleep' /\ UNCHANGED <<wakes, dirty>>
    BY <1>1, <1>3 DEF XEventsQueued, Idle, Goes
  <2>2. \/ todo' = <<"drain">>
        \/ todo' = <<"drain">> \o <<"draw">> \o <<"drain">>
    BY <1>3 DEF XEventsQueued, drawWindowDataToScreen
  <2>3. Chained(todo') /\ Entry(todo')
    <3> DEFINE p == <<"drain">> \o <<"draw">>
    <3>1. Chained(p) /\ Entry(p)
      BY ChainLists, ChainJoin DEF Entry
    <3>2. Chained(p \o <<"drain">>) /\ Entry(p \o <<"drain">>)
      <4> HIDE DEF p
      <4> QED BY <3>1, ChainLists, ChainJoin DEF Entry
    <3> QED BY <2>2, <3>2, ChainLists
  <2> QED BY <2>1, <2>3, ClientInv
<1>4. CASE XNextEvent
  <2>1. Begins /\ ~asleep' /\ dirty' = dirty
    BY <1>1, <1>4 DEF XNextEvent, Idle, Goes, clientSide
  <2>2. \/ todo' = <<"draw">>
        \/ wakes' = wakes /\ (\/ todo' = <<>> \o <<"draw">>
                              \/ todo' = <<"draw">> \o <<"draw">>)
    BY <1>4 DEF XNextEvent, drawWindowDataToScreen, endCoalesceClientRepaint
  <2>3. Chained(todo') /\ Entry(todo') /\ HasDraw(todo')
    <3>1. CASE todo' = <<"draw">>
      BY <3>1, ChainLists
    <3>2. CASE todo' = <<>> \o <<"draw">>
      BY <3>2, ChainLists, ChainJoin
    <3>3. CASE todo' = <<"draw">> \o <<"draw">>
      BY <3>3, ChainLists, ChainJoin DEF Entry
    <3> QED BY <2>2, <3>1, <3>2, <3>3
  <2> QED BY <2>1, <2>3, ClientInv
<1>5. CASE showTopLevelWindow
  <2>1. Begins /\ ~asleep' /\ wakes' = wakes
    BY <1>1, <1>5 DEF showTopLevelWindow, Idle, Goes
  <2>2. PICK first \in {<<>>, <<"draw">>} :
          todo' = first \o <<"draw">> \o (<<"markDirty">> \o schedulePresentWake) \o <<"draw">>
    BY <1>5 DEF showTopLevelWindow, drawWindowDataToScreen, endCoalesceClientRepaint,
                markWindowNeedsPresent
  <2>3. Chained(todo') /\ Entry(todo') /\ HasDraw(todo')
    <3> DEFINE p == first \o <<"draw">>
               m == <<"markDirty">> \o schedulePresentWake
               q == p \o m
    <3>1. Chained(p) /\ Entry(p) /\ p # <<>>
      BY ChainLists, ChainJoin DEF Entry
    <3>2. Chained(m) /\ Entry(m)
      BY ChainMark DEF m
    <3>3. Chained(q) /\ Entry(q)
      <4> HIDE DEF p, m
      <4> QED BY <3>1, <3>2, ChainJoin DEF Entry
    <3>4. Chained(q \o <<"draw">>) /\ Entry(q \o <<"draw">>) /\ HasDraw(q \o <<"draw">>)
      <4> HIDE DEF q
      <4> QED BY <3>3, ChainLists, ChainJoin DEF Entry
    <3> QED BY <2>2, <3>4
  <2> QED BY <2>1, <2>3, ClientInv
<1>6. CASE Poll \/ PollReturns
  <2>1. Begins /\ todo' = todo /\ UNCHANGED <<wakes, dirty>>
    BY <1>1, <1>6 DEF Poll, PollReturns, Idle, Goes
  <2> QED BY <2>1, ChainLists, ClientInv
<1> QED BY <1>2, <1>3, <1>4, <1>5, <1>6

(* XCloseDisplay and XOpenDisplay begin.                                    *)
LEMMA CancelStartInv ==
  ASSUME PresentInv, XCloseDisplay \/ XOpenDisplay
  PROVE  PresentInv'
<1>0. PICK x \in {"quit", "init"} :
        /\ todo' = cancelPresentWakeTimer \o <<x>> /\ todo = <<>> /\ ~asleep'
        /\ x = "quit" <=> up
  <2>1. up \in BOOLEAN /\ asleep \in BOOLEAN /\ (asleep => up)
    BY DEF PresentInv, MainInv, PresentTypes
  <2>2. CASE XCloseDisplay
    BY <2>1, <2>2 DEF XCloseDisplay, Idle, clientSide
  <2>3. CASE XOpenDisplay
    BY <2>1, <2>3 DEF XOpenDisplay
  <2> QED BY <2>2, <2>3
<1>1. /\ PresentTypes /\ MainInv /\ TimerInv /\ GagInv /\ (~painter.overlap => AloneInv)
      /\ UNCHANGED <<painter, up, dirty, coalesceDeadline, wakeVars, timerVars, wakes, asleep,
                     unlucky>>
  BY DEF PresentInv, XCloseDisplay, XOpenDisplay, Goes, clientSide
<1>2. /\ todo' \in Cancels(x) /\ todo' # <<>> /\ Head(todo') = "gag"
      /\ \A y \in {"quit", "init"} : todo' \in Cancels(y) => y = x
      /\ todo' # <<"quit">> /\ todo' # <<"init">>
  BY <1>0, CancelStart, CancelTail, CancelAlone
<1>3. /\ Cancelling' /\ HeadIs("gag")' /\ ~Gagged' /\ ~Removed' /\ ~Passed' /\ ~Cleared'
      /\ \A s : s # "gag" => ~HeadIs(s)'
  BY <1>2 DEF Cancelling, HeadIs, Gagged, Removed, Passed, Cleared
<1>4. /\ \A s : ~HeadIs(s)
      /\ Fired' <=> Fired
      /\ \A s : CallbackAt(s)' <=> CallbackAt(s)
      /\ MayPush' <=> MayPush
      /\ ~Cancelling /\ ~HasDraw(todo)
  BY <1>0, <1>1, ChainLists, DrawsOnly
     DEF HeadIs, Fired, CallbackAt, MayPush, timerVars, Cancelling
<1>5. PresentTypes'
  BY <1>0, <1>1, <1>4 DEF PresentTypes, PresentTypeOK, wakeVars, timerVars, Fired
<1>6. MainInv'
  BY <1>0, <1>1, <1>2, <1>3, <1>4 DEF MainInv, timerVars
<1>7. TimerInv'
  BY <1>1, <1>3, <1>4 DEF TimerInv, timerVars, wakeVars, Cleared, Passed, Removed, Gagged
<1>8. GagInv'
  BY <1>1, <1>3, <1>4 DEF GagInv, timerVars
<1>9. ~painter.overlap => AloneInv'
  BY <1>1, <1>2, <1>3, <1>4 DEF AloneInv, timerVars, wakeVars, WillDraw
<1> QED BY <1>1, <1>5, <1>6, <1>7, <1>8, <1>9 DEF PresentInv

(* The repaint burst is over in time.                                       *)
LEMMA TimePassesInv ==
  ASSUME PresentInv, TimePasses
  PROVE  PresentInv'
<1>1. /\ UNCHANGED <<painter, up, dirty, wakeVars, timerVars, wakes, todo, asleep, unlucky>>
      /\ coalesceDeadline' \in {"none", "ahead", "past"}
  BY DEF TimePasses, clientSide, Goes
<1>2. PresentTypes' /\ MainInv'
  BY <1>1 DEF PresentInv, PresentTypes, PresentTypeOK, MainInv, wakeVars, timerVars, Fired,
              Cancelling
<1>3. TimerInv' /\ GagInv'
  BY <1>1 DEF PresentInv, TimerInv, GagInv, wakeVars, timerVars, Fired, HeadIs, CallbackAt,
              MayPush, Cancelling, Cleared, Passed, Removed, Gagged
<1>4. ~painter.overlap => AloneInv'
  BY <1>1 DEF PresentInv, AloneInv, wakeVars, timerVars, Fired, HeadIs, CallbackAt,
              MayPush, Cancelling, Removed, Gagged, WillDraw
<1> QED BY <1>1, <1>2, <1>3, <1>4 DEF PresentInv
-----------------------------------------------------------------------------
(* The main thread within a call that draws.                                *)
LEMMA AtDrawing ==
  ASSUME PresentInv, NEW s, MainAt(s), Chained(todo)
  PROVE  /\ todo # <<>> /\ Head(todo) = s /\ s \in DrawSteps
         /\ \A r : HeadIs(r) <=> r = s
         /\ ~Cancelling /\ up /\ ~asleep
         /\ ~painter.overlap => ~Fired
<1>1. todo # <<>> /\ Head(todo) = s /\ (~painter.overlap => callback = NoCallback)
  BY DEF MainAt
<1>2. ~Cancelling /\ todo \notin Cancels("init")
  BY DrawsOnly DEF Cancelling
<1>3. up \in BOOLEAN /\ asleep \in BOOLEAN
  BY DEF PresentInv, PresentTypes
<1>4. up /\ ~asleep
  BY <1>1, <1>2, <1>3 DEF PresentInv, MainInv
<1>5. s \in DrawSteps
  BY <1>1, ChainTail
<1>6. \A r : HeadIs(r) <=> r = s
  BY <1>1 DEF HeadIs
<1>7. callback = NoCallback => ~Fired
  BY DEF NoCallback, Fired
<1> QED BY <1>1, <1>2, <1>4, <1>5, <1>6, <1>7

(* Between finding no timer and arming one it has none.                     *)
Owes(s) == s \in {"ungag", "markTimer", "arm"}

(* A step of such a call, by what it has to leave behind.                   *)
LEMMA DrawingInv ==
  ASSUME PresentInv, NEW s, MainAt(s), Chained(todo), Chained(todo'),
         UNCHANGED <<painter, up, asleep, callback, locked>>,
         coalesceDeadline' \in {"none", "ahead", "past"}, wakes' \in Nat,
         timers' \subseteq 1..3, timerId' \in 0..3,
         {dirty', wakePending', timerPending', tornDown', unlucky'} \subseteq BOOLEAN,
         timers' \subseteq {timerId'},
         (\E r : Owes(r) /\ HeadIs(r)') => ~Fired /\ timers' = {},
         Fired => timers' = {},
         timerPending' <=> HeadIs("arm")' \/ timers' # {} \/ Fired,
         ~painter.overlap =>
           /\ wakePending' => wakes' > 0 \/ WillDraw' \/ HeadIs("clearWake")'
           /\ timers' # {} \/ HeadIs("markTimer")' \/ HeadIs("arm")' => ~tornDown'
           /\ dirty' /\ ~unlucky' =>
                \/ WillDraw' \/ \E r \in Inner \union {"askWake"} : HeadIs(r)'
                \/ wakes' > 0 \/ (~wakePending' /\ ~tornDown' /\ timers' # {})
  PROVE  PresentInv'
<1>1. /\ todo # <<>> /\ ~Cancelling /\ up /\ ~asleep /\ (~painter.overlap => ~Fired)
  BY AtDrawing
<1>2. /\ ~Cancelling' /\ todo' \notin Cancels("quit") /\ todo' \notin Cancels("init")
      /\ todo' # <<"quit">> /\ todo' # <<"init">>
  BY DrawsOnly DEF Cancelling
<1>3. Fired' <=> Fired
  BY DEF Fired
<1>4. ~Fired => ~MayPush' /\ \A r : ~CallbackAt(r)'
  BY DEF Fired, MayPush, CallbackAt
<1>5. PresentTypes'
  <2>1. PresentTypeOK'
    BY DEF PresentInv, PresentTypes, PresentTypeOK
  <2>2. {up, asleep}' \subseteq BOOLEAN
    BY DEF PresentInv, PresentTypes
  <2> QED BY <1>3, <2>1, <2>2 DEF PresentInv, PresentTypes, NoCallback
<1>6. MainInv'
  BY <1>1, <1>2 DEF MainInv
<1>7. TimerInv'
  BY <1>3 DEF TimerInv, Owes
<1>8. GagInv'
  BY <1>2 DEF PresentInv, GagInv, Fired, CallbackAt, Passed, Removed, Gagged
<1>9. ~painter.overlap => AloneInv'
  BY <1>1, <1>2, <1>4 DEF AloneInv, Removed, Gagged
<1> QED BY <1>1, <1>5, <1>6, <1>7, <1>8, <1>9 DEF PresentInv

(* What a step of such a call may rely on.                                  *)
LEMMA DrawingFacts ==
  ASSUME PresentInv, NEW s, MainAt(s), Chained(todo)
  PROVE  /\ timers \subseteq 1..3 /\ timerId \in 0..3 /\ callback.timer \in 0..3
         /\ callback.todo \in CallbackTodos
         /\ coalesceDeadline \in {"none", "ahead", "past"} /\ wakes \in Nat
         /\ {dirty, wakePending, timerPending, tornDown, unlucky} \subseteq BOOLEAN
         /\ timers \subseteq {timerId}
         /\ s \in {"ungag", "markTimer", "arm"} \/ Fired => timers = {}
         /\ s \in {"ungag", "markTimer", "arm"} => ~Fired
         /\ s = "arm" \/ timers # {} \/ Fired => timerPending
         /\ timerPending => s = "arm" \/ timers # {} \/ Fired
         /\ ~painter.overlap =>
              /\ wakePending => wakes > 0 \/ WillDraw \/ s = "clearWake"
              /\ timers # {} \/ s = "markTimer" \/ s = "arm" => ~tornDown
              /\ dirty /\ ~unlucky =>
                   \/ WillDraw \/ s \in Inner \union {"askWake"} \/ wakes > 0
                   \/ (~wakePending /\ ~tornDown /\ timers # {})
<1>1. /\ \A r : HeadIs(r) <=> r = s
      /\ ~Cancelling
      /\ ~painter.overlap => ~Fired
  BY AtDrawing
<1>2. /\ timers \subseteq 1..3 /\ timerId \in 0..3 /\ callback.timer \in 0..3
      /\ callback.todo \in CallbackTodos
      /\ coalesceDeadline \in {"none", "ahead", "past"} /\ wakes \in Nat
      /\ {dirty, wakePending, timerPending, tornDown, unlucky} \subseteq BOOLEAN
  BY DEF PresentInv, PresentTypes, PresentTypeOK
<1>3. ~Cleared
  BY <1>1 DEF Cleared, Passed, Removed, Gagged
<1>4. /\ timers \subseteq {timerId}
      /\ s \in {"ungag", "markTimer", "arm"} \/ Fired => timers = {}
      /\ s \in {"ungag", "markTimer", "arm"} => ~Fired
      /\ s = "arm" \/ timers # {} \/ Fired => timerPending
      /\ timerPending => s = "arm" \/ timers # {} \/ Fired
  BY <1>1, <1>3 DEF PresentInv, TimerInv
<1>5. ~Fired => ~MayPush /\ ~CallbackAt("push")
  BY DEF Fired, MayPush, CallbackAt
<1>6. ~painter.overlap =>
        /\ wakePending => wakes > 0 \/ WillDraw \/ s = "clearWake"
        /\ timers # {} \/ s = "markTimer" \/ s = "arm" => ~tornDown
        /\ dirty /\ ~unlucky =>
             \/ WillDraw \/ s \in Inner \union {"askWake"} \/ wakes > 0
             \/ (~wakePending /\ ~tornDown /\ timers # {})
  BY <1>1, <1>5 DEF PresentInv, AloneInv
<1> QED BY <1>2, <1>4, <1>6

(* What its next steps are, when it goes one step further.                  *)
LEMMA DrawingProceeds ==
  ASSUME PresentInv, NEW s, MainAt(s), Chained(todo), Proceeds
  PROVE  /\ Chained(todo')
         /\ s \in Leads => \A r : HeadIs(r)' <=> r = After(s)
         /\ s \notin Leads => \A r \in Inner \union {"clearWake"} : ~HeadIs(r)'
         /\ ~HeadIs("clearWake")'
         /\ s # "draw" => (WillDraw => WillDraw')
<1>1. todo # <<>> /\ Head(todo) = s /\ todo' = Tail(todo)
  BY DEF MainAt, Proceeds
<1>2. /\ Chained(todo')
      /\ s \in Leads => todo' # <<>> /\ Head(todo') = After(s)
      /\ s \notin Leads => Entry(todo')
      /\ todo' # <<>> => Head(todo') # "clearWake"
      /\ HasDraw(todo) /\ s # "draw" => HasDraw(todo')
  BY <1>1, ChainTail
<1> QED BY <1>2 DEF HeadIs, Entry, WillDraw

(* A schedule asks whether there is a wake or a timer.                      *)
LEMMA AsksInv ==
  ASSUME PresentInv, Chained(todo), AskWake \/ AskTimer, UNCHANGED <<painter, clientSide>>
  PROVE  PresentInv'
<1>1. PICK s \in {"askWake", "askTimer"} :
        /\ MainAt(s)
        /\ s = "askWake" => IF wakePending THEN Skips(5) ELSE Proceeds
        /\ s = "askTimer" => IF timerPending THEN Skips(4) ELSE Proceeds
  <2>1. Len(schedulePresentWake) = 5 /\ 5 - 1 = 4
    BY DEF schedulePresentWake
  <2>2. AskWake => MainAt("askWake") /\ IF wakePending THEN Skips(5) ELSE Proceeds
    BY <2>1 DEF AskWake
  <2>3. AskTimer => MainAt("askTimer") /\ IF timerPending THEN Skips(4) ELSE Proceeds
    BY <2>1 DEF AskTimer
  <2> QED BY <2>2, <2>3
<1>2. UNCHANGED <<dirty, coalesceDeadline, wakePending, timerPending, timerId, tornDown, timers,
                  callback, locked, wakes, up, unlucky, asleep, painter>>
  BY DEF AskWake, AskTimer, Goes, wakeVars, timerVars, clientSide
<1>3. /\ timers \subseteq 1..3 /\ timerId \in 0..3
      /\ coalesceDeadline \in {"none", "ahead", "past"} /\ wakes \in Nat
      /\ {dirty, wakePending, timerPending, tornDown, unlucky} \subseteq BOOLEAN
      /\ timers \subseteq {timerId}
      /\ Fired => timers = {}
      /\ timerPending <=> timers # {} \/ Fired
      /\ ~painter.overlap =>
           /\ wakePending => wakes > 0 \/ WillDraw
           /\ timers # {} => ~tornDown
           /\ ~Fired
  BY <1>1, DrawingFacts, AtDrawing
<1>4. CASE (s = "askWake" /\ wakePending) \/ (s = "askTimer" /\ timerPending)
  <2>1. Chained(todo') /\ Entry(todo') /\ (WillDraw => WillDraw')
    BY <1>1, <1>4, ChainSkip DEF Skips, MainAt, WillDraw
  <2>2. \A r \in Inner \union {"clearWake"} : ~HeadIs(r)'
    BY <2>1 DEF HeadIs, Entry
  <2>3. ~painter.overlap => /\ wakes > 0 \/ WillDraw' \/ (~wakePending /\ ~tornDown /\ timers # {})
                            /\ wakePending => wakes > 0 \/ WillDraw'
    BY <1>3, <1>4, <2>1
  <2> QED BY <1>1, <1>2, <1>3, <2>1, <2>2, <2>3, DrawingInv DEF Owes, Inner
<1>5. CASE Proceeds /\ (s = "askTimer" => ~timerPending)
  <2>1. /\ Chained(todo') /\ (WillDraw => WillDraw')
        /\ \A r : HeadIs(r)' <=> r = After(s)
    BY <1>1, <1>5, DrawingProceeds DEF Leads
  <2>2. (After(s) = "ungag" /\ timers = {} /\ ~Fired) \/ After(s) = "askTimer"
    BY <1>3, <1>5 DEF After
  <2> QED BY <1>1, <1>2, <1>3, <2>1, <2>2, DrawingInv DEF Owes, Inner
<1>6. wakePending \in BOOLEAN /\ timerPending \in BOOLEAN
  BY <1>3
<1>7. CASE s = "askWake"
  <2>1. CASE wakePending
    BY <1>4, <1>7, <2>1, Zenon
  <2>2. CASE ~wakePending
    BY <1>1, <1>5, <1>7, <2>2
  <2> QED BY <1>6, <2>1, <2>2
<1>8. CASE s = "askTimer"
  <2>1. CASE timerPending
    BY <1>4, <1>8, <2>1, Zenon
  <2>2. CASE ~timerPending
    BY <1>1, <1>5, <1>8, <2>2
  <2> QED BY <1>6, <2>1, <2>2
<1> QED BY <1>7, <1>8

(* It goes on to a timer.                                                   *)
LEMMA SchedulesInv ==
  ASSUME PresentInv, Chained(todo), UNCHANGED <<painter, clientSide>>,
         \/ Gag \/ MarkDirty \/ MarkTimer
  PROVE  PresentInv'
<1> DEFINE Rest == UNCHANGED <<coalesceDeadline, wakePending, timerId, timers, callback, locked,
                               wakes, up, unlucky, asleep, painter>>
<1>1. PICK s \in {"ungag", "gag", "markDirty", "markTimer", "clearTimer"} :
        /\ MainAt(s) /\ Proceeds /\ Rest
        /\ dirty' = IF s = "markDirty" THEN TRUE ELSE dirty
        /\ tornDown' = IF s = "ungag" THEN FALSE ELSE IF s = "gag" THEN TRUE ELSE tornDown
        /\ timerPending' = IF s = "markTimer" THEN TRUE
                           ELSE IF s = "clearTimer" THEN FALSE ELSE timerPending
  <2>1. CASE Gag
    BY <2>1 DEF Gag, Goes, wakeVars, timerVars, clientSide
  <2>2. CASE MarkDirty
    BY <2>2 DEF MarkDirty, Goes, wakeVars, timerVars, clientSide
  <2>3. CASE MarkTimer
    BY <2>3 DEF MarkTimer, Goes, wakeVars, timerVars, clientSide
  <2> QED BY <2>1, <2>2, <2>3
<1>2. s \in {"ungag", "markDirty", "markTimer"}
  BY <1>1, AtDrawing DEF DrawSteps, Inner
<1>3. /\ timers \subseteq 1..3 /\ timerId \in 0..3
      /\ coalesceDeadline \in {"none", "ahead", "past"} /\ wakes \in Nat
      /\ {dirty, wakePending, timerPending, tornDown, unlucky} \subseteq BOOLEAN
      /\ timers \subseteq {timerId}
      /\ Fired => timers = {}
      /\ timerPending <=> timers # {} \/ Fired
      /\ s \in {"ungag", "markTimer"} => timers = {} /\ ~Fired
      /\ ~painter.overlap =>
           /\ wakePending => wakes > 0 \/ WillDraw
           /\ timers # {} \/ s = "markTimer" => ~tornDown
           /\ ~Fired
  BY <1>1, <1>2, DrawingFacts, AtDrawing
<1>4. /\ Chained(todo') /\ (WillDraw => WillDraw')
      /\ \A r : HeadIs(r)' <=> r = After(s)
  BY <1>1, <1>2, DrawingProceeds DEF Leads
<1>5. /\ s = "ungag" => After(s) = "markTimer"
      /\ s = "markDirty" => After(s) = "askWake"
      /\ s = "markTimer" => After(s) = "arm"
  BY DEF After
<1>6. CASE s = "ungag"
  BY <1>1, <1>3, <1>4, <1>5, <1>6, DrawingInv DEF Owes, Inner
<1>7. CASE s = "markDirty"
  BY <1>1, <1>3, <1>4, <1>5, <1>7, DrawingInv DEF Owes, Inner
<1>8. CASE s = "markTimer"
  BY <1>1, <1>3, <1>4, <1>5, <1>8, DrawingInv DEF Owes, Inner
<1> QED BY <1>2, <1>6, <1>7, <1>8

(* The timer is armed, or cannot be.                                        *)
LEMMA ArmsInv ==
  ASSUME PresentInv, Chained(todo), UNCHANGED <<painter, clientSide>>, Arm \/ ArmFails
  PROVE  PresentInv'
<1>1. /\ MainAt("arm") /\ Proceeds
      /\ UNCHANGED <<dirty, coalesceDeadline, wakePending, tornDown, callback, locked, wakes, up,
                     asleep, painter>>
  BY DEF Arm, ArmFails, Goes, Fails, wakeVars, timerVars, clientSide
<1>2. /\ timers = {} /\ timerId \in 0..3 /\ callback.timer \in 0..3
      /\ coalesceDeadline \in {"none", "ahead", "past"} /\ wakes \in Nat
      /\ {dirty, wakePending, timerPending, tornDown, unlucky} \subseteq BOOLEAN
      /\ ~Fired /\ timerPending
      /\ ~painter.overlap => /\ wakePending => wakes > 0 \/ WillDraw
                             /\ ~tornDown
  BY <1>1, DrawingFacts
<1>3. /\ Chained(todo') /\ (WillDraw => WillDraw')
      /\ \A r \in Inner \union {"clearWake"} : ~HeadIs(r)'
  BY <1>1, DrawingProceeds DEF Leads
<1>4. CASE Arm
  <2>1. timerId' = NewTimer /\ timers' = {NewTimer} /\ UNCHANGED <<timerPending, unlucky>>
    BY <1>2, <1>4 DEF Arm, Goes
  <2>2. NewTimer \in 1..3
    <3>1. \E t \in 1..3 : t \notin {callback.timer, timerId}
      <4>1. 1 \in 1..3 /\ 2 \in 1..3 /\ 3 \in 1..3
        OBVIOUS
      <4> QED BY <4>1
    <3>2. \E t \in 1..3 : t \notin timers \union {callback.timer, timerId}
      BY <1>2, <3>1
    <3> QED BY <3>2 DEF NewTimer
  <2>3. timers' \subseteq 1..3 /\ timerId' \in 0..3
    BY <2>1, <2>2
  <2> QED BY <1>1, <1>2, <1>3, <2>1, <2>3, DrawingInv DEF Owes, Inner
<1>5. CASE ArmFails
  <2>1. UNCHANGED <<timerId, timers>> /\ timerPending' = FALSE /\ unlucky' = TRUE
    BY <1>5 DEF ArmFails, Fails, timerVars
  <2> QED BY <1>1, <1>2, <1>3, <2>1, DrawingInv DEF Owes, Inner
<1> QED BY <1>4, <1>5

(* The wake is forgotten, or there is nothing to present.                   *)
LEMMA ForgetsInv ==
  ASSUME PresentInv, Chained(todo), UNCHANGED <<painter, clientSide>>,
         ClearWake \/ NothingToDraw
  PROVE  PresentInv'
<1>1. PICK s \in {"clearWake", "draw"} : MainAt(s) /\ (s = "draw" => ~dirty)
  BY DEF ClearWake, NothingToDraw
<1>2. /\ Proceeds /\ wakePending' = FALSE
      /\ UNCHANGED <<dirty, coalesceDeadline, timerPending, timerId, timers, tornDown, callback,
                     locked, wakes, up, asleep, painter, unlucky>>
  BY DEF ClearWake, NothingToDraw, Goes, timerVars, clientSide
<1>3. /\ timers \subseteq 1..3 /\ timerId \in 0..3
      /\ coalesceDeadline \in {"none", "ahead", "past"} /\ wakes \in Nat
      /\ {dirty, wakePending, timerPending, tornDown, unlucky} \subseteq BOOLEAN
      /\ timers \subseteq {timerId}
      /\ Fired => timers = {}
      /\ timerPending <=> timers # {} \/ Fired
      /\ ~painter.overlap =>
           /\ timers # {} => ~tornDown
           /\ dirty /\ ~unlucky =>
                WillDraw \/ wakes > 0 \/ (~wakePending /\ ~tornDown /\ timers # {})
  <2>1. s \notin Inner \union {"askWake", "markTimer", "arm", "ungag"}
    BY DEF Inner
  <2>2. MainAt(s)
    BY <1>1
  <2>3. /\ timers \subseteq 1..3 /\ timerId \in 0..3
        /\ coalesceDeadline \in {"none", "ahead", "past"} /\ wakes \in Nat
        /\ {dirty, wakePending, timerPending, tornDown, unlucky} \subseteq BOOLEAN
        /\ timers \subseteq {timerId}
        /\ Fired => timers = {}
        /\ timers # {} \/ Fired => timerPending
        /\ timerPending => timers # {} \/ Fired
    BY <2>1, <2>2, DrawingFacts
  <2>4. ~painter.overlap =>
          /\ timers # {} => ~tornDown
          /\ dirty /\ ~unlucky =>
               WillDraw \/ wakes > 0 \/ (~wakePending /\ ~tornDown /\ timers # {})
    BY <2>1, <2>2, DrawingFacts
  <2> QED BY <2>3, <2>4
<1>4. /\ Chained(todo') /\ (s # "draw" /\ WillDraw => WillDraw')
      /\ \A r \in Inner \union {"clearWake"} : ~HeadIs(r)'
  BY <1>1, <1>2, DrawingProceeds DEF Leads
<1> QED BY <1>1, <1>2, <1>3, <1>4, DrawingInv DEF Owes, Inner


(* What is put in front of the next steps, behind a present or a drain.     *)
LEMMA DrawingJoins ==
  ASSUME PresentInv, NEW s \in {"draw", "drain"}, MainAt(s), Chained(todo),
         NEW p, Chained(p), todo' = p \o Tail(todo)
  PROVE  /\ Chained(todo')
         /\ HasDraw(p) \/ (s = "drain" /\ WillDraw) => WillDraw'
         /\ p # <<>> => \A r : HeadIs(r)' <=> r = Head(p)
         /\ p = <<>> => \A r \in Inner \union {"clearWake"} : ~HeadIs(r)'
<1>1. todo # <<>> /\ Head(todo) = s
  BY DEF MainAt
<1> DEFINE t == Tail(todo)
<1>2. /\ Chained(t) /\ Entry(t)
      /\ WillDraw /\ s = "drain" => HasDraw(t)
  BY <1>1, ChainTail DEF WillDraw, Leads
<1> HIDE DEF t
<1>3. /\ Chained(p \o t)
      /\ HasDraw(p \o t) <=> HasDraw(p) \/ HasDraw(t)
      /\ p # <<>> => p \o t # <<>> /\ Head(p \o t) = Head(p)
      /\ p = <<>> => p \o t = t
  BY <1>2, ChainJoin
<1>4. todo' = p \o t
  BY DEF t
<1> QED BY <1>2, <1>3, <1>4 DEF WillDraw, HeadIs, Entry

(* The client drains the events there are, is held back by a burst, or      *)
(* presents.                                                                *)
LEMMA PresentsInv ==
  ASSUME PresentInv, Chained(todo), UNCHANGED <<painter, clientSide>>,
         Drain \/ HoldBack \/ Present
  PROVE  PresentInv'
<1>1. PICK s \in {"draw", "drain"} : MainAt(s) /\ (s = "drain" <=> Drain)
  BY AtDrawing DEF Drain, HoldBack, Present, MainAt
<1>2. UNCHANGED <<timerPending, timerId, timers, tornDown, callback, locked, up, asleep, painter>>
  BY DEF Drain, HoldBack, Present, Goes, wakeVars, timerVars, clientSide
<1>3. /\ timers \subseteq 1..3 /\ timerId \in 0..3
      /\ coalesceDeadline \in {"none", "ahead", "past"} /\ wakes \in Nat
      /\ {dirty, wakePending, timerPending, tornDown, unlucky} \subseteq BOOLEAN
      /\ timers \subseteq {timerId}
      /\ Fired => timers = {}
      /\ timerPending <=> timers # {} \/ Fired
      /\ ~painter.overlap =>
           /\ wakePending => wakes > 0 \/ WillDraw
           /\ timers # {} => ~tornDown
           /\ dirty /\ ~unlucky =>
                WillDraw \/ wakes > 0 \/ (~wakePending /\ ~tornDown /\ timers # {})
  <2>1. s \notin Inner \union {"askWake", "clearWake"}
    BY DEF Inner
  <2> QED BY <1>1, <2>1, DrawingFacts
<1>4. CASE Drain
  <2> DEFINE d == [i \in 1..wakes |-> "draw"]
  <2>1. /\ todo' = d \o Tail(todo) /\ wakes' = 0
        /\ UNCHANGED <<dirty, coalesceDeadline, wakePending, unlucky>>
    BY <1>4 DEF Drain, Goes, wakeVars
  <2>2. Chained(d) /\ (wakes > 0 => HasDraw(d)) /\ (d # <<>> => Head(d) = "draw")
    BY <1>3, ChainDraws
  <2> HIDE DEF d
  <2>3. /\ Chained(todo')
        /\ WillDraw \/ wakes > 0 => WillDraw'
        /\ \A r \in Inner \union {"clearWake"} : ~HeadIs(r)'
    BY <1>1, <1>4, <2>1, <2>2, DrawingJoins DEF Inner
  <2> QED BY <1>1, <1>2, <1>3, <2>1, <2>3, DrawingInv DEF Owes, Inner
<1>5. CASE HoldBack
  <2>1. /\ todo' = schedulePresentWake \o Tail(todo) /\ wakePending' = FALSE
        /\ UNCHANGED <<dirty, coalesceDeadline, wakes, unlucky>>
    BY <1>5 DEF HoldBack, clearsWake, Goes
  <2>2. /\ Chained(todo')
        /\ \A r : HeadIs(r)' <=> r = "askWake"
    <3> HIDE DEF schedulePresentWake
    <3> QED BY <1>1, <2>1, ChainLists, DrawingJoins
  <2>3. /\ ~\E r : Owes(r) /\ HeadIs(r)'
        /\ ~HeadIs("arm")' /\ ~HeadIs("markTimer")'
    BY <2>2 DEF Owes
  <2>4. HeadIs("askWake")'
    BY <2>2
  <2>5. /\ Chained(todo') /\ wakes' \in Nat /\ coalesceDeadline' \in {"none", "ahead", "past"}
        /\ {dirty', wakePending', timerPending', tornDown', unlucky'} \subseteq BOOLEAN
    BY <1>2, <1>3, <2>1, <2>2
  <2> QED BY <1>1, <1>2, <1>3, <2>1, <2>3, <2>4, <2>5, DrawingInv
<1>6. CASE Present
  <2>1. /\ todo' = <<"clearWake">> \o Tail(todo) /\ UNCHANGED <<wakePending, wakes>>
        /\ coalesceDeadline' = "none"
        /\ dirty' \in BOOLEAN /\ unlucky' \in BOOLEAN
        /\ ~dirty' \/ unlucky'
    <3>1. dirty \in BOOLEAN
      BY <1>3
    <3> QED BY <1>6, <3>1 DEF Present, Fails, wakeVars
  <2>2. /\ Chained(todo')
        /\ \A r : HeadIs(r)' <=> r = "clearWake"
    <3>1. <<"clearWake">> # <<>> /\ Head(<<"clearWake">>) = "clearWake"
      OBVIOUS
    <3> QED BY <1>1, <2>1, <3>1, ChainLists, DrawingJoins
  <2>3. dirty' /\ ~unlucky' => FALSE
    BY <2>1
  <2>4. /\ ~\E r : Owes(r) /\ HeadIs(r)'
        /\ ~HeadIs("arm")' /\ ~HeadIs("markTimer")' /\ HeadIs("clearWake")'
    BY <2>2 DEF Owes
  <2>5. /\ Chained(todo') /\ wakes' \in Nat /\ coalesceDeadline' \in {"none", "ahead", "past"}
        /\ {dirty', wakePending', timerPending', tornDown', unlucky'} \subseteq BOOLEAN
    BY <1>2, <1>3, <2>1, <2>2
  <2> QED BY <1>1, <1>2, <1>3, <2>3, <2>4, <2>5, DrawingInv
<1> QED BY <1>4, <1>5, <1>6

(* The main thread within a close or an open.                               *)
LEMMA AtCancelling ==
  ASSUME PresentInv, NEW s, MainAt(s), NEW x \in {"quit", "init"}, todo \in Cancels(x)
  PROVE  /\ s \in {"gag", "remove", "cycleLock", "clearTimer", "clearWake", x}
         /\ todo # <<>> /\ Head(todo) = s /\ ~Chained(todo)
         /\ s = x <=> todo = <<x>>
         /\ \A r : HeadIs(r) <=> r = s
         /\ Cancelling /\ ~asleep /\ (x = "quit" <=> up)
         /\ ~painter.overlap => ~Fired
         /\ ~WillDraw
         /\ Gagged <=> s # "gag"
         /\ Removed <=> s \notin {"gag", "remove"}
         /\ Passed <=> s \notin {"gag", "remove", "cycleLock"}
         /\ Cleared <=> s \notin {"gag", "remove", "cycleLock", "clearTimer"}
<1>1. todo # <<>> /\ Head(todo) = s /\ (~painter.overlap => callback = NoCallback)
  BY DEF MainAt
<1>2. \A r : HeadIs(r) <=> r = s
  BY <1>1 DEF HeadIs
<1>3. Cancelling
  BY DEF Cancelling
<1>4. up \in BOOLEAN /\ asleep \in BOOLEAN
  BY DEF PresentInv, PresentTypes
<1>5. ~asleep /\ (x = "quit" <=> up)
  BY <1>1, <1>4 DEF PresentInv, MainInv
<1>6. /\ s \in {"gag", "remove", "cycleLock", "clearTimer", "clearWake", x}
      /\ s = x <=> todo = <<x>>
  <2>1. Head(<<x>>) = x
    OBVIOUS
  <2> QED BY <1>1, <2>1, CancelTail
<1>7. ~WillDraw /\ ~Chained(todo)
  BY CancelAlone DEF WillDraw
<1>8. callback = NoCallback => ~Fired
  BY DEF NoCallback, Fired
<1> QED BY <1>1, <1>2, <1>3, <1>5, <1>6, <1>7, <1>8 DEF Gagged, Removed, Passed, Cleared

(* Its next step.                                                           *)
LEMMA CancelProceeds ==
  ASSUME PresentInv, NEW s, MainAt(s), NEW x \in {"quit", "init"}, todo \in Cancels(x), Proceeds,
         s # x
  PROVE  /\ todo' \in Cancels(x) /\ Cancelling' /\ ~WillDraw'
         /\ todo' # <<>> /\ \A r : HeadIs(r)' <=> r = Head(todo')
         /\ s = "gag" => Head(todo') = "remove"
         /\ s = "remove" => Head(todo') = "cycleLock"
         /\ s = "cycleLock" => Head(todo') = "clearTimer"
         /\ s = "clearTimer" => Head(todo') = "clearWake"
         /\ s = "clearWake" => Head(todo') = x
         /\ \A y \in {"quit", "init"} : todo' \in Cancels(y) => y = x
         /\ \A y \in {"quit", "init"} : todo' = <<y>> => s = "clearWake"
<1>1. todo # <<>> /\ Head(todo) = s /\ todo' = Tail(todo)
  BY DEF MainAt, Proceeds
<1>2. s \in {"gag", "remove", "cycleLock", "clearTimer", "clearWake", x}
  BY AtCancelling
<1>3. Head(<<x>>) = x
  OBVIOUS
<1>4. /\ todo' # <<>> /\ todo' \in Cancels(x)
      /\ s = "gag" => Head(todo') = "remove"
      /\ s = "remove" => Head(todo') = "cycleLock"
      /\ s = "cycleLock" => Head(todo') = "clearTimer"
      /\ s = "clearTimer" => Head(todo') = "clearWake"
      /\ s = "clearWake" => Head(todo') = x
  <2>1. <<x>> # <<>>
    OBVIOUS
  <2> DEFINE z == todo
  <2>2. /\ z # <<>> /\ Tail(z) # <<>> => Tail(z) \in Cancels(x)
        /\ Head(z) = "gag" => Tail(z) # <<>> /\ Head(Tail(z)) = "remove"
        /\ Head(z) = "remove" => Tail(z) # <<>> /\ Head(Tail(z)) = "cycleLock"
        /\ Head(z) = "cycleLock" => Tail(z) # <<>> /\ Head(Tail(z)) = "clearTimer"
        /\ Head(z) = "clearTimer" => Tail(z) # <<>> /\ Head(Tail(z)) = "clearWake"
        /\ Head(z) = "clearWake" => Tail(z) = <<x>>
    BY CancelTail
  <2> QED BY <1>1, <1>2, <1>3, <2>1, <2>2
<1>5. ~WillDraw' /\ \A y \in {"quit", "init"} : todo' \in Cancels(y) => y = x
  BY <1>4, CancelAlone DEF WillDraw
<1>6. Cancelling'
  BY <1>4 DEF Cancelling
<1>7. \A r : HeadIs(r)' <=> r = Head(todo')
  BY <1>4 DEF HeadIs
<1>8. \A y \in {"quit", "init"} : todo' = <<y>> => Head(todo') = y
  OBVIOUS
<1>9. \A y \in {"quit", "init"} : todo' = <<y>> => s = "clearWake"
  BY <1>2, <1>4, <1>8
<1> QED BY <1>4, <1>5, <1>6, <1>7, <1>9

(* A step of a close or an open that is not its last.                       *)
LEMMA CancellingInv ==
  ASSUME PresentInv, NEW s, MainAt(s), NEW x \in {"quit", "init"}, todo \in Cancels(x), Proceeds,
         s # x, UNCHANGED <<painter, up, dirty, coalesceDeadline, callback, locked, wakes,
                            asleep, unlucky>>,
         wakePending' = IF s = "clearWake" THEN FALSE ELSE wakePending,
         timerPending' = IF s = "clearTimer" THEN FALSE ELSE timerPending,
         tornDown' = IF s = "gag" THEN TRUE ELSE tornDown,
         timers' = IF s = "remove" THEN {} ELSE timers,
         timerId' = IF s = "remove" THEN NoTimer ELSE timerId,
         s = "cycleLock" => locked = "nobody"
  PROVE  PresentInv'
<1>1. /\ s \in {"gag", "remove", "cycleLock", "clearTimer", "clearWake"}
      /\ ~asleep /\ (x = "quit" <=> up)
      /\ ~painter.overlap => ~Fired
      /\ \A r : HeadIs(r) <=> r = s
      /\ Gagged <=> s # "gag"
      /\ Removed <=> s \notin {"gag", "remove"}
      /\ Passed <=> s \notin {"gag", "remove", "cycleLock"}
      /\ Cleared <=> s \notin {"gag", "remove", "cycleLock", "clearTimer"}
      /\ ~WillDraw
  BY AtCancelling
<1>2. /\ todo' \in Cancels(x) /\ todo' # <<>> /\ Cancelling'
      /\ \A y \in {"quit", "init"} : todo' \in Cancels(y) => y = x
      /\ \A y \in {"quit", "init"} : todo' = <<y>> => s = "clearWake"
  BY CancelProceeds
<1>3. /\ HeadIs("gag")' <=> FALSE
      /\ HeadIs("remove")' <=> s = "gag"
      /\ HeadIs("cycleLock")' <=> s = "remove"
      /\ HeadIs("clearTimer")' <=> s = "cycleLock"
      /\ HeadIs("clearWake")' <=> s = "clearTimer"
      /\ \A r \in Inner \union {"askWake"} : ~HeadIs(r)'
  <2>1. /\ \A r : HeadIs(r)' <=> r = Head(todo')
        /\ s = "gag" => Head(todo') = "remove"
        /\ s = "remove" => Head(todo') = "cycleLock"
        /\ s = "cycleLock" => Head(todo') = "clearTimer"
        /\ s = "clearTimer" => Head(todo') = "clearWake"
        /\ s = "clearWake" => Head(todo') = x
    BY CancelProceeds
  <2> QED BY <1>1, <2>1 DEF Inner
<1>4. /\ Gagged' /\ (Removed' <=> s # "gag")
      /\ Passed' <=> s \notin {"gag", "remove"}
      /\ Cleared' <=> s \notin {"gag", "remove", "cycleLock"}
  BY <1>1, <1>2, <1>3 DEF Gagged, Removed, Passed, Cleared
<1>5. /\ Fired' <=> Fired
      /\ \A r : CallbackAt(r)' <=> CallbackAt(r)
      /\ MayPush' <=> MayPush
  BY DEF Fired, CallbackAt, MayPush
<1>6. /\ PresentTypes /\ MainInv /\ TimerInv /\ GagInv /\ (~painter.overlap => AloneInv)
  BY DEF PresentInv
<1>7. {up, dirty, wakePending, timerPending, tornDown, asleep, unlucky} \subseteq BOOLEAN
  BY <1>6 DEF PresentTypes
<1>8. PresentTypes'
  <2>1. {up, dirty, wakePending, timerPending, tornDown, asleep, unlucky}' \subseteq BOOLEAN
    BY <1>7
  <2>2. timers' \subseteq 1..3 /\ timerId' \in 0..3
    <3>1. timers \subseteq 1..3 /\ timerId \in 0..3
      BY <1>6 DEF PresentTypes, PresentTypeOK
    <3>2. CASE s = "remove"
      BY <3>2 DEF NoTimer
    <3>3. CASE s # "remove"
      BY <3>1, <3>3
    <3> QED BY <3>2, <3>3
  <2>3. PresentTypeOK'
    BY <1>6, <2>2 DEF PresentTypes, PresentTypeOK
  <2> QED BY <1>5, <1>6, <2>1, <2>2, <2>3 DEF PresentTypes, NoCallback
<1>9. MainInv'
  <2>1. todo' \in Cancels("quit") => up
    BY <1>1, <1>2
  <2>2. todo' \in Cancels("init") => ~up
    BY <1>1, <1>2
  <2>3. ~up => timers' = {} /\ ~Fired /\ todo' \in Cancels("init")
    BY <1>1, <1>2, <1>6, <1>7 DEF MainInv
  <2> QED BY <1>1, <1>2, <1>5, <2>1, <2>2, <2>3 DEF MainInv
<1>10. TimerInv'
  <2>1. timers' \subseteq {timerId'} /\ (Fired => timers' = {})
    BY <1>6 DEF TimerInv
  <2>2. timers' # {} \/ Fired => timerPending' \/ Cleared'
    BY <1>1, <1>4, <1>6 DEF TimerInv
  <2>3. timerPending' => timers' # {} \/ Fired \/ ~Cleared'
    <3>1. CASE s = "clearTimer"
      BY <3>1
    <3>2. CASE s = "clearWake"
      BY <1>1, <1>6, <3>2 DEF TimerInv, Inner
    <3>3. CASE s \in {"gag", "remove", "cycleLock"}
      BY <1>4, <3>3
    <3> QED BY <1>1, <3>1, <3>2, <3>3
  <2> QED BY <1>2, <1>3, <1>5, <2>1, <2>2, <2>3 DEF TimerInv, Inner
<1>11. GagInv'
  <2>1. tornDown'
    BY <1>1, <1>6 DEF GagInv
  <2>2. Removed' => timers' = {}
    BY <1>1, <1>4, <1>6 DEF GagInv
  <2>3. Passed' /\ MayPush => CallbackAt("lock") \/ CallbackAt("askGag")
    <3>1. CASE s = "cycleLock"
      BY <1>6, <3>1 DEF GagInv, MayPush, CallbackAt, Fired
    <3>2. CASE s # "cycleLock"
      BY <1>1, <1>4, <1>6, <3>2 DEF GagInv
    <3> QED BY <3>1, <3>2
  <2> QED BY <1>5, <1>6, <2>1, <2>2, <2>3 DEF GagInv
<1>12. ~painter.overlap => AloneInv'
  <2> SUFFICES ASSUME ~painter.overlap PROVE AloneInv'
    OBVIOUS
  <2>1. ~Fired' /\ ~CallbackAt("mark")'
    BY <1>1, <1>5 DEF Fired, CallbackAt
  <2>2. wakePending' => wakes' > 0 \/ HeadIs("clearWake")'
    BY <1>1, <1>3, <1>6 DEF AloneInv
  <2>3. todo' = <<"quit">> \/ todo' = <<"init">> => ~wakePending'
    BY <1>2
  <2>4. ~up' => ~dirty'
    BY <1>6 DEF AloneInv
  <2> QED BY <1>2, <2>1, <2>2, <2>3, <2>4 DEF AloneInv
<1> QED BY <1>8, <1>9, <1>10, <1>11, <1>12 DEF PresentInv

(* The steps of a close or an open up to its last.                          *)
LEMMA CancelStepInv ==
  ASSUME PresentInv, Cancelling, UNCHANGED <<painter, clientSide>>,
         \/ Gag \/ RemoveTimer \/ CycleLock \/ MarkTimer \/ ClearWake
  PROVE  PresentInv'
<1>1. PICK x \in {"quit", "init"} : todo \in Cancels(x)
  BY DEF Cancelling
<1>2. UNCHANGED <<painter, up, dirty, coalesceDeadline, callback, locked, wakes, asleep, unlucky>>
  BY DEF Gag, RemoveTimer, CycleLock, MarkTimer, ClearWake, Goes, wakeVars, timerVars, clientSide
<1>3. \A s : MainAt(s) => s \in {"gag", "remove", "cycleLock", "clearTimer", "clearWake", x}
  BY <1>1, AtCancelling
<1>4. CASE Gag
  <2>1. /\ MainAt("gag") /\ Proceeds /\ tornDown' = TRUE
        /\ UNCHANGED <<wakePending, timerPending, timerId, timers>>
    BY <1>3, <1>4 DEF Gag, timerVars
  <2>2. /\ "gag" # x
        /\ "gag" = "cycleLock" => locked = "nobody"
        /\ wakePending' = IF "gag" = "clearWake" THEN FALSE ELSE wakePending
        /\ timerPending' = IF "gag" = "clearTimer" THEN FALSE ELSE timerPending
        /\ tornDown' = IF "gag" = "gag" THEN TRUE ELSE tornDown
        /\ timers' = IF "gag" = "remove" THEN {} ELSE timers
        /\ timerId' = IF "gag" = "remove" THEN NoTimer ELSE timerId
    BY <2>1
  <2> QED BY <1>1, <1>2, <2>1, <2>2, CancellingInv
<1>5. CASE RemoveTimer
  <2>1. /\ MainAt("remove") /\ Proceeds /\ timers' = {} /\ timerId' = NoTimer
        /\ UNCHANGED <<wakePending, timerPending, tornDown>>
    BY <1>5 DEF RemoveTimer, PresentInv, TimerInv
  <2>2. /\ "remove" # x
        /\ "remove" = "cycleLock" => locked = "nobody"
        /\ wakePending' = IF "remove" = "clearWake" THEN FALSE ELSE wakePending
        /\ timerPending' = IF "remove" = "clearTimer" THEN FALSE ELSE timerPending
        /\ tornDown' = IF "remove" = "gag" THEN TRUE ELSE tornDown
        /\ timers' = IF "remove" = "remove" THEN {} ELSE timers
        /\ timerId' = IF "remove" = "remove" THEN NoTimer ELSE timerId
    BY <2>1
  <2> QED BY <1>1, <1>2, <2>1, <2>2, CancellingInv
<1>6. CASE CycleLock
  <2>1. /\ MainAt("cycleLock") /\ Proceeds /\ locked = "nobody"
        /\ UNCHANGED <<wakePending, timerPending, tornDown, timerId, timers>>
    BY <1>6 DEF CycleLock, wakeVars, timerVars
  <2>2. /\ "cycleLock" # x
        /\ "cycleLock" = "cycleLock" => locked = "nobody"
        /\ wakePending' = IF "cycleLock" = "clearWake" THEN FALSE ELSE wakePending
        /\ timerPending' = IF "cycleLock" = "clearTimer" THEN FALSE ELSE timerPending
        /\ tornDown' = IF "cycleLock" = "gag" THEN TRUE ELSE tornDown
        /\ timers' = IF "cycleLock" = "remove" THEN {} ELSE timers
        /\ timerId' = IF "cycleLock" = "remove" THEN NoTimer ELSE timerId
    BY <2>1
  <2> QED BY <1>1, <1>2, <2>1, <2>2, CancellingInv
<1>7. CASE MarkTimer
  <2>1. /\ MainAt("clearTimer") /\ Proceeds /\ timerPending' = FALSE
        /\ UNCHANGED <<wakePending, tornDown, timerId, timers>>
    BY <1>3, <1>7 DEF MarkTimer, timerVars
  <2>2. /\ "clearTimer" # x
        /\ "clearTimer" = "cycleLock" => locked = "nobody"
        /\ wakePending' = IF "clearTimer" = "clearWake" THEN FALSE ELSE wakePending
        /\ timerPending' = IF "clearTimer" = "clearTimer" THEN FALSE ELSE timerPending
        /\ tornDown' = IF "clearTimer" = "gag" THEN TRUE ELSE tornDown
        /\ timers' = IF "clearTimer" = "remove" THEN {} ELSE timers
        /\ timerId' = IF "clearTimer" = "remove" THEN NoTimer ELSE timerId
    BY <2>1
  <2> QED BY <1>1, <1>2, <2>1, <2>2, CancellingInv
<1>8. CASE ClearWake
  <2>1. /\ MainAt("clearWake") /\ Proceeds /\ wakePending' = FALSE
        /\ UNCHANGED <<timerPending, tornDown, timerId, timers>>
    BY <1>8 DEF ClearWake, timerVars
  <2>2. /\ "clearWake" # x
        /\ "clearWake" = "cycleLock" => locked = "nobody"
        /\ wakePending' = IF "clearWake" = "clearWake" THEN FALSE ELSE wakePending
        /\ timerPending' = IF "clearWake" = "clearTimer" THEN FALSE ELSE timerPending
        /\ tornDown' = IF "clearWake" = "gag" THEN TRUE ELSE tornDown
        /\ timers' = IF "clearWake" = "remove" THEN {} ELSE timers
        /\ timerId' = IF "clearWake" = "remove" THEN NoTimer ELSE timerId
    BY <2>1
  <2> QED BY <1>1, <1>2, <2>1, <2>2, CancellingInv
<1> QED BY <1>4, <1>5, <1>6, <1>7, <1>8

(* Its last: the video subsystem goes, or comes.                            *)
LEMMA QuitsInv ==
  ASSUME PresentInv, UNCHANGED <<painter, clientSide>>, SDL_Quit \/ SDL_Init
  PROVE  PresentInv'
<1>1. PICK x \in {"quit", "init"} : MainAt(x) /\ Proceeds /\ (x = "quit" <=> SDL_Quit)
  BY DEF SDL_Quit, SDL_Init, MainAt
<1>2. todo \in Cancels(x)
  <2>1. ~Chained(todo)
    BY <1>1, AtDrawing DEF DrawSteps, Inner
  <2>2. PICK y \in {"quit", "init"} : todo \in Cancels(y)
    BY <2>1 DEF PresentInv, MainInv, Cancelling
  <2>3. x \in {"gag", "remove", "cycleLock", "clearTimer", "clearWake", y}
    BY <1>1, <2>2, AtCancelling
  <2> QED BY <2>2, <2>3
<1>3. /\ todo = <<x>> /\ ~asleep /\ (x = "quit" <=> up) /\ ~WillDraw /\ Cleared /\ Removed
      /\ \A r : HeadIs(r) <=> r = x
  BY <1>1, <1>2, AtCancelling
<1>4. todo' = <<>>
  BY <1>1, <1>3 DEF Proceeds
<1>5. /\ Chained(todo') /\ ~Cancelling' /\ \A r : ~HeadIs(r)'
      /\ todo' \notin Cancels("quit") /\ todo' \notin Cancels("init")
      /\ todo' # <<"quit">> /\ todo' # <<"init">>
  BY <1>4, ChainLists, DrawsOnly DEF Cancelling, HeadIs
<1>6. /\ PresentTypes /\ MainInv /\ TimerInv /\ GagInv /\ (~painter.overlap => AloneInv)
  BY DEF PresentInv
<1>7. ~Fired /\ callback = NoCallback
  <2>1. CASE SDL_Quit
    BY <2>1 DEF SDL_Quit, Fired, NoCallback
  <2>2. CASE SDL_Init
    <3>1. ~up
      BY <1>1, <1>3, <2>2 DEF SDL_Quit, SDL_Init, MainAt
    <3> QED BY <1>6, <3>1 DEF MainInv, PresentTypes
  <2> QED BY <2>1, <2>2
<1>8. ~timerPending /\ timers = {}
  BY <1>3, <1>6, <1>7 DEF TimerInv, GagInv
<1>9. /\ UNCHANGED <<painter, coalesceDeadline, wakePending, timerPending, timerId, tornDown,
                     callback, locked, asleep>>
      /\ timers' = {} /\ up' \in BOOLEAN /\ wakes' \in Nat
      /\ dirty' \in BOOLEAN /\ unlucky' \in BOOLEAN
  <2>1. wakes \in Nat /\ {dirty, unlucky} \subseteq BOOLEAN
    BY <1>6 DEF PresentTypes, PresentTypeOK
  <2>2. CASE SDL_Quit
    BY <2>2 DEF SDL_Quit, wakeVars, clientSide
  <2>3. CASE SDL_Init
    BY <1>8, <2>1, <2>3 DEF SDL_Init, Goes, wakeVars, timerVars, clientSide
  <2> QED BY <2>2, <2>3
<1>10. /\ Fired' <=> Fired
       /\ \A r : ~CallbackAt(r) /\ ~CallbackAt(r)'
       /\ ~MayPush'
  BY <1>7, <1>9 DEF Fired, CallbackAt, MayPush
<1>11. PresentTypes'
  <2>1. PresentTypeOK' /\ timerId' \in 0..3
    BY <1>6, <1>9 DEF PresentTypes, PresentTypeOK
  <2>2. {up, dirty, wakePending, timerPending, tornDown, asleep, unlucky}' \subseteq BOOLEAN
    BY <1>6, <1>9 DEF PresentTypes
  <2> QED BY <1>6, <1>9, <1>10, <2>1, <2>2 DEF PresentTypes, NoCallback
<1>12. MainInv'
  BY <1>3, <1>4, <1>5, <1>7, <1>9, <1>10 DEF MainInv
<1>13. TimerInv'
  BY <1>5, <1>7, <1>8, <1>9, <1>10 DEF TimerInv
<1>14. GagInv'
  BY <1>5, <1>6, <1>7, <1>9, <1>10 DEF GagInv, Gagged, Removed, Passed
<1>15. ~painter.overlap => AloneInv'
  <2> SUFFICES ASSUME ~painter.overlap PROVE AloneInv'
    OBVIOUS
  <2>1. ~wakePending
    BY <1>3, <1>6 DEF AloneInv
  <2>2. ~dirty'
    <3>1. CASE SDL_Quit
      BY <3>1 DEF SDL_Quit
    <3>2. CASE SDL_Init
      <4>1. ~up /\ dirty' = dirty
        BY <1>1, <1>3, <3>2 DEF SDL_Quit, SDL_Init, MainAt
      <4> QED BY <1>6, <4>1 DEF AloneInv
    <3> QED BY <3>1, <3>2
  <2> QED BY <1>5, <1>9, <1>10, <2>1, <2>2 DEF AloneInv, Removed, Gagged
<1> QED BY <1>9, <1>11, <1>12, <1>13, <1>14, <1>15 DEF PresentInv

(* Every step of the main thread.                                           *)
LEMMA MainStepInv ==
  ASSUME PresentInv, MainStep
  PROVE  PresentInv'
<1>1. UNCHANGED <<painter, clientSide>>
  BY DEF MainStep
<1>2. Chained(todo) \/ Cancelling
  BY DEF PresentInv, MainInv
<1>3. CASE SDL_Quit \/ SDL_Init
  BY <1>1, <1>3, QuitsInv
<1>4. CASE Chained(todo)
  <2>1. \A s \in {"remove", "cycleLock"} : ~MainAt(s)
    BY <1>4, AtDrawing DEF DrawSteps, Inner
  <2>2. ~RemoveTimer /\ ~CycleLock
    BY <2>1 DEF RemoveTimer, CycleLock
  <2> QED BY <1>1, <1>3, <1>4, <2>2, AsksInv, SchedulesInv, ArmsInv, ForgetsInv, PresentsInv
          DEF MainStep
<1>5. CASE Cancelling
  <2>1. \A s \in {"askWake", "askTimer", "markDirty", "arm", "drain", "draw"} : ~MainAt(s)
    <3>1. PICK x \in {"quit", "init"} : todo \in Cancels(x)
      BY <1>5 DEF Cancelling
    <3> QED BY <3>1, AtCancelling
  <2>2. /\ ~AskWake /\ ~AskTimer /\ ~MarkDirty /\ ~Arm /\ ~ArmFails /\ ~Drain /\ ~NothingToDraw
        /\ ~HoldBack /\ ~Present
    BY <2>1 DEF AskWake, AskTimer, MarkDirty, Arm, ArmFails, Drain, NothingToDraw, HoldBack,
                Present
  <2> QED BY <1>1, <1>3, <1>5, <2>2, CancelStepInv DEF MainStep
<1> QED BY <1>2, <1>4, <1>5


-----------------------------------------------------------------------------
(* The callback at one of its steps.                                        *)
LEMMA AtCallback ==
  ASSUME PresentInv, NEW s, CallbackAt(s)
  PROVE  /\ callback.todo \in CallbackTodos /\ Tail(callback.todo) \in CallbackTodos
         /\ Fired /\ up /\ timers = {} /\ callback.timer \in 0..3
         /\ \A r : CallbackAt(r) <=> r = s
         /\ s \in {"lock", "askGag", "askWake", "push", "mark", "unlock", "clearTimer"}
         /\ MayPush <=> s \in {"lock", "askGag", "askWake", "push"}
         /\ ~HeadIs("ungag") /\ ~HeadIs("markTimer") /\ ~HeadIs("arm")
<1>1. callback.todo # <<>> /\ Head(callback.todo) = s
  BY DEF CallbackAt
<1>2. callback.todo \in CallbackTodos /\ callback.timer \in 0..3
  BY DEF PresentInv, PresentTypes
<1>3. Fired /\ timers = {} /\ ~HeadIs("ungag") /\ ~HeadIs("markTimer") /\ ~HeadIs("arm")
  BY <1>1 DEF PresentInv, TimerInv, Fired
<1>4. up
  BY <1>3 DEF PresentInv, PresentTypes, MainInv
<1>5. \A r : CallbackAt(r) <=> r = s
  BY <1>1 DEF CallbackAt
<1>6. /\ Tail(callback.todo) \in CallbackTodos
      /\ s \in {"lock", "askGag", "askWake", "push", "mark", "unlock", "clearTimer"}
  BY <1>1, <1>2, CallbackNext
<1>7. MayPush <=> s \in {"lock", "askGag", "askWake", "push"}
  BY <1>5 DEF MayPush
<1> QED BY <1>2, <1>3, <1>4, <1>5, <1>6, <1>7

(* What holds at its step s, and what its move from there to step n owes.   *)
Within(n) == n \in {"askGag", "askWake", "push", "mark", "unlock"}
Pushes(n) == n \in {"lock", "askGag", "askWake", "push"}
CallbackHas(s) ==
  /\ locked = "callback" <=> s # "lock" /\ s # "clearTimer"
  /\ Passed => s \notin {"askWake", "push"} /\ (s = "askGag" => tornDown)
  /\ ~painter.overlap =>
       /\ ~Removed
       /\ wakePending => wakes > 0 \/ WillDraw \/ HeadIs("clearWake")
       /\ s = "mark" => wakes > 0 \/ WillDraw
       /\ dirty /\ ~unlucky =>
            \/ Cancelling \/ WillDraw \/ \E r \in Inner \union {"askWake"} : HeadIs(r)
            \/ wakes > 0 \/ s = "push" \/ (~wakePending /\ ~tornDown /\ Pushes(s))
CallbackMoves(s, n) ==
  /\ locked' = "callback" <=> Within(n)
  /\ timerPending' = IF n = "returned" THEN FALSE ELSE timerPending
  /\ Passed => n \notin {"lock", "askWake", "push"}
  /\ ~painter.overlap =>
       /\ ~Removed
       /\ wakePending' => wakes' > 0 \/ WillDraw \/ HeadIs("clearWake")
       /\ n = "mark" => wakes' > 0 \/ WillDraw
       /\ Pushes(n) => Pushes(s)
       /\ dirty /\ ~unlucky' =>
            \/ Cancelling \/ WillDraw \/ \E r \in Inner \union {"askWake"} : HeadIs(r)
            \/ wakes' > 0 \/ n = "push" \/ (~wakePending' /\ ~tornDown /\ Pushes(n))

(* A step of the callback, which comes to its step n, or returns.           *)
LEMMA CallbackInv ==
  ASSUME PresentInv, NEW s, CallbackAt(s),
         NEW rest \in CallbackTodos, Then(rest), NEW n,
         rest = <<>> <=> n = "returned", rest # <<>> => Head(rest) = n,
         UNCHANGED <<painter, up, dirty, coalesceDeadline, todo, clientSide,
                     timerId, tornDown, timers>>,
         locked' \in {"nobody", "callback"}, wakes' \in Nat,
         {wakePending', timerPending', unlucky'} \subseteq BOOLEAN,
         CallbackMoves(s, n)
  PROVE  PresentInv'
<1>1. /\ Fired /\ up /\ timers = {} /\ callback.timer \in 0..3
      /\ \A r : CallbackAt(r) <=> r = s
      /\ s \in {"lock", "askGag", "askWake", "push", "mark", "unlock", "clearTimer"}
      /\ MayPush <=> s \in {"lock", "askGag", "askWake", "push"}
      /\ ~HeadIs("ungag") /\ ~HeadIs("markTimer") /\ ~HeadIs("arm")
  BY AtCallback
<1>2. PresentTypes /\ MainInv /\ TimerInv /\ GagInv /\ (~painter.overlap => AloneInv)
  BY DEF PresentInv
<1>3. callback' = [timer |-> IF rest = <<>> THEN 0 ELSE callback.timer, todo |-> rest]
  <2>1. callback \in [timer : 0..3, todo : CallbackTodos]
    BY <1>2 DEF PresentTypes
  <2>2. CASE rest = <<>>
    BY <2>2 DEF Then, Returned, NoCallback, NoTimer
  <2>3. CASE rest # <<>>
    BY <2>1, <2>3 DEF Then, Returned
  <2> QED BY <2>2, <2>3
<1>4. /\ Fired' <=> n # "returned"
      /\ \A r : CallbackAt(r)' <=> r = n /\ n # "returned"
      /\ callback' \in [timer : 0..3, todo : CallbackTodos]
      /\ ~Fired' => callback' = NoCallback
      /\ n \in {"lock", "askGag", "askWake", "push", "mark", "unlock", "clearTimer", "returned"}
  <2>1. callback'.todo = rest
    BY <1>3
  <2>2. callback' \in [timer : 0..3, todo : CallbackTodos]
    BY <1>1, <1>3
  <2>3. rest = <<>> => callback' = NoCallback
    BY <1>3 DEF NoCallback, NoTimer
  <2>4. n \in {"lock", "askGag", "askWake", "push", "mark", "unlock", "clearTimer", "returned"}
    BY CallbackNext
  <2> QED BY <2>1, <2>2, <2>3, <2>4 DEF Fired, CallbackAt
<1>5. MayPush' <=> n \in {"lock", "askGag", "askWake", "push"}
  BY <1>4 DEF MayPush
<1>6. /\ \A r : HeadIs(r)' <=> HeadIs(r)
      /\ Cancelling' <=> Cancelling
      /\ WillDraw' <=> WillDraw
  BY DEF HeadIs, Cancelling, WillDraw
<1>7. /\ Gagged' <=> Gagged
      /\ Removed' <=> Removed
      /\ Passed' <=> Passed
      /\ Cleared' <=> Cleared
  BY <1>6 DEF Gagged, Removed, Passed, Cleared
<1>8. PresentTypes'
  <2>1. PresentTypeOK'
    BY <1>2, <1>4 DEF PresentTypes, PresentTypeOK
  <2>2. {up, dirty, wakePending, timerPending, tornDown, asleep, unlucky}' \subseteq BOOLEAN
    BY <1>2 DEF PresentTypes, clientSide
  <2> QED BY <1>2, <1>4, <2>1, <2>2 DEF PresentTypes
<1>9. MainInv'
  BY <1>1, <1>2, <1>6 DEF MainInv, clientSide
<1>10. TimerInv'
  BY <1>1, <1>2, <1>4, <1>6, <1>7 DEF TimerInv, CallbackMoves
<1>11. GagInv'
  BY <1>1, <1>2, <1>4, <1>5, <1>7 DEF GagInv, Within, CallbackMoves
<1>12. ~painter.overlap => AloneInv'
  <2> SUFFICES ASSUME ~painter.overlap PROVE AloneInv'
    OBVIOUS
  <2>1. todo # <<"quit">> /\ todo # <<"init">>
    <3>1. \A x \in {"quit", "init"} : <<x>> \in Cancels(x) /\ Head(<<x>>) = x
      BY DEF Cancels
    <3>2. ASSUME NEW x \in {"quit", "init"}, todo = <<x>> PROVE Removed
      BY <3>1, <3>2 DEF Removed, Gagged, Cancelling, HeadIs
    <3> QED BY <3>2 DEF CallbackMoves
  <2>2. MayPush' \/ HeadIs("markTimer")' \/ HeadIs("arm")' => ~tornDown \/ Cancelling
    BY <1>1, <1>2, <1>5, <1>6 DEF AloneInv, CallbackMoves, Pushes
  <2>3. CallbackAt("mark")' => wakes' > 0 \/ WillDraw
    BY <1>4 DEF CallbackMoves
  <2>4. CallbackAt("push")' <=> n = "push"
    BY <1>4
  <2> QED BY <1>1, <1>5, <1>6, <1>7, <2>1, <2>2, <2>3, <2>4
          DEF AloneInv, CallbackMoves, Pushes
<1> QED BY <1>8, <1>9, <1>10, <1>11, <1>12 DEF PresentInv

(* The timer fires.                                                         *)
LEMMA FiresInv ==
  ASSUME PresentInv, Fires, UNCHANGED <<painter, up, dirty, coalesceDeadline, todo, clientSide>>
  PROVE  PresentInv'
<1>1. PICK t \in timers :
        /\ callback = NoCallback /\ timers' = timers \ {t}
        /\ callback' = [timer |-> t, todo |-> presentWakeTimerCallback]
  BY DEF Fires
<1>2. UNCHANGED <<wakePending, timerPending, timerId, tornDown, locked, wakes, unlucky, asleep,
                  painter, up, dirty, coalesceDeadline, todo>>
  BY DEF Fires, Goes, wakeVars, clientSide
<1>3. PresentTypes /\ MainInv /\ TimerInv /\ GagInv /\ (~painter.overlap => AloneInv)
  BY DEF PresentInv
<1>4. /\ ~Fired /\ timers # {} /\ timers' = {} /\ t \in 0..3
      /\ ~HeadIs("ungag") /\ ~HeadIs("markTimer") /\ ~HeadIs("arm")
      /\ up /\ ~Removed
  <2>1. ~Fired /\ timers # {}
    BY <1>1 DEF Fired, NoCallback
  <2>2. timers' = {}
    BY <1>1, <1>3 DEF TimerInv
  <2>3. t \in 0..3
    BY <1>1, <1>3 DEF PresentTypes, PresentTypeOK
  <2>4. ~HeadIs("ungag") /\ ~HeadIs("markTimer") /\ ~HeadIs("arm")
    BY <1>3, <2>1 DEF TimerInv
  <2>5. up
    BY <1>3, <2>1 DEF PresentTypes, MainInv
  <2>6. ~Removed
    BY <1>3, <2>1 DEF GagInv
  <2> QED BY <2>1, <2>2, <2>3, <2>4, <2>5, <2>6
<1>5. /\ presentWakeTimerCallback \in CallbackTodos
      /\ presentWakeTimerCallback # <<>> /\ Head(presentWakeTimerCallback) = "lock"
  BY DEF presentWakeTimerCallback, CallbackTodos
<1>6. /\ callback'.todo = presentWakeTimerCallback
      /\ callback' \in [timer : 0..3, todo : CallbackTodos]
  <2> HIDE DEF presentWakeTimerCallback
  <2> QED BY <1>1, <1>4, <1>5
<1>7. /\ Fired' /\ MayPush' /\ \A r : CallbackAt(r)' <=> r = "lock"
  BY <1>5, <1>6 DEF Fired, MayPush, CallbackAt
<1>8. /\ \A r : HeadIs(r)' <=> HeadIs(r)
      /\ Cancelling' <=> Cancelling
      /\ WillDraw' <=> WillDraw
  BY <1>2 DEF HeadIs, Cancelling, WillDraw
<1>9. /\ Gagged' <=> Gagged
      /\ Removed' <=> Removed
      /\ Passed' <=> Passed
      /\ Cleared' <=> Cleared
  BY <1>8 DEF Gagged, Removed, Passed, Cleared
<1>10. PresentTypes'
  <2>1. PresentTypeOK'
    BY <1>2, <1>3, <1>4, <1>6 DEF PresentTypes, PresentTypeOK
  <2>2. {up, dirty, wakePending, timerPending, tornDown, asleep, unlucky}' \subseteq BOOLEAN
    BY <1>2, <1>3 DEF PresentTypes
  <2> QED BY <1>2, <1>3, <1>6, <1>7, <2>1, <2>2 DEF PresentTypes
<1>11. MainInv'
  BY <1>2, <1>3, <1>4, <1>8 DEF MainInv
<1>12. TimerInv'
  BY <1>2, <1>3, <1>4, <1>7, <1>8, <1>9 DEF TimerInv
<1>13. GagInv'
  BY <1>2, <1>3, <1>4, <1>7, <1>9 DEF GagInv
<1>14. ~painter.overlap => AloneInv'
  <2>1. \A r : ~CallbackAt(r)
    BY <1>4 DEF CallbackAt, Fired
  <2>2. ~MayPush
    BY <2>1 DEF MayPush
  <2> QED BY <1>2, <1>3, <1>4, <1>7, <1>8, <1>9, <2>1, <2>2 DEF AloneInv
<1> QED BY <1>2, <1>10, <1>11, <1>12, <1>13, <1>14 DEF PresentInv

(* Every step of the callback.                                              *)
LEMMA CallbackStepInv ==
  ASSUME PresentInv, CallbackStep
  PROVE  PresentInv'
<1>1. UNCHANGED <<painter, up, dirty, coalesceDeadline, todo, clientSide>>
  BY DEF CallbackStep
<1>2. PresentTypes /\ MainInv /\ TimerInv /\ GagInv /\ (~painter.overlap => AloneInv)
  BY DEF PresentInv
<1>3. /\ wakes \in Nat /\ locked \in {"nobody", "callback"}
      /\ {dirty, wakePending, timerPending, tornDown, unlucky} \subseteq BOOLEAN
  BY <1>2 DEF PresentTypes, PresentTypeOK
<1> DEFINE c == callback.todo
<1>4. ASSUME NEW s, CallbackAt(s)
      PROVE  /\ c \in CallbackTodos /\ Tail(c) \in CallbackTodos /\ c # <<>> /\ Head(c) = s
             /\ CallbackHas(s)
  <2>1. /\ c \in CallbackTodos /\ Tail(c) \in CallbackTodos
        /\ Fired /\ timers = {}
        /\ \A r : CallbackAt(r) <=> r = s
        /\ MayPush <=> Pushes(s)
    BY <1>4, AtCallback DEF Pushes
  <2>2. c # <<>> /\ Head(c) = s
    BY <1>4 DEF CallbackAt
  <2>3. /\ locked = "callback" <=> s # "lock" /\ s # "clearTimer"
        /\ Passed => s \notin {"askWake", "push"} /\ (s = "askGag" => tornDown)
    BY <1>2, <2>1 DEF GagInv, Passed, Removed, Pushes
  <2>4. CallbackHas(s)
    BY <1>2, <2>1, <2>3 DEF AloneInv, CallbackHas
  <2> QED BY <2>1, <2>2, <2>4
<1> HIDE DEF c
<1>5. SkipsPush \in CallbackTodos /\ SkipsPush # <<>> /\ Head(SkipsPush) = "unlock"
  BY DEF SkipsPush, CallbackTodos
<1>6. CASE Fires
  BY <1>1, <1>6, FiresInv
<1>7. CASE Lock
  <2>1. /\ CallbackAt("lock") /\ Then(Tail(c)) /\ locked' = "callback"
        /\ UNCHANGED <<wakePending, timerPending, timerId, tornDown, timers, wakes, unlucky>>
    BY <1>7 DEF Lock, c, wakeVars, Goes
  <2>2. Tail(c) # <<>> /\ Head(Tail(c)) = "askGag"
    BY <1>4, <2>1, CallbackNext
  <2>5. /\ locked' \in {"nobody", "callback"} /\ wakes' \in Nat
        /\ {wakePending', timerPending', unlucky'} \subseteq BOOLEAN
    BY <1>3, <2>1
  <2>6. CallbackMoves("lock", "askGag")
    <3>1. CallbackHas("lock")
      BY <1>4, <2>1
    <3> QED BY <2>1, <3>1 DEF CallbackHas, CallbackMoves, Within, Pushes
  <2>7. /\ Tail(c) \in CallbackTodos /\ (Tail(c) = <<>> <=> "askGag" = "returned")
        /\ Tail(c) # <<>> => Head(Tail(c)) = "askGag"
    BY <1>4, <2>1, <2>2
  <2> QED BY <1>1, <2>1, <2>5, <2>6, <2>7, CallbackInv
<1>8. CASE Unlock
  <2>1. /\ CallbackAt("unlock") /\ Then(Tail(c)) /\ locked' = "nobody"
        /\ UNCHANGED <<wakePending, timerPending, timerId, tornDown, timers, wakes, unlucky>>
    BY <1>8 DEF Unlock, c, wakeVars, Goes
  <2>2. Tail(c) # <<>> /\ Head(Tail(c)) = "clearTimer"
    BY <1>4, <2>1, CallbackNext
  <2>5. /\ locked' \in {"nobody", "callback"} /\ wakes' \in Nat
        /\ {wakePending', timerPending', unlucky'} \subseteq BOOLEAN
    BY <1>3, <2>1
  <2>6. CallbackMoves("unlock", "clearTimer")
    <3>1. CallbackHas("unlock")
      BY <1>4, <2>1
    <3> QED BY <2>1, <3>1 DEF CallbackHas, CallbackMoves, Within, Pushes
  <2>7. /\ Tail(c) \in CallbackTodos /\ (Tail(c) = <<>> <=> "clearTimer" = "returned")
        /\ Tail(c) # <<>> => Head(Tail(c)) = "clearTimer"
    BY <1>4, <2>1, <2>2
  <2> QED BY <1>1, <2>1, <2>5, <2>6, <2>7, CallbackInv
<1>9. CASE Ask
  <2>1. PICK s \in {"askGag", "askWake"} :
          /\ CallbackAt(s)
          /\ \/ Then(SkipsPush) /\ (tornDown \/ (s = "askWake" /\ wakePending))
             \/ Then(Tail(c)) /\ (s = "askGag" => ~tornDown) /\ (s = "askWake" => ~wakePending)
    <3>1. CASE CallbackAt("askGag") /\ Then(IF tornDown THEN SkipsPush ELSE Tail(c))
      <4>1. CASE tornDown
        BY <3>1, <4>1
      <4>2. CASE ~tornDown
        BY <3>1, <4>2
      <4> QED BY <4>1, <4>2
    <3>2. CASE CallbackAt("askWake") /\ Then(IF wakePending THEN SkipsPush ELSE Tail(c))
      <4>1. CASE wakePending
        BY <3>2, <4>1
      <4>2. CASE ~wakePending
        BY <3>2, <4>2
      <4> QED BY <4>1, <4>2
    <3> QED BY <1>9, <3>1, <3>2 DEF Ask, c
  <2>2. UNCHANGED <<wakePending, timerPending, timerId, tornDown, timers, locked, wakes, unlucky>>
    BY <1>9 DEF Ask, wakeVars, Goes
  <2>3. /\ Tail(c) # <<>>
        /\ s = "askGag" => Head(Tail(c)) = "askWake"
        /\ s = "askWake" => Head(Tail(c)) = "push"
    BY <1>4, <2>1, CallbackNext
  <2>4. /\ locked' \in {"nobody", "callback"} /\ wakes' \in Nat
        /\ {wakePending', timerPending', unlucky'} \subseteq BOOLEAN
    BY <1>3, <2>2
  <2>5. CallbackHas(s) /\ c \in CallbackTodos /\ Tail(c) \in CallbackTodos
    BY <1>4, <2>1
  <2>6. CASE Then(SkipsPush) /\ (tornDown \/ (s = "askWake" /\ wakePending))
    <3>1. CallbackMoves(s, "unlock")
      BY <2>2, <2>5, <2>6 DEF CallbackHas, CallbackMoves, Within, Pushes
    <3> QED BY <1>1, <1>5, <2>1, <2>2, <2>4, <2>6, <3>1, CallbackInv
  <2>7. CASE Then(Tail(c)) /\ s = "askGag" /\ ~tornDown
    <3>1. CallbackMoves(s, "askWake")
      BY <2>2, <2>5, <2>7 DEF CallbackHas, CallbackMoves, Within, Pushes
    <3> QED BY <1>1, <2>1, <2>2, <2>3, <2>4, <2>5, <2>7, <3>1, CallbackInv
  <2>8. CASE Then(Tail(c)) /\ s = "askWake" /\ ~wakePending
    <3>1. CallbackMoves(s, "push")
      BY <2>2, <2>5, <2>8 DEF CallbackHas, CallbackMoves, Within, Pushes
    <3> QED BY <1>1, <2>1, <2>2, <2>3, <2>4, <2>5, <2>8, <3>1, CallbackInv
  <2> QED BY <2>1, <2>6, <2>7, <2>8
<1>10. CASE Push
  <2>1. /\ CallbackAt("push") /\ Then(Tail(c)) /\ wakes' = wakes + 1
        /\ UNCHANGED <<wakePending, timerPending, timerId, tornDown, timers, locked, unlucky>>
    BY <1>10 DEF Push, c, wakeVars, Goes
  <2>2. Tail(c) # <<>> /\ Head(Tail(c)) = "mark"
    BY <1>4, <2>1, CallbackNext
  <2>3. wakes' \in Nat /\ wakes' > 0
    BY <1>3, <2>1
  <2>5. /\ locked' \in {"nobody", "callback"} /\ wakes' \in Nat
        /\ {wakePending', timerPending', unlucky'} \subseteq BOOLEAN
    BY <1>3, <2>1, <2>3
  <2>6. CallbackMoves("push", "mark")
    <3>1. CallbackHas("push")
      BY <1>4, <2>1
    <3> QED BY <2>3, <2>1, <3>1 DEF CallbackHas, CallbackMoves, Within, Pushes
  <2>7. /\ Tail(c) \in CallbackTodos /\ (Tail(c) = <<>> <=> "mark" = "returned")
        /\ Tail(c) # <<>> => Head(Tail(c)) = "mark"
    BY <1>4, <2>1, <2>2
  <2> QED BY <1>1, <2>1, <2>5, <2>6, <2>7, CallbackInv
<1>11. CASE PushFails
  <2>1. /\ CallbackAt("push") /\ Then(SkipsPush) /\ unlucky' = TRUE
        /\ UNCHANGED <<wakePending, timerPending, timerId, tornDown, timers, locked, wakes>>
    BY <1>11 DEF PushFails, Fails, wakeVars
  <2>5. /\ locked' \in {"nobody", "callback"} /\ wakes' \in Nat
        /\ {wakePending', timerPending', unlucky'} \subseteq BOOLEAN
    BY <1>3, <2>1
  <2>6. CallbackMoves("push", "unlock")
    <3>1. CallbackHas("push")
      BY <1>4, <2>1
    <3> QED BY <2>1, <3>1 DEF CallbackHas, CallbackMoves, Within, Pushes
  <2>7. /\ SkipsPush \in CallbackTodos /\ (SkipsPush = <<>> <=> "unlock" = "returned")
        /\ SkipsPush # <<>> => Head(SkipsPush) = "unlock"
    BY <1>5, <2>1
  <2> QED BY <1>1, <2>1, <2>5, <2>6, <2>7, CallbackInv
<1>12. CASE Mark
  <2>1. /\ CallbackAt("mark") /\ Then(Tail(c)) /\ wakePending' = TRUE
        /\ UNCHANGED <<timerPending, timerId, tornDown, timers, locked, wakes, unlucky>>
    BY <1>12 DEF Mark, c, Goes
  <2>2. Tail(c) # <<>> /\ Head(Tail(c)) = "unlock"
    BY <1>4, <2>1, CallbackNext
  <2>5. /\ locked' \in {"nobody", "callback"} /\ wakes' \in Nat
        /\ {wakePending', timerPending', unlucky'} \subseteq BOOLEAN
    BY <1>3, <2>1
  <2>6. CallbackMoves("mark", "unlock")
    <3>1. CallbackHas("mark")
      BY <1>4, <2>1
    <3> QED BY <2>1, <3>1 DEF CallbackHas, CallbackMoves, Within, Pushes
  <2>7. /\ Tail(c) \in CallbackTodos /\ (Tail(c) = <<>> <=> "unlock" = "returned")
        /\ Tail(c) # <<>> => Head(Tail(c)) = "unlock"
    BY <1>4, <2>1, <2>2
  <2> QED BY <1>1, <2>1, <2>5, <2>6, <2>7, CallbackInv
<1>13. CASE ClearTimer
  <2>1. /\ CallbackAt("clearTimer") /\ Then(Tail(c)) /\ timerPending' = FALSE
        /\ UNCHANGED <<wakePending, timerId, tornDown, timers, locked, wakes, unlucky>>
    BY <1>13 DEF ClearTimer, c, Goes
  <2>2. Tail(c) = <<>>
    BY <1>4, <2>1, CallbackNext
  <2>5. /\ locked' \in {"nobody", "callback"} /\ wakes' \in Nat
        /\ {wakePending', timerPending', unlucky'} \subseteq BOOLEAN
    BY <1>3, <2>1
  <2>6. CallbackMoves("clearTimer", "returned")
    <3>1. CallbackHas("clearTimer")
      BY <1>4, <2>1
    <3> QED BY <2>1, <3>1 DEF CallbackHas, CallbackMoves, Within, Pushes
  <2>7. /\ Tail(c) \in CallbackTodos /\ (Tail(c) = <<>> <=> "returned" = "returned")
        /\ Tail(c) # <<>> => Head(Tail(c)) = "returned"
    BY <1>4, <2>1, <2>2
  <2> QED BY <1>1, <2>1, <2>5, <2>6, <2>7, CallbackInv
<1> QED BY <1>6, <1>7, <1>8, <1>9, <1>10, <1>11, <1>12, <1>13 DEF CallbackStep

-----------------------------------------------------------------------------
(* Every step of the client, of the main thread and of the timer's thread   *)
(* keeps the invariant, whatever programs are to be explored.               *)
THEOREM PresentInvariant == PresentSpec => []PresentInv
<1>1. ASSUME PresentInv, PresentNext PROVE PresentInv'
  BY <1>1, ClientStepInv, CancelStartInv, TimePassesInv, MainStepInv, CallbackStepInv
     DEF PresentNext
<1>2. ASSUME PresentInv, UNCHANGED presentVars PROVE PresentInv'
  <2>1. UNCHANGED <<painter, up, dirty, coalesceDeadline, wakePending, timerPending, timerId,
                    tornDown, timers, callback, locked, wakes, todo, asleep, unlucky>>
    BY <1>2 DEF presentVars, wakeVars, timerVars, clientSide
  <2>2. PresentTypes' /\ MainInv'
    BY <1>2, <2>1 DEF PresentInv, PresentTypes, PresentTypeOK, MainInv, Fired, Cancelling
  <2>3. TimerInv' /\ GagInv'
    BY <1>2, <2>1 DEF PresentInv, TimerInv, GagInv, Fired, HeadIs, CallbackAt, MayPush,
                      Cancelling, Cleared, Passed, Removed, Gagged
  <2>4. ~painter.overlap => AloneInv'
    BY <1>2, <2>1 DEF PresentInv, AloneInv, Fired, HeadIs, CallbackAt, MayPush, Cancelling,
                      Removed, Gagged, WillDraw
  <2> QED BY <2>1, <2>2, <2>3, <2>4 DEF PresentInv
<1> QED BY <1>1, <1>2, PresentInitInv, PTL DEF PresentSpec

(* A close or an open reaches SDL's shutdown or start only when no timer is *)
(* left and no callback will still push: drawing.c 678-684 sets tornDown    *)
(* and passes through the lock for this.                                    *)
THEOREM PresentTeardownIsQuiet == PresentSpec => []TeardownIsQuiet
<1>1. ASSUME PresentInv, todo # <<>>, Head(todo) \in {"quit", "init"},
             "push" \in Range(callback.todo)
      PROVE  tornDown /\ Head(callback.todo) \in {"lock", "askGag"}
  <2>1. ~Chained(todo)
    BY <1>1, ChainTail DEF DrawSteps, Inner
  <2>2. Cancelling
    BY <1>1, <2>1 DEF PresentInv, MainInv
  <2>3. Gagged /\ Passed
    BY <1>1, <2>2 DEF Gagged, Removed, Passed, HeadIs
  <2>4. MayPush
    <3>1. callback.todo \in CallbackTodos
      BY <1>1 DEF PresentInv, PresentTypes
    <3> QED BY <1>1, <3>1, CallbackNext DEF MayPush, CallbackAt
  <2> QED BY <1>1, <2>3, <2>4 DEF PresentInv, GagInv, CallbackAt
<1>2. ASSUME PresentInv, todo # <<>>, Head(todo) \in {"quit", "init"} PROVE timers = {}
  <2>1. ~Chained(todo)
    BY <1>2, ChainTail DEF DrawSteps, Inner
  <2>2. Removed
    BY <1>2, <2>1 DEF PresentInv, MainInv, Gagged, Removed, HeadIs
  <2> QED BY <1>2, <2>2 DEF PresentInv, GagInv
<1>3. PresentInv => TeardownIsQuiet
  BY <1>1, <1>2 DEF PresentInv, PresentTypes, TeardownIsQuiet
<1> QED BY <1>3, PresentInvariant, PTL

(* A client that sleeps with a dirty window is woken, when the callback does *)
(* not overlap the main thread and no call failed (drawing.c 1251-1262).    *)
THEOREM PresentBurstLandsAlone == PresentSpec => []BurstLandsAlone
<1>1. ASSUME PresentInv, ~painter.overlap, asleep, dirty, ~unlucky PROVE WakeIsComing
  <2>1. todo = <<>>
    BY <1>1 DEF PresentInv, MainInv
  <2>2. ~Cancelling /\ ~WillDraw /\ \A r : ~HeadIs(r)
    BY <2>1, ChainLists, DrawsOnly DEF Cancelling, WillDraw, HeadIs
  <2>3. MayPush => "push" \in Range(callback.todo)
    <3>1. callback.todo \in CallbackTodos
      BY <1>1 DEF PresentInv, PresentTypes
    <3> QED BY <3>1, CallbackNext DEF MayPush, CallbackAt
  <2>4. \/ wakes > 0 \/ CallbackAt("push")
        \/ ~wakePending /\ ~tornDown /\ (timers # {} \/ MayPush)
    BY <1>1, <2>2 DEF PresentInv, AloneInv
  <2> QED BY <2>3, <2>4 DEF WakeIsComing
<1>2. PresentInv => BurstLandsAlone
  BY <1>1 DEF BurstLandsAlone, BurstLands
<1> QED BY <1>2, PresentInvariant, PTL

-----------------------------------------------------------------------------
(* The clipboard and its mirror.                                             *)

(* The types.  What is asked, what answers it and what is told of a property *)
(* have different fields, so a queue holds records of several shapes.        *)
Targets == {"UTF8_STRING", "STRING"}
Pieces == [claim : Nat, piece : {"head", "tail", "none"}]
Texts == Seq(Pieces)
Values == [type : {"nothing", "text", "INCR", "image"}, data : Texts]
RequestType ==
  [type : {"SelectionRequest"}, at : Owners, target : Targets, property : Slots]
ReplyType ==
  [type : {"SelectionNotify"}, target : Targets, property : Slots \union {NoSlot}]
NoticeType ==
  [type : {"PropertyNotify"}, property : Slots, state : {"NewValue", "Delete"}]
ClearType == [type : {"SelectionClear"}, at : Owners]
UpdateType == [type : {"SDL_CLIPBOARDUPDATE"}]
WakeType == [type : {"PropertyNotify"}, to : SUBSET Owners, property : Slots]
QueueType == RequestType \union ReplyType \union NoticeType \union ClearType \union UpdateType
InboxType == RequestType \union ClearType \union WakeType
TransferType == {NoTransfer} \union [slot : Slots, left : Seq(Texts) \ {<<>>}]

FetchTypes ==
  /\ clipboardFetchPending \in BOOLEAN /\ fetchProperty \in Slots \union {NoSlot}
  /\ fetchTarget \in Targets \union {"None"} /\ fetchGen \in Slots
IncrTypes ==
  incrActive \in BOOLEAN /\ incrProperty \in Slots \union {NoSlot} /\ incrBuf \in Texts
HostTypes ==
  /\ lastPushed \in Texts /\ everPushed \in BOOLEAN
  /\ hostText \in Texts /\ news \in Nat /\ copies \in Nat /\ copiedAt \in Nat
ClipboardTypes ==
  /\ scenario \in Scenarios /\ owner \in Owners \union {NoOwner}
  /\ FetchTypes /\ IncrTypes /\ HostTypes
  /\ store \in [Slots -> Values]
  /\ queue \in Seq(QueueType) /\ inbox \in Seq(InboxType)
  /\ transfer \in [Owners -> TransferType]
  /\ content \in [Owners -> Nat] /\ believes \in [Owners -> BOOLEAN]
  /\ claims \in Nat /\ skipped \in BOOLEAN

(* What in the queue q or the inbox b is about slot s: a request, an answer, *)
(* a sign that its property was deleted, and the sign once it is passed on.  *)
Asks(e, s) == e.type = "SelectionRequest" /\ e.property = s
Answers(e, s) == e.type = "SelectionNotify" /\ e.property = s
Frees(e, s) == e.type = "PropertyNotify" /\ e.property = s /\ e.state = "Delete"
Wakes(e, s) == e.type = "PropertyNotify" /\ e.property = s

AsksOnly(q, b, s, w) ==
  /\ \A i \in 1..Len(q) : Asks(q[i], s) => q[i].at = w
  /\ \A i \in 1..Len(b) : Asks(b[i], s) => b[i].at = w
NoAsks(q, b, s) ==
  /\ \A i \in 1..Len(q) : ~Asks(q[i], s)
  /\ \A i \in 1..Len(b) : ~Asks(b[i], s)
NoSigns(q, b, s) ==
  /\ \A i \in 1..Len(q) : ~Frees(q[i], s)
  /\ \A i \in 1..Len(b) : ~Wakes(b[i], s)
NoAnswers(q, s) == \A i \in 1..Len(q) : ~Answers(q[i], s)

(* Each sign comes before every request; or there is one, for w, and it      *)
(* comes after them.                                                         *)
SignsFirst(q, b, s) ==
  /\ \A i \in 1..Len(q) : Frees(q[i], s) =>
       /\ \A j \in 1..Len(q) : Asks(q[j], s) => i < j
       /\ \A j \in 1..Len(b) : ~Asks(b[j], s)
  /\ \A i \in 1..Len(b) : Wakes(b[i], s) =>
       \A j \in 1..Len(b) : Asks(b[j], s) => i < j
OneSign(q, b, s, w) ==
  /\ \A i \in 1..Len(q) : Frees(q[i], s) =>
       /\ \A j \in 1..Len(q) : Frees(q[j], s) => j = i
       /\ \A j \in 1..Len(q) : Asks(q[j], s) => j < i
       /\ \A j \in 1..Len(b) : ~Wakes(b[j], s)
  /\ \A i \in 1..Len(b) : Wakes(b[i], s) =>
       /\ b[i].to = {w}
       /\ \A j \in 1..Len(b) : Wakes(b[j], s) => j = i
       /\ \A j \in 1..Len(b) : Asks(b[j], s) => j < i
       /\ \A j \in 1..Len(q) : ~Asks(q[j], s)

(* A step from q and b to r and c that adds nothing about slot s.            *)
Keeps(q, b, r, c, s, w) ==
  /\ AsksOnly(q, b, s, w) => AsksOnly(r, c, s, w)
  /\ NoAsks(q, b, s) => NoAsks(r, c, s)
  /\ NoSigns(q, b, s) => NoSigns(r, c, s)
  /\ NoAnswers(q, s) => NoAnswers(r, s)
  /\ SignsFirst(q, b, s) => SignsFirst(r, c, s)
  /\ OneSign(q, b, s, w) => OneSign(r, c, s, w)

(* The slot of a fetch is its owner's alone.                                 *)
SlotInv ==
  clipboardFetchPending \/ incrActive =>
    /\ owner \in Owners /\ fetchProperty \in Slots
    /\ AsksOnly(queue, inbox, fetchProperty, owner)
    /\ \A w \in Owners : transfer[w].slot = fetchProperty => w = owner

(* A text in its pieces: what has come of it when k have, the next one, and  *)
(* what is to come.                                                          *)
Came(c, k) ==
  CASE k = 0 -> <<>> [] k = 1 -> <<[claim |-> c, piece |-> "head"]>> [] OTHER -> Whole(c)
Piece(c, k) ==
  CASE k = 0 -> <<[claim |-> c, piece |-> "head"]>>
    [] k = 1 -> <<[claim |-> c, piece |-> "tail"]>> [] OTHER -> <<>>
ToCome(c, k) ==
  CASE k = 0 -> <<Piece(c, 0), Piece(c, 1), Piece(c, 2)>>
    [] k = 1 -> <<Piece(c, 1), Piece(c, 2)>> [] OTHER -> <<Piece(c, 2)>>

(* A fetch that waits for its reply.  What the slot was used for before is   *)
(* over when the owner gets to the request.                                  *)
Answered(w) ==
  CASE style[w] = "incr" -> Hint [] style[w] = "image" -> Image
    [] OTHER -> TextOf(Whole(content[w]))
PendingInv ==
  clipboardFetchPending =>
    /\ ~incrActive
    /\ SignsFirst(queue, inbox, fetchProperty)
    /\ ~NoAnswers(queue, fetchProperty) =>
         /\ NoSigns(queue, inbox, fetchProperty)
         /\ store[fetchProperty] = Answered(owner)
    /\ transfer[owner].slot = fetchProperty =>
         /\ NoSigns(queue, inbox, fetchProperty)
         /\ transfer[owner].left = ToCome(content[owner], 0)

(* An INCR transfer, by the number of pieces that have come: either the      *)
(* owner is to go on, or a piece waits to be read.                           *)
OwnerGoesOn(k) ==
  /\ store[fetchProperty] \in {Nothing, Hint}
  /\ transfer[owner].slot = fetchProperty =>
       transfer[owner].left = ToCome(content[owner], k)
PieceWaits(k) ==
  /\ store[fetchProperty] = TextOf(Piece(content[owner], k))
  /\ NoAsks(queue, inbox, fetchProperty) /\ NoSigns(queue, inbox, fetchProperty)
  /\ transfer[owner].slot = fetchProperty =>
       k < 2 /\ transfer[owner].left = ToCome(content[owner], k + 1)
IncrInv ==
  incrActive =>
    /\ ~clipboardFetchPending /\ incrProperty = fetchProperty
    /\ style[owner] = "incr"
    /\ OneSign(queue, inbox, fetchProperty, owner)
    /\ \E k \in {0, 1, 2} :
         /\ incrBuf = Came(content[owner], k)
         /\ k # 0 => NoAsks(queue, inbox, fetchProperty)
         /\ OwnerGoesOn(k) \/ PieceWaits(k)

(* What has yet to be told of the host's clipboard, at least once or twice.  *)
UpdateAt(q, i) == i \in 1..Len(q) /\ q[i].type = "SDL_CLIPBOARDUPDATE"
HasUpdate(q) == \E i \in Nat : UpdateAt(q, i)
HasTwo(q) == \E i \in Nat : \E j \in Nat : i # j /\ UpdateAt(q, i) /\ UpdateAt(q, j)
Untold == news > 0 \/ HasUpdate(queue)
UntoldTwice == news > 1 \/ (news > 0 /\ HasUpdate(queue)) \/ HasTwo(queue)

(* The owner has reason to stay, or a change is to be told that may revoke   *)
(* it; and the mark of the last push outlives no claim that it could save.   *)
Newer == content[owner] > copiedAt
StaysInv ==
  owner # NoOwner => Newer \/ skipped \/ hostText = Whole(content[owner]) \/ Untold
MarkInv ==
  /\ copiedAt <= claims
  /\ lastPushed # NoText =>
       /\ everPushed /\ Untold
       /\ UntoldTwice \/ owner = NoOwner \/ Newer \/ lastPushed = Whole(content[owner])

(* The loss of the selection is on its way to w.                             *)
ClearAt(q, i, w) == i \in 1..Len(q) /\ q[i] = SelectionClear(w)
HasClear(q, w) == \E i \in Nat : ClearAt(q, i, w)
ToldInv ==
  \A w \in Owners :
    believes[w] => owner = w \/ HasClear(queue, w) \/ HasClear(inbox, w)

(* A step from q and b to r and c that loses no update and no such event.    *)
Flows(q, b, r, c) ==
  /\ HasUpdate(q) => HasUpdate(r)
  /\ HasTwo(q) => HasTwo(r)
  /\ \A w \in Owners :
       HasClear(q, w) \/ HasClear(b, w) => HasClear(r, w) \/ HasClear(c, w)

FetchInv == SlotInv /\ PendingInv /\ IncrInv
ClipboardInv ==
  /\ ClipboardTypes /\ FetchInv /\ StaysInv /\ MarkInv /\ ToldInv /\ MirroredIsCurrent
-----------------------------------------------------------------------------
(* Sequences: one more element, one less, another head.                      *)
Grown(q, e, r) ==
  /\ Len(q) \in Nat /\ Len(r) = Len(q) + 1 /\ r[Len(q) + 1] = e
  /\ \A i \in 1..Len(q) : r[i] = q[i]
Shrunk(q, r) ==
  /\ Len(q) \in Nat /\ Len(r) \in Nat /\ Len(q) = Len(r) + 1
  /\ \A i \in 1..Len(r) : r[i] = q[i + 1]
Swapped(q, e, r) ==
  /\ Len(q) \in Nat \ {0} /\ Len(r) = Len(q) /\ r[1] = e
  /\ \A i \in 2..Len(q) : r[i] = q[i]

(* Append, Tail and a new head, of a list of any elements.                   *)
LEMMA AppendGrows ==
  ASSUME NEW S, NEW q \in Seq(S), NEW e \in S
  PROVE  Append(q, e) \in Seq(S) /\ Grown(q, e, Append(q, e))
BY DEF Grown

(* As above.                                                                 *)
LEMMA TailShrinks ==
  ASSUME NEW S, NEW q \in Seq(S), q # <<>>
  PROVE  /\ Tail(q) \in Seq(S) /\ Shrunk(q, Tail(q))
         /\ Head(q) \in S /\ Head(q) = q[1] /\ Len(q) \in Nat \ {0}
BY DEF Shrunk

(* As above.                                                                 *)
LEMMA HeadSwaps ==
  ASSUME NEW S, NEW q \in Seq(S), q # <<>>, NEW e \in S
  PROVE  <<e>> \o Tail(q) \in Seq(S) /\ Swapped(q, e, <<e>> \o Tail(q))
<1>1. Tail(q) \in Seq(S) /\ Shrunk(q, Tail(q)) /\ Len(q) \in Nat \ {0}
  BY TailShrinks
<1>2. /\ <<e>> \in Seq(S) /\ Len(<<e>>) = 1 /\ <<e>>[1] = e
  OBVIOUS
<1>3. <<e>> \o Tail(q) \in Seq(S)
  BY <1>1, <1>2
<1>4. /\ Len(<<e>> \o Tail(q)) = Len(q)
      /\ (<<e>> \o Tail(q))[1] = e
      /\ \A i \in 2..Len(q) : (<<e>> \o Tail(q))[i] = Tail(q)[i - 1]
  BY <1>1, <1>2 DEF Shrunk
<1>5. \A i \in 2..Len(q) : Tail(q)[i - 1] = q[i]
  BY <1>1 DEF Shrunk
<1> QED  BY <1>1, <1>3, <1>4, <1>5 DEF Swapped

(* A write to the requestor appends its notice and what follows it.          *)
LEMMA WriteAppends ==
  ASSUME NEW S, NEW q \in Seq(S), NEW d \in S, NEW e \in S
  PROVE  /\ q \o <<d>> \o <<>> = Append(q, d)
         /\ q \o <<d>> \o <<e>> = Append(Append(q, d), e)
<1>1. q \o <<d>> = Append(q, d) /\ Append(q, d) \in Seq(S)
  OBVIOUS
<1>2. Append(q, d) \o <<e>> = Append(Append(q, d), e) /\ Append(q, d) \o <<>> = Append(q, d)
  <2> HIDE <1>1
  <2> DEFINE r == Append(q, d)
  <2>1. r \in Seq(S)
    OBVIOUS
  <2> HIDE DEF r
  <2>2. r \o <<e>> = Append(r, e) /\ r \o <<>> = r
    BY <2>1
  <2> QED  BY <2>2 DEF r
<1> QED  BY <1>1, <1>2

(* Where what is in the one list was in the other.                           *)
LEMMA AtGrown ==
  ASSUME NEW b, NEW c, NEW e, Grown(b, e, c)
  PROVE  \A i \in 1..Len(c) :
           (i \in 1..Len(b) /\ c[i] = b[i]) \/ (i = Len(b) + 1 /\ c[i] = e)
<1>1. \A n \in Nat, i \in Int : i \in 1..n + 1 => i \in 1..n \/ i = n + 1
  OBVIOUS
<1>2. Len(b) \in Nat /\ Len(c) = Len(b) + 1 /\ c[Len(b) + 1] = e
  BY DEF Grown
<1>3. \A i \in 1..Len(c) : i \in 1..Len(b) \/ i = Len(b) + 1
  BY <1>1, <1>2
<1>4. \A i \in 1..Len(b) : c[i] = b[i]
  BY DEF Grown
<1>5. \A i : i = Len(b) + 1 => c[i] = e
  BY <1>2, Zenon
<1> SUFFICES ASSUME NEW i \in 1..Len(c)
             PROVE  (i \in 1..Len(b) /\ c[i] = b[i]) \/ (i = Len(b) + 1 /\ c[i] = e)
  OBVIOUS
<1>6. i \in 1..Len(b) \/ i = Len(b) + 1
  BY <1>3
<1>7. CASE i \in 1..Len(b)
  BY <1>4, <1>7, Zenon
<1>8. CASE i = Len(b) + 1
  BY <1>5, <1>8, Zenon
<1> QED  BY <1>6, <1>7, <1>8, Zenon

(* As above.                                                                 *)
LEMMA AtShrunk ==
  ASSUME NEW q, NEW r, Shrunk(q, r)
  PROVE  /\ \A i \in 1..Len(r) : i + 1 \in 1..Len(q) /\ r[i] = q[i + 1]
         /\ 1 \in 1..Len(q)
BY DEF Shrunk

-----------------------------------------------------------------------------
(* What keeps requests, answers and signs in order.                          *)

(* Keeps is reflexive and transitive.                                        *)
LEMMA KeepsAll ==
  ASSUME NEW q, NEW b, NEW s, NEW w
  PROVE  Keeps(q, b, q, b, s, w)
BY DEF Keeps

(* As above.                                                                 *)
LEMMA KeepsThen ==
  ASSUME NEW q, NEW b, NEW r, NEW c, NEW u, NEW d, NEW s, NEW w,
         Keeps(q, b, r, c, s, w), Keeps(r, c, u, d, s, w)
  PROVE  Keeps(q, b, u, d, s, w)
BY DEF Keeps

(* The head of the queue goes away.                                          *)
LEMMA DropQueue ==
  ASSUME NEW q, NEW r, NEW b, NEW s, NEW w, Shrunk(q, r), Len(b) \in Nat
  PROVE  Keeps(q, b, r, b, s, w)
<1> USE DEF Shrunk
<1>1. AsksOnly(q, b, s, w) => AsksOnly(r, b, s, w)
  BY DEF AsksOnly
<1>2. NoAsks(q, b, s) => NoAsks(r, b, s)
  BY DEF NoAsks
<1>3. NoSigns(q, b, s) => NoSigns(r, b, s)
  BY DEF NoSigns
<1>4. NoAnswers(q, s) => NoAnswers(r, s)
  BY DEF NoAnswers
<1>5. SignsFirst(q, b, s) => SignsFirst(r, b, s)
  BY DEF SignsFirst
<1>6. OneSign(q, b, s, w) => OneSign(r, b, s, w)
  BY DEF OneSign
<1> QED  BY <1>1, <1>2, <1>3, <1>4, <1>5, <1>6 DEF Keeps

(* The head of the inbox goes away.                                          *)
LEMMA DropInbox ==
  ASSUME NEW q, NEW b, NEW c, NEW s, NEW w, Shrunk(b, c), Len(q) \in Nat
  PROVE  Keeps(q, b, q, c, s, w)
<1>0. \A i \in 1..Len(c) : i + 1 \in 1..Len(b) /\ c[i] = b[i + 1]
  BY DEF Shrunk
<1>1. AsksOnly(q, b, s, w) => AsksOnly(q, c, s, w)
  BY ONLY <1>0 DEF AsksOnly
<1>2. NoAsks(q, b, s) => NoAsks(q, c, s)
  BY ONLY <1>0 DEF NoAsks
<1>3. NoSigns(q, b, s) => NoSigns(q, c, s)
  BY ONLY <1>0 DEF NoSigns
<1>5. SignsFirst(q, b, s) => SignsFirst(q, c, s)
  <2> SUFFICES ASSUME SignsFirst(q, b, s)
               PROVE  SignsFirst(q, c, s)
    OBVIOUS
  <2>1. \A i \in 1..Len(q) : Frees(q[i], s) =>
          /\ \A j \in 1..Len(q) : Asks(q[j], s) => i < j
          /\ \A j \in 1..Len(c) : ~Asks(c[j], s)
    BY <1>0 DEF SignsFirst
  <2>2. \A i \in 1..Len(c), j \in 1..Len(c) :
          Wakes(c[i], s) /\ Asks(c[j], s) => i + 1 < j + 1
    BY <1>0 DEF SignsFirst
  <2>3. \A i \in 1..Len(c), j \in 1..Len(c) : i + 1 < j + 1 => i < j
    OBVIOUS
  <2> QED  BY <2>1, <2>2, <2>3 DEF SignsFirst
<1>6. OneSign(q, b, s, w) => OneSign(q, c, s, w)
  <2> SUFFICES ASSUME OneSign(q, b, s, w)
               PROVE  OneSign(q, c, s, w)
    OBVIOUS
  <2>1. \A i \in 1..Len(q) : Frees(q[i], s) =>
          /\ \A j \in 1..Len(q) : Frees(q[j], s) => j = i
          /\ \A j \in 1..Len(q) : Asks(q[j], s) => j < i
          /\ \A j \in 1..Len(c) : ~Wakes(c[j], s)
    BY <1>0 DEF OneSign
  <2>2. \A i \in 1..Len(c) : Wakes(c[i], s) =>
          c[i].to = {w} /\ \A j \in 1..Len(q) : ~Asks(q[j], s)
    BY <1>0 DEF OneSign
  <2>3. \A i \in 1..Len(c), j \in 1..Len(c) : Wakes(c[i], s) =>
          /\ Wakes(c[j], s) => j + 1 = i + 1
          /\ Asks(c[j], s) => j + 1 < i + 1
    BY <1>0 DEF OneSign
  <2>4. \A i \in 1..Len(c), j \in 1..Len(c) :
          (j + 1 = i + 1 => j = i) /\ (j + 1 < i + 1 => j < i)
    OBVIOUS
  <2> QED  BY <2>1, <2>2, <2>3, <2>4 DEF OneSign
<1> QED  BY <1>1, <1>2, <1>3, <1>5, <1>6 DEF Keeps

(* What is appended to the queue is not about the slot.                      *)
LEMMA AddQueue ==
  ASSUME NEW q, NEW r, NEW b, NEW s, NEW w, NEW e, Grown(q, e, r), Len(b) \in Nat,
         ~Asks(e, s), ~Answers(e, s), ~Frees(e, s)
  PROVE  Keeps(q, b, r, b, s, w)
<1> USE DEF Grown
<1>1. AsksOnly(q, b, s, w) => AsksOnly(r, b, s, w)
  BY DEF AsksOnly
<1>2. NoAsks(q, b, s) => NoAsks(r, b, s)
  BY DEF NoAsks
<1>3. NoSigns(q, b, s) => NoSigns(r, b, s)
  BY DEF NoSigns
<1>4. NoAnswers(q, s) => NoAnswers(r, s)
  BY DEF NoAnswers
<1>5. SignsFirst(q, b, s) => SignsFirst(r, b, s)
  BY DEF SignsFirst
<1>6. OneSign(q, b, s, w) => OneSign(r, b, s, w)
  BY DEF OneSign
<1> QED  BY <1>1, <1>2, <1>3, <1>4, <1>5, <1>6 DEF Keeps

(* What is appended to the inbox is not about the slot.                      *)
LEMMA AddInbox ==
  ASSUME NEW q, NEW b, NEW c, NEW s, NEW w, NEW e, Grown(b, e, c), Len(q) \in Nat,
         ~Asks(e, s), ~Wakes(e, s)
  PROVE  Keeps(q, b, q, c, s, w)
<1> USE DEF Grown
<1>1. AsksOnly(q, b, s, w) => AsksOnly(q, c, s, w)
  BY DEF AsksOnly
<1>2. NoAsks(q, b, s) => NoAsks(q, c, s)
  BY DEF NoAsks
<1>3. NoSigns(q, b, s) => NoSigns(q, c, s)
  BY DEF NoSigns
<1>5. SignsFirst(q, b, s) => SignsFirst(q, c, s)
  BY DEF SignsFirst
<1>6. OneSign(q, b, s, w) => OneSign(q, c, s, w)
  BY DEF OneSign
<1> QED  BY <1>1, <1>2, <1>3, <1>5, <1>6 DEF Keeps

(* A request passes from the queue to the inbox.                             *)
LEMMA PassAsk ==
  ASSUME NEW q, NEW r, NEW b, NEW c, NEW s, NEW w,
         Shrunk(q, r), Grown(b, q[1], c), q[1].type = "SelectionRequest"
  PROVE  Keeps(q, b, r, c, s, w)
<1> USE DEF Grown, Shrunk
<1>0. ~Wakes(q[1], s) /\ 1 \in 1..Len(q)
  BY DEF Wakes
<1>1. AsksOnly(q, b, s, w) => AsksOnly(r, c, s, w)
  BY <1>0 DEF AsksOnly
<1>2. NoAsks(q, b, s) => NoAsks(r, c, s)
  BY <1>0 DEF NoAsks
<1>3. NoSigns(q, b, s) => NoSigns(r, c, s)
  BY <1>0 DEF NoSigns
<1>4. NoAnswers(q, s) => NoAnswers(r, s)
  BY DEF NoAnswers
<1>a. \A i \in 1..Len(r) : i + 1 \in 1..Len(q) /\ r[i] = q[i + 1]
  BY AtShrunk
<1> DEFINE e == q[1]
<1>b. \A i \in 1..Len(c) : (i \in 1..Len(b) /\ c[i] = b[i]) \/ (i = Len(b) + 1 /\ c[i] = e)
  <2>1. Grown(b, e, c)
    OBVIOUS
  <2> HIDE DEF e, Grown
  <2> QED  BY ONLY <2>1, AtGrown
<1>c. \A i \in 1..Len(b) : i < Len(b) + 1
  OBVIOUS
<1>d. \A i \in 1..Len(r) : ~(i + 1 < 1)
  OBVIOUS
<1>7. /\ \A i \in 1..Len(r) : i + 1 \in 1..Len(q) /\ r[i] = q[i + 1]
      /\ \A i \in 1..Len(c) : (i \in 1..Len(b) /\ c[i] = b[i]) \/ (i = Len(b) + 1 /\ c[i] = q[1])
      /\ \A i \in 1..Len(b) : i < Len(b) + 1
      /\ \A i \in 1..Len(r) : ~(i + 1 < 1)
  BY <1>a, <1>b, <1>c, <1>d
<1>8. \A i \in 1..Len(r), j \in 1..Len(r) :
        /\ i + 1 < j + 1 => i < j
        /\ j + 1 = i + 1 => j = i
  OBVIOUS
<1> HIDE DEF Shrunk, Grown
<1>5. SignsFirst(q, b, s) => SignsFirst(r, c, s)
  <2> SUFFICES ASSUME SignsFirst(q, b, s)
               PROVE  SignsFirst(r, c, s)
    OBVIOUS
  <2>1. \A i \in 1..Len(r), j \in 1..Len(r) : Frees(r[i], s) /\ Asks(r[j], s) => i + 1 < j + 1
    BY <1>7 DEF SignsFirst
  <2>2. \A i \in 1..Len(r) : Frees(r[i], s) => ~Asks(q[1], s)
    BY <1>0, <1>7 DEF SignsFirst
  <2>3. \A i \in 1..Len(r), j \in 1..Len(c) : Frees(r[i], s) => ~Asks(c[j], s)
    BY <1>7, <2>2 DEF SignsFirst
  <2>4. \A i \in 1..Len(c), j \in 1..Len(c) : Wakes(c[i], s) /\ Asks(c[j], s) => i < j
    BY <1>0, <1>7 DEF SignsFirst
  <2> QED  BY <1>8, <2>1, <2>3, <2>4 DEF SignsFirst
<1>6. OneSign(q, b, s, w) => OneSign(r, c, s, w)
  <2> SUFFICES ASSUME OneSign(q, b, s, w)
               PROVE  OneSign(r, c, s, w)
    OBVIOUS
  <2>1. \A i \in 1..Len(r), j \in 1..Len(r) : Frees(r[i], s) =>
          (Frees(r[j], s) => j + 1 = i + 1) /\ (Asks(r[j], s) => j + 1 < i + 1)
    BY <1>7 DEF OneSign
  <2>2. \A i \in 1..Len(r), j \in 1..Len(c) : Frees(r[i], s) => ~Wakes(c[j], s)
    BY <1>0, <1>7 DEF OneSign
  <2>3. \A i \in 1..Len(c) : Wakes(c[i], s) => i \in 1..Len(b) /\ c[i] = b[i] /\ ~Asks(q[1], s)
    BY <1>0, <1>7 DEF OneSign
  <2>4. \A i \in 1..Len(c) : Wakes(c[i], s) =>
          c[i].to = {w} /\ \A j \in 1..Len(r) : ~Asks(r[j], s)
    BY <1>7, <2>3 DEF OneSign
  <2>5. \A i \in 1..Len(c), j \in 1..Len(c) : Wakes(c[i], s) =>
          (Wakes(c[j], s) => j = i) /\ (Asks(c[j], s) => j < i)
    BY <1>0, <1>7, <2>3 DEF OneSign
  <2> QED  BY <1>8, <2>1, <2>2, <2>4, <2>5 DEF OneSign
<1> QED  BY <1>1, <1>2, <1>3, <1>4, <1>5, <1>6 DEF Keeps

(* The sign for w passes from the queue to the inbox.                        *)
LEMMA PassSign ==
  ASSUME NEW q, NEW r, NEW b, NEW c, NEW s, NEW w, NEW e,
         Shrunk(q, r), Grown(b, e, c), Frees(q[1], s), Wakes(e, s), e.to = {w},
         OneSign(q, b, s, w)
  PROVE  /\ OneSign(r, c, s, w)
         /\ AsksOnly(q, b, s, w) => AsksOnly(r, c, s, w)
         /\ NoAsks(q, b, s) => NoAsks(r, c, s)
<1> USE DEF Grown, Shrunk
<1>0. ~Asks(e, s) /\ 1 \in 1..Len(q)
  BY DEF Wakes, Asks
<1>a. \A i \in 1..Len(r) : i + 1 \in 1..Len(q) /\ r[i] = q[i + 1]
  BY AtShrunk
<1>b. \A i \in 1..Len(c) : Asks(c[i], s) => i \in 1..Len(b) /\ c[i] = b[i]
  BY <1>0, AtGrown
<1>1. AsksOnly(q, b, s, w) => AsksOnly(r, c, s, w)
  BY <1>a, <1>b DEF AsksOnly
<1>2. NoAsks(q, b, s) => NoAsks(r, c, s)
  BY <1>a, <1>b DEF NoAsks
<1>3. /\ \A j \in 1..Len(q) : Frees(q[j], s) => j = 1
      /\ \A j \in 1..Len(q) : ~Asks(q[j], s)
      /\ \A j \in 1..Len(b) : ~Wakes(b[j], s)
  BY <1>0 DEF OneSign
<1>4. /\ \A j \in 1..Len(r) : ~Frees(r[j], s)
      /\ \A j \in 1..Len(r) : ~Asks(r[j], s)
  BY <1>3
<1>5. \A j \in 1..Len(c) : Wakes(c[j], s) => j = Len(b) + 1
  BY <1>3
<1>6. \A j \in 1..Len(c) : Asks(c[j], s) => j < Len(b) + 1
  BY <1>0
<1>7. OneSign(r, c, s, w)
  BY <1>4, <1>5, <1>6 DEF OneSign
<1> QED  BY <1>1, <1>2, <1>7

(* A client has handled a sign that others also wait for.                    *)
LEMMA SwapInbox ==
  ASSUME NEW q, NEW b, NEW c, NEW s, NEW w, NEW v, NEW e, Len(q) \in Nat,
         Swapped(b, e, c), b[1].type = "PropertyNotify", e.type = "PropertyNotify",
         e.property = b[1].property, v \in b[1].to, e.to = b[1].to \ {v}, e.to # {}
  PROVE  Keeps(q, b, q, c, s, w)
<1> USE DEF Swapped
<1>0. /\ \A i \in 1..Len(b) : Asks(b[i], s) = Asks(c[i], s)
      /\ \A i \in 1..Len(b) : Wakes(b[i], s) = Wakes(c[i], s)
      /\ \A i \in 2..Len(b) : b[i] = c[i]
      /\ 1 \in 1..Len(b)
  BY DEF Asks, Wakes
<1>1. AsksOnly(q, b, s, w) => AsksOnly(q, c, s, w)
  <2>1. \A i \in 1..Len(c) : Asks(c[i], s) => i \in 2..Len(b)
    BY DEF Asks
  <2> QED  BY <1>0, <2>1 DEF AsksOnly
<1>2. NoAsks(q, b, s) => NoAsks(q, c, s)
  BY <1>0 DEF NoAsks
<1>3. NoSigns(q, b, s) => NoSigns(q, c, s)
  BY <1>0 DEF NoSigns
<1>5. SignsFirst(q, b, s) => SignsFirst(q, c, s)
  BY <1>0 DEF SignsFirst
<1>6. OneSign(q, b, s, w) => OneSign(q, c, s, w)
  <2>1. OneSign(q, b, s, w) => ~Wakes(b[1], s)
    BY <1>0 DEF OneSign
  <2>2. OneSign(q, b, s, w) => \A i \in 1..Len(c) : Wakes(c[i], s) => i \in 2..Len(b)
    BY <1>0, <2>1
  <2> QED  BY <1>0, <2>2 DEF OneSign
<1> QED  BY <1>1, <1>2, <1>3, <1>5, <1>6 DEF Keeps

(* The request of a declined fetch is made once more, after every sign.      *)
LEMMA AddAsk ==
  ASSUME NEW q, NEW r, NEW b, NEW s, NEW w, NEW e, Grown(q, e, r), Len(b) \in Nat,
         Asks(e, s), e.at = w
  PROVE  /\ AsksOnly(q, b, s, w) => AsksOnly(r, b, s, w)
         /\ NoSigns(q, b, s) => NoSigns(r, b, s)
         /\ NoAnswers(q, s) => NoAnswers(r, s)
         /\ SignsFirst(q, b, s) => SignsFirst(r, b, s)
<1> USE DEF Grown
<1>0. ~Answers(e, s) /\ ~Frees(e, s)
  BY DEF Asks, Answers, Frees
<1>1. AsksOnly(q, b, s, w) => AsksOnly(r, b, s, w)
  BY DEF AsksOnly
<1>3. NoSigns(q, b, s) => NoSigns(r, b, s)
  BY <1>0 DEF NoSigns
<1>4. NoAnswers(q, s) => NoAnswers(r, s)
  BY <1>0 DEF NoAnswers
<1>5. SignsFirst(q, b, s) => SignsFirst(r, b, s)
  BY <1>0 DEF SignsFirst
<1> QED  BY <1>1, <1>3, <1>4, <1>5

(* The deletion of the property that a reply or a piece was in, where no sign *)
(* is on its way.                                                            *)
LEMMA AddSign ==
  ASSUME NEW q, NEW r, NEW b, NEW s, NEW w, NEW e, Grown(q, e, r), Len(b) \in Nat,
         Frees(e, s), NoSigns(q, b, s)
  PROVE  /\ AsksOnly(q, b, s, w) => AsksOnly(r, b, s, w)
         /\ NoAsks(q, b, s) => NoAsks(r, b, s)
         /\ OneSign(r, b, s, w)
<1> USE DEF Grown
<1>0. ~Asks(e, s)
  BY DEF Asks, Frees
<1>1. AsksOnly(q, b, s, w) => AsksOnly(r, b, s, w)
  BY <1>0 DEF AsksOnly
<1>2. NoAsks(q, b, s) => NoAsks(r, b, s)
  BY <1>0 DEF NoAsks
<1>3. OneSign(r, b, s, w)
  BY <1>0 DEF OneSign, NoSigns
<1> QED  BY <1>1, <1>2, <1>3
-----------------------------------------------------------------------------
(* What keeps the updates and the notices of a loss.                         *)

(* Flows is reflexive and transitive.                                        *)
LEMMA FlowsAll ==
  ASSUME NEW q, NEW b
  PROVE  Flows(q, b, q, b)
BY DEF Flows

(* As above.                                                                 *)
LEMMA FlowsThen ==
  ASSUME NEW q, NEW b, NEW r, NEW c, NEW u, NEW d,
         Flows(q, b, r, c), Flows(r, c, u, d)
  PROVE  Flows(q, b, u, d)
BY DEF Flows

(* What a list has, the longer one has.                                      *)
LEMMA GrownHas ==
  ASSUME NEW q, NEW r, NEW e, Grown(q, e, r)
  PROVE  /\ HasUpdate(q) => HasUpdate(r)
         /\ HasTwo(q) => HasTwo(r)
         /\ \A w \in Owners : HasClear(q, w) => HasClear(r, w)
         /\ e.type = "SDL_CLIPBOARDUPDATE" => HasUpdate(r)
         /\ e.type = "SDL_CLIPBOARDUPDATE" /\ HasUpdate(q) => HasTwo(r)
         /\ \A w \in Owners : e = SelectionClear(w) => HasClear(r, w)
<1>1. \A i \in Nat : i \in 1..Len(q) => i \in 1..Len(r) /\ r[i] = q[i]
  BY DEF Grown
<1>2. \A i \in Nat : UpdateAt(q, i) => UpdateAt(r, i)
  BY <1>1 DEF UpdateAt
<1>3. \A i \in Nat : \A w \in Owners : ClearAt(q, i, w) => ClearAt(r, i, w)
  BY <1>1 DEF ClearAt
<1>4. Len(q) + 1 \in Nat /\ Len(q) + 1 \in 1..Len(r) /\ r[Len(q) + 1] = e
  BY DEF Grown
<1>5. e.type = "SDL_CLIPBOARDUPDATE" => UpdateAt(r, Len(q) + 1)
  BY <1>4 DEF UpdateAt
<1>6. \A w \in Owners : e = SelectionClear(w) => ClearAt(r, Len(q) + 1, w)
  BY <1>4 DEF ClearAt
<1>7. \A i \in Nat : UpdateAt(q, i) => i # Len(q) + 1
  BY DEF UpdateAt, Grown
<1> QED  BY <1>2, <1>3, <1>4, <1>5, <1>6, <1>7 DEF HasUpdate, HasTwo, HasClear

(* What is not the head of a list, its tail has.                             *)
LEMMA ShrunkHas ==
  ASSUME NEW q, NEW r, Shrunk(q, r)
  PROVE  /\ q[1].type # "SDL_CLIPBOARDUPDATE" =>
              (HasUpdate(q) => HasUpdate(r)) /\ (HasTwo(q) => HasTwo(r))
         /\ HasTwo(q) => HasUpdate(r)
         /\ \A w \in Owners : HasClear(q, w) => HasClear(r, w) \/ q[1] = SelectionClear(w)
<1>1. \A i \in Nat : i \in 1..Len(q) /\ i # 1 =>
        i - 1 \in Nat /\ i - 1 \in 1..Len(r) /\ r[i - 1] = q[i]
  BY DEF Shrunk
<1>2. \A i \in Nat : UpdateAt(q, i) /\ i # 1 => i - 1 \in Nat /\ UpdateAt(r, i - 1)
  BY <1>1 DEF UpdateAt
<1>3. \A i \in Nat : \A w \in Owners :
        ClearAt(q, i, w) /\ i # 1 => i - 1 \in Nat /\ ClearAt(r, i - 1, w)
  BY <1>1 DEF ClearAt
<1>4. q[1].type # "SDL_CLIPBOARDUPDATE" => \A i \in Nat : UpdateAt(q, i) => i # 1
  BY DEF UpdateAt
<1>5. \A w \in Owners : ClearAt(q, 1, w) => q[1] = SelectionClear(w)
  BY DEF ClearAt
<1>6. \A i \in Nat, j \in Nat : i # j => i - 1 # j - 1 /\ (i # 1 \/ j # 1)
  OBVIOUS
<1>7. q[1].type # "SDL_CLIPBOARDUPDATE" => (HasUpdate(q) => HasUpdate(r))
  BY <1>2, <1>4 DEF HasUpdate
<1>8. q[1].type # "SDL_CLIPBOARDUPDATE" => (HasTwo(q) => HasTwo(r))
  BY <1>2, <1>4, <1>6 DEF HasTwo
<1>9. HasTwo(q) => HasUpdate(r)
  BY <1>2, <1>6 DEF HasTwo, HasUpdate
<1>10. \A w \in Owners : HasClear(q, w) => HasClear(r, w) \/ q[1] = SelectionClear(w)
  BY <1>3, <1>5 DEF HasClear
<1> QED  BY <1>7, <1>8, <1>9, <1>10

(* The steps of the queue and the inbox: an event that is neither an update  *)
(* nor a notice goes away, one is appended, one passes, or the head changes. *)
LEMMA FlowsOn ==
  ASSUME NEW q, NEW b
  PROVE  /\ \A r : Shrunk(q, r) /\ q[1].type \notin {"SDL_CLIPBOARDUPDATE", "SelectionClear"}
              => Flows(q, b, r, b)
         /\ \A r : \A e : Grown(q, e, r) => Flows(q, b, r, b)
         /\ \A c : Shrunk(b, c) /\ b[1].type # "SelectionClear" => Flows(q, b, q, c)
         /\ \A c : \A e : Grown(b, e, c) => Flows(q, b, q, c)
         /\ \A r : \A c : /\ Shrunk(q, r) /\ Grown(b, q[1], c)
                          /\ q[1].type # "SDL_CLIPBOARDUPDATE"
              => Flows(q, b, r, c)
<1>0. \A w \in Owners : SelectionClear(w).type = "SelectionClear"
  BY DEF SelectionClear
<1>1. ASSUME NEW r, Shrunk(q, r), q[1].type \notin {"SDL_CLIPBOARDUPDATE", "SelectionClear"}
      PROVE  Flows(q, b, r, b)
  BY <1>0, <1>1, ShrunkHas DEF Flows
<1>2. ASSUME NEW r, NEW e, Grown(q, e, r)
      PROVE  Flows(q, b, r, b)
  BY <1>2, GrownHas DEF Flows
<1>3. ASSUME NEW c, Shrunk(b, c), b[1].type # "SelectionClear"
      PROVE  Flows(q, b, q, c)
  BY <1>0, <1>3, ShrunkHas DEF Flows
<1>4. ASSUME NEW c, NEW e, Grown(b, e, c)
      PROVE  Flows(q, b, q, c)
  BY <1>4, GrownHas DEF Flows
<1>5. ASSUME NEW r, NEW c, Shrunk(q, r), Grown(b, q[1], c),
             q[1].type # "SDL_CLIPBOARDUPDATE"
      PROVE  Flows(q, b, r, c)
  <2>1. /\ HasUpdate(q) => HasUpdate(r)
        /\ HasTwo(q) => HasTwo(r)
        /\ \A w \in Owners : HasClear(q, w) => HasClear(r, w) \/ q[1] = SelectionClear(w)
    BY <1>5, ShrunkHas
  <2>2. /\ \A w \in Owners : HasClear(b, w) => HasClear(c, w)
        /\ \A w \in Owners : q[1] = SelectionClear(w) => HasClear(c, w)
    <3> DEFINE e == q[1]
    <3>1. Grown(b, e, c)
      BY <1>5
    <3> HIDE DEF e
    <3>2. /\ \A w \in Owners : HasClear(b, w) => HasClear(c, w)
          /\ \A w \in Owners : e = SelectionClear(w) => HasClear(c, w)
      BY ONLY <3>1, GrownHas
    <3> QED  BY <3>2 DEF e
  <2> QED  BY <2>1, <2>2 DEF Flows
<1> QED  BY <1>1, <1>2, <1>3, <1>4, <1>5

(* As above, of a head that changes.                                         *)
LEMMA SwapFlows ==
  ASSUME NEW q, NEW b, NEW c, NEW e, Swapped(b, e, c), b[1].type # "SelectionClear"
  PROVE  Flows(q, b, q, c)
<1>1. \A i \in Nat : i \in 1..Len(b) /\ i # 1 => i \in 1..Len(c) /\ c[i] = b[i]
  BY DEF Swapped
<1>2. \A i \in Nat : \A w \in Owners : ClearAt(b, i, w) => i # 1
  BY DEF ClearAt, SelectionClear
<1>3. \A i \in Nat : \A w \in Owners : ClearAt(b, i, w) => ClearAt(c, i, w)
  BY <1>1, <1>2 DEF ClearAt
<1> QED  BY <1>3 DEF Flows, HasClear

(* What is kept of the host's part by a step that touches none of it.        *)
LEMMA HostKept ==
  ASSUME StaysInv, MarkInv, ToldInv, MirroredIsCurrent,
         Flows(queue, inbox, queue', inbox'),
         UNCHANGED <<owner, content, believes, hostClipboardVars, markVars, skipped,
                     claims, mirrored>>
  PROVE  StaysInv' /\ MarkInv' /\ ToldInv' /\ MirroredIsCurrent'
<1> USE DEF hostClipboardVars, markVars
<1>1. (Untold => Untold') /\ (UntoldTwice => UntoldTwice')
  BY DEF Untold, UntoldTwice, Flows
<1>2. StaysInv'
  BY <1>1 DEF StaysInv, Newer
<1>3. MarkInv'
  BY <1>1 DEF MarkInv, Newer
<1>4. ToldInv'
  BY DEF ToldInv, Flows
<1>5. MirroredIsCurrent'
  BY DEF MirroredIsCurrent
<1> QED  BY <1>2, <1>3, <1>4, <1>5

(* What is kept of it by a push of the owner's whole text.                   *)
LEMMA PushKept ==
  ASSUME StaysInv, MarkInv, ToldInv, NEW data, pushTextToSdlClipboard(data),
         owner \in Owners, data = Whole(content[owner]), news \in Nat,
         Flows(queue, inbox, queue', inbox'),
         UNCHANGED <<owner, content, believes, skipped, claims>>
  PROVE  StaysInv' /\ MarkInv' /\ ToldInv' /\ MirroredIsCurrent'
<1> USE DEF pushTextToSdlClipboard
<1>1. Untold'
  BY DEF Untold
<1>2. owner # NoOwner
  BY ClipboardAssumption
<1>3. StaysInv'
  BY <1>1 DEF StaysInv
<1>4. MarkInv'
  BY <1>1 DEF MarkInv
<1>5. ToldInv'
  BY DEF ToldInv, Flows
<1>6. MirroredIsCurrent'
  BY <1>2 DEF MirroredIsCurrent
<1> QED  BY <1>3, <1>4, <1>5, <1>6

(* What is kept of the fetch by a step that is not about its slot.           *)
LEMMA FetchKept ==
  ASSUME FetchInv,
         Keeps(queue, inbox, queue', inbox', fetchProperty, owner),
         store'[fetchProperty] = store[fetchProperty],
         \A w \in Owners : transfer'[w].slot = fetchProperty => transfer'[w] = transfer[w],
         UNCHANGED <<scenario, owner, content, clipboardFetchPending, fetchProperty, incrVars>>
  PROVE  FetchInv'
<1> USE DEF incrVars, FetchInv
<1>1. SlotInv'
  BY DEF SlotInv, Keeps
<1>2. \A w : Answered(w)' = Answered(w)
  BY DEF Answered, style
<1>3. PendingInv'
  <2> SUFFICES ASSUME clipboardFetchPending
               PROVE  PendingInv'
    BY DEF PendingInv
  <2>1. owner \in Owners
    BY DEF SlotInv
  <2> QED  BY <1>2, <2>1 DEF PendingInv, Keeps
<1>4. IncrInv'
  <2> SUFFICES ASSUME incrActive
               PROVE  IncrInv'
    BY DEF IncrInv
  <2>1. owner \in Owners
    BY DEF SlotInv
  <2>2. PICK k \in {0, 1, 2} :
          /\ incrBuf = Came(content[owner], k)
          /\ k # 0 => NoAsks(queue, inbox, fetchProperty)
          /\ OwnerGoesOn(k) \/ PieceWaits(k)
    BY DEF IncrInv
  <2>3. OwnerGoesOn(k) => OwnerGoesOn(k)'
    BY <2>1 DEF OwnerGoesOn
  <2>4. PieceWaits(k) => PieceWaits(k)'
    BY <2>1 DEF PieceWaits, Keeps
  <2>5. k # 0 => NoAsks(queue', inbox', fetchProperty)
    BY <2>2 DEF Keeps
  <2>6. OneSign(queue', inbox', fetchProperty, owner)
    BY DEF IncrInv, Keeps
  <2> QED  BY <2>2, <2>3, <2>4, <2>5, <2>6 DEF IncrInv, style
<1> QED  BY <1>1, <1>3, <1>4

(* A fetch that ended, or that another owner's claim ended.                  *)
LEMMA FetchEnded ==
  ASSUME ~clipboardFetchPending', ~incrActive'
  PROVE  FetchInv'
BY DEF FetchInv, SlotInv, PendingInv, IncrInv
-----------------------------------------------------------------------------
(* The types of what a step makes.                                           *)

(* Short lists.                                                              *)
LEMMA ShortLists ==
  ASSUME NEW S, NEW x \in S, NEW y \in S, NEW z \in S
  PROVE  /\ <<x>> \in Seq(S) /\ <<x, y>> \in Seq(S)
         /\ <<x>> \o <<z>> = <<x, z>>
         /\ <<x, y>> \o <<z>> = <<x, y, z>>
         /\ \A f \in [1..2 -> S] : f = <<f[1], f[2]>>
<1>1. <<x>> \in Seq(S) /\ <<x, y>> \in Seq(S) /\ <<z>> \in Seq(S)
  OBVIOUS
<1>2. <<x, y>> \o <<z>> = <<x, y, z>>
  <2> DEFINE g == <<x, y, z>>
             p == <<x, y>>
             q == <<z>>
  <2>1. g \in Seq(S) /\ Len(g) = 3 /\ g[1] = x /\ g[2] = y /\ g[3] = z
    OBVIOUS
  <2>2. p \in Seq(S) /\ Len(p) = 2 /\ p[1] = x /\ p[2] = y
    OBVIOUS
  <2>3. q \in Seq(S) /\ Len(q) = 1 /\ q[1] = z
    OBVIOUS
  <2> HIDE DEF g, p, q
  <2>c. /\ p \o q \in Seq(S) /\ Len(p \o q) = Len(p) + Len(q)
        /\ \A i \in 1..Len(p) + Len(q) :
             (p \o q)[i] = IF i <= Len(p) THEN p[i] ELSE q[i - Len(p)]
    BY ONLY <2>2, <2>3, ConcatProperties
  <2>4. p \o q \in Seq(S) /\ Len(p \o q) = 3
    BY <2>2, <2>3, <2>c
  <2>5. (p \o q)[1] = x /\ (p \o q)[2] = y /\ (p \o q)[3] = z
    <3>1. (p \o q)[1] = p[1]
      BY <2>2, <2>3, <2>c
    <3>2. (p \o q)[2] = p[2]
      BY <2>2, <2>3, <2>c
    <3>3. (p \o q)[3] = q[1]
      BY <2>2, <2>3, <2>c
    <3> QED  BY <2>2, <2>3, <3>1, <3>2, <3>3
  <2>6. \A i \in 1..Len(g) : g[i] = (p \o q)[i]
    <3>1. \A i \in 1..3 : i = 1 \/ i = 2 \/ i = 3
      OBVIOUS
    <3> QED  BY <2>1, <2>5, <3>1
  <2>7. g = p \o q
    BY <2>1, <2>4, <2>6, SeqEqual
  <2> QED  BY <2>7 DEF g, p, q
<1>4. <<x>> \o <<z>> = <<x, z>>
  <2> DEFINE g == <<x, z>>
             p == <<x>>
             q == <<z>>
  <2>1. g \in Seq(S) /\ Len(g) = 2 /\ g[1] = x /\ g[2] = z
    OBVIOUS
  <2>2. p \in Seq(S) /\ Len(p) = 1 /\ p[1] = x
    OBVIOUS
  <2>3. q \in Seq(S) /\ Len(q) = 1 /\ q[1] = z
    OBVIOUS
  <2> HIDE DEF g, p, q
  <2>4. /\ p \o q \in Seq(S) /\ Len(p \o q) = Len(p) + Len(q)
        /\ \A i \in 1..Len(p) + Len(q) :
             (p \o q)[i] = IF i <= Len(p) THEN p[i] ELSE q[i - Len(p)]
    BY ONLY <2>2, <2>3, ConcatProperties
  <2>5. (p \o q)[1] = p[1]
    BY <2>2, <2>3, <2>4
  <2>6. (p \o q)[2] = q[1]
    BY <2>2, <2>3, <2>4
  <2>7. \A i \in 1..Len(g) : g[i] = (p \o q)[i]
    <3>1. \A i \in 1..2 : i = 1 \/ i = 2
      OBVIOUS
    <3> QED  BY <2>1, <2>2, <2>3, <2>5, <2>6, <3>1
  <2>8. g = p \o q
    BY <2>1, <2>2, <2>3, <2>4, <2>7, SeqEqual
  <2> QED  BY <2>8 DEF g, p, q
<1>3. ASSUME NEW f \in [1..2 -> S]
      PROVE  f = <<f[1], f[2]>>
  <2> DEFINE g == <<f[1], f[2]>>
  <2>1. f \in Seq(S) /\ Len(f) = 2
    <3>1. f \in Seq(S)
      BY <1>3, 2 \in Nat, SeqDef
    <3>2. DOMAIN f = 1..2
      BY <1>3
    <3> QED  BY <3>1, <3>2, LenProperties
  <2>2. f[1] \in S /\ f[2] \in S
    BY <1>3
  <2>3. g \in Seq(S) /\ Len(g) = 2 /\ g[1] = f[1] /\ g[2] = f[2]
    BY <2>2
  <2> HIDE DEF g
  <2>4. \A i \in 1..Len(f) : f[i] = g[i]
    <3>1. \A i \in 1..2 : i = 1 \/ i = 2
      OBVIOUS
    <3> QED  BY <2>1, <2>3, <3>1
  <2>5. f = g
    BY <2>1, <2>3, <2>4, SeqEqual
  <2> QED  BY <2>5 DEF g
<1> QED  BY <1>1, <1>2, <1>3, <1>4

(* The texts and values.                                                     *)
LEMMA TextTypes ==
  /\ \A c \in Nat : Whole(c) \in Texts
  /\ NoText \in Texts /\ <<>> \in Texts
  /\ \A c \in Nat, k \in {0, 1, 2} :
       Piece(c, k) \in Texts /\ Came(c, k) \in Texts /\ ToCome(c, k) \in Seq(Texts)
  /\ Nothing \in Values /\ Hint \in Values /\ Image \in Values
  /\ \A x \in Texts : TextOf(x) \in Values
<1>1. \A c \in Nat : [claim |-> c, piece |-> "head"] \in Pieces
                     /\ [claim |-> c, piece |-> "tail"] \in Pieces
  BY DEF Pieces
<1>2. <<>> \in Texts /\ NoText \in Texts
  BY DEF NoText, Texts, Pieces
<1>3. \A c \in Nat : Whole(c) \in Texts
  BY <1>1, ShortLists DEF Whole, Texts
<1>4. \A c \in Nat : /\ <<[claim |-> c, piece |-> "head"]>> \in Texts
                     /\ <<[claim |-> c, piece |-> "tail"]>> \in Texts
  BY <1>1, ShortLists DEF Texts
<1>5. \A c \in Nat : Piece(c, 0) \in Texts /\ Piece(c, 1) \in Texts /\ Piece(c, 2) \in Texts
  BY <1>2, <1>4 DEF Piece
<1>6. \A c \in Nat : Came(c, 0) \in Texts /\ Came(c, 1) \in Texts /\ Came(c, 2) \in Texts
  BY <1>2, <1>3, <1>4 DEF Came
<1>7. \A c \in Nat : ToCome(c, 0) \in Seq(Texts) /\ ToCome(c, 1) \in Seq(Texts)
                     /\ ToCome(c, 2) \in Seq(Texts)
  BY <1>5 DEF ToCome
<1>8. Nothing \in Values /\ Hint \in Values /\ Image \in Values
  BY <1>2 DEF Nothing, Hint, Image, Values
<1>9. \A x \in Texts : TextOf(x) \in Values
  BY DEF TextOf, Values
<1> QED  BY <1>2, <1>3, <1>5, <1>6, <1>7, <1>8, <1>9

(* What an owner that sends in pieces starts with.                           *)
LEMMA PiecesOf ==
  ASSUME NEW c \in Nat
  PROVE  [i \in 1..2 |-> <<Whole(c)[i]>>] \o <<<<>>>> = ToCome(c, 0)
<1> DEFINE p == [i \in 1..2 |-> <<Whole(c)[i]>>]
           h == [claim |-> c, piece |-> "head"]
           t == [claim |-> c, piece |-> "tail"]
<1>1. Whole(c)[1] = h /\ Whole(c)[2] = t
  BY DEF Whole
<1>2. p \in [1..2 -> {<<h>>, <<t>>, <<>>}] /\ p[1] = <<h>> /\ p[2] = <<t>>
  BY <1>1
<1> HIDE DEF p, h, t
<1>3. p = <<<<h>>, <<t>>>>
  BY <1>2, ShortLists
<1>4. <<<<h>>, <<t>>>> \o <<<<>>>> = <<<<h>>, <<t>>, <<>>>>
  <2> DEFINE x == <<h>>
             y == <<t>>
             z == <<>>
  <2>1. x \in {x, y, z} /\ y \in {x, y, z} /\ z \in {x, y, z}
    OBVIOUS
  <2> HIDE DEF x, y, z
  <2>2. <<x, y>> \o <<z>> = <<x, y, z>>
    BY ONLY <2>1, ShortLists
  <2> QED  BY <2>2 DEF x, y, z
<1> QED  BY <1>3, <1>4 DEF ToCome, Piece, p, h, t

(* The events, and what each is to slot s.                                   *)
LEMMA Elements ==
  /\ \A w \in Owners, t \in Targets, p \in Slots :
       SelectionRequest(w, t, p) \in RequestType
  /\ \A t \in Targets, p \in Slots \union {NoSlot} : SelectionNotify(t, p) \in ReplyType
  /\ \A p \in Slots : /\ PropertyNotify(p, "NewValue") \in NoticeType
                      /\ PropertyNotify(p, "Delete") \in NoticeType
  /\ \A w \in Owners : SelectionClear(w) \in ClearType
  /\ Update \in UpdateType
  /\ \A e : e \in RequestType \/ e \in ReplyType \/ e \in NoticeType \/ e \in ClearType
            \/ e \in UpdateType => e \in QueueType
  /\ \A e : e \in RequestType \/ e \in ClearType \/ e \in WakeType => e \in InboxType
BY DEF SelectionRequest, SelectionNotify, PropertyNotify, SelectionClear, Update,
       RequestType, ReplyType, NoticeType, ClearType, UpdateType, QueueType, InboxType,
       Targets

(* What an event of each type is.                                            *)
LEMMA HeadTypes ==
  /\ \A e \in QueueType :
       /\ e.type = "SelectionRequest" => e \in RequestType
       /\ e.type = "SelectionNotify" => e \in ReplyType
       /\ e.type = "PropertyNotify" => e \in NoticeType
       /\ e.type = "SelectionClear" => e \in ClearType
       /\ e.type = "SDL_CLIPBOARDUPDATE" => e \in UpdateType
       /\ e.type \in {"SelectionRequest", "SelectionNotify", "PropertyNotify",
                      "SelectionClear", "SDL_CLIPBOARDUPDATE"}
  /\ \A e \in InboxType :
       /\ e.type = "SelectionRequest" => e \in RequestType
       /\ e.type = "PropertyNotify" => e \in WakeType
       /\ e.type = "SelectionClear" => e \in ClearType
       /\ e.type \in {"SelectionRequest", "PropertyNotify", "SelectionClear"}
BY DEF RequestType, ReplyType, NoticeType, ClearType, UpdateType, WakeType, QueueType, InboxType

(* What is not about a slot.                                                 *)
LEMMA NotAbout ==
  ASSUME NEW s
  PROVE  /\ \A w, t, p : p # s => ~Asks(SelectionRequest(w, t, p), s)
         /\ \A w, t, p : /\ ~Answers(SelectionRequest(w, t, p), s)
                         /\ ~Frees(SelectionRequest(w, t, p), s)
         /\ \A t, p : ~Asks(SelectionNotify(t, p), s) /\ ~Frees(SelectionNotify(t, p), s)
         /\ \A t, p : p # s => ~Answers(SelectionNotify(t, p), s)
         /\ \A p, z : ~Asks(PropertyNotify(p, z), s) /\ ~Answers(PropertyNotify(p, z), s)
         /\ \A p, z : p # s => ~Frees(PropertyNotify(p, z), s)
         /\ \A p : ~Frees(PropertyNotify(p, "NewValue"), s)
         /\ \A w : /\ ~Asks(SelectionClear(w), s) /\ ~Answers(SelectionClear(w), s)
                   /\ ~Frees(SelectionClear(w), s) /\ ~Wakes(SelectionClear(w), s)
         /\ ~Asks(Update, s) /\ ~Answers(Update, s) /\ ~Frees(Update, s)
BY DEF Asks, Answers, Frees, Wakes, SelectionRequest, SelectionNotify, PropertyNotify,
       SelectionClear, Update

(* The slots, and the ring that they are used in.                            *)
LEMMA SlotTypes ==
  /\ NoSlot \notin Slots /\ 0 \in Slots
  /\ \A g \in Slots : (g + 1) % Pool \in Slots
BY ClipboardAssumption DEF NoSlot, Slots
-----------------------------------------------------------------------------
(* The steps that are not a conversion or a client's handler.                *)

(* The initial states satisfy the invariant.                                 *)
LEMMA InitHolds == ClipboardInit => ClipboardInv
<1> SUFFICES ASSUME ClipboardInit
             PROVE  ClipboardInv
  OBVIOUS
<1> USE DEF ClipboardInit
<1>1. ClipboardTypes
  <2>1. FetchTypes
    BY SlotTypes DEF FetchTypes
  <2>2. IncrTypes
    BY TextTypes DEF IncrTypes
  <2>3. HostTypes
    BY TextTypes DEF HostTypes, Unowned
  <2>4. store \in [Slots -> Values]
    BY TextTypes
  <2>5. queue \in Seq(QueueType) /\ inbox \in Seq(InboxType)
    OBVIOUS
  <2>6. transfer \in [Owners -> TransferType]
    BY DEF TransferType, NoTransfer
  <2> QED  BY <2>1, <2>2, <2>3, <2>4, <2>5, <2>6 DEF ClipboardTypes
<1>2. FetchInv
  BY DEF FetchInv, SlotInv, PendingInv, IncrInv
<1>3. StaysInv /\ MarkInv /\ ToldInv /\ MirroredIsCurrent
  BY DEF StaysInv, MarkInv, ToldInv, MirroredIsCurrent
<1> QED  BY <1>1, <1>2, <1>3 DEF ClipboardInv

(* A step that touches nothing keeps the invariant.                          *)
LEMMA StutterHolds ==
  ASSUME ClipboardInv, UNCHANGED clipboardVars
  PROVE  ClipboardInv'
<1> USE DEF clipboardVars, fetchVars, incrVars, markVars, clientVars, hostClipboardVars
<1>1. ClipboardTypes'
  BY DEF ClipboardInv, ClipboardTypes, FetchTypes, IncrTypes, HostTypes
<1>2. FetchInv'
  BY KeepsAll, FetchKept DEF ClipboardInv
<1>3. StaysInv' /\ MarkInv' /\ ToldInv' /\ MirroredIsCurrent'
  BY FlowsAll, HostKept DEF ClipboardInv
<1> QED  BY <1>1, <1>2, <1>3 DEF ClipboardInv

(* SDL tells of a change of the host's clipboard.                            *)
LEMMA TellsHolds ==
  ASSUME ClipboardInv, HostTells
  PROVE  ClipboardInv'
<1> USE DEF HostTells, fetchVars, incrVars, markVars, clientVars
<1>0. queue \in Seq(QueueType) /\ inbox \in Seq(InboxType) /\ news \in Nat
      /\ Update \in QueueType
  BY Elements DEF ClipboardInv, ClipboardTypes, HostTypes
<1>1. queue' \in Seq(QueueType) /\ Grown(queue, Update, queue')
  BY <1>0, AppendGrows
<1>2. ClipboardTypes'
  BY <1>1 DEF ClipboardInv, ClipboardTypes, FetchTypes, IncrTypes, HostTypes
<1>3. Keeps(queue, inbox, queue', inbox', fetchProperty, owner)
  <2>1. Len(inbox) \in Nat /\ inbox' = inbox
    BY <1>0
  <2>2. ~Asks(Update, fetchProperty) /\ ~Answers(Update, fetchProperty) /\ ~Frees(Update, fetchProperty)
    BY NotAbout
  <2>3. Keeps(queue, inbox, queue', inbox, fetchProperty, owner)
    BY ONLY <1>1, <2>1, <2>2, AddQueue
  <2> QED  BY <2>1, <2>3
<1>4. FetchInv'
  BY <1>3, FetchKept DEF ClipboardInv
<1>5. /\ HasUpdate(queue) => HasTwo(queue')
      /\ HasUpdate(queue') /\ (HasTwo(queue) => HasTwo(queue'))
      /\ \A w \in Owners : HasClear(queue, w) => HasClear(queue', w)
  <2>1. Update.type = "SDL_CLIPBOARDUPDATE"
    BY DEF Update
  <2> QED  BY ONLY <1>1, <2>1, GrownHas
<1>6. Untold' /\ (UntoldTwice => UntoldTwice')
  BY <1>0, <1>5 DEF Untold, UntoldTwice
<1>7. StaysInv' /\ MarkInv'
  BY <1>6 DEF ClipboardInv, StaysInv, MarkInv, Newer
<1>8. ToldInv' /\ MirroredIsCurrent'
  BY <1>5 DEF ClipboardInv, ToldInv, MirroredIsCurrent
<1> QED  BY <1>2, <1>4, <1>7, <1>8 DEF ClipboardInv

(* Another program copies.                                                   *)
LEMMA CopyHolds ==
  ASSUME ClipboardInv, NEW c \in 0..claims, HostCopy(Whole(c))
  PROVE  ClipboardInv'
<1> USE DEF HostCopy, fetchVars, incrVars, markVars, clientVars
<1>0. claims \in Nat /\ copies \in Nat /\ news \in Nat /\ c \in Nat
  BY DEF ClipboardInv, ClipboardTypes, HostTypes
<1>1. HostTypes'
  BY <1>0, TextTypes DEF ClipboardInv, ClipboardTypes, HostTypes
<1>2. ClipboardTypes'
  BY <1>1 DEF ClipboardInv, ClipboardTypes, FetchTypes, IncrTypes
<1>3. FetchInv'
  BY KeepsAll, FetchKept DEF ClipboardInv
<1>4. Untold' /\ (Untold => UntoldTwice')
  BY <1>0 DEF Untold, UntoldTwice
<1>5. StaysInv' /\ MarkInv'
  BY <1>0, <1>4 DEF ClipboardInv, StaysInv, MarkInv
<1>6. ToldInv' /\ MirroredIsCurrent'
  BY DEF ClipboardInv, ToldInv, MirroredIsCurrent
<1> QED  BY <1>2, <1>3, <1>5, <1>6 DEF ClipboardInv

(* An owner abandons its transfer.                                           *)
LEMMA GiveUpHolds ==
  ASSUME ClipboardInv, NEW v \in Owners, GiveUp(v)
  PROVE  ClipboardInv'
<1> USE DEF GiveUp, NoPush, fetchVars, incrVars, markVars, hostClipboardVars
<1>1. transfer \in [Owners -> TransferType] /\ NoTransfer \in TransferType
  BY DEF ClipboardInv, ClipboardTypes, TransferType, NoTransfer
<1>2. transfer' \in [Owners -> TransferType]
  BY <1>1
<1>3. ClipboardTypes'
  BY <1>2 DEF ClipboardInv, ClipboardTypes, FetchTypes, IncrTypes, HostTypes
<1>4. FetchInv'
  <2>1. CASE ~clipboardFetchPending /\ ~incrActive
    BY <2>1, FetchEnded DEF ClipboardInv, ClipboardTypes, FetchTypes, IncrTypes
  <2>2. CASE clipboardFetchPending \/ incrActive
    <3>1. fetchProperty \in Slots
      BY <2>2 DEF ClipboardInv, FetchInv, SlotInv
    <3>2. \A w \in Owners : transfer'[w].slot = fetchProperty => transfer'[w] = transfer[w]
      BY <1>1, <3>1, SlotTypes DEF NoTransfer
    <3> QED  BY <3>2, KeepsAll, FetchKept DEF ClipboardInv
  <2> QED  BY <2>1, <2>2
<1>5. StaysInv' /\ MarkInv' /\ ToldInv' /\ MirroredIsCurrent'
  BY FlowsAll, HostKept DEF ClipboardInv
<1> QED  BY <1>3, <1>4, <1>5 DEF ClipboardInv

(* Who loses the selection is told so.                                       *)
LEMMA LossIsTold ==
  ASSUME ClipboardInv, NEW w
  PROVE  /\ toldOfLoss(w) \in Seq(QueueType)
         /\ Flows(queue, inbox, toldOfLoss(w), inbox)
         /\ owner \in Owners /\ owner # w => HasClear(toldOfLoss(w), owner)
         /\ \A s : \A v : Keeps(queue, inbox, toldOfLoss(w), inbox, s, v)
<1>0. queue \in Seq(QueueType) /\ inbox \in Seq(InboxType) /\ Len(inbox) \in Nat
      /\ owner \in Owners \union {NoOwner}
  BY DEF ClipboardInv, ClipboardTypes
<1>1. CASE owner \in {NoOwner, w}
  <2>1. toldOfLoss(w) = queue /\ ~(owner \in Owners /\ owner # w)
    BY <1>1, ClipboardAssumption DEF toldOfLoss
  <2> QED  BY <1>0, <2>1, FlowsAll, KeepsAll
<1>2. CASE owner \notin {NoOwner, w}
  <2> DEFINE e == SelectionClear(owner)
             r == toldOfLoss(w)
  <2>1. r = Append(queue, e) /\ e \in QueueType /\ owner \in Owners
    BY <1>0, <1>2, Elements DEF toldOfLoss
  <2>2. \A s : ~Asks(e, s) /\ ~Answers(e, s) /\ ~Frees(e, s)
    BY NotAbout
  <2>3. e = SelectionClear(owner)
    OBVIOUS
  <2> HIDE DEF e, r
  <2>4. r \in Seq(QueueType) /\ Grown(queue, e, r)
    BY ONLY <1>0, <2>1, AppendGrows
  <2>5. \A s : \A v : Keeps(queue, inbox, r, inbox, s, v)
    BY ONLY <1>0, <2>2, <2>4, AddQueue
  <2>6. Flows(queue, inbox, r, inbox)
    BY ONLY <2>4, FlowsOn
  <2>7. HasClear(r, owner)
    BY ONLY <2>1, <2>3, <2>4, GrownHas
  <2> QED  BY <2>4, <2>5, <2>6, <2>7 DEF r
<1> QED  BY <1>1, <1>2

(* An owner lets go of the selection.                                        *)
LEMMA DisownHolds ==
  ASSUME ClipboardInv, Disown
  PROVE  ClipboardInv'
<1> USE DEF Disown, Abandon, EndFetch, clipboardResetIncr, NoPush, clientVars, markVars,
            hostClipboardVars
<1>1. /\ queue' \in Seq(QueueType) /\ Flows(queue, inbox, queue', inbox')
      /\ owner \in Owners => HasClear(queue', owner)
  BY LossIsTold, ClipboardAssumption
<1>2. ClipboardTypes'
  BY <1>1, TextTypes DEF ClipboardInv, ClipboardTypes, FetchTypes, IncrTypes, HostTypes
<1>3. FetchInv'
  BY FetchEnded
<1>4. (Untold => Untold')
  BY <1>1 DEF Untold, Flows
<1>5. StaysInv' /\ MarkInv'
  BY <1>4 DEF ClipboardInv, StaysInv, MarkInv
<1>6. ToldInv' /\ MirroredIsCurrent'
  BY <1>1 DEF ClipboardInv, ToldInv, MirroredIsCurrent, Flows
<1> QED  BY <1>2, <1>3, <1>5, <1>6 DEF ClipboardInv

(* A client claims the selection, and its fetch begins.                      *)
LEMMA ClaimHolds ==
  ASSUME ClipboardInv, OwnersTimeOut, NEW v \in Owners, XSetSelectionOwner(v)
  PROVE  ClipboardInv'
<1> DEFINE q == toldOfLoss(v)
           e == SelectionRequest(v, "UTF8_STRING", fetchGen)
<1>0. /\ fetchGen \in Slots /\ inbox \in Seq(InboxType) /\ Len(inbox) \in Nat
      /\ queue \in Seq(QueueType) /\ owner \in Owners \union {NoOwner}
      /\ claims \in Nat /\ copiedAt \in Nat /\ content \in [Owners -> Nat]
      /\ believes \in [Owners -> BOOLEAN]
  BY DEF ClipboardInv, ClipboardTypes, FetchTypes, HostTypes
<1>1. /\ MayFetch /\ claims' = claims + 1 /\ owner' = v
      /\ content' = [content EXCEPT ![v] = claims + 1]
      /\ believes' = [believes EXCEPT ![v] = TRUE]
      /\ skipped' = FALSE
      /\ fetchProperty' = fetchGen /\ fetchGen' = (fetchGen + 1) % Pool
      /\ fetchTarget' = "UTF8_STRING" /\ clipboardFetchPending' = TRUE
      /\ incrActive' = FALSE /\ incrProperty' = NoSlot /\ incrBuf' = <<>>
      /\ queue' = Append(q, e)
  BY DEF XSetSelectionOwner, startClipboardFetch, clipboardResetIncr
<1>2. UNCHANGED <<scenario, store, inbox, transfer, lastPushed, everPushed, hostText, news,
                  copies, copiedAt, mirrored>>
  BY DEF XSetSelectionOwner, NoPush, markVars, hostClipboardVars
<1>3. /\ q \in Seq(QueueType) /\ Flows(queue, inbox, q, inbox)
      /\ owner \in Owners /\ owner # v => HasClear(q, owner)
      /\ Keeps(queue, inbox, q, inbox, fetchGen, v)
  BY LossIsTold
<1>4. e \in QueueType
  BY <1>0, Elements DEF Targets
<1>e. Asks(e, fetchGen) /\ e.at = v
  BY DEF Asks, SelectionRequest
<1> HIDE DEF q, e
<1>5. queue' \in Seq(QueueType) /\ Grown(q, e, queue')
  BY <1>1, <1>3, <1>4, AppendGrows
<1>6. ClipboardTypes'
  <2>1. FetchTypes'
    BY <1>0, <1>1, SlotTypes DEF FetchTypes, Targets
  <2>2. IncrTypes'
    BY <1>1, TextTypes DEF IncrTypes
  <2>3. content' \in [Owners -> Nat] /\ believes' \in [Owners -> BOOLEAN] /\ claims' \in Nat
    BY <1>0, <1>1
  <2> QED  BY <1>1, <1>2, <1>5, <2>1, <2>2, <2>3
           DEF ClipboardInv, ClipboardTypes, HostTypes
<1>7. NoAsks(queue, inbox, fetchGen) /\ NoAnswers(queue, fetchGen)
  <2>1. ~Unanswered(fetchGen)
    BY <1>1 DEF MayFetch
  <2>2. \A i \in 1..Len(queue) : queue[i] \in Range(queue)
    BY <1>0 DEF Range
  <2>3. \A i \in 1..Len(inbox) : inbox[i] \in Range(inbox)
    BY <1>0 DEF Range
  <2> QED  BY <2>1, <2>2, <2>3 DEF Unanswered, NoAsks, NoAnswers, Asks, Answers
<1>8. NoAsks(q, inbox, fetchGen) /\ NoAnswers(q, fetchGen)
  BY <1>3, <1>7 DEF Keeps
<1>9. AsksOnly(q, inbox, fetchGen, v) /\ SignsFirst(q, inbox, fetchGen)
  BY <1>8 DEF NoAsks, AsksOnly, SignsFirst
<1>10. /\ AsksOnly(queue', inbox, fetchGen, v) /\ SignsFirst(queue', inbox, fetchGen)
       /\ NoAnswers(queue', fetchGen)
  BY ONLY <1>0, <1>5, <1>8, <1>9, <1>e, AddAsk
<1>11. \A w \in Owners : transfer[w].slot # fetchGen
  BY <1>1 DEF MayFetch
<1>12. FetchInv'
  BY <1>0, <1>1, <1>2, <1>10, <1>11 DEF FetchInv, SlotInv, PendingInv, IncrInv
<1>13. Flows(queue, inbox, queue', inbox)
  <2>1. Flows(q, inbox, queue', inbox)
    BY ONLY <1>5, FlowsOn
  <2> QED  BY ONLY <1>3, <2>1, FlowsThen
<1>14. Newer'
  BY <1>0, <1>1, <1>2 DEF ClipboardInv, MarkInv, Newer
<1>15. StaysInv' /\ MarkInv'
  BY <1>0, <1>1, <1>2, <1>13, <1>14 DEF ClipboardInv, StaysInv, MarkInv, Untold, Flows
<1>16. \A w \in Owners : HasClear(q, w) => HasClear(queue', w)
  BY ONLY <1>5, GrownHas
<1>17. ToldInv'
  <2> SUFFICES ASSUME NEW w \in Owners, believes'[w], w # v
               PROVE  HasClear(queue', w) \/ HasClear(inbox, w)
    BY <1>1, <1>2 DEF ToldInv
  <2>1. believes[w]
    BY <1>0, <1>1
  <2>2. owner = w \/ HasClear(queue, w) \/ HasClear(inbox, w)
    BY <2>1 DEF ClipboardInv, ToldInv
  <2>3. CASE owner = w
    BY <1>3, <1>16, <2>3
  <2>4. CASE HasClear(queue, w) \/ HasClear(inbox, w)
    BY <1>13, <2>4 DEF Flows
  <2> QED  BY <2>2, <2>3, <2>4
<1>18. MirroredIsCurrent'
  BY <1>2 DEF ClipboardInv, MirroredIsCurrent
<1> QED  BY <1>6, <1>12, <1>15, <1>17, <1>18 DEF ClipboardInv
-----------------------------------------------------------------------------
(* The conversions.                                                          *)

(* The head of the queue, and what is behind it.                             *)
LEMMA HeadGone ==
  ASSUME ClipboardInv, queue # <<>>
  PROVE  /\ Head(queue) \in QueueType /\ Head(queue) = queue[1] /\ 1 \in 1..Len(queue)
         /\ Tail(queue) \in Seq(QueueType) /\ Shrunk(queue, Tail(queue))
         /\ queue \in Seq(QueueType) /\ inbox \in Seq(InboxType) /\ Len(inbox) \in Nat
         /\ \A s : \A v : Keeps(queue, inbox, Tail(queue), inbox, s, v)
         /\ Head(queue).type \notin {"SDL_CLIPBOARDUPDATE", "SelectionClear"} =>
              Flows(queue, inbox, Tail(queue), inbox)
<1>1. queue \in Seq(QueueType) /\ inbox \in Seq(InboxType) /\ Len(inbox) \in Nat
  BY DEF ClipboardInv, ClipboardTypes
<1>2. /\ Tail(queue) \in Seq(QueueType) /\ Shrunk(queue, Tail(queue))
      /\ Head(queue) \in QueueType /\ Head(queue) = queue[1] /\ Len(queue) \in Nat \ {0}
  BY ONLY <1>1, queue # <<>>, TailShrinks
<1>3. \A s : \A v : Keeps(queue, inbox, Tail(queue), inbox, s, v)
  BY ONLY <1>1, <1>2, DropQueue
<1>4. queue[1].type \notin {"SDL_CLIPBOARDUPDATE", "SelectionClear"} =>
        Flows(queue, inbox, Tail(queue), inbox)
  BY ONLY <1>2, FlowsOn
<1> QED  BY <1>1, <1>2, <1>3, <1>4

(* An event of no consequence is dropped.                                    *)
LEMMA QuietDrop ==
  ASSUME ClipboardInv, queue # <<>>, queue' = Tail(queue),
         Head(queue).type \notin {"SDL_CLIPBOARDUPDATE", "SelectionClear"},
         UNCHANGED <<scenario, owner, fetchVars, incrVars, markVars, store, clientVars,
                     hostClipboardVars, claims, skipped, mirrored>>
  PROVE  ClipboardInv'
<1> USE DEF fetchVars, incrVars, markVars, clientVars, hostClipboardVars
<1>1. /\ queue' \in Seq(QueueType) /\ Flows(queue, inbox, queue', inbox')
      /\ Keeps(queue, inbox, queue', inbox', fetchProperty, owner)
  BY HeadGone
<1>2. ClipboardTypes'
  BY <1>1 DEF ClipboardInv, ClipboardTypes, FetchTypes, IncrTypes, HostTypes
<1>3. FetchInv'
  BY <1>1, FetchKept DEF ClipboardInv
<1>4. StaysInv' /\ MarkInv' /\ ToldInv' /\ MirroredIsCurrent'
  BY <1>1, HostKept DEF ClipboardInv
<1> QED  BY <1>2, <1>3, <1>4 DEF ClipboardInv

(* SDL tells that the host's clipboard changed.                              *)
LEMMA UpdateHolds ==
  ASSUME ClipboardInv, queue # <<>>, Head(queue).type = "SDL_CLIPBOARDUPDATE",
         clipboardHandleExternalUpdate(Tail(queue)),
         UNCHANGED <<scenario, transfer, content, believes, claims>>
  PROVE  ClipboardInv'
<1> DEFINE rest == Tail(queue)
<1>1. /\ rest \in Seq(QueueType) /\ Len(inbox) \in Nat /\ Shrunk(queue, rest)
      /\ Head(queue) = queue[1]
      /\ Keeps(queue, inbox, rest, inbox, fetchProperty, owner)
  BY HeadGone
<1>2. /\ HasTwo(queue) => HasUpdate(rest)
      /\ \A w \in Owners : HasClear(queue, w) => HasClear(rest, w)
  <2>1. \A w \in Owners : queue[1] # SelectionClear(w)
    BY <1>1 DEF SelectionClear
  <2>2. /\ HasTwo(queue) => HasUpdate(rest)
        /\ \A w \in Owners : HasClear(queue, w) => HasClear(rest, w) \/ queue[1] = SelectionClear(w)
    BY ONLY <1>1, ShrunkHas
  <2> QED  BY <2>1, <2>2
<1>3. UNCHANGED <<scenario, transfer, content, believes, claims, everPushed, store, inbox,
                  hostText, news, copies, copiedAt, mirrored>>
  BY DEF clipboardHandleExternalUpdate, hostClipboardVars
<1>4. MirroredIsCurrent'
  BY <1>3 DEF ClipboardInv, MirroredIsCurrent
<1>5. news \in Nat /\ owner \in Owners \union {NoOwner}
  BY DEF ClipboardInv, ClipboardTypes, HostTypes
<1> HIDE DEF rest
<1>6. CASE FirstFetch /\ skipped' = TRUE /\ queue' = rest
           /\ UNCHANGED <<owner, fetchVars, incrVars, lastPushed>>
  <2> USE <1>6 DEF fetchVars, incrVars
  <2>1. ClipboardTypes'
    BY <1>1, <1>3 DEF ClipboardInv, ClipboardTypes, FetchTypes, IncrTypes, HostTypes
  <2>2. FetchInv'
    BY <1>1, <1>3, FetchKept DEF ClipboardInv
  <2>3. lastPushed = NoText
    BY DEF FirstFetch, ClipboardInv, MarkInv
  <2>4. StaysInv' /\ MarkInv'
    BY <1>3, <2>3 DEF ClipboardInv, StaysInv, MarkInv
  <2>5. ToldInv'
    BY <1>2, <1>3 DEF ClipboardInv, ToldInv
  <2> QED  BY <1>4, <2>1, <2>2, <2>4, <2>5 DEF ClipboardInv
<1>7. CASE IsEcho /\ lastPushed' = markAfterEcho /\ queue' = rest
           /\ UNCHANGED <<owner, fetchVars, incrVars, skipped>>
  <2> USE <1>7 DEF fetchVars, incrVars, markAfterEcho
  <2>1. ClipboardTypes'
    BY <1>1, <1>3, TextTypes DEF ClipboardInv, ClipboardTypes, FetchTypes, IncrTypes, HostTypes
  <2>2. FetchInv'
    BY <1>1, <1>3, FetchKept DEF ClipboardInv
  <2>3. UntoldTwice => Untold'
    BY <1>2, <1>3, <1>5 DEF Untold, UntoldTwice
  <2>4. lastPushed # NoText /\ hostText = lastPushed
    BY DEF IsEcho
  <2>5. UntoldTwice \/ owner = NoOwner \/ Newer \/ hostText = Whole(content[owner])
    BY <2>4 DEF ClipboardInv, MarkInv
  <2>6. StaysInv'
    BY <1>3, <2>3, <2>5 DEF StaysInv, Newer
  <2>7. MarkInv'
    BY <1>3 DEF ClipboardInv, MarkInv
  <2>8. ToldInv'
    BY <1>2, <1>3 DEF ClipboardInv, ToldInv
  <2> QED  BY <1>4, <2>1, <2>2, <2>6, <2>7, <2>8 DEF ClipboardInv
<1>8. CASE expireSelectionOwner(rest) /\ lastPushed' = NoText /\ UNCHANGED skipped
  <2>1. owner' = NoOwner
    BY <1>8 DEF expireSelectionOwner
  <2>2. StaysInv' /\ MarkInv'
    BY <1>3, <1>8, <2>1 DEF ClipboardInv, StaysInv, MarkInv
  <2>3. CASE owner = NoOwner
    <3>1. queue' = rest /\ UNCHANGED <<owner, fetchVars, incrVars>>
      BY <1>8, <2>3 DEF expireSelectionOwner
    <3> USE DEF fetchVars, incrVars
    <3>2. ClipboardTypes'
      BY <1>1, <1>3, <1>8, <3>1, TextTypes
      DEF ClipboardInv, ClipboardTypes, FetchTypes, IncrTypes, HostTypes
    <3>3. FetchInv'
      BY <1>1, <1>3, <3>1, FetchKept DEF ClipboardInv
    <3>4. ToldInv'
      BY <1>2, <1>3, <3>1 DEF ClipboardInv, ToldInv
    <3> QED  BY <1>4, <2>2, <3>2, <3>3, <3>4 DEF ClipboardInv
  <2>4. CASE owner # NoOwner
    <3> DEFINE e == SelectionClear(owner)
    <3>1. queue' = Append(rest, e) /\ Abandon
      BY <1>8, <2>4 DEF expireSelectionOwner
    <3>2. e \in QueueType /\ owner \in Owners
      BY <1>5, <2>4, Elements
    <3>3. e = SelectionClear(owner)
      OBVIOUS
    <3> HIDE DEF e
    <3>4. queue' \in Seq(QueueType) /\ Grown(rest, e, queue')
      BY <1>1, <3>1, <3>2, AppendGrows
    <3>5. /\ \A w \in Owners : HasClear(rest, w) => HasClear(queue', w)
          /\ HasClear(queue', owner)
      BY ONLY <3>2, <3>3, <3>4, GrownHas
    <3>6. ClipboardTypes'
      BY <1>3, <1>8, <2>1, <3>1, <3>4, TextTypes
      DEF ClipboardInv, ClipboardTypes, FetchTypes, IncrTypes, HostTypes, Abandon, EndFetch,
          clipboardResetIncr
    <3>7. FetchInv'
      BY <3>1, FetchEnded DEF Abandon, EndFetch, clipboardResetIncr
    <3>8. ToldInv'
      BY <1>2, <1>3, <3>5 DEF ClipboardInv, ToldInv
    <3> QED  BY <1>4, <2>2, <3>6, <3>7, <3>8 DEF ClipboardInv
  <2> QED  BY <2>3, <2>4
<1> QED  BY <1>6, <1>7, <1>8 DEF clipboardHandleExternalUpdate, rest

(* A property of the requestor is deleted.                                   *)
LEMMA DeleteIs ==
  ASSUME NEW slot \in Slots, NEW rest \in Seq(QueueType), store \in [Slots -> Values],
         XDeleteProperty(slot, rest)
  PROVE  /\ store' \in [Slots -> Values] /\ store'[slot] = Nothing
         /\ queue' \in Seq(QueueType)
         /\ Flows(rest, inbox, queue', inbox)
         /\ store[slot] = Nothing => queue' = rest /\ store' = store
         /\ store[slot] # Nothing => Grown(rest, PropertyNotify(slot, "Delete"), queue')
<1> USE DEF XDeleteProperty
<1>1. store' \in [Slots -> Values] /\ store'[slot] = Nothing
  BY TextTypes
<1>2. CASE store[slot] = Nothing
  BY <1>1, <1>2, FlowsAll
<1>3. CASE store[slot] # Nothing
  <2> DEFINE e == PropertyNotify(slot, "Delete")
  <2>1. e \in QueueType /\ queue' = Append(rest, e)
    BY <1>3, Elements
  <2> HIDE DEF e
  <2>2. queue' \in Seq(QueueType) /\ Grown(rest, e, queue')
    BY ONLY <2>1, rest \in Seq(QueueType), AppendGrows
  <2>3. Flows(rest, inbox, queue', inbox)
    BY ONLY <2>2, FlowsOn
  <2> QED  BY <1>1, <1>3, <2>2, <2>3 DEF e
<1> QED  BY <1>2, <1>3
(* An owner declines.                                                        *)
LEMMA DeclinedHolds ==
  ASSUME ClipboardInv, queue # <<>>, Head(queue).type = "SelectionNotify",
         clipboardFetchPending, Declined(Head(queue), Tail(queue)),
         UNCHANGED <<scenario, owner, clientVars, claims, skipped>>
  PROVE  ClipboardInv'
<1> DEFINE e == Head(queue)
           rest == Tail(queue)
<1>1. /\ rest \in Seq(QueueType) /\ Len(inbox) \in Nat
      /\ Flows(queue, inbox, rest, inbox)
      /\ Keeps(queue, inbox, rest, inbox, fetchProperty, owner)
  BY HeadGone
<1>2. UNCHANGED <<markVars, hostClipboardVars, mirrored, incrVars, store>>
  BY DEF Declined, NoPush
<1>3. owner \in Owners /\ fetchProperty \in Slots
  BY DEF ClipboardInv, FetchInv, SlotInv
<1>4. CASE StaleDecline(e)
  BY <1>2, <1>4, QuietDrop DEF Declined
<1>5. CASE ~StaleDecline(e) /\ fetchTarget = "UTF8_STRING" /\ owner # NoOwner
  <2> DEFINE a == SelectionRequest(owner, "STRING", fetchProperty)
  <2>1. /\ fetchTarget' = "STRING" /\ queue' = Append(rest, a)
        /\ UNCHANGED <<clipboardFetchPending, fetchProperty, fetchGen>>
    BY <1>5 DEF Declined
  <2>2. a \in QueueType /\ Asks(a, fetchProperty) /\ a.at = owner
    BY <1>3, Elements DEF Asks, SelectionRequest, Targets
  <2> HIDE DEF a, rest
  <2>3. queue' \in Seq(QueueType) /\ Grown(rest, a, queue')
    BY <1>1, <2>1, <2>2, AppendGrows
  <2>4. /\ AsksOnly(rest, inbox, fetchProperty, owner) =>
             AsksOnly(queue', inbox, fetchProperty, owner)
        /\ NoSigns(rest, inbox, fetchProperty) => NoSigns(queue', inbox, fetchProperty)
        /\ NoAnswers(rest, fetchProperty) => NoAnswers(queue', fetchProperty)
        /\ SignsFirst(rest, inbox, fetchProperty) => SignsFirst(queue', inbox, fetchProperty)
    BY ONLY <1>1, <2>2, <2>3, AddAsk
  <2>5. ClipboardTypes'
    BY <1>2, <2>1, <2>3
    DEF ClipboardInv, ClipboardTypes, FetchTypes, IncrTypes, HostTypes, Targets,
        markVars, hostClipboardVars, incrVars, clientVars
  <2>6. SlotInv'
    BY <1>1, <1>2, <1>3, <2>1, <2>4
    DEF ClipboardInv, FetchInv, SlotInv, Keeps, incrVars, clientVars
  <2>7. Answered(owner)' = Answered(owner)
    BY DEF Answered, style, clientVars
  <2>8. PendingInv'
    BY <1>1, <1>2, <1>3, <2>1, <2>4, <2>7
    DEF ClipboardInv, FetchInv, PendingInv, Keeps, incrVars, clientVars
  <2>9. ~incrActive'
    BY <1>2 DEF ClipboardInv, FetchInv, PendingInv, incrVars
  <2>10. FetchInv'
    BY <2>6, <2>8, <2>9 DEF FetchInv, IncrInv
  <2>11. Flows(queue, inbox, queue', inbox)
    <3>1. Flows(rest, inbox, queue', inbox)
      BY ONLY <2>3, FlowsOn
    <3> QED  BY ONLY <1>1, <3>1, FlowsThen
  <2>12. StaysInv' /\ MarkInv' /\ ToldInv' /\ MirroredIsCurrent'
    BY <1>2, <2>11, HostKept DEF ClipboardInv, clientVars
  <2> QED  BY <2>5, <2>10, <2>12 DEF ClipboardInv
<1>6. CASE ~StaleDecline(e) /\ ~(fetchTarget = "UTF8_STRING" /\ owner # NoOwner)
  <2>1. EndFetch /\ queue' = rest /\ UNCHANGED <<fetchProperty, fetchGen>>
    BY <1>6 DEF Declined
  <2>2. ClipboardTypes'
    BY <1>1, <1>2, <2>1
    DEF ClipboardInv, ClipboardTypes, FetchTypes, IncrTypes, HostTypes, EndFetch,
        markVars, hostClipboardVars, incrVars, clientVars
  <2>3. FetchInv'
    BY <1>2, <2>1, FetchEnded DEF ClipboardInv, FetchInv, PendingInv, EndFetch, incrVars
  <2>4. StaysInv' /\ MarkInv' /\ ToldInv' /\ MirroredIsCurrent'
    BY <1>1, <1>2, <2>1, HostKept DEF ClipboardInv, clientVars
  <2> QED  BY <2>2, <2>3, <2>4 DEF ClipboardInv
<1> QED  BY <1>4, <1>5, <1>6

(* An owner has answered the present fetch.                                  *)
LEMMA ReplyHolds ==
  ASSUME ClipboardInv, queue # <<>>, Head(queue).type = "SelectionNotify",
         clipboardFetchPending, IsReply(Head(queue)),
         clipboardHandleFetchReply(Head(queue).property, Tail(queue)),
         UNCHANGED <<scenario, owner, clientVars, claims, skipped>>
  PROVE  ClipboardInv'
<1> DEFINE rest == Tail(queue)
           s == fetchProperty
<1>1. /\ rest \in Seq(QueueType) /\ Len(inbox) \in Nat
      /\ Flows(queue, inbox, rest, inbox)
      /\ Keeps(queue, inbox, rest, inbox, s, owner)
      /\ Head(queue) = queue[1] /\ 1 \in 1..Len(queue)
  BY HeadGone
<1>2. owner \in Owners /\ s \in Slots /\ AsksOnly(queue, inbox, s, owner)
      /\ \A w \in Owners : transfer[w].slot = s => w = owner
  BY DEF ClipboardInv, FetchInv, SlotInv
<1>3. ~incrActive
  BY DEF ClipboardInv, FetchInv, PendingInv
<1>4. Head(queue).property = s /\ EndFetch /\ UNCHANGED <<fetchProperty, fetchGen>>
  BY DEF IsReply, clipboardHandleFetchReply
<1>5. ~NoAnswers(queue, s)
  BY <1>1, <1>4 DEF NoAnswers, Answers
<1>6. /\ NoSigns(queue, inbox, s) /\ store[s] = Answered(owner)
      /\ transfer[owner].slot = s => transfer[owner].left = ToCome(content[owner], 0)
  BY <1>5 DEF ClipboardInv, FetchInv, PendingInv
<1>7. /\ AsksOnly(rest, inbox, s, owner) /\ NoSigns(rest, inbox, s)
  BY <1>1, <1>2, <1>6 DEF Keeps
<1>8. store \in [Slots -> Values] /\ content[owner] \in Nat /\ news \in Nat
  BY <1>2 DEF ClipboardInv, ClipboardTypes, HostTypes
<1>9. store[s].type \in {"nothing", "text", "INCR", "image"} /\ store[s].data \in Texts
  BY <1>2, <1>8 DEF Values
<1>t. ASSUME queue' \in Seq(QueueType), store' \in [Slots -> Values], IncrTypes', HostTypes'
      PROVE  ClipboardTypes'
  BY <1>4, <1>t DEF ClipboardInv, ClipboardTypes, FetchTypes, EndFetch, clientVars
<1> USE <1>1, <1>4
<1> HIDE DEF rest, s
<1>10. CASE store[s].type = "nothing"
  <2>1. NoPush /\ queue' = rest /\ UNCHANGED <<incrVars, store>>
    BY <1>10 DEF clipboardHandleFetchReply, rest, s
  <2>2. ClipboardTypes'
    BY <1>8, <1>t, <2>1
    DEF ClipboardInv, ClipboardTypes, IncrTypes, HostTypes, NoPush, incrVars, markVars,
        hostClipboardVars
  <2>3. FetchInv'
    BY <1>3, <2>1, FetchEnded DEF EndFetch, incrVars
  <2>4. StaysInv' /\ MarkInv' /\ ToldInv' /\ MirroredIsCurrent'
    BY <2>1, HostKept DEF ClipboardInv, NoPush, clientVars
  <2> QED  BY <2>2, <2>3, <2>4 DEF ClipboardInv
<1>11. CASE store[s].type = "INCR"
  <2>1. /\ incrActive' = TRUE /\ incrProperty' = s /\ incrBuf' = <<>>
        /\ XDeleteProperty(s, rest) /\ NoPush
    BY <1>11 DEF clipboardHandleFetchReply, rest, s
  <2>2. store[s] # Nothing
    BY <1>11 DEF Nothing
  <2>3. /\ store' \in [Slots -> Values] /\ store'[s] = Nothing
        /\ queue' \in Seq(QueueType) /\ Flows(rest, inbox, queue', inbox)
        /\ Grown(rest, PropertyNotify(s, "Delete"), queue')
    BY <1>2, <1>8, <2>1, <2>2, DeleteIs
  <2>4. ClipboardTypes'
    <3>1. IncrTypes'
      BY <1>2, <2>1, TextTypes DEF IncrTypes
    <3>2. HostTypes'
      BY <2>1 DEF ClipboardInv, ClipboardTypes, HostTypes, NoPush, markVars, hostClipboardVars
    <3> QED  BY <1>t, <2>3, <3>1, <3>2
  <2>5. /\ AsksOnly(queue', inbox, s, owner) /\ OneSign(queue', inbox, s, owner)
    <3> DEFINE d == PropertyNotify(s, "Delete")
    <3>1. Frees(d, s) /\ Grown(rest, d, queue')
      BY <2>3 DEF Frees, PropertyNotify
    <3> HIDE DEF d
    <3> QED  BY ONLY <1>1, <1>7, <3>1, AddSign
  <2>6. style[owner] = "incr"
    BY <1>6, <1>11 DEF Answered, Image, TextOf
  <2>7. UNCHANGED <<owner, inbox, transfer, content, style, fetchProperty>>
    BY DEF clientVars, style
  <2>8. SlotInv'
    BY <1>2, <2>5, <2>7 DEF SlotInv, s
  <2>9. PendingInv'
    BY DEF PendingInv, EndFetch
  <2>10. OwnerGoesOn(0)' /\ incrBuf' = Came(content[owner], 0)'
    BY <1>6, <2>1, <2>3, <2>7 DEF OwnerGoesOn, Came, s
  <2>11. IncrInv'
    BY <2>1, <2>5, <2>6, <2>7, <2>10 DEF IncrInv, EndFetch, s
  <2>12. FetchInv'
    BY <2>8, <2>9, <2>11 DEF FetchInv
  <2>13. Flows(queue, inbox, queue', inbox')
    BY <2>3, <2>7, FlowsThen
  <2>14. StaysInv' /\ MarkInv' /\ ToldInv' /\ MirroredIsCurrent'
    BY <2>1, <2>13, HostKept DEF ClipboardInv, NoPush, clientVars
  <2> QED  BY <2>4, <2>12, <2>14 DEF ClipboardInv
<1>12. CASE store[s].type = "image"
  <2>1. XDeleteProperty(s, rest) /\ NoPush /\ UNCHANGED incrVars
    BY <1>12 DEF clipboardHandleFetchReply, rest, s
  <2>3. /\ store' \in [Slots -> Values]
        /\ queue' \in Seq(QueueType) /\ Flows(rest, inbox, queue', inbox)
    BY <1>2, <1>8, <2>1, DeleteIs
  <2>4. ClipboardTypes'
    BY <1>t, <2>1, <2>3
    DEF ClipboardInv, ClipboardTypes, IncrTypes, HostTypes, NoPush, incrVars, markVars,
        hostClipboardVars
  <2>5. FetchInv'
    BY <1>3, <2>1, FetchEnded DEF EndFetch, incrVars
  <2>6. Flows(queue, inbox, queue', inbox')
    BY <2>3, FlowsThen DEF clientVars
  <2>7. StaysInv' /\ MarkInv' /\ ToldInv' /\ MirroredIsCurrent'
    BY <2>1, <2>6, HostKept DEF ClipboardInv, NoPush, clientVars
  <2> QED  BY <2>4, <2>5, <2>7 DEF ClipboardInv
<1>13. CASE store[s].type = "text"
  <2>1. XDeleteProperty(s, rest) /\ pushTextToSdlClipboard(store[s].data) /\ UNCHANGED incrVars
    BY <1>13 DEF clipboardHandleFetchReply, rest, s
  <2>2. store[s].data = Whole(content[owner])
    BY <1>6, <1>13 DEF Answered, Hint, Image, TextOf
  <2>3. /\ store' \in [Slots -> Values]
        /\ queue' \in Seq(QueueType) /\ Flows(rest, inbox, queue', inbox)
    BY <1>2, <1>8, <2>1, DeleteIs
  <2>4. ClipboardTypes'
    <3>1. HostTypes'
      BY <1>8, <1>9, <2>1
      DEF ClipboardInv, ClipboardTypes, HostTypes, pushTextToSdlClipboard
    <3>2. IncrTypes'
      BY <2>1 DEF ClipboardInv, ClipboardTypes, IncrTypes, incrVars
    <3> QED  BY <1>t, <2>3, <3>1, <3>2
  <2>5. FetchInv'
    BY <1>3, <2>1, FetchEnded DEF EndFetch, incrVars
  <2>6. Flows(queue, inbox, queue', inbox')
    BY <2>3, FlowsThen DEF clientVars
  <2>7. StaysInv' /\ MarkInv' /\ ToldInv' /\ MirroredIsCurrent'
    BY <1>2, <1>8, <2>1, <2>2, <2>6, PushKept DEF ClipboardInv, clientVars
  <2> QED  BY <2>4, <2>5, <2>7 DEF ClipboardInv
<1> QED  BY <1>9, <1>10, <1>11, <1>12, <1>13

(* A SelectionNotify is converted.                                           *)
LEMMA NotifyHolds ==
  ASSUME ClipboardInv, queue # <<>>, Head(queue).type = "SelectionNotify",
         Notified(Head(queue), Tail(queue)), UNCHANGED <<owner, inbox, skipped>>,
         UNCHANGED <<scenario, transfer, content, believes, claims>>
  PROVE  ClipboardInv'
<1>0. UNCHANGED <<scenario, owner, clientVars, claims, skipped>>
  BY DEF clientVars
<1>1. CASE ~clipboardFetchPending
  <2>1. NoPush /\ queue' = Tail(queue) /\ UNCHANGED <<fetchVars, incrVars, store>>
    BY <1>1 DEF Notified
  <2> QED  BY <1>0, <2>1, QuietDrop DEF NoPush
<1>2. CASE clipboardFetchPending /\ Head(queue).property = NoSlot
  <2>1. Declined(Head(queue), Tail(queue))
    BY <1>2 DEF Notified
  <2> QED  BY <1>0, <1>2, <2>1, DeclinedHolds
<1>3. CASE clipboardFetchPending /\ Head(queue).property # NoSlot /\ ~IsReply(Head(queue))
  <2>1. NoPush /\ queue' = Tail(queue) /\ UNCHANGED <<fetchVars, incrVars, store>>
    BY <1>3 DEF Notified
  <2> QED  BY <1>0, <2>1, QuietDrop DEF NoPush
<1>4. CASE clipboardFetchPending /\ Head(queue).property # NoSlot /\ IsReply(Head(queue))
  <2>1. clipboardHandleFetchReply(Head(queue).property, Tail(queue))
    BY <1>4 DEF Notified
  <2> QED  BY <1>0, <1>4, <2>1, ReplyHolds
<1>5. clipboardFetchPending \in BOOLEAN
  BY DEF ClipboardInv, ClipboardTypes, FetchTypes
<1> QED  BY <1>1, <1>2, <1>3, <1>4, <1>5
(* A piece of an INCR transfer, its end, or what aborts it.                  *)
LEMMA ChunkHolds ==
  ASSUME ClipboardInv, queue # <<>>, Head(queue).type = "PropertyNotify",
         IsChunk(Head(queue)),
         clipboardHandleIncrChunk(Head(queue).property, Tail(queue)),
         UNCHANGED <<scenario, owner, clientVars, claims, skipped>>
  PROVE  ClipboardInv'
<1> DEFINE rest == Tail(queue)
           s == fetchProperty
<1>1. /\ rest \in Seq(QueueType) /\ Len(inbox) \in Nat
      /\ Flows(queue, inbox, rest, inbox)
      /\ Keeps(queue, inbox, rest, inbox, s, owner)
  BY HeadGone
<1>2. incrActive /\ Head(queue).property = incrProperty
  BY DEF IsChunk
<1>3. /\ ~clipboardFetchPending /\ incrProperty = s
      /\ style[owner] = "incr" /\ OneSign(queue, inbox, s, owner)
  BY <1>2 DEF ClipboardInv, FetchInv, IncrInv
<1>4. PICK k \in {0, 1, 2} :
        /\ incrBuf = Came(content[owner], k)
        /\ k # 0 => NoAsks(queue, inbox, s)
        /\ OwnerGoesOn(k) \/ PieceWaits(k)
  BY <1>2 DEF ClipboardInv, FetchInv, IncrInv
<1>5. owner \in Owners /\ s \in Slots /\ AsksOnly(queue, inbox, s, owner)
      /\ \A w \in Owners : transfer[w].slot = s => w = owner
  BY <1>2 DEF ClipboardInv, FetchInv, SlotInv
<1>6. store \in [Slots -> Values] /\ content[owner] \in Nat /\ news \in Nat
      /\ store[s] \in Values /\ incrBuf \in Texts
  BY <1>5 DEF ClipboardInv, ClipboardTypes, HostTypes, IncrTypes
<1>7. UNCHANGED fetchVars /\ XDeleteProperty(s, rest)
  BY <1>2, <1>3 DEF clipboardHandleIncrChunk
<1>8. /\ store' \in [Slots -> Values] /\ store'[s] = Nothing
      /\ queue' \in Seq(QueueType) /\ Flows(rest, inbox, queue', inbox)
      /\ store[s] = Nothing => queue' = rest /\ store' = store
      /\ store[s] # Nothing => Grown(rest, PropertyNotify(s, "Delete"), queue')
  BY <1>1, <1>5, <1>6, <1>7, DeleteIs
<1>9. Flows(queue, inbox, queue', inbox')
  BY <1>1, <1>8, FlowsThen DEF clientVars
<1>t. ASSUME IncrTypes', HostTypes'
      PROVE  ClipboardTypes'
  BY <1>7, <1>8, <1>t DEF ClipboardInv, ClipboardTypes, FetchTypes, fetchVars, clientVars
<1>n. ASSUME NoPush
      PROVE  HostTypes' /\ StaysInv' /\ MarkInv' /\ ToldInv' /\ MirroredIsCurrent'
  <2>1. HostTypes'
    BY <1>n DEF ClipboardInv, ClipboardTypes, HostTypes, NoPush, markVars, hostClipboardVars
  <2> QED  BY <1>9, <1>n, <2>1, HostKept DEF ClipboardInv, NoPush, clientVars
<1>e. Head(queue).property = s
  BY <1>2, <1>3
<1> HIDE DEF rest, s
<1>10. CASE store[s] = Nothing
  <2>1. NoPush /\ UNCHANGED incrVars
    BY <1>10, <1>e DEF clipboardHandleIncrChunk, Nothing, s
  <2>2. ClipboardTypes'
    BY <1>n, <1>t, <2>1 DEF ClipboardInv, ClipboardTypes, IncrTypes, incrVars
  <2>3. Keeps(queue, inbox, queue', inbox', s, owner)
    BY <1>1, <1>8, <1>10 DEF clientVars
  <2>4. FetchInv'
    BY <1>7, <1>8, <1>10, <2>1, <2>3, FetchKept DEF ClipboardInv, fetchVars, clientVars, s
  <2> QED  BY <1>n, <2>1, <2>2, <2>4 DEF ClipboardInv
<1>11. CASE store[s].type \in {"INCR", "image"}
  <2>1. NoPush /\ clipboardResetIncr
    BY <1>11, <1>e DEF clipboardHandleIncrChunk, Nothing, s
  <2>2. ClipboardTypes'
    BY <1>n, <1>t, <2>1, TextTypes DEF IncrTypes, clipboardResetIncr
  <2>3. FetchInv'
    BY <1>3, <1>7, <2>1, FetchEnded DEF clipboardResetIncr, fetchVars
  <2> QED  BY <1>n, <2>1, <2>2, <2>3 DEF ClipboardInv
<1>12. CASE store[s].type = "text"
  <2>1. PieceWaits(k)
    BY <1>4, <1>12 DEF OwnerGoesOn, Nothing, Hint, s
  <2>2. /\ store[s].data = Piece(content[owner], k)
        /\ NoAsks(queue, inbox, s) /\ NoSigns(queue, inbox, s)
        /\ transfer[owner].slot = s =>
             k < 2 /\ transfer[owner].left = ToCome(content[owner], k + 1)
    BY <2>1 DEF PieceWaits, TextOf, s
  <2>3. store[s] # Nothing
    BY <1>12 DEF Nothing
  <2>4. CASE store[s].data = <<>>
    <3>1. pushTextToSdlClipboard(incrBuf) /\ clipboardResetIncr
      BY <1>12, <1>e, <2>3, <2>4 DEF clipboardHandleIncrChunk, s
    <3>2. k = 2
      <4>1. <<[claim |-> content[owner], piece |-> "head"]>> # <<>>
            /\ <<[claim |-> content[owner], piece |-> "tail"]>> # <<>>
        OBVIOUS
      <4> QED  BY <1>4, <2>2, <2>4, <4>1 DEF Piece
    <3>3. incrBuf = Whole(content[owner])
      BY <1>4, <3>2 DEF Came
    <3>4. ClipboardTypes'
      <4>1. HostTypes'
        BY <1>6, <3>1 DEF ClipboardInv, ClipboardTypes, HostTypes, pushTextToSdlClipboard
      <4>2. IncrTypes'
        BY <3>1, TextTypes DEF IncrTypes, clipboardResetIncr
      <4> QED  BY <1>t, <4>1, <4>2
    <3>5. FetchInv'
      BY <1>3, <1>7, <3>1, FetchEnded DEF clipboardResetIncr, fetchVars
    <3>6. StaysInv' /\ MarkInv' /\ ToldInv' /\ MirroredIsCurrent'
      BY <1>5, <1>6, <1>9, <3>1, <3>3, PushKept DEF ClipboardInv, clientVars
    <3> QED  BY <3>4, <3>5, <3>6 DEF ClipboardInv
  <2>5. CASE store[s].data # <<>>
    <3>1. incrBuf' = incrBuf \o store[s].data /\ NoPush /\ UNCHANGED <<incrActive, incrProperty>>
      BY <1>12, <1>e, <2>3, <2>5 DEF clipboardHandleIncrChunk, s
    <3>2. k \in {0, 1} /\ k + 1 \in {0, 1, 2} /\ k + 1 # 0
      BY <1>4, <2>2, <2>5 DEF Piece
    <3>3. incrBuf' = Came(content[owner], k + 1)
      <4> DEFINE h == [claim |-> content[owner], piece |-> "head"]
                 t == [claim |-> content[owner], piece |-> "tail"]
      <4>1. CASE k = 0
        <5>1. incrBuf = <<>> /\ store[s].data = <<h>> /\ Came(content[owner], k + 1) = <<h>>
          BY <1>4, <2>2, <4>1 DEF Came, Piece
        <5> HIDE DEF h
        <5>2. <<>> \o <<h>> = <<h>>
          OBVIOUS
        <5> QED  BY <3>1, <5>1, <5>2
      <4>2. CASE k = 1
        <5>1. incrBuf = <<h>> /\ store[s].data = <<t>> /\ Came(content[owner], k + 1) = <<h, t>>
          BY <1>4, <2>2, <4>2 DEF Came, Piece, Whole
        <5> HIDE DEF h, t
        <5>2. <<h>> \o <<t>> = <<h, t>>
          <6>1. h \in {h, t} /\ t \in {h, t}
            OBVIOUS
          <6> QED  BY ONLY <6>1, ShortLists
        <5> QED  BY <3>1, <5>1, <5>2
      <4> QED  BY <3>2, <4>1, <4>2
    <3>4. ClipboardTypes'
      <4>1. incrBuf' \in Texts
        BY <1>6, <3>2, <3>3, TextTypes
      <4>2. IncrTypes'
        BY <3>1, <4>1 DEF ClipboardInv, ClipboardTypes, IncrTypes
      <4> QED  BY <1>n, <1>t, <3>1, <4>2
    <3>5. /\ AsksOnly(queue', inbox, s, owner) /\ NoAsks(queue', inbox, s)
          /\ OneSign(queue', inbox, s, owner)
      <4> DEFINE d == PropertyNotify(s, "Delete")
      <4>1. Frees(d, s) /\ Grown(rest, d, queue')
        BY <1>8, <2>3 DEF Frees, PropertyNotify
      <4>2. AsksOnly(rest, inbox, s, owner) /\ NoAsks(rest, inbox, s) /\ NoSigns(rest, inbox, s)
        BY <1>1, <1>5, <2>2 DEF Keeps
      <4> HIDE DEF d
      <4> QED  BY ONLY <1>1, <4>1, <4>2, AddSign
    <3>6. UNCHANGED <<owner, inbox, transfer, content, style, clipboardFetchPending, fetchProperty>>
      BY <1>7 DEF clientVars, style, fetchVars
    <3>7. SlotInv'
      BY <1>5, <3>5, <3>6 DEF SlotInv, s
    <3>8. PendingInv'
      BY <1>3, <3>6 DEF PendingInv
    <3>9. OwnerGoesOn(k + 1)'
      BY <1>8, <2>2, <3>6 DEF OwnerGoesOn, s
    <3>10. IncrInv'
      BY <1>2, <1>3, <3>1, <3>2, <3>3, <3>5, <3>6, <3>9 DEF IncrInv, s
    <3>11. FetchInv'
      BY <3>7, <3>8, <3>10 DEF FetchInv
    <3> QED  BY <1>n, <3>1, <3>4, <3>11 DEF ClipboardInv
  <2> QED  BY <2>4, <2>5
<1>13. CASE store[s].type = "nothing" /\ store[s] # Nothing
  <2>1. OwnerGoesOn(k) \/ PieceWaits(k)
    BY <1>4
  <2> QED  BY <1>13, <2>1 DEF OwnerGoesOn, PieceWaits, Hint, TextOf, s
<1>14. store[s].type \in {"nothing", "text", "INCR", "image"}
  BY <1>6 DEF Values
<1> QED  BY <1>10, <1>11, <1>12, <1>13, <1>14

(* A PropertyNotify is converted: it is about a piece, it passes to those    *)
(* that wait for it, or it is dropped.                                       *)
LEMMA PropertyHolds ==
  ASSUME ClipboardInv, queue # <<>>, Head(queue).type = "PropertyNotify",
         PropertyChanged(Head(queue), Tail(queue)), UNCHANGED <<owner, skipped>>,
         UNCHANGED <<scenario, transfer, content, believes, claims>>
  PROVE  ClipboardInv'
<1> DEFINE e == Head(queue)
           rest == Tail(queue)
           s == fetchProperty
           d == [type |-> "PropertyNotify", to |-> WaitsOn(e.property), property |-> e.property]
<1>1. CASE IsChunk(e)
  <2>1. clipboardHandleIncrChunk(e.property, rest) /\ UNCHANGED inbox
    BY <1>1 DEF PropertyChanged
  <2> QED  BY <1>1, <2>1, ChunkHolds DEF clientVars
<1>2. CASE ~IsChunk(e) /\ ~(GoesThrough(e) /\ WaitsOn(e.property) # {})
  <2>1. queue' = rest /\ inbox' = inbox /\ NoPush /\ UNCHANGED <<fetchVars, incrVars, store>>
    BY <1>2 DEF PropertyChanged
  <2> QED  BY <2>1, QuietDrop DEF NoPush, clientVars
<1>3. CASE ~IsChunk(e) /\ GoesThrough(e) /\ WaitsOn(e.property) # {}
  <2>1. /\ queue' = rest /\ inbox' = Append(inbox, d) /\ NoPush
        /\ UNCHANGED <<fetchVars, incrVars, store>>
    BY <1>3 DEF PropertyChanged
  <2>2. /\ rest \in Seq(QueueType) /\ Len(inbox) \in Nat /\ Len(rest) \in Nat
        /\ inbox \in Seq(InboxType) /\ e \in QueueType /\ Shrunk(queue, rest)
        /\ Flows(queue, inbox, rest, inbox) /\ e = queue[1]
        /\ Keeps(queue, inbox, rest, inbox, s, owner)
    BY HeadGone
  <2>3. e.property \in Slots
    BY <2>2, HeadTypes DEF NoticeType
  <2>4. d \in InboxType
    BY <2>3 DEF WaitsOn, WakeType, InboxType
  <2>5. incrActive /\ e.state = "Delete"
    BY <1>3 DEF GoesThrough
  <2>6. /\ ~clipboardFetchPending /\ incrProperty = s
        /\ style[owner] = "incr" /\ OneSign(queue, inbox, s, owner)
    BY <2>5 DEF ClipboardInv, FetchInv, IncrInv
  <2>7. owner \in Owners /\ s \in Slots /\ AsksOnly(queue, inbox, s, owner)
        /\ \A w \in Owners : transfer[w].slot = s => w = owner
    BY <2>5 DEF ClipboardInv, FetchInv, SlotInv
  <2>8. Frees(e, s) = (e.property = s) /\ (e.property # s => ~Wakes(d, s)) /\ ~Asks(d, s)
    BY <2>5 DEF Frees, Wakes, Asks
  <2>9. e.property = s => Wakes(d, s) /\ d.to = {owner}
    BY <1>3, <2>7 DEF Wakes, WaitsOn
  <2>e. e = queue[1]
    BY <2>2
  <2> HIDE DEF d, e, rest
  <2>10. inbox' \in Seq(InboxType) /\ Grown(inbox, d, inbox')
    BY <2>1, <2>2, <2>4, AppendGrows
  <2>11. ClipboardTypes'
    BY <2>1, <2>2, <2>10
    DEF ClipboardInv, ClipboardTypes, FetchTypes, IncrTypes, HostTypes, NoPush, fetchVars,
        incrVars, markVars, hostClipboardVars
  <2>12. Flows(queue, inbox, queue', inbox')
    <3>1. Flows(rest, inbox, rest, inbox')
      BY ONLY <2>10, FlowsOn
    <3> QED  BY <2>1, <2>2, <3>1, FlowsThen
  <2>13. StaysInv' /\ MarkInv' /\ ToldInv' /\ MirroredIsCurrent'
    BY <2>1, <2>12, HostKept DEF ClipboardInv, NoPush
  <2>14. CASE e.property # s
    <3>1. Keeps(rest, inbox, rest, inbox', s, owner)
      <4>1. ~Asks(d, s) /\ ~Wakes(d, s)
        BY <2>8, <2>14
      <4> QED  BY ONLY <2>2, <2>10, <4>1, AddInbox
    <3>2. Keeps(queue, inbox, queue', inbox', s, owner)
      BY <2>1, <2>2, <3>1, KeepsThen
    <3>3. FetchInv'
      BY <2>1, <3>2, FetchKept DEF ClipboardInv, fetchVars
    <3> QED  BY <2>11, <2>13, <3>3 DEF ClipboardInv
  <2>15. CASE e.property = s
    <3>1. /\ OneSign(rest, inbox', s, owner)
          /\ AsksOnly(queue, inbox, s, owner) => AsksOnly(rest, inbox', s, owner)
          /\ NoAsks(queue, inbox, s) => NoAsks(rest, inbox', s)
      <4>1. Frees(queue[1], s) /\ Wakes(d, s) /\ d.to = {owner}
        BY <2>8, <2>9, <2>15, <2>e
      <4> QED  BY ONLY <2>2, <2>6, <2>10, <4>1, PassSign
    <3>2. PICK k \in {0, 1, 2} :
            /\ incrBuf = Came(content[owner], k)
            /\ k # 0 => NoAsks(queue, inbox, s)
            /\ OwnerGoesOn(k) \/ PieceWaits(k)
      BY <2>5 DEF ClipboardInv, FetchInv, IncrInv
    <3>3. ~NoSigns(queue, inbox, s)
      <4>1. 1 \in 1..Len(queue) /\ Frees(queue[1], s)
        BY <2>2, <2>8, <2>15, <2>e, AtShrunk
      <4> QED  BY <4>1 DEF NoSigns
    <3>4. OwnerGoesOn(k)
      BY <3>2, <3>3 DEF PieceWaits
    <3>5. UNCHANGED <<style, clipboardFetchPending, fetchProperty, incrActive, incrProperty,
                      incrBuf, store>>
      BY <2>1 DEF style, fetchVars, incrVars
    <3>6. OwnerGoesOn(k)'
      BY <3>4, <3>5 DEF OwnerGoesOn
    <3>7. SlotInv'
      BY <2>1, <2>7, <3>1, <3>5 DEF SlotInv
    <3>8. PendingInv'
      BY <2>6, <3>5 DEF PendingInv
    <3>9. IncrInv'
      BY <2>1, <2>5, <2>6, <3>1, <3>2, <3>5, <3>6 DEF IncrInv
    <3>10. FetchInv'
      BY <3>7, <3>8, <3>9 DEF FetchInv
    <3> QED  BY <2>11, <2>13, <3>10 DEF ClipboardInv
  <2> QED  BY <2>14, <2>15
<1> QED  BY <1>1, <1>2, <1>3

(* A client's event passes to it.                                            *)
LEMMA PassHolds ==
  ASSUME ClipboardInv, queue # <<>>, ~ForRequestor(Head(queue)),
         Head(queue).type # "SDL_CLIPBOARDUPDATE",
         inbox' = Append(inbox, Head(queue)), queue' = Tail(queue), NoPush,
         UNCHANGED <<owner, fetchVars, incrVars, store, skipped>>,
         UNCHANGED <<scenario, transfer, content, believes, claims>>
  PROVE  ClipboardInv'
<1> DEFINE e == queue[1]
<1>1. /\ queue' \in Seq(QueueType) /\ Len(inbox) \in Nat /\ Len(queue') \in Nat
      /\ inbox \in Seq(InboxType) /\ e \in QueueType /\ Shrunk(queue, queue')
      /\ e = Head(queue)
      /\ \A s : \A v : Keeps(queue, inbox, queue', inbox, s, v)
  BY HeadGone
<1>2. e.type \in {"SelectionRequest", "SelectionClear"}
  BY <1>1, HeadTypes DEF ForRequestor
<1>3. e \in InboxType
  BY <1>1, <1>2, HeadTypes DEF InboxType
<1>4. inbox' \in Seq(InboxType) /\ Grown(inbox, e, inbox')
  <2>1. inbox' = Append(inbox, e)
    BY <1>1
  <2> HIDE DEF e
  <2> QED  BY ONLY <1>1, <1>3, <2>1, AppendGrows
<1>5. ClipboardTypes'
  BY <1>1, <1>4
  DEF ClipboardInv, ClipboardTypes, FetchTypes, IncrTypes, HostTypes, NoPush, fetchVars,
      incrVars, markVars, hostClipboardVars
<1>6. Flows(queue, inbox, queue', inbox')
  BY <1>1, <1>2, <1>4, FlowsOn
<1>7. StaysInv' /\ MarkInv' /\ ToldInv' /\ MirroredIsCurrent'
  BY <1>6, HostKept DEF ClipboardInv, NoPush
<1>8. Keeps(queue, inbox, queue', inbox', fetchProperty, owner)
  <2>1. CASE e.type = "SelectionRequest"
    BY <1>1, <1>4, <2>1, PassAsk
  <2>2. CASE e.type = "SelectionClear"
    <3>1. ~Asks(e, fetchProperty) /\ ~Wakes(e, fetchProperty)
      BY <2>2 DEF Asks, Wakes
    <3> HIDE DEF e
    <3>2. Keeps(queue', inbox, queue', inbox', fetchProperty, owner)
      BY ONLY <1>1, <1>4, <3>1, AddInbox
    <3> QED  BY <1>1, <3>2, KeepsThen
  <2> QED  BY <1>2, <2>1, <2>2
<1>9. FetchInv'
  BY <1>8, FetchKept DEF ClipboardInv, fetchVars
<1> QED  BY <1>5, <1>7, <1>9 DEF ClipboardInv

(* A turn of the event loop.                                                 *)
LEMMA ConvertHolds ==
  ASSUME ClipboardInv, Convert
  PROVE  ClipboardInv'
<1>0. queue # <<>> /\ UNCHANGED <<scenario, transfer, content, believes, claims>>
  BY DEF Convert
<1>1. CASE Head(queue).type = "SDL_CLIPBOARDUPDATE" /\ clipboardHandleExternalUpdate(Tail(queue))
  BY <1>0, <1>1, UpdateHolds
<1>2. CASE /\ Head(queue).type = "SelectionNotify"
           /\ Notified(Head(queue), Tail(queue)) /\ UNCHANGED <<owner, inbox, skipped>>
  BY <1>0, <1>2, NotifyHolds
<1>3. CASE /\ Head(queue).type = "PropertyNotify"
           /\ PropertyChanged(Head(queue), Tail(queue)) /\ UNCHANGED <<owner, skipped>>
  BY <1>0, <1>3, PropertyHolds
<1>4. CASE /\ ~ForRequestor(Head(queue)) /\ Head(queue).type # "SDL_CLIPBOARDUPDATE"
           /\ inbox' = Append(inbox, Head(queue)) /\ queue' = Tail(queue)
           /\ NoPush /\ UNCHANGED <<owner, fetchVars, incrVars, store, skipped>>
  BY <1>0, <1>4, PassHolds
<1> QED  BY <1>1, <1>2, <1>3, <1>4 DEF Convert
-----------------------------------------------------------------------------
(* The clients' handlers.                                                    *)

(* What is appended to the queue may answer a request for the slot.          *)
LEMMA AddAnswer ==
  ASSUME NEW q, NEW r, NEW b, NEW s, NEW w, NEW e, Grown(q, e, r), Len(b) \in Nat,
         ~Asks(e, s), ~Frees(e, s)
  PROVE  /\ AsksOnly(q, b, s, w) => AsksOnly(r, b, s, w)
         /\ NoSigns(q, b, s) => NoSigns(r, b, s)
         /\ SignsFirst(q, b, s) => SignsFirst(r, b, s)
         /\ OneSign(q, b, s, w) => OneSign(r, b, s, w)
<1> USE DEF Grown
<1>1. AsksOnly(q, b, s, w) => AsksOnly(r, b, s, w)
  BY DEF AsksOnly
<1>2. NoSigns(q, b, s) => NoSigns(r, b, s)
  BY DEF NoSigns
<1>3. SignsFirst(q, b, s) => SignsFirst(r, b, s)
  BY DEF SignsFirst
<1>4. OneSign(q, b, s, w) => OneSign(r, b, s, w)
  BY DEF OneSign
<1> QED  BY <1>1, <1>2, <1>3, <1>4

(* The owner gets to a request, before which every sign came.                *)
LEMMA AskReached ==
  ASSUME NEW q, NEW b, NEW s, NEW w, Len(b) \in Nat \ {0}, Asks(b[1], s)
  PROVE  /\ SignsFirst(q, b, s) => NoSigns(q, b, s)
         /\ ~NoAsks(q, b, s)
         /\ AsksOnly(q, b, s, w) => b[1].at = w
<1>1. 1 \in 1..Len(b) /\ \A i \in 1..Len(b) : ~(i < 1)
  OBVIOUS
<1> QED  BY <1>1 DEF SignsFirst, NoSigns, NoAsks, AsksOnly

(* The owner gets to the one sign, and nothing else is about the slot.       *)
LEMMA SignReached ==
  ASSUME NEW q, NEW b, NEW c, NEW s, NEW w, Len(q) \in Nat, Shrunk(b, c), Wakes(b[1], s)
  PROVE  /\ OneSign(q, b, s, w) =>
              b[1].to = {w} /\ NoAsks(q, c, s) /\ NoSigns(q, c, s)
         /\ ~NoSigns(q, b, s)
<1>1. 1 \in 1..Len(b)
  BY DEF Shrunk
<1>2. \A i \in 1..Len(c) : i + 1 \in 1..Len(b) /\ c[i] = b[i + 1]
  BY AtShrunk
<1>3. \A i \in 1..Len(c) : i + 1 # 1 /\ ~(i + 1 < 1)
  BY DEF Shrunk
<1> QED  BY <1>1, <1>2, <1>3 DEF OneSign, NoAsks, NoSigns

(* The head of the inbox, and what is behind it.                             *)
LEMMA InboxHead ==
  ASSUME ClipboardInv, inbox # <<>>
  PROVE  /\ Head(inbox) \in InboxType /\ Head(inbox) = inbox[1] /\ Len(inbox) \in Nat \ {0}
         /\ Tail(inbox) \in Seq(InboxType) /\ Shrunk(inbox, Tail(inbox))
         /\ Len(Tail(inbox)) \in Nat /\ Len(queue) \in Nat
         /\ queue \in Seq(QueueType) /\ inbox \in Seq(InboxType)
         /\ \A s : \A v : Keeps(queue, inbox, queue, Tail(inbox), s, v)
         /\ Head(inbox).type # "SelectionClear" => Flows(queue, inbox, queue, Tail(inbox))
<1>1. queue \in Seq(QueueType) /\ inbox \in Seq(InboxType) /\ Len(queue) \in Nat
  BY DEF ClipboardInv, ClipboardTypes
<1>2. /\ Tail(inbox) \in Seq(InboxType) /\ Shrunk(inbox, Tail(inbox))
      /\ Head(inbox) \in InboxType /\ Head(inbox) = inbox[1] /\ Len(inbox) \in Nat \ {0}
  BY ONLY <1>1, inbox # <<>>, TailShrinks
<1>3. \A s : \A v : Keeps(queue, inbox, queue, Tail(inbox), s, v)
  BY ONLY <1>1, <1>2, DropInbox
<1>4. inbox[1].type # "SelectionClear" => Flows(queue, inbox, queue, Tail(inbox))
  BY ONLY <1>2, FlowsOn
<1>5. Len(Tail(inbox)) \in Nat
  BY ONLY <1>2
<1> QED  BY <1>1, <1>2, <1>3, <1>4, <1>5

(* A step of a handler that is not about the present fetch.                  *)
LEMMA QuietHandler ==
  ASSUME ClipboardInv, NoPush, queue' \in Seq(QueueType), inbox' \in Seq(InboxType),
         store' \in [Slots -> Values], transfer' \in [Owners -> TransferType],
         Flows(queue, inbox, queue', inbox'),
         clipboardFetchPending \/ incrActive =>
           /\ Keeps(queue, inbox, queue', inbox', fetchProperty, owner)
           /\ store'[fetchProperty] = store[fetchProperty]
           /\ \A w \in Owners :
                transfer'[w].slot = fetchProperty => transfer'[w] = transfer[w],
         UNCHANGED <<scenario, owner, fetchVars, incrVars, content, believes, claims, skipped>>
  PROVE  ClipboardInv'
<1> USE DEF fetchVars, incrVars
<1>1. ClipboardTypes'
  BY DEF ClipboardInv, ClipboardTypes, FetchTypes, IncrTypes, HostTypes, NoPush, markVars,
         hostClipboardVars
<1>2. FetchInv'
  <2>1. CASE clipboardFetchPending \/ incrActive
    BY <2>1, FetchKept DEF ClipboardInv
  <2>2. CASE ~(clipboardFetchPending \/ incrActive)
    BY <2>2, FetchEnded
  <2> QED  BY <2>1, <2>2
<1>3. StaysInv' /\ MarkInv' /\ ToldInv' /\ MirroredIsCurrent'
  BY HostKept DEF ClipboardInv, NoPush
<1> QED  BY <1>1, <1>2, <1>3 DEF ClipboardInv

(* A client learns that it lost the selection.                               *)
LEMMA ClearedHolds ==
  ASSUME ClipboardInv, inbox # <<>>, Head(inbox).type = "SelectionClear",
         believes' = [believes EXCEPT ![Head(inbox).at] = FALSE], inbox' = Tail(inbox),
         UNCHANGED <<queue, store, transfer>>, NoPush,
         UNCHANGED <<scenario, owner, fetchVars, incrVars, content, claims, skipped>>
  PROVE  ClipboardInv'
<1> USE DEF fetchVars, incrVars
<1>1. /\ inbox' \in Seq(InboxType) /\ Shrunk(inbox, inbox') /\ Head(inbox) = inbox[1]
      /\ Keeps(queue, inbox, queue', inbox', fetchProperty, owner)
  BY InboxHead
<1>2. Head(inbox).at \in Owners /\ believes \in [Owners -> BOOLEAN]
  BY InboxHead, HeadTypes DEF ClearType, ClipboardInv, ClipboardTypes
<1>3. ClipboardTypes'
  BY <1>1, <1>2 DEF ClipboardInv, ClipboardTypes, FetchTypes, IncrTypes, HostTypes, NoPush,
     markVars, hostClipboardVars
<1>4. FetchInv'
  BY <1>1, FetchKept DEF ClipboardInv
<1>5. (Untold <=> Untold') /\ (UntoldTwice <=> UntoldTwice')
  BY DEF Untold, UntoldTwice, NoPush, hostClipboardVars
<1>6. StaysInv' /\ MarkInv' /\ MirroredIsCurrent'
  BY <1>5 DEF ClipboardInv, StaysInv, MarkInv, MirroredIsCurrent, Newer, NoPush, markVars,
     hostClipboardVars
<1>7. ToldInv'
  <2> SUFFICES ASSUME NEW w \in Owners, believes'[w]
               PROVE  owner = w \/ HasClear(queue, w) \/ HasClear(inbox', w)
    BY DEF ToldInv
  <2>1. believes[w] /\ w # Head(inbox).at
    BY <1>2
  <2>2. owner = w \/ HasClear(queue, w) \/ HasClear(inbox, w)
    BY <2>1 DEF ClipboardInv, ToldInv
  <2>3. inbox[1] # SelectionClear(w)
    BY <1>1, <2>1 DEF SelectionClear
  <2>4. HasClear(inbox, w) => HasClear(inbox', w) \/ inbox[1] = SelectionClear(w)
    BY ONLY <1>1, w \in Owners, ShrunkHas
  <2> QED  BY <2>2, <2>3, <2>4
<1> QED  BY <1>3, <1>4, <1>6, <1>7 DEF ClipboardInv

(* A write to the requestor, and what the client sends after it.             *)
LEMMA WriteIs ==
  ASSUME ClipboardInv, NEW slot \in Slots, NEW value \in Values, NEW others,
         Write(slot, value, others)
  PROVE  /\ store' \in [Slots -> Values] /\ store'[slot] = value
         /\ \A s \in Slots : s # slot => store'[s] = store[s]
         /\ others = <<>> => /\ queue' \in Seq(QueueType)
                             /\ Grown(queue, PropertyNotify(slot, "NewValue"), queue')
         /\ \A a \in QueueType : others = <<a>> =>
              \E r \in Seq(QueueType) :
                /\ Grown(queue, PropertyNotify(slot, "NewValue"), r)
                /\ queue' \in Seq(QueueType) /\ Grown(r, a, queue')
<1> DEFINE d == PropertyNotify(slot, "NewValue")
<1>1. queue \in Seq(QueueType) /\ store \in [Slots -> Values]
  BY DEF ClipboardInv, ClipboardTypes
<1>2. d \in QueueType
  BY Elements
<1>3. store' = [store EXCEPT ![slot] = value] /\ queue' = queue \o <<d>> \o others
  BY DEF Write
<1>4. /\ store' \in [Slots -> Values] /\ store'[slot] = value
      /\ \A s \in Slots : s # slot => store'[s] = store[s]
  BY <1>1, <1>3
<1> HIDE DEF d
<1>5. Append(queue, d) \in Seq(QueueType) /\ Grown(queue, d, Append(queue, d))
  BY ONLY <1>1, <1>2, AppendGrows
<1>6. queue \o <<d>> \o <<>> = Append(queue, d)
  BY ONLY <1>1, <1>2, WriteAppends
<1>7. ASSUME NEW a \in QueueType, others = <<a>>
      PROVE  \E r \in Seq(QueueType) :
                Grown(queue, d, r) /\ queue' \in Seq(QueueType) /\ Grown(r, a, queue')
  <2> DEFINE r == Append(queue, d)
  <2>1. queue' = Append(r, a)
    <3>1. queue \o <<d>> \o <<a>> = Append(Append(queue, d), a)
      BY ONLY <1>1, <1>2, a \in QueueType, WriteAppends
    <3> QED  BY <1>3, <1>7, <3>1
  <2>2. r \in Seq(QueueType) /\ Grown(queue, d, r)
    BY <1>5
  <2> HIDE DEF r
  <2>3. Append(r, a) \in Seq(QueueType) /\ Grown(r, a, Append(r, a))
    BY ONLY <2>2, a \in QueueType, AppendGrows
  <2> QED  BY <2>1, <2>2, <2>3
<1> QED  BY <1>3, <1>4, <1>5, <1>6, <1>7 DEF d
(* An owner answers with a value of the property that it was given.          *)
LEMMA AnsweredHolds ==
  ASSUME ClipboardInv, inbox # <<>>, Head(inbox).type = "SelectionRequest",
         NEW value \in Values,
         Write(Head(inbox).property, value,
               <<SelectionNotify(Head(inbox).target, Head(inbox).property)>>),
         value = Answered(Head(inbox).at),
         \/ UNCHANGED transfer /\ style[Head(inbox).at] # "incr"
         \/ transfer' = [transfer EXCEPT ![Head(inbox).at] =
              [slot |-> Head(inbox).property, left |-> ToCome(content[Head(inbox).at], 0)]],
         inbox' = Tail(inbox), UNCHANGED believes, NoPush,
         UNCHANGED <<scenario, owner, fetchVars, incrVars, content, claims, skipped>>
  PROVE  ClipboardInv'
<1> DEFINE e == Head(inbox)
           v == e.at
           p == e.property
           d == PropertyNotify(p, "NewValue")
           a == SelectionNotify(e.target, p)
           s == fetchProperty
<1>1. /\ inbox' \in Seq(InboxType) /\ Shrunk(inbox, inbox') /\ e = inbox[1]
      /\ Len(inbox) \in Nat \ {0} /\ Len(inbox') \in Nat /\ Len(queue) \in Nat
      /\ Keeps(queue, inbox, queue, inbox', s, owner)
      /\ Flows(queue, inbox, queue, inbox')
  BY InboxHead
<1>2. v \in Owners /\ p \in Slots /\ e.target \in Targets
  BY InboxHead, HeadTypes DEF RequestType
<1>3. a \in QueueType /\ d \in QueueType
  BY <1>2, Elements
<1>4. /\ store' \in [Slots -> Values] /\ store'[p] = value
      /\ \A x \in Slots : x # p => store'[x] = store[x]
  BY <1>2, WriteIs
<1>5. PICK r \in Seq(QueueType) :
        Grown(queue, d, r) /\ queue' \in Seq(QueueType) /\ Grown(r, a, queue')
  BY <1>2, <1>3, WriteIs
<1>6. transfer \in [Owners -> TransferType] /\ content[v] \in Nat
  BY <1>2 DEF ClipboardInv, ClipboardTypes
<1>7. transfer' \in [Owners -> TransferType]
  <2>1. ToCome(content[v], 0) \in Seq(Texts) \ {<<>>}
    BY <1>6, TextTypes DEF ToCome
  <2>2. [slot |-> p, left |-> ToCome(content[v], 0)] \in TransferType
    BY <1>2, <2>1 DEF TransferType
  <2> QED  BY <1>2, <1>6, <2>2
<1>8. \A w \in Owners : w # v => transfer'[w] = transfer[w]
  BY <1>2, <1>6
<1>9. transfer'[v] = transfer[v] \/ transfer'[v].slot = p
  BY <1>2, <1>6
<1>a. ~Asks(d, s) /\ ~Answers(d, s) /\ ~Frees(d, s) /\ ~Asks(a, s) /\ ~Frees(a, s)
      /\ (p # s => ~Answers(a, s))
  BY NotAbout
<1>v. value = Answered(v)
  OBVIOUS
<1>i. style[v] = "incr" => transfer'[v].slot = p /\ transfer'[v].left = ToCome(content[v], 0)
  BY <1>2, <1>6
<1>k. transfer'[v].slot = p /\ transfer'[v] # transfer[v] => transfer'[v].left = ToCome(content[v], 0)
  BY <1>2, <1>6
<1>10. Flows(queue, inbox, queue', inbox')
  <2> HIDE DEF a, d
  <2>1. Flows(queue, inbox', r, inbox') /\ Flows(r, inbox', queue', inbox')
    BY ONLY <1>5, FlowsOn
  <2> QED  BY ONLY <1>1, <2>1, FlowsThen
<1>11. Keeps(queue, inbox, r, inbox', s, owner)
  <2> HIDE DEF d, s
  <2>1. Keeps(queue, inbox', r, inbox', s, owner)
    BY ONLY <1>1, <1>5, <1>a, AddQueue
  <2> QED  BY ONLY <1>1, <2>1, KeepsThen
<1>12. CASE ~(clipboardFetchPending \/ incrActive) \/ p # s
  <2>1. clipboardFetchPending \/ incrActive =>
           Keeps(queue, inbox, queue', inbox', s, owner)
    <3> HIDE DEF a, s, p
    <3>1. p # s => Keeps(r, inbox', queue', inbox', s, owner)
      BY ONLY <1>1, <1>5, <1>a, AddQueue
    <3> QED  BY <1>11, <1>12, <3>1, KeepsThen
  <2>2. clipboardFetchPending \/ incrActive => s \in Slots
    BY DEF ClipboardInv, FetchInv, SlotInv
  <2>3. clipboardFetchPending \/ incrActive =>
          /\ store'[s] = store[s]
          /\ \A w \in Owners : transfer'[w].slot = s => transfer'[w] = transfer[w]
    BY <1>4, <1>8, <1>9, <1>12, <2>2
  <2> QED  BY <1>1, <1>4, <1>5, <1>7, <1>10, <2>1, <2>3, QuietHandler
<1>13. CASE (clipboardFetchPending \/ incrActive) /\ p = s
  <2>1. owner \in Owners /\ s \in Slots /\ AsksOnly(queue, inbox, s, owner)
        /\ \A w \in Owners : transfer[w].slot = s => w = owner
    BY <1>13 DEF ClipboardInv, FetchInv, SlotInv
  <2>2. Asks(inbox[1], s)
    BY <1>1, <1>13 DEF Asks
  <2>3. /\ SignsFirst(queue, inbox, s) => NoSigns(queue, inbox, s)
        /\ ~NoAsks(queue, inbox, s) /\ inbox[1].at = owner
    <3> HIDE DEF s
    <3> QED  BY ONLY <1>1, <2>1, <2>2, AskReached
  <2>4. v = owner
    BY <1>1, <2>3
  <2>5. /\ AsksOnly(queue', inbox', s, owner)
        /\ NoSigns(queue, inbox, s) => NoSigns(queue', inbox', s)
        /\ SignsFirst(queue, inbox, s) => SignsFirst(queue', inbox', s)
        /\ OneSign(queue, inbox, s, owner) => OneSign(queue', inbox', s, owner)
    <3> HIDE DEF a, s
    <3>1. /\ AsksOnly(r, inbox', s, owner) => AsksOnly(queue', inbox', s, owner)
          /\ NoSigns(r, inbox', s) => NoSigns(queue', inbox', s)
          /\ SignsFirst(r, inbox', s) => SignsFirst(queue', inbox', s)
          /\ OneSign(r, inbox', s, owner) => OneSign(queue', inbox', s, owner)
      BY ONLY <1>1, <1>5, <1>a, AddAnswer
    <3> QED  BY <1>11, <2>1, <3>1 DEF Keeps
  <2>6. UNCHANGED <<owner, content, style, clipboardFetchPending, fetchProperty, incrActive,
                    incrProperty, incrBuf>>
    BY DEF style, fetchVars, incrVars
  <2>7. Answered(owner)' = Answered(owner)
    BY <2>6 DEF Answered
  <2>8. SlotInv'
    BY <1>8, <2>1, <2>4, <2>5, <2>6 DEF SlotInv
  <2>9. store'[s] = Answered(owner)
    BY <1>4, <1>13, <1>v, <2>4
  <2>10. PendingInv'
    <3> SUFFICES ASSUME clipboardFetchPending
                 PROVE  PendingInv'
      BY <2>6 DEF PendingInv
    <3>1. /\ ~incrActive /\ SignsFirst(queue, inbox, s)
          /\ transfer[owner].slot = s => transfer[owner].left = ToCome(content[owner], 0)
      BY DEF ClipboardInv, FetchInv, PendingInv
    <3>2. NoSigns(queue', inbox', s) /\ SignsFirst(queue', inbox', s)
      BY <2>3, <2>5, <3>1
    <3>3. transfer'[owner].slot = s => transfer'[owner].left = ToCome(content[owner], 0)
      BY <1>9, <1>k, <1>13, <2>4, <3>1
    <3> QED  BY <2>6, <2>7, <2>9, <3>1, <3>2, <3>3 DEF PendingInv
  <2>11. IncrInv'
    <3> SUFFICES ASSUME incrActive
                 PROVE  IncrInv'
      BY <2>6 DEF IncrInv
    <3>1. /\ ~clipboardFetchPending /\ incrProperty = s /\ style[owner] = "incr"
          /\ OneSign(queue, inbox, s, owner)
      BY DEF ClipboardInv, FetchInv, IncrInv
    <3>2. PICK k \in {0, 1, 2} :
            /\ incrBuf = Came(content[owner], k)
            /\ k # 0 => NoAsks(queue, inbox, s)
            /\ OwnerGoesOn(k) \/ PieceWaits(k)
      BY DEF ClipboardInv, FetchInv, IncrInv
    <3>3. k = 0
      BY <2>3, <3>2
    <3>4. store'[s] = Hint
      BY <2>9, <3>1 DEF Answered
    <3>5. transfer'[owner].left = ToCome(content[owner], 0)
      BY <1>i, <2>4, <3>1
    <3>6. OwnerGoesOn(0)'
      BY <2>6, <3>4, <3>5 DEF OwnerGoesOn
    <3> QED  BY <2>5, <2>6, <3>1, <3>2, <3>3, <3>6 DEF IncrInv
  <2>12. ClipboardTypes'
    BY <1>1, <1>4, <1>5, <1>7
    DEF ClipboardInv, ClipboardTypes, FetchTypes, IncrTypes, HostTypes, NoPush, fetchVars,
        incrVars, markVars, hostClipboardVars
  <2>13. StaysInv' /\ MarkInv' /\ ToldInv' /\ MirroredIsCurrent'
    BY <1>10, HostKept DEF ClipboardInv, NoPush
  <2> QED  BY <2>8, <2>10, <2>11, <2>12, <2>13 DEF ClipboardInv, FetchInv
<1> QED  BY <1>12, <1>13

(* A client handles a request.                                               *)
LEMMA AnswerHolds ==
  ASSUME ClipboardInv, inbox # <<>>, Head(inbox).type = "SelectionRequest",
         Answer(Head(inbox)), inbox' = Tail(inbox), UNCHANGED believes, NoPush,
         UNCHANGED <<scenario, owner, fetchVars, incrVars, content, claims, skipped>>
  PROVE  ClipboardInv'
<1> DEFINE e == Head(inbox)
           v == e.at
           p == e.property
           s == fetchProperty
           agreed == <<SelectionNotify(e.target, p)>>
<1>1. /\ inbox' \in Seq(InboxType) /\ Len(inbox') \in Nat
      /\ Keeps(queue, inbox, queue, inbox', s, owner)
      /\ Flows(queue, inbox, queue, inbox')
      /\ queue \in Seq(QueueType)
  BY InboxHead
<1>2. v \in Owners /\ p \in Slots /\ e.target \in Targets
  BY InboxHead, HeadTypes DEF RequestType
<1>3. store \in [Slots -> Values] /\ transfer \in [Owners -> TransferType] /\ content[v] \in Nat
  BY <1>2 DEF ClipboardInv, ClipboardTypes
<1>4. CASE queue' = Append(queue, SelectionNotify(e.target, NoSlot)) /\ UNCHANGED <<store, transfer>>
  <2> DEFINE a == SelectionNotify(e.target, NoSlot)
  <2>1. a \in QueueType
    BY <1>2, Elements
  <2>2. ~Asks(a, s) /\ ~Frees(a, s) /\ (NoSlot # s => ~Answers(a, s)) /\ queue' = Append(queue, a)
    BY <1>4, NotAbout
  <2> HIDE DEF a, s
  <2>3. queue' \in Seq(QueueType) /\ Grown(queue, a, queue')
    BY ONLY <1>1, <2>1, <2>2, AppendGrows
  <2>4. Flows(queue, inbox, queue', inbox')
    <3>1. Flows(queue, inbox', queue', inbox')
      BY ONLY <2>3, FlowsOn
    <3> QED  BY ONLY <1>1, <3>1, FlowsThen
  <2>5. NoSlot # s => Keeps(queue, inbox, queue', inbox', s, owner)
    <3>1. NoSlot # s => Keeps(queue, inbox', queue', inbox', s, owner)
      BY ONLY <1>1, <2>2, <2>3, AddQueue
    <3> QED  BY ONLY <1>1, <3>1, KeepsThen
  <2>6. clipboardFetchPending \/ incrActive => NoSlot # s
    BY SlotTypes DEF ClipboardInv, FetchInv, SlotInv, s
  <2> QED  BY <1>1, <1>3, <1>4, <2>3, <2>4, <2>5, <2>6, QuietHandler DEF s
<1>5. CASE UNCHANGED <<queue, store, transfer>>
  BY <1>1, <1>3, <1>5, QuietHandler
<1>6. CASE /\ Accepts(v, e.target) /\ style[v] \in {"text", "legacy"}
           /\ Write(p, TextOf(Whole(content[v])), agreed) /\ UNCHANGED transfer
  <2>1. TextOf(Whole(content[v])) \in Values
    BY <1>3, TextTypes
  <2>2. TextOf(Whole(content[v])) = Answered(v) /\ style[v] # "incr"
    BY <1>6 DEF Answered
  <2> QED  BY <1>6, <2>1, <2>2, AnsweredHolds
<1>7. CASE style[v] = "image" /\ Write(p, Image, agreed) /\ UNCHANGED transfer
  <2>1. Image = Answered(v) /\ style[v] # "incr" /\ Image \in Values
    BY <1>7, TextTypes DEF Answered
  <2> QED  BY <1>7, <2>1, AnsweredHolds
<1>8. CASE /\ style[v] = "incr" /\ Write(p, Hint, agreed)
           /\ transfer' = [transfer EXCEPT ![v] =
                [slot |-> p, left |-> [i \in 1..2 |-> <<Whole(content[v])[i]>>] \o <<<<>>>>]]
  <2>1. Hint = Answered(v) /\ Hint \in Values
    BY <1>8, TextTypes DEF Answered
  <2>2. [i \in 1..2 |-> <<Whole(content[v])[i]>>] \o <<<<>>>> = ToCome(content[v], 0)
    BY <1>3, PiecesOf
  <2>3. transfer' = [transfer EXCEPT ![v] = [slot |-> p, left |-> ToCome(content[v], 0)]]
    BY <1>8, <2>2, Zenon
  <2> QED  BY <1>8, <2>1, <2>3, AnsweredHolds
<1> QED  BY <1>4, <1>5, <1>6, <1>7, <1>8 DEF Answer

(* A sequence with something in it is not the empty one.                     *)
LEMMA LongIsSome ==
  ASSUME NEW q, Len(q) > 0
  PROVE  q # <<>>
OBVIOUS

(* A client that waited to go on gets the sign to.                           *)
LEMMA GoOnHolds ==
  ASSUME ClipboardInv, inbox # <<>>, Head(inbox).type = "PropertyNotify",
         NEW v \in Head(inbox).to,
         IF transfer[v].slot = Head(inbox).property
           THEN /\ Write(Head(inbox).property, TextOf(Head(transfer[v].left)), <<>>)
                /\ transfer' = [transfer EXCEPT ![v] =
                     IF Len(@.left) = 1 THEN NoTransfer ELSE [slot |-> @.slot, left |-> Tail(@.left)]]
           ELSE UNCHANGED <<queue, store, transfer>>,
         inbox' = IF Head(inbox).to = {v} THEN Tail(inbox)
                  ELSE <<[Head(inbox) EXCEPT !.to = @ \ {v}]>> \o Tail(inbox),
         UNCHANGED believes, NoPush,
         UNCHANGED <<scenario, owner, fetchVars, incrVars, content, claims, skipped>>
  PROVE  ClipboardInv'
<1> DEFINE e == Head(inbox)
           p == e.property
           s == fetchProperty
           x == [e EXCEPT !.to = @ \ {v}]
<1>1. /\ Tail(inbox) \in Seq(InboxType) /\ Shrunk(inbox, Tail(inbox)) /\ e = inbox[1]
      /\ Len(Tail(inbox)) \in Nat /\ Len(queue) \in Nat /\ inbox \in Seq(InboxType)
      /\ queue \in Seq(QueueType)
      /\ Keeps(queue, inbox, queue, Tail(inbox), s, owner)
      /\ Flows(queue, inbox, queue, Tail(inbox))
  BY InboxHead
<1>2. e \in WakeType /\ v \in Owners /\ p \in Slots
  BY InboxHead, HeadTypes DEF WakeType
<1>3. store \in [Slots -> Values] /\ transfer \in [Owners -> TransferType]
  BY DEF ClipboardInv, ClipboardTypes
<1>4. /\ inbox' \in Seq(InboxType) /\ Len(inbox') \in Nat
      /\ Keeps(queue, inbox, queue, inbox', s, owner)
      /\ Flows(queue, inbox, queue, inbox')
  <2>1. CASE e.to = {v}
    BY <1>1, <2>1
  <2>2. CASE e.to # {v}
    <3>1. /\ x \in InboxType /\ x.type = "PropertyNotify" /\ x.property = e.property
          /\ x.to = e.to \ {v} /\ x.to # {} /\ inbox' = <<x>> \o Tail(inbox)
          /\ inbox[1].type = "PropertyNotify"
      BY <1>1, <1>2, <2>2 DEF WakeType, InboxType
    <3>2. v \in inbox[1].to /\ x.to = inbox[1].to \ {v} /\ x.property = inbox[1].property
      BY <1>1, <3>1
    <3> HIDE DEF x, s
    <3>3. inbox' \in Seq(InboxType) /\ Swapped(inbox, x, inbox')
      BY ONLY <1>1, <3>1, inbox # <<>>, HeadSwaps
    <3>4. Keeps(queue, inbox, queue, inbox', s, owner)
      BY ONLY <1>1, <3>1, <3>2, <3>3, SwapInbox
    <3>5. Flows(queue, inbox, queue, inbox')
      BY ONLY <3>1, <3>3, SwapFlows
    <3>6. Len(inbox') \in Nat
      BY <3>3
    <3> QED  BY <3>3, <3>4, <3>5, <3>6
  <2> QED  BY <2>1, <2>2
<1>5. CASE transfer[v].slot # p
  <2>1. UNCHANGED <<queue, store, transfer>>
    BY <1>5
  <2> QED  BY <1>1, <1>3, <1>4, <2>1, QuietHandler
<1>6. CASE transfer[v].slot = p
  <2> DEFINE left == transfer[v].left
             d == PropertyNotify(p, "NewValue")
             u == IF Len(left) = 1 THEN NoTransfer ELSE [slot |-> p, left |-> Tail(left)]
  <2>1. left \in Seq(Texts) \ {<<>>} /\ transfer[v] = [slot |-> p, left |-> left]
    BY <1>2, <1>3, <1>6, SlotTypes DEF TransferType, NoTransfer
  <2>a. /\ Write(p, TextOf(Head(transfer[v].left)), <<>>)
        /\ transfer' = [transfer EXCEPT ![v] =
             IF Len(@.left) = 1 THEN NoTransfer ELSE [slot |-> @.slot, left |-> Tail(@.left)]]
    BY <1>6, Zenon
  <2>b. /\ transfer'[v] = u
        /\ DOMAIN transfer' = Owners
        /\ \A w \in Owners : w # v => transfer'[w] = transfer[w]
        /\ transfer' = [w \in Owners |-> transfer'[w]]
    <3>1. DOMAIN transfer = Owners /\ v \in DOMAIN transfer
      BY <1>2, <1>3
    <3>2. u = IF Len(left) = 1 THEN NoTransfer ELSE [slot |-> p, left |-> Tail(left)]
      OBVIOUS
    <3> HIDE DEF u, left
    <3>3. transfer[v] = [slot |-> p, left |-> left]
      BY <2>1
    <3> HIDE DEF p
    <3>4. /\ DOMAIN transfer' = DOMAIN transfer /\ transfer'[v] = u
          /\ \A w \in DOMAIN transfer : w # v => transfer'[w] = transfer[w]
          /\ transfer' = [w \in DOMAIN transfer |-> transfer'[w]]
      <4>1. transfer' = [transfer EXCEPT ![v] =
              IF Len(@.left) = 1 THEN NoTransfer ELSE [slot |-> @.slot, left |-> Tail(@.left)]]
        BY ONLY <2>a, Zenon
      <4>2. v \in DOMAIN transfer
        BY ONLY <3>1
      <4>3. transfer[v].slot = p /\ transfer[v].left = left
        BY ONLY <3>3
      <4>4. u = IF Len(transfer[v].left) = 1 THEN NoTransfer
                ELSE [slot |-> transfer[v].slot, left |-> Tail(transfer[v].left)]
        BY ONLY <3>2, <4>3, Zenon
      <4>5. transfer' = [transfer EXCEPT ![v] = u]
        BY ONLY <4>1, <4>4, Zenon
      <4> DEFINE g == transfer'
      <4> HIDE DEF g
      <4>6. g = [transfer EXCEPT ![v] = u]
        BY ONLY <4>5 DEF g
      <4>7. /\ DOMAIN g = DOMAIN transfer /\ g[v] = u
            /\ \A w \in DOMAIN transfer : w # v => g[w] = transfer[w]
            /\ g = [w \in DOMAIN transfer |-> g[w]]
        BY ONLY <4>2, <4>6
      <4> QED  BY ONLY <4>7 DEF g
    <3> QED  BY ONLY <3>1, <3>4
  <2>2. Write(p, TextOf(Head(left)), <<>>) /\ transfer'[v] = u
    BY <2>a, <2>b, Zenon
  <2>n. NoTransfer.slot = NoSlot
    BY DEF NoTransfer
  <2> HIDE DEF left
  <2>3. u \in TransferType /\ u.slot \in {p, NoSlot}
        /\ (u.slot # NoSlot => Len(left) # 1 /\ u.left = Tail(left))
    <3>1. CASE Len(left) = 1
      <4>1. NoTransfer \in TransferType
        BY DEF TransferType
      <4>2. u = NoTransfer
        BY <3>1
      <4> HIDE DEF u
      <4> QED  BY <2>n, <4>1, <4>2
    <3>2. CASE Len(left) # 1
      <4>1. Tail(left) \in Seq(Texts) \ {<<>>}
        <5>1. Len(left) > 1 /\ left \in Seq(Texts)
          BY <2>1, <3>2
        <5>2. Tail(left) \in Seq(Texts) /\ Len(Tail(left)) > 0
          BY <5>1
        <5>3. Tail(left) # <<>>
          <6> DEFINE t == Tail(left)
          <6> HIDE DEF t
          <6>1. Len(t) > 0
            BY <5>2 DEF t
          <6>2. t # <<>>
            BY ONLY <6>1, LongIsSome
          <6> QED  BY ONLY <6>2 DEF t
        <5> QED  BY <5>2, <5>3
      <4>2. u = [slot |-> p, left |-> Tail(left)]
        BY <3>2
      <4> HIDE DEF u
      <4>3. u.slot = p /\ u.left = Tail(left)
        BY ONLY <4>2
      <4>4. u \in TransferType
        BY <1>2, <4>1, <4>2 DEF TransferType
      <4> QED  BY ONLY <3>2, <4>3, <4>4
    <3> QED  BY <3>1, <3>2
  <2>4. transfer' \in [Owners -> TransferType] /\ transfer'[v] = u
        /\ \A w \in Owners : w # v => transfer'[w] = transfer[w]
    <3> HIDE DEF u
    <3>1. \A w \in Owners : transfer'[w] \in TransferType
      <4> SUFFICES ASSUME NEW w \in Owners
                   PROVE  transfer'[w] \in TransferType
        OBVIOUS
      <4>1. CASE w = v
        BY ONLY <2>b, <2>3, <4>1
      <4>2. CASE w # v
        <5>1. transfer[w] \in TransferType
          BY <1>3
        <5> QED  BY ONLY <2>b, <4>2, <5>1, w \in Owners
      <4> QED  BY ONLY <4>1, <4>2
    <3> QED  BY ONLY <2>b, <3>1
  <2>5. TextOf(Head(left)) \in Values
    <3>1. Head(left) \in Texts
      BY <2>1
    <3> QED  BY <3>1, TextTypes
  <2>6. /\ store' \in [Slots -> Values] /\ store'[p] = TextOf(Head(left))
        /\ \A z \in Slots : z # p => store'[z] = store[z]
        /\ queue' \in Seq(QueueType) /\ Grown(queue, d, queue')
    BY <1>2, <2>2, <2>5, WriteIs
  <2>7. ~Asks(d, s) /\ ~Answers(d, s) /\ ~Frees(d, s)
    BY NotAbout
  <2> HIDE DEF d, u, left
  <2>8. Keeps(queue, inbox', queue', inbox', s, owner) /\ Flows(queue, inbox', queue', inbox')
    <3> HIDE DEF s
    <3>1. Keeps(queue, inbox', queue', inbox', s, owner)
      BY ONLY <1>4, <2>6, <2>7, AddQueue
    <3>2. Flows(queue, inbox', queue', inbox')
      BY ONLY <2>6, FlowsOn
    <3> QED  BY <3>1, <3>2
  <2>9. Keeps(queue, inbox, queue', inbox', s, owner)
    BY <1>4, <2>8, KeepsThen
  <2>10. Flows(queue, inbox, queue', inbox')
    BY <1>4, <2>8, FlowsThen
  <2>11. CASE ~(clipboardFetchPending \/ incrActive) \/ p # s
    <3>1. clipboardFetchPending \/ incrActive => s \in Slots
      BY DEF ClipboardInv, FetchInv, SlotInv
    <3>2. clipboardFetchPending \/ incrActive =>
            /\ store'[s] = store[s]
            /\ \A w \in Owners : transfer'[w].slot = s => transfer'[w] = transfer[w]
      <4> SUFFICES ASSUME clipboardFetchPending \/ incrActive
                   PROVE  /\ store'[s] = store[s]
                          /\ \A w \in Owners : transfer'[w].slot = s => transfer'[w] = transfer[w]
        OBVIOUS
      <4>1. p # s /\ s \in Slots /\ s # NoSlot
        BY <2>11, <3>1, SlotTypes
      <4>2. store'[s] = store[s]
        BY <2>6, <4>1
      <4>3. transfer'[v].slot # s
        <5> HIDE DEF s, u
        <5> QED  BY ONLY <2>3, <2>4, <4>1
      <4> QED  BY <2>4, <4>2, <4>3
    <3> QED  BY <1>4, <2>4, <2>6, <2>9, <2>10, <3>2, QuietHandler
  <2>12. CASE (clipboardFetchPending \/ incrActive) /\ p = s
    <3>1. owner \in Owners /\ s \in Slots /\ AsksOnly(queue, inbox, s, owner)
          /\ \A w \in Owners : transfer[w].slot = s => w = owner
      BY <2>12 DEF ClipboardInv, FetchInv, SlotInv
    <3>2. v = owner /\ transfer[owner].slot = s
      BY <1>2, <1>6, <2>12, <3>1
    <3>3. Wakes(inbox[1], s)
      BY <1>1, <2>12 DEF Wakes
    <3>4. /\ OneSign(queue, inbox, s, owner) =>
               /\ inbox[1].to = {owner}
               /\ NoAsks(queue, Tail(inbox), s) /\ NoSigns(queue, Tail(inbox), s)
          /\ ~NoSigns(queue, inbox, s)
      <4> DEFINE c == Tail(inbox)
      <4> HIDE DEF c, s
      <4> QED  BY ONLY <1>1, <3>3, SignReached DEF c
    <3>5. ~clipboardFetchPending
      BY <3>2, <3>4 DEF ClipboardInv, FetchInv, PendingInv
    <3>6. incrActive
      BY <2>12, <3>5
    <3>7. /\ incrProperty = s /\ style[owner] = "incr" /\ OneSign(queue, inbox, s, owner)
      BY <3>6 DEF ClipboardInv, FetchInv, IncrInv
    <3>8. PICK k \in {0, 1, 2} :
            /\ incrBuf = Came(content[owner], k)
            /\ k # 0 => NoAsks(queue, inbox, s)
            /\ OwnerGoesOn(k) \/ PieceWaits(k)
      BY <3>6 DEF ClipboardInv, FetchInv, IncrInv
    <3>9. OwnerGoesOn(k)
      BY <3>4, <3>8 DEF PieceWaits
    <3>10. left = ToCome(content[owner], k)
      BY <3>2, <3>9 DEF OwnerGoesOn, left
    <3>11. /\ Head(left) = Piece(content[owner], k)
           /\ k = 2 => Len(left) = 1
           /\ k # 2 => k < 2 /\ Tail(left) = ToCome(content[owner], k + 1)
      <4> DEFINE h == Piece(content[owner], 0)
                 t == Piece(content[owner], 1)
                 z == Piece(content[owner], 2)
      <4>1. /\ ToCome(content[owner], 0) = <<h, t, z>>
            /\ ToCome(content[owner], 1) = <<t, z>>
            /\ ToCome(content[owner], 2) = <<z>>
        BY DEF ToCome
      <4>2. CASE k = 0
        <5>1. left = <<h, t, z>> /\ ToCome(content[owner], k + 1) = <<t, z>>
          BY <3>10, <4>1, <4>2
        <5>2. Head(left) = h /\ Tail(left) = <<t, z>>
          <6> HIDE DEF h, t, z
          <6> QED  BY <5>1
        <5> QED  BY <4>2, <5>1, <5>2
      <4>3. CASE k = 1
        <5>1. left = <<t, z>> /\ ToCome(content[owner], k + 1) = <<z>>
          BY <3>10, <4>1, <4>3
        <5>2. Head(left) = t /\ Tail(left) = <<z>>
          <6> HIDE DEF h, t, z
          <6> QED  BY <5>1
        <5> QED  BY <4>3, <5>1, <5>2
      <4>4. CASE k = 2
        <5>1. left = <<z>>
          BY <3>10, <4>1, <4>4
        <5>2. Head(left) = z /\ Len(left) = 1
          <6> HIDE DEF z
          <6> QED  BY <5>1
        <5> QED  BY <4>4, <5>2
      <4> QED  BY <4>2, <4>3, <4>4
    <3>12. inbox' = Tail(inbox)
      BY <1>1, <3>2, <3>4, <3>7
    <3>13. NoAsks(queue', inbox', s) /\ NoSigns(queue', inbox', s)
           /\ AsksOnly(queue', inbox', s, owner) /\ OneSign(queue', inbox', s, owner)
      BY <2>8, <2>9, <3>1, <3>4, <3>7, <3>12 DEF Keeps
    <3>14. UNCHANGED <<owner, content, style, clipboardFetchPending, fetchProperty, incrActive,
                       incrProperty, incrBuf>>
      BY DEF style, fetchVars, incrVars
    <3>15. \A w \in Owners : transfer'[w].slot = s => w = owner
      BY <2>4, <3>1, <3>2
    <3>16. SlotInv'
      BY <3>1, <3>13, <3>14, <3>15 DEF SlotInv
    <3>17. PendingInv'
      BY <3>5, <3>14 DEF PendingInv
    <3>18. PieceWaits(k)'
      <4>1. store'[s] = TextOf(Piece(content[owner], k))
        BY <2>6, <2>12, <3>11
      <4>2. transfer'[owner].slot = s =>
              k < 2 /\ transfer'[owner].left = ToCome(content[owner], k + 1)
        <5>1. s # NoSlot /\ transfer'[owner] = u
          BY <2>4, <3>1, <3>2, SlotTypes
        <5> HIDE DEF u, s
        <5> QED  BY ONLY <2>3, <3>8, <3>11, <5>1, <3>2, <1>2
      <4> QED  BY <3>13, <3>14, <4>1, <4>2 DEF PieceWaits
    <3>19. IncrInv'
      BY <3>5, <3>6, <3>7, <3>8, <3>13, <3>14, <3>18 DEF IncrInv
    <3>20. ClipboardTypes'
      BY <1>4, <2>4, <2>6
      DEF ClipboardInv, ClipboardTypes, FetchTypes, IncrTypes, HostTypes, NoPush, fetchVars,
          incrVars, markVars, hostClipboardVars
    <3>21. StaysInv' /\ MarkInv' /\ ToldInv' /\ MirroredIsCurrent'
      BY <2>10, HostKept DEF ClipboardInv, NoPush
    <3> QED  BY <3>16, <3>17, <3>19, <3>20, <3>21 DEF ClipboardInv, FetchInv
  <2> QED  BY <2>11, <2>12
<1> QED  BY <1>5, <1>6

(* A client handles an event.                                                *)
LEMMA HandleHolds ==
  ASSUME ClipboardInv, Handle
  PROVE  ClipboardInv'
<1>0. inbox # <<>> /\ NoPush
      /\ UNCHANGED <<scenario, owner, fetchVars, incrVars, content, claims, skipped>>
  BY DEF Handle
<1>1. CASE /\ Head(inbox).type = "SelectionRequest" /\ Answer(Head(inbox))
           /\ inbox' = Tail(inbox) /\ UNCHANGED believes
  BY <1>0, <1>1, AnswerHolds
<1>2. CASE /\ Head(inbox).type = "SelectionClear"
           /\ believes' = [believes EXCEPT ![Head(inbox).at] = FALSE]
           /\ inbox' = Tail(inbox) /\ UNCHANGED <<queue, store, transfer>>
  BY <1>0, <1>2, ClearedHolds
<1>3. ASSUME Head(inbox).type = "PropertyNotify", NEW v \in Head(inbox).to,
             IF transfer[v].slot = Head(inbox).property
               THEN /\ Write(Head(inbox).property, TextOf(Head(transfer[v].left)), <<>>)
                    /\ transfer' = [transfer EXCEPT ![v] =
                         IF Len(@.left) = 1 THEN NoTransfer ELSE [slot |-> @.slot, left |-> Tail(@.left)]]
               ELSE UNCHANGED <<queue, store, transfer>>,
             inbox' = IF Head(inbox).to = {v} THEN Tail(inbox)
                      ELSE <<[Head(inbox) EXCEPT !.to = @ \ {v}]>> \o Tail(inbox),
             UNCHANGED believes
      PROVE  ClipboardInv'
  BY <1>0, <1>3, GoOnHolds
<1> QED  BY <1>1, <1>2, <1>3 DEF Handle

(* Every step keeps the invariant.                                           *)
LEMMA ClipboardStep ==
  ASSUME ClipboardInv, OwnersTimeOut, [ClipboardNext]_clipboardVars
  PROVE  ClipboardInv'
<1>1. ASSUME NEW w \in Owners, XSetSelectionOwner(w)
      PROVE  ClipboardInv'
  BY <1>1, ClaimHolds
<1>2. ASSUME NEW w \in Owners, GiveUp(w)
      PROVE  ClipboardInv'
  BY <1>2, GiveUpHolds
<1>3. ASSUME NEW c \in 0..claims, HostCopy(Whole(c))
      PROVE  ClipboardInv'
  BY <1>3, CopyHolds
<1>4. CASE Disown
  BY <1>4, DisownHolds
<1>5. CASE Convert
  BY <1>5, ConvertHolds
<1>6. CASE Handle
  BY <1>6, HandleHolds
<1>7. CASE HostTells
  BY <1>7, TellsHolds
<1>8. CASE UNCHANGED clipboardVars
  BY <1>8, StutterHolds
<1> QED  BY <1>1, <1>2, <1>3, <1>4, <1>5, <1>6, <1>7, <1>8 DEF ClipboardNext

-----------------------------------------------------------------------------
ClipboardSpec == ClipboardInit /\ [][ClipboardNext]_clipboardVars

(* What the invariant says of the host: its third part is about a queue      *)
(* without an update.                                                        *)
LEMMA InvariantFollows == ClipboardInv => HostFollowsOwner
<1> SUFFICES ASSUME ClipboardInv
             PROVE  HostFollowsOwner
  OBVIOUS
<1>1. queue \in Seq(QueueType) /\ inbox \in Seq(InboxType) /\ news \in Nat
  BY DEF ClipboardInv, ClipboardTypes, HostTypes
<1>2. LosersAreTold
  <2>1. \A w \in Owners : HasClear(queue, w) => SelectionClear(w) \in Range(queue)
    BY <1>1 DEF HasClear, ClearAt, Range
  <2>2. \A w \in Owners : HasClear(inbox, w) => SelectionClear(w) \in Range(inbox)
    BY <1>1 DEF HasClear, ClearAt, Range
  <2> QED  BY <2>1, <2>2 DEF LosersAreTold, ClipboardInv, ToldInv
<1>3. HasUpdate(queue) => Update \in Range(queue)
  <2> SUFFICES ASSUME NEW i \in 1..Len(queue), queue[i].type = "SDL_CLIPBOARDUPDATE"
               PROVE  Update \in Range(queue)
    BY DEF HasUpdate, UpdateAt
  <2>1. queue[i] \in QueueType
    BY <1>1
  <2>2. queue[i] \in UpdateType
    BY <2>1, HeadTypes
  <2>3. queue[i] = Update
    BY <2>2 DEF UpdateType, Update
  <2> QED  BY <1>1, <2>3 DEF Range
<1>4. HostChangeRevokes
  BY <1>1, <1>3 DEF HostChangeRevokes, ClipboardInv, StaysInv, Untold, Newer
<1> QED  BY <1>2, <1>4 DEF HostFollowsOwner, ClipboardInv

(* The invariant of the clipboard and its mirror, of any owners, however     *)
(* they answer, and any number of claims and copies, if an owner abandons a  *)
(* transfer that nobody reads (XSetSelectionOwner, convertEvent,             *)
(* clipboardConsumeInternalEvent).                                           *)
THEOREM ClipboardInvariant == OwnersTimeOut => (ClipboardSpec => []ClipboardInv)
<1> SUFFICES ASSUME OwnersTimeOut
             PROVE  ClipboardSpec => []ClipboardInv
  OBVIOUS
<1>1. ClipboardInit => ClipboardInv
  BY InitHolds
<1>2. ClipboardInv /\ [ClipboardNext]_clipboardVars => ClipboardInv'
  BY ClipboardStep
<1> QED  BY <1>1, <1>2, PTL DEF ClipboardSpec

(* What is written to the host's clipboard is the whole text of the owner at *)
(* that moment, who loses the selection is told, and a copy by another       *)
(* program revokes an owner (clipboardHandleFetchReply,                      *)
(* clipboardHandleIncrChunk, expireSelectionOwner).                          *)
THEOREM HostTheorem == OwnersTimeOut => (ClipboardSpec => []HostFollowsOwner)
<1> SUFFICES ASSUME OwnersTimeOut
             PROVE  ClipboardSpec => []HostFollowsOwner
  OBVIOUS
<1>1. ClipboardSpec => []ClipboardInv
  BY ClipboardInvariant
<1> QED  BY <1>1, InvariantFollows, PTL

=============================================================================
