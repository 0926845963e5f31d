------------------------- MODULE EventQueue_proofs -------------------------
(***************************************************************************)
(* Proofs about the event queue, for any threads, calls, windows and kinds  *)
(* of events: no event is lost or delivered twice.                          *)
(***************************************************************************)
EXTENDS EventQueue, FiniteSetTheorems, SequenceTheorems, TLAPS

(* The types.  Only what no thread has converted yet is of another kind than *)
(* "plain".                                                                  *)
EventType ==
  [id : Nat, win : Windows \union {NoEvent.win},
   kind : {"plain", "swallow", "crossing", "destroy", "none"}]
FrameType ==
  [op : {"next", "drain", "check", "discard"}, win : Windows \union {NoEvent.win},
   stage : {"search", "sweep", "take", "convert"}, batch : Seq(EventType), got : EventType]
Stacks == [Threads -> Seq(FrameType)]
QueueTypes ==
  /\ client \in Clients /\ pushed \in Nat
  /\ sdl \in Seq(EventType) /\ putBack \in Seq(EventType)
  /\ frames \in Stacks
  /\ taken \subseteq EventType /\ gone \subseteq EventType

(* What SDL has queued has an even id: the odd ones are made in converting.  *)
Even(s) == \A i \in 1..Len(s) : \E n \in Nat \ {0} : s[i].id = 2 * n

(* A call has no batch before it has taken one, and XNextEvent takes one     *)
(* event at a time, and is the only call its thread is in.                   *)
FrameOK(f) ==
  /\ Even(f.batch)
  /\ f.stage # "convert" => f.batch = <<>> /\ f.got = NoEvent
  /\ f.op = "next" => Len(f.batch) <= 1 /\ f.got = NoEvent
StackOK(s) ==
  \A d \in 1..Len(s) : FrameOK(s[d]) /\ (s[d].op = "next" => Len(s) = 1)
FramesInv == Even(sdl) /\ \A t \in Threads : StackOK(frames[t])

(* How often an id is in a list, in a set, in a call and in all of them.     *)
Zero(s, x) == \A i \in 1..Len(s) : s[i].id # x
Once(s, x) ==
  \E i \in 1..Len(s) : s[i].id = x /\ \A j \in 1..Len(s) : s[j].id = x => j = i
ZeroIn(set, x) == \A e \in set : e.id # x
OnceIn(set, x) == \E e \in set : e.id = x /\ \A g \in set : g.id = x => g = e

FrameZero(f, x) == Zero(f.batch, x) /\ f.got.id # x
FrameOnce(f, x) ==
  \/ Once(f.batch, x) /\ f.got.id # x
  \/ Zero(f.batch, x) /\ f.got.id = x
HandsZero(stacks, x) ==
  \A t \in Threads : \A d \in 1..Len(stacks[t]) : FrameZero(stacks[t][d], x)
HandsOnce(stacks, x) ==
  \E t \in Threads : \E d \in 1..Len(stacks[t]) :
    /\ FrameOnce(stacks[t][d], x)
    /\ \A u \in Threads : \A e \in 1..Len(stacks[u]) :
         (u = t /\ e = d) \/ FrameZero(stacks[u][e], x)

(* An event that has been pushed is in one place, and no other event is in   *)
(* any.                                                                      *)
Nowhere(x) ==
  /\ Zero(sdl, x) /\ Zero(putBack, x) /\ HandsZero(frames, x)
  /\ ZeroIn(taken, x) /\ ZeroIn(gone, x)
Somewhere(x) ==
  \/ /\ Once(sdl, x) /\ Zero(putBack, x) /\ HandsZero(frames, x)
     /\ ZeroIn(taken, x) /\ ZeroIn(gone, x)
  \/ /\ Zero(sdl, x) /\ Once(putBack, x) /\ HandsZero(frames, x)
     /\ ZeroIn(taken, x) /\ ZeroIn(gone, x)
  \/ /\ Zero(sdl, x) /\ Zero(putBack, x) /\ HandsOnce(frames, x)
     /\ ZeroIn(taken, x) /\ ZeroIn(gone, x)
  \/ /\ Zero(sdl, x) /\ Zero(putBack, x) /\ HandsZero(frames, x)
     /\ OnceIn(taken, x) /\ ZeroIn(gone, x)
  \/ /\ Zero(sdl, x) /\ Zero(putBack, x) /\ HandsZero(frames, x)
     /\ ZeroIn(taken, x) /\ OnceIn(gone, x)
PlacesInv ==
  \A n \in Nat \ {0} : IF n <= pushed THEN Somewhere(2 * n) ELSE Nowhere(2 * n)

QueueInv == QueueTypes /\ FramesInv /\ PlacesInv

(* What a step may do to the times that an id is in a list, in the threads'  *)
(* hands or in a set: leave them, take it from there or put it there.        *)
KeepList(s, u, x) == (Zero(s, x) => Zero(u, x)) /\ (Once(s, x) => Once(u, x))
TakeList(s, u, x) == ~Zero(s, x) /\ (Once(s, x) => Zero(u, x))
GiveList(s, u, x) == Zero(s, x) => Once(u, x)
KeepHands(g, h, x) == (HandsZero(g, x) => HandsZero(h, x)) /\ (HandsOnce(g, x) => HandsOnce(h, x))
TakeHands(g, h, x) == ~HandsZero(g, x) /\ (HandsOnce(g, x) => HandsZero(h, x))
GiveHands(g, h, x) == HandsZero(g, x) => HandsOnce(h, x)
KeepSet(s, u, x) == (ZeroIn(s, x) => ZeroIn(u, x)) /\ (OnceIn(s, x) => OnceIn(u, x))
TakeSet(s, u, x) == ~ZeroIn(s, x) /\ (OnceIn(s, x) => ZeroIn(u, x))
GiveSet(s, u, x) == ZeroIn(s, x) => OnceIn(u, x)

(* Replacing the top of a thread's stack, leaving a call, going on from an   *)
(* event that has been dealt with, and entering a call.                      *)
Tops(g, h, t, f) == h = [g EXCEPT ![t] = Front(@) \o <<f>>]
Pops(g, h, t) == h = [g EXCEPT ![t] = Front(@)]
RestOf(f) == [f EXCEPT !.batch = Tail(@)]
Deals(g, h, t) ==
  IF Last(g[t]).op = "next" THEN Pops(g, h, t) ELSE Tops(g, h, t, RestOf(Last(g[t])))
Pushes(g, h, t, f) == h = [g EXCEPT ![t] = Append(@, f)]

Kept(x) == (Nowhere(x) => Nowhere(x)') /\ (Somewhere(x) => Somewhere(x)')

KeepsAll == \A n \in Nat \ {0} : Kept(2 * n)

(* Adding an event to a list or to a set, and taking one from it.            *)
LEMMA AppendCounts ==
  ASSUME NEW s \in Seq(EventType), NEW e \in EventType, NEW x
  PROVE  /\ Append(s, e) \in Seq(EventType)
         /\ e.id # x /\ Zero(s, x) => Zero(Append(s, e), x)
         /\ e.id # x /\ Once(s, x) => Once(Append(s, e), x)
         /\ e.id = x /\ Zero(s, x) => Once(Append(s, e), x)
         /\ (\E n \in Nat \ {0} : e.id = 2 * n) /\ Even(s) => Even(Append(s, e))
<1> DEFINE u == Append(s, e)
           l == Len(s)
<1>1. /\ u \in Seq(EventType) /\ Len(u) = l + 1 /\ u[l + 1] = e
      /\ \A i \in 1..l : u[i] = s[i]
  BY AppendProperties
<1>2. l \in Nat
  BY LenProperties
<1> HIDE DEF u, l
<1>3. \A i \in 1..(l + 1) : i \in 1..l \/ i = l + 1
  BY <1>2
<1>4. 1..l \subseteq 1..(l + 1) /\ l + 1 \in 1..(l + 1) /\ l + 1 \notin 1..l
  BY <1>2
<1>5. e.id # x /\ Zero(s, x) => Zero(u, x)
  BY <1>1, <1>3 DEF Zero, l
<1>6. e.id # x /\ Once(s, x) => Once(u, x)
  <2> SUFFICES ASSUME e.id # x, NEW i \in 1..l, s[i].id = x, \A j \in 1..l : s[j].id = x => j = i
               PROVE  Once(u, x)
    BY DEF Once, l
  <2>1. i \in 1..Len(u) /\ u[i].id = x
    BY <1>1, <1>4
  <2>2. \A j \in 1..Len(u) : u[j].id = x => j = i
    BY <1>1, <1>3
  <2> QED BY <2>1, <2>2 DEF Once
<1>7. e.id = x /\ Zero(s, x) => Once(u, x)
  <2> SUFFICES ASSUME e.id = x, Zero(s, x) PROVE Once(u, x)
    OBVIOUS
  <2>1. l + 1 \in 1..Len(u) /\ u[l + 1].id = x
    BY <1>1, <1>4
  <2>2. \A j \in 1..Len(u) : u[j].id = x => j = l + 1
    BY <1>1, <1>3 DEF Zero, l
  <2> QED BY <2>1, <2>2 DEF Once
<1>8. (\E n \in Nat \ {0} : e.id = 2 * n) /\ Even(s) => Even(u)
  <2> SUFFICES ASSUME \E n \in Nat \ {0} : e.id = 2 * n, Even(s), NEW i \in 1..Len(u)
               PROVE  \E n \in Nat \ {0} : u[i].id = 2 * n
    BY DEF Even
  <2>1. CASE i \in 1..l
    <3>1. u[i] = s[i]
      BY <1>1, <2>1
    <3> QED BY <2>1, <3>1 DEF Even, l
  <2>2. CASE i = l + 1
    BY <1>1, <2>2
  <2> QED BY <1>1, <1>3, <2>1, <2>2
<1> QED BY <1>1, <1>5, <1>6, <1>7, <1>8 DEF u

(* RemoveAt leaves the others.                                               *)
LEMMA RemovedAt ==
  ASSUME NEW s \in Seq(EventType), NEW r \in 1..Len(s)
  PROVE  /\ RemoveAt(s, r) \in Seq(EventType) /\ Len(RemoveAt(s, r)) = Len(s) - 1
         /\ \A i \in 1..(Len(s) - 1) : RemoveAt(s, r)[i] = IF i < r THEN s[i] ELSE s[i + 1]
<1> DEFINE f == SubSeq(s, 1, r - 1)
           b == SubSeq(s, r + 1, Len(s))
<1>1. Len(s) \in Nat /\ \A i \in 1..Len(s) : s[i] \in EventType
  BY ElementOfSeq, LenProperties
<1> HIDE DEF EventType
<1>2. f \in Seq(EventType) /\ Len(f) = r - 1 /\ \A i \in 1..(r - 1) : f[i] = s[i]
  <2>1. \A i \in 1..(r - 1) : s[i] \in EventType
    BY <1>1
  <2>2. 1 \in Int /\ r - 1 \in Int /\ (1 <= r - 1 \/ r - 1 = 0)
    BY <1>1
  <2>3. /\ f \in Seq(EventType)
        /\ Len(f) = IF 1 <= r - 1 THEN (r - 1) - 1 + 1 ELSE 0
        /\ \A i \in 1..((r - 1) - 1 + 1) : f[i] = s[1 + i - 1]
    BY <2>1, <2>2, SubSeqProperties
  <2>4. \A i \in 1..(r - 1) : i \in 1..((r - 1) - 1 + 1) /\ 1 + i - 1 = i
    BY <2>2
  <2> HIDE DEF f
  <2> QED BY <2>2, <2>3, <2>4
<1>3. b \in Seq(EventType) /\ Len(b) = Len(s) - r /\ \A i \in 1..(Len(s) - r) : b[i] = s[r + i]
  <2>1. \A i \in (r + 1)..Len(s) : s[i] \in EventType
    BY <1>1
  <2>2. r + 1 \in Int /\ Len(s) \in Int /\ r \in Int /\ r <= Len(s)
    BY <1>1
  <2>3. /\ b \in Seq(EventType)
        /\ Len(b) = IF r + 1 <= Len(s) THEN Len(s) - (r + 1) + 1 ELSE 0
        /\ \A i \in 1..(Len(s) - (r + 1) + 1) : b[i] = s[(r + 1) + i - 1]
    BY <2>1, <2>2, SubSeqProperties
  <2>4. \A i \in 1..(Len(s) - r) : i \in 1..(Len(s) - (r + 1) + 1) /\ (r + 1) + i - 1 = r + i
    BY <2>2
  <2> HIDE DEF b
  <2> QED BY <2>2, <2>3, <2>4
<1> HIDE DEF f, b
<1>4. /\ f \o b \in Seq(EventType) /\ Len(f \o b) = Len(s) - 1
      /\ \A i \in 1..(Len(s) - 1) : (f \o b)[i] = IF i <= r - 1 THEN f[i] ELSE b[i - (r - 1)]
  <2>1. /\ f \o b \in Seq(EventType) /\ Len(f \o b) = Len(f) + Len(b)
        /\ \A i \in 1..(Len(f) + Len(b)) :
             (f \o b)[i] = IF i <= Len(f) THEN f[i] ELSE b[i - Len(f)]
    BY <1>2, <1>3, ConcatProperties
  <2>2. Len(f) + Len(b) = Len(s) - 1
    BY <1>1, <1>2, <1>3
  <2> QED BY <1>2, <2>1, <2>2
<1>5. ASSUME NEW i \in 1..(Len(s) - 1)
      PROVE  (f \o b)[i] = IF i < r THEN s[i] ELSE s[i + 1]
  <2>1. CASE i < r
    <3>1. i <= r - 1 /\ i \in 1..(r - 1)
      BY <1>1, <2>1
    <3> QED BY <1>2, <1>4, <2>1, <3>1
  <2>2. CASE ~(i < r)
    <3>1. ~(i <= r - 1) /\ i - (r - 1) \in 1..(Len(s) - r) /\ r + (i - (r - 1)) = i + 1
      BY <1>1, <2>2
    <3> QED BY <1>3, <1>4, <2>2, <3>1
  <2> QED BY <2>1, <2>2
<1>6. RemoveAt(s, r) = f \o b
  BY DEF RemoveAt, f, b
<1> QED BY <1>4, <1>5, <1>6

(* What is at the places of one list is, place by place, in the other.       *)
Picks(s, u, map, left) ==
  /\ left \subseteq 1..Len(s)
  /\ \A n \in 1..Len(u) : map[n] \in left /\ u[n] = s[map[n]]
  /\ \A i \in left : \E n \in 1..Len(u) : map[n] = i
  /\ \A n, m \in 1..Len(u) : map[n] = map[m] => n = m
(* An id is as often in the one as its places are kept.                      *)
LEMMA SameCounts ==
  ASSUME NEW s, NEW u, NEW map, NEW left, NEW x, Picks(s, u, map, left)
  PROVE  /\ Zero(s, x) => Zero(u, x)
         /\ Once(s, x) /\ (\A i \in 1..Len(s) : s[i].id = x => i \in left) => Once(u, x)
         /\ (\A i \in left : s[i].id # x) => Zero(u, x)
         /\ Even(s) => Even(u)
<1>0. /\ left \subseteq 1..Len(s)
      /\ \A n \in 1..Len(u) : map[n] \in left /\ u[n] = s[map[n]]
      /\ \A i \in left : \E n \in 1..Len(u) : map[n] = i
      /\ \A n, m \in 1..Len(u) : map[n] = map[m] => n = m
  BY DEF Picks
<1>1. Zero(s, x) => Zero(u, x)
  <2> SUFFICES ASSUME Zero(s, x), NEW n \in 1..Len(u) PROVE u[n].id # x
    BY DEF Zero
  <2>1. map[n] \in left /\ u[n] = s[map[n]]
    BY <1>0
  <2>2. map[n] \in 1..Len(s)
    BY <1>0, <2>1
  <2> QED BY <2>1, <2>2 DEF Zero
<1>2. Once(s, x) /\ (\A i \in 1..Len(s) : s[i].id = x => i \in left) => Once(u, x)
  <2> SUFFICES ASSUME NEW i \in left, s[i].id = x, \A j \in 1..Len(s) : s[j].id = x => j = i
               PROVE  Once(u, x)
    BY <1>0 DEF Once
  <2>1. PICK n \in 1..Len(u) : map[n] = i
    BY <1>0
  <2>2. u[n].id = x
    BY <1>0, <2>1
  <2>3. \A m \in 1..Len(u) : u[m].id = x => map[m] = i
    <3> SUFFICES ASSUME NEW m \in 1..Len(u), u[m].id = x PROVE map[m] = i
      OBVIOUS
    <3>1. map[m] \in left /\ u[m] = s[map[m]]
      BY <1>0
    <3>2. map[m] \in 1..Len(s)
      BY <1>0, <3>1
    <3> QED BY <3>1, <3>2
  <2>4. \A m \in 1..Len(u) : u[m].id = x => m = n
    BY <1>0, <2>1, <2>3
  <2> QED BY <2>2, <2>4 DEF Once
<1>3. (\A i \in left : s[i].id # x) => Zero(u, x)
  <2> SUFFICES ASSUME \A i \in left : s[i].id # x, NEW n \in 1..Len(u) PROVE u[n].id # x
    BY DEF Zero
  <2>1. map[n] \in left /\ u[n] = s[map[n]]
    BY <1>0
  <2> QED BY <2>1
<1>4. Even(s) => Even(u)
  <2> SUFFICES ASSUME Even(s), NEW n \in 1..Len(u) PROVE \E k \in Nat \ {0} : u[n].id = 2 * k
    BY DEF Even
  <2>0. map[n] \in left /\ u[n] = s[map[n]]
    BY <1>0
  <2>1. map[n] \in 1..Len(s) /\ u[n] = s[map[n]]
    BY <1>0, <2>0
  <2>2. PICK k \in Nat \ {0} : s[map[n]].id = 2 * k
    BY <2>1 DEF Even
  <2> QED BY <2>1, <2>2
<1> QED BY <1>1, <1>2, <1>3, <1>4

(* Taking one event out of a list takes its id, and no other.                *)
LEMMA RemoveCounts ==
  ASSUME NEW s \in Seq(EventType), NEW r \in 1..Len(s), NEW x
  PROVE  /\ RemoveAt(s, r) \in Seq(EventType)
         /\ Zero(s, x) => Zero(RemoveAt(s, r), x)
         /\ s[r].id # x /\ Once(s, x) => Once(RemoveAt(s, r), x)
         /\ s[r].id = x /\ Once(s, x) => Zero(RemoveAt(s, r), x)
         /\ Even(s) => Even(RemoveAt(s, r))
<1> DEFINE u == RemoveAt(s, r)
           map == [n \in 1..(Len(s) - 1) |-> IF n < r THEN n ELSE n + 1]
           left == 1..Len(s) \ {r}
<1>1. Len(s) \in Nat
  BY LenProperties
<1>2. /\ u \in Seq(EventType) /\ Len(u) = Len(s) - 1
      /\ \A i \in 1..(Len(s) - 1) : u[i] = IF i < r THEN s[i] ELSE s[i + 1]
  BY RemovedAt
<1> HIDE DEF u
<1>3. \A n \in 1..Len(u) : map[n] \in left /\ u[n] = s[map[n]]
  BY <1>1, <1>2
<1>4. \A i \in left : \E n \in 1..Len(u) : map[n] = i
  <2> SUFFICES ASSUME NEW i \in left PROVE \E n \in 1..(Len(s) - 1) : map[n] = i
    BY <1>2
  <2>1. CASE i < r
    BY <1>1, <2>1
  <2>2. CASE i > r
    <3>1. i - 1 \in 1..(Len(s) - 1) /\ map[i - 1] = i
      BY <1>1, <2>2
    <3> QED BY <3>1
  <2> QED BY <1>1, <2>1, <2>2
<1>5. \A n, m \in 1..Len(u) : map[n] = map[m] => n = m
  BY <1>1, <1>2
<1>6. left \in SUBSET (1..Len(s))
  OBVIOUS
<1> HIDE DEF map
<1>7. /\ Zero(s, x) => Zero(u, x)
      /\ Once(s, x) /\ (\A i \in 1..Len(s) : s[i].id = x => i \in left) => Once(u, x)
      /\ (\A i \in left : s[i].id # x) => Zero(u, x)
      /\ Even(s) => Even(u)
  <2>1. Picks(s, u, map, left)
    BY <1>3, <1>4, <1>5, <1>6 DEF Picks
  <2> HIDE DEF left
  <2> QED BY <2>1, SameCounts
<1>8. s[r].id # x => \A i \in 1..Len(s) : s[i].id = x => i \in left
  OBVIOUS
<1>9. s[r].id = x /\ Once(s, x) => \A i \in left : s[i].id # x
  BY DEF Once
<1> QED BY <1>2, <1>7, <1>8, <1>9 DEF u

(* So does taking the first.                                                 *)
LEMMA TailCounts ==
  ASSUME NEW s \in Seq(EventType), s # <<>>, NEW x
  PROVE  /\ Tail(s) \in Seq(EventType) /\ Head(s) \in EventType /\ Head(s) = s[1]
         /\ 1 \in 1..Len(s) /\ Len(Tail(s)) = Len(s) - 1
         /\ Zero(s, x) => Zero(Tail(s), x) /\ Head(s).id # x
         /\ Head(s).id # x /\ Once(s, x) => Once(Tail(s), x)
         /\ Head(s).id = x /\ Once(s, x) => Zero(Tail(s), x)
         /\ Even(s) => Even(Tail(s)) /\ \E n \in Nat \ {0} : Head(s).id = 2 * n
<1>1. Len(s) \in Nat \ {0}
  BY EmptySeq, LenProperties
<1>2. 1 \in 1..Len(s)
  BY <1>1
<1>3. Tail(s) \in Seq(EventType) /\ Head(s) \in EventType /\ Len(Tail(s)) = Len(s) - 1
  BY HeadTailProperties
<1>4. Head(s) = s[1]
  OBVIOUS
<1>5. Tail(s) = RemoveAt(s, 1)
  <2>1. /\ RemoveAt(s, 1) \in Seq(EventType) /\ Len(RemoveAt(s, 1)) = Len(s) - 1
        /\ \A i \in 1..(Len(s) - 1) : RemoveAt(s, 1)[i] = IF i < 1 THEN s[i] ELSE s[i + 1]
    BY <1>2, RemovedAt
  <2>2. /\ Tail(s) \in Seq(EventType) /\ Len(Tail(s)) = Len(s) - 1
        /\ \A i \in 1..Len(Tail(s)) : Tail(s)[i] = s[i + 1]
    BY HeadTailProperties
  <2>3. \A i \in 1..(Len(s) - 1) : Tail(s)[i] = RemoveAt(s, 1)[i]
    BY <1>1, <2>1, <2>2
  <2> QED BY <2>1, <2>2, <2>3, SeqEqual
<1>6. /\ Zero(s, x) => Zero(Tail(s), x)
      /\ s[1].id # x /\ Once(s, x) => Once(Tail(s), x)
      /\ s[1].id = x /\ Once(s, x) => Zero(Tail(s), x)
      /\ Even(s) => Even(Tail(s))
  BY <1>2, <1>5, RemoveCounts
<1>7. Even(s) => \E n \in Nat \ {0} : s[1].id = 2 * n
  BY <1>2 DEF Even
<1>8. Zero(s, x) => s[1].id # x
  BY <1>2 DEF Zero
<1> QED BY <1>2, <1>3, <1>4, <1>6, <1>7, <1>8

(* Putting one in front of a list adds its id, and no other.                 *)
LEMMA PushCounts ==
  ASSUME NEW s \in Seq(EventType), NEW e \in EventType, NEW x
  PROVE  /\ <<e>> \o s \in Seq(EventType)
         /\ e.id # x /\ Zero(s, x) => Zero(<<e>> \o s, x)
         /\ e.id # x /\ Once(s, x) => Once(<<e>> \o s, x)
         /\ e.id = x /\ Zero(s, x) => Once(<<e>> \o s, x)
<1> DEFINE u == <<e>> \o s
           l == Len(s)
<1>1. <<e>> \in Seq(EventType) /\ Len(<<e>>) = 1 /\ <<e>>[1] = e
  OBVIOUS
<1>2. l \in Nat
  BY LenProperties
<1>3. /\ u \in Seq(EventType) /\ Len(u) = 1 + l
      /\ \A i \in 1..(1 + l) : u[i] = IF i <= 1 THEN <<e>>[i] ELSE s[i - 1]
  <2>1. /\ u \in Seq(EventType) /\ Len(u) = Len(<<e>>) + Len(s)
        /\ \A i \in 1..(Len(<<e>>) + Len(s)) :
             u[i] = IF i <= Len(<<e>>) THEN <<e>>[i] ELSE s[i - Len(<<e>>)]
    BY <1>1, ConcatProperties
  <2> HIDE DEF u
  <2> QED BY <1>1, <2>1
<1> HIDE DEF u, l
<1>4. Len(u) = l + 1 /\ u[1] = e /\ 1 \in 1..(l + 1) /\ \A i \in 1..l : u[i + 1] = s[i]
  <2>1. 1 \in 1..(1 + l) /\ 1 + l = l + 1
    BY <1>2
  <2>2. u[1] = e
    BY <1>1, <1>3, <2>1
  <2>3. ASSUME NEW i \in 1..l PROVE u[i + 1] = s[i]
    <3>1. i + 1 \in 1..(1 + l) /\ ~(i + 1 <= 1) /\ (i + 1) - 1 = i
      BY <1>2
    <3> QED BY <1>3, <3>1
  <2> QED BY <1>3, <2>1, <2>2, <2>3
<1>5. \A i \in 1..(l + 1) : i = 1 \/ \E j \in 1..l : i = j + 1
  <2> SUFFICES ASSUME NEW i \in 1..(l + 1), i # 1 PROVE \E j \in 1..l : i = j + 1
    OBVIOUS
  <2>1. i - 1 \in 1..l /\ i = (i - 1) + 1
    BY <1>2
  <2> QED BY <2>1
<1>6. \A i \in 1..l : i + 1 \in 1..(l + 1) /\ i + 1 # 1
  BY <1>2
<1>7. e.id # x /\ Zero(s, x) => Zero(u, x)
  BY <1>4, <1>5 DEF Zero, l
<1>8. e.id # x /\ Once(s, x) => Once(u, x)
  <2> SUFFICES ASSUME e.id # x, NEW i \in 1..l, s[i].id = x, \A j \in 1..l : s[j].id = x => j = i
               PROVE  Once(u, x)
    BY DEF Once, l
  <2>1. i + 1 \in 1..Len(u) /\ u[i + 1].id = x
    BY <1>4, <1>6
  <2>2. \A j \in 1..Len(u) : u[j].id = x => j = i + 1
    BY <1>4, <1>5
  <2> QED BY <2>1, <2>2 DEF Once
<1>9. e.id = x /\ Zero(s, x) => Once(u, x)
  <2> SUFFICES ASSUME e.id = x, Zero(s, x) PROVE Once(u, x)
    OBVIOUS
  <2>1. 1 \in 1..Len(u) /\ u[1].id = x
    BY <1>4
  <2>2. \A j \in 1..Len(u) : u[j].id = x => j = 1
    BY <1>4, <1>5 DEF Zero, l
  <2> QED BY <2>1, <2>2 DEF Once
<1> QED BY <1>3, <1>7, <1>8, <1>9 DEF u

(* The rank of a number in a set: how many of the set are not above it.      *)
LEMMA Ranks ==
  ASSUME NEW left \in SUBSET Nat, IsFiniteSet(left)
  PROVE  LET size == Cardinality(left)
             below(i) == {j \in left : j <= i}
         IN /\ size \in Nat
            /\ \A i \in left : Cardinality(below(i)) \in 1..size /\ IsFiniteSet(below(i))
            /\ \A i, j \in left : Cardinality(below(i)) = Cardinality(below(j)) => i = j
            /\ \A n \in 1..size : \E i \in left : Cardinality(below(i)) = n
<1> DEFINE size == Cardinality(left)
           below(i) == {j \in left : j <= i}
           rank == [i \in left |-> Cardinality(below(i))]
<1>1. \A i \in left : i \in Nat
  OBVIOUS
<1>2. IsFiniteSet(left) /\ size \in Nat
  BY FS_CardinalityType
<1>3. ASSUME NEW i \in left
      PROVE  IsFiniteSet(below(i)) /\ Cardinality(below(i)) \in 1..size
  <2>1. below(i) \in SUBSET left
    OBVIOUS
  <2>2. IsFiniteSet(below(i)) /\ Cardinality(below(i)) <= size
    BY <1>2, <2>1, FS_Subset
  <2>3. Cardinality(below(i)) \in Nat
    BY <2>2, FS_CardinalityType
  <2>4. i \in below(i)
    BY <1>1
  <2>5. Cardinality(below(i)) # 0
    BY <2>2, <2>4, FS_EmptySet
  <2> HIDE DEF below, size
  <2> QED BY <1>2, <2>2, <2>3, <2>5
<1>4. ASSUME NEW i \in left, NEW j \in left, Cardinality(below(i)) = Cardinality(below(j))
      PROVE  i = j
  <2>1. ASSUME NEW a \in left, NEW b \in left, a < b,
               Cardinality(below(a)) = Cardinality(below(b))
        PROVE  FALSE
    <3>0. \A k \in left : k \in Int
      BY <1>1
    <3>1. below(a) \in SUBSET below(b)
      <4> SUFFICES ASSUME NEW k \in left, k <= a PROVE k <= b
        OBVIOUS
      <4>1. a \in Int /\ b \in Int /\ k \in Int
        BY <2>1, <3>0
      <4> QED BY <2>1, <4>1
    <3>2. below(a) = below(b)
      BY <1>3, <2>1, <3>1, FS_Subset
    <3>3. b \in below(b) /\ b \notin below(a)
      BY <1>1, <2>1
    <3> QED BY <3>2, <3>3
  <2>2. i \in Int /\ j \in Int
    BY <1>1
  <2>3. i < j \/ j < i \/ i = j
    BY <2>2
  <2> QED BY <1>4, <2>1, <2>3
<1> HIDE DEF below, size
<1>5. \A n \in 1..size : \E i \in left : Cardinality(below(i)) = n
  <2>1. rank \in Injection(left, 1..size)
    <3>1. rank \in [left -> 1..size]
      BY <1>3
    <3>2. IsInjective(rank)
      BY <1>4 DEF IsInjective
    <3> QED BY <3>1, <3>2 DEF Injection
  <2>2. IsFiniteSet(1..size) /\ Cardinality(1..size) = size
    <3>1. 1 \in Int /\ size \in Int
      BY <1>2
    <3>2. /\ IsFiniteSet(1..size)
          /\ Cardinality(1..size) = IF 1 > size THEN 0 ELSE size - 1 + 1
      BY <3>1, FS_Interval
    <3> QED BY <1>2, <3>2
  <2>3. Cardinality(left) = Cardinality(1..size)
    BY <2>2 DEF size
  <2>4. rank \in Surjection(left, 1..size)
    <3> HIDE DEF rank
    <3> QED BY <2>1, <2>2, <2>3, FS_Injection
  <2> QED BY <2>4 DEF Surjection
<1> QED BY <1>2, <1>3, <1>4, <1>5 DEF size, below

(* The first of a set of numbers is one of them.                             *)
LEMMA FirstIn ==
  ASSUME NEW s \in SUBSET Nat, IsFiniteSet(s), s # {}
  PROVE  First(s) \in s
<1> DEFINE below(i) == {j \in s : j <= i}
<1>1. /\ Cardinality(s) \in Nat
      /\ \A i \in s : IsFiniteSet(below(i))
      /\ \A n \in 1..Cardinality(s) : \E i \in s : Cardinality(below(i)) = n
  BY Ranks
<1>2. 1 \in 1..Cardinality(s)
  <2>1. Cardinality(s) # 0
    BY FS_EmptySet
  <2> QED BY <1>1, <2>1
<1>3. PICK i \in s : Cardinality(below(i)) = 1
  BY <1>1, <1>2
<1>4. \E k : below(i) = {k}
  BY <1>1, <1>3, FS_Singleton
<1>5. i \in below(i)
  OBVIOUS
<1>6. \A j \in s : i <= j
  <2> SUFFICES ASSUME NEW j \in s, ~(i <= j) PROVE FALSE
    OBVIOUS
  <2>1. i \in Nat /\ j \in Nat
    OBVIOUS
  <2>2. j \in below(i)
    BY <2>1
  <2>3. j = i
    BY <1>4, <1>5, <2>2
  <2> QED BY <2>1, <2>3
<1> QED BY <1>6 DEF First

(* What is left of a list keeps its order: Only goes through the places that *)
(* are left, each of them once.                                              *)
LEMMA OnlyCounts ==
  ASSUME NEW s \in Seq(EventType), NEW left \in SUBSET (1..Len(s)), NEW x
  PROVE  /\ Only(s, left) \in Seq(EventType)
         /\ Zero(s, x) => Zero(Only(s, left), x)
         /\ Once(s, x) /\ (\A i \in 1..Len(s) : s[i].id = x => i \in left)
              => Once(Only(s, left), x)
         /\ (\A i \in left : s[i].id # x) => Zero(Only(s, left), x)
<1> DEFINE size == Cardinality(left)
           below(i) == {j \in left : j <= i}
           map == [n \in 1..size |-> CHOOSE i \in left : Cardinality(below(i)) = n]
           u == Only(s, left)
<1>1. Len(s) \in Nat /\ \A i \in 1..Len(s) : s[i] \in EventType
  BY LenProperties, ElementOfSeq
<1>2. IsFiniteSet(left) /\ size \in Nat
  <2>1. IsFiniteSet(1..Len(s))
    BY <1>1, FS_Interval
  <2>2. IsFiniteSet(left)
    BY <2>1, FS_Subset
  <2> QED BY <2>2, FS_CardinalityType
<1> HIDE DEF below, size
<1>3. /\ \A i \in left : Cardinality(below(i)) \in 1..size
      /\ \A i, j \in left : Cardinality(below(i)) = Cardinality(below(j)) => i = j
      /\ \A n \in 1..size : \E i \in left : Cardinality(below(i)) = n
  <2>1. left \in SUBSET Nat
    BY <1>1
  <2> QED BY <1>2, <2>1, Ranks DEF size, below
<1>6. \A n \in 1..size : map[n] \in left /\ Cardinality(below(map[n])) = n
  BY <1>3
<1>7. u = [n \in 1..size |-> s[map[n]]]
  BY DEF Only, size, below
<1> HIDE DEF map
<1>8. u \in Seq(EventType) /\ Len(u) = size
  <2>1. \A n \in 1..size : s[map[n]] \in EventType
    BY <1>1, <1>6
  <2>2. u \in [1..size -> EventType]
    BY <1>7, <2>1
  <2> HIDE DEF u, EventType
  <2>3. u \in Seq(EventType)
    <3> DEFINE e(n) == s[map[n]]
    <3>1. u = [n \in 1..size |-> e(n)] /\ size \in Nat /\ \A n \in 1..size : e(n) \in EventType
      BY <1>2, <1>7, <2>1 DEF u
    <3> HIDE DEF e
    <3> QED BY ONLY <3>1, IsASeq
  <2>4. DOMAIN u = 1..Len(u) /\ DOMAIN u = 1..size /\ Len(u) \in Nat
    BY <2>2, <2>3, LenProperties
  <2>5. \A m, n \in Nat : 1..m = 1..n => m = n
    OBVIOUS
  <2> QED BY <1>2, <2>3, <2>4, <2>5
<1>9. \A n \in 1..Len(u) : map[n] \in left /\ u[n] = s[map[n]]
  BY <1>6, <1>7, <1>8
<1>10. \A i \in left : \E n \in 1..Len(u) : map[n] = i
  BY <1>3, <1>6, <1>8
<1>11. \A n, m \in 1..Len(u) : map[n] = map[m] => n = m
  BY <1>6, <1>8
<1> HIDE DEF u
<1>12. Picks(s, u, map, left)
  BY <1>9, <1>10, <1>11 DEF Picks
<1>13. /\ Zero(s, x) => Zero(u, x)
       /\ Once(s, x) /\ (\A i \in 1..Len(s) : s[i].id = x => i \in left) => Once(u, x)
       /\ (\A i \in left : s[i].id # x) => Zero(u, x)
  BY <1>12, SameCounts
<1> QED BY <1>8, <1>13 DEF u

(* Sets.                                                                     *)
LEMMA SetCounts ==
  ASSUME NEW set, NEW e, NEW x
  PROVE  /\ e.id # x /\ ZeroIn(set, x) => ZeroIn(set \union {e}, x) /\ ZeroIn(set \ {e}, x)
         /\ e.id # x /\ OnceIn(set, x) => OnceIn(set \union {e}, x) /\ OnceIn(set \ {e}, x)
         /\ e.id = x /\ ZeroIn(set, x) => OnceIn(set \union {e}, x)
         /\ e.id = x /\ OnceIn(set, x) /\ e \in set => ZeroIn(set \ {e}, x)
         /\ e.id = x /\ ZeroIn(set, x) => e \notin set
  BY DEF ZeroIn, OnceIn

(* A stack of calls: leaving one, replacing the top and entering another.    *)
LEMMA StackPop ==
  ASSUME NEW s \in Seq(FrameType), s # <<>>
  PROVE  /\ Len(s) \in Nat \ {0} /\ Len(s) \in 1..Len(s) /\ Last(s) = s[Len(s)]
         /\ Last(s) \in FrameType
         /\ Front(s) \in Seq(FrameType) /\ Len(Front(s)) = Len(s) - 1
         /\ \A d \in 1..(Len(s) - 1) : Front(s)[d] = s[d]
<1>1. Len(s) \in Nat \ {0} /\ \A d \in 1..Len(s) : s[d] \in FrameType
  BY EmptySeq, LenProperties, ElementOfSeq
<1>2. Len(s) \in 1..Len(s)
  BY <1>1
<1>3. Last(s) = s[Len(s)] /\ Front(s) = SubSeq(s, 1, Len(s) - 1)
  BY DEF Last, Front
<1>4. \A i \in 1..(Len(s) - 1) : s[i] \in FrameType
  BY <1>1
<1>5. 1 \in Int /\ Len(s) - 1 \in Int /\ (1 <= Len(s) - 1 \/ Len(s) - 1 = 0)
  <2>1. \A n \in Nat \ {0} : 1 \in Int /\ n - 1 \in Int /\ (1 <= n - 1 \/ n - 1 = 0)
    OBVIOUS
  <2> QED BY <1>1, <2>1
<1> HIDE DEF FrameType
<1>6. /\ SubSeq(s, 1, Len(s) - 1) \in Seq(FrameType)
      /\ Len(SubSeq(s, 1, Len(s) - 1)) = IF 1 <= Len(s) - 1 THEN (Len(s) - 1) - 1 + 1 ELSE 0
      /\ \A i \in 1..((Len(s) - 1) - 1 + 1) : SubSeq(s, 1, Len(s) - 1)[i] = s[1 + i - 1]
  BY <1>4, <1>5, SubSeqProperties
<1>7. \A i \in 1..(Len(s) - 1) : i \in 1..((Len(s) - 1) - 1 + 1) /\ 1 + i - 1 = i
  BY <1>5
<1>8. Front(s) \in Seq(FrameType) /\ \A i \in 1..(Len(s) - 1) : Front(s)[i] = s[i]
  BY <1>3, <1>6, <1>7
<1>9. Len(Front(s)) = Len(s) - 1
  <2>1. (IF 1 <= Len(s) - 1 THEN (Len(s) - 1) - 1 + 1 ELSE 0) = Len(s) - 1
    BY <1>5
  <2> QED BY <1>3, <1>6, <2>1
<1> QED BY <1>1, <1>2, <1>3, <1>8, <1>9

(* Entering a call.                                                          *)
LEMMA StackPush ==
  ASSUME NEW s \in Seq(FrameType), NEW f \in FrameType
  PROVE  /\ s \o <<f>> = Append(s, f) /\ Append(s, f) \in Seq(FrameType)
         /\ Len(s) \in Nat /\ Len(Append(s, f)) = Len(s) + 1
         /\ Append(s, f)[Len(s) + 1] = f
         /\ \A d \in 1..Len(s) : Append(s, f)[d] = s[d]
<1> HIDE DEF FrameType
<1> QED BY AppendProperties, AppendIsConcat, LenProperties

(* Replacing the top.                                                        *)
LEMMA StackSet ==
  ASSUME NEW s \in Seq(FrameType), s # <<>>, NEW f \in FrameType
  PROVE  LET u == Front(s) \o <<f>>
         IN /\ u \in Seq(FrameType) /\ Len(u) = Len(s) /\ u[Len(s)] = f
            /\ \A d \in 1..(Len(s) - 1) : u[d] = s[d]
<1> DEFINE u == Front(s) \o <<f>>
           r == Front(s)
<1>1. /\ Len(s) \in Nat \ {0} /\ r \in Seq(FrameType) /\ Len(r) = Len(s) - 1
      /\ \A d \in 1..(Len(s) - 1) : r[d] = s[d]
  BY StackPop
<1>2. u = Append(r, f)
  BY <1>1, StackPush
<1> HIDE DEF u, r
<1>3. /\ Append(r, f) \in Seq(FrameType) /\ Len(Append(r, f)) = Len(r) + 1
      /\ Append(r, f)[Len(r) + 1] = f
      /\ \A d \in 1..Len(r) : Append(r, f)[d] = r[d]
  BY <1>1, StackPush
<1>4. Len(r) + 1 = Len(s)
  BY <1>1
<1> QED BY <1>1, <1>2, <1>3, <1>4 DEF u

(* Each of the three leaves a stack in order.                                *)
LEMMA StackShapes ==
  ASSUME NEW s \in Seq(FrameType), StackOK(s)
  PROVE  /\ s # <<>> => /\ FrameOK(Last(s)) /\ StackOK(Front(s))
                        /\ Last(s).op = "next" => Front(s) = <<>>
         /\ \A f \in FrameType :
              /\ s # <<>> /\ FrameOK(f) /\ f.op = Last(s).op => StackOK(Front(s) \o <<f>>)
              /\ FrameOK(f) /\ (s = <<>> \/ (f.op # "next" /\ Last(s).op # "next"))
                   => StackOK(Append(s, f))
<1>1. Len(s) \in Nat
  BY LenProperties
<1>2. \A d \in 1..Len(s) : FrameOK(s[d]) /\ (s[d].op = "next" => Len(s) = 1)
  BY DEF StackOK
<1>3. ASSUME s # <<>>
      PROVE  /\ FrameOK(Last(s)) /\ StackOK(Front(s))
             /\ Last(s).op = "next" => Front(s) = <<>>
  <2>1. /\ Len(s) \in Nat \ {0} /\ Len(s) \in 1..Len(s) /\ Last(s) = s[Len(s)]
        /\ Front(s) \in Seq(FrameType) /\ Len(Front(s)) = Len(s) - 1
        /\ \A d \in 1..(Len(s) - 1) : Front(s)[d] = s[d]
    BY <1>3, StackPop
  <2>2. \A d \in 1..(Len(s) - 1) : d \in 1..Len(s) /\ Len(s) # 1
    BY <1>1, <2>1
  <2>3. \A d \in 1..(Len(s) - 1) : FrameOK(s[d]) /\ s[d].op # "next"
    BY <1>2, <2>2
  <2>4. StackOK(Front(s))
    BY <2>1, <2>3 DEF StackOK
  <2>5. Last(s).op = "next" => Front(s) = <<>>
    <3> SUFFICES ASSUME Last(s).op = "next" PROVE Front(s) = <<>>
      OBVIOUS
    <3>1. Len(s) = 1
      BY <1>2, <2>1
    <3>2. Len(Front(s)) = 0
      BY <2>1, <3>1
    <3> HIDE DEF FrameType
    <3> QED BY <2>1, <3>2, EmptySeq
  <2> QED BY <1>2, <2>1, <2>4, <2>5
<1>4. ASSUME s # <<>>, NEW f \in FrameType, FrameOK(f), f.op = Last(s).op
      PROVE  StackOK(Front(s) \o <<f>>)
  <2> DEFINE u == Front(s) \o <<f>>
  <2>1. /\ u \in Seq(FrameType) /\ Len(u) = Len(s) /\ u[Len(s)] = f
        /\ \A d \in 1..(Len(s) - 1) : u[d] = s[d]
    BY <1>4, StackSet
  <2>2. Len(s) \in 1..Len(s) /\ Last(s) = s[Len(s)]
    BY <1>4, StackPop
  <2> HIDE DEF u
  <2>3. \A d \in 1..Len(s) : d \in 1..(Len(s) - 1) \/ d = Len(s)
    BY <1>1
  <2>4. ASSUME NEW d \in 1..Len(s) PROVE FrameOK(u[d]) /\ (u[d].op = "next" => Len(u) = 1)
    <3>1. CASE d \in 1..(Len(s) - 1)
      BY <1>2, <2>1, <3>1
    <3>2. CASE d = Len(s)
      BY <1>2, <1>4, <2>1, <2>2, <3>2
    <3> QED BY <2>3, <3>1, <3>2
  <2> QED BY <2>1, <2>4 DEF StackOK, u
<1>5. ASSUME NEW f \in FrameType, FrameOK(f),
             s = <<>> \/ (f.op # "next" /\ Last(s).op # "next")
      PROVE  StackOK(Append(s, f))
  <2> DEFINE u == Append(s, f)
  <2>1. /\ Len(u) = Len(s) + 1 /\ u[Len(s) + 1] = f
        /\ \A d \in 1..Len(s) : u[d] = s[d]
    BY <1>5, StackPush
  <2> HIDE DEF u
  <2>2. \A d \in 1..(Len(s) + 1) : d \in 1..Len(s) \/ d = Len(s) + 1
    BY <1>1
  <2>3. CASE s = <<>>
    <3>1. Len(s) = 0
      BY <2>3
    <3>2. Len(u) = 1 /\ u[1] = f /\ \A d \in 1..1 : d = 1
      BY <2>1, <3>1
    <3> QED BY <1>5, <3>2 DEF StackOK, u
  <2>4. CASE s # <<>> /\ f.op # "next" /\ Last(s).op # "next"
    <3>1. Len(s) \in 1..Len(s) /\ Last(s) = s[Len(s)]
      BY <2>4, StackPop
    <3>2. \A d \in 1..Len(s) : s[d].op # "next"
      <4> SUFFICES ASSUME NEW d \in 1..Len(s), s[d].op = "next" PROVE FALSE
        OBVIOUS
      <4>1. Len(s) = 1
        BY <1>2
      <4>2. d = Len(s)
        BY <4>1
      <4> QED BY <2>4, <3>1, <4>2
    <3>3. ASSUME NEW d \in 1..(Len(s) + 1) PROVE FrameOK(u[d]) /\ u[d].op # "next"
      BY <1>2, <1>5, <2>1, <2>2, <2>4, <3>2
    <3> QED BY <2>1, <3>3 DEF StackOK, u
  <2> QED BY <1>5, <2>3, <2>4
<1> QED BY <1>3, <1>4, <1>5

(* One place in one thread's stack changes: how often an id is in all the    *)
(* threads' hands follows from how often it is there.                        *)
Differ(s, u, n) ==
  /\ Len(s) \in {n, n + 1} /\ Len(u) \in {n, n + 1}
  /\ \A d \in 1..n : u[d] = s[d]
Changed(g, h, t, n) ==
  (\A u \in Threads \ {t} : h[u] = g[u]) /\ Differ(g[t], h[t], n)
Top0(s, n, x) == Len(s) = n + 1 => FrameZero(s[n + 1], x)
Top1(s, n, x) == Len(s) = n + 1 /\ FrameOnce(s[n + 1], x)
(* What was counted elsewhere is counted still.                              *)
LEMMA HandsChange ==
  ASSUME NEW g, NEW h, NEW t \in Threads, NEW n \in Nat, NEW x,
         Changed(g, h, t, n)
  PROVE  /\ Top0(g[t], n, x) /\ Top0(h[t], n, x) =>
              /\ HandsZero(g, x) => HandsZero(h, x)
              /\ HandsOnce(g, x) => HandsOnce(h, x)
         /\ Top1(g[t], n, x) /\ Top1(h[t], n, x) /\ HandsOnce(g, x) => HandsOnce(h, x)
         /\ ~Top0(g[t], n, x) /\ Top0(h[t], n, x) /\ HandsOnce(g, x) => HandsZero(h, x)
         /\ ~Top0(g[t], n, x) => ~HandsZero(g, x)
         /\ ~Top0(g[t], n, x) /\ HandsOnce(g, x) => Top1(g[t], n, x)
         /\ Top1(h[t], n, x) /\ HandsZero(g, x) => HandsOnce(h, x)
<1> DEFINE a == Len(g[t])
           b == Len(h[t])
<1>0. (\A u \in Threads \ {t} : h[u] = g[u]) /\ Differ(g[t], h[t], n)
  BY DEF Changed
<1>1. a \in {n, n + 1} /\ b \in {n, n + 1} /\ \A d \in 1..n : h[t][d] = g[t][d]
  BY <1>0 DEF Differ
<1>2. /\ \A d \in 1..a : d \in 1..n \/ (d = n + 1 /\ a = n + 1)
      /\ \A d \in 1..b : d \in 1..n \/ (d = n + 1 /\ b = n + 1)
      /\ \A d \in 1..n : d \in 1..a /\ d \in 1..b /\ d # n + 1
      /\ a = n + 1 => n + 1 \in 1..a
      /\ b = n + 1 => n + 1 \in 1..b
  BY <1>1
<1>3. \A d \in 1..n : FrameZero(g[t][d], x) <=> FrameZero(h[t][d], x)
  BY <1>1
<1>4. ASSUME Top0(h[t], n, x), \A d \in 1..n : FrameZero(h[t][d], x)
      PROVE  \A d \in 1..b : FrameZero(h[t][d], x)
  BY <1>2, <1>4 DEF Top0
<1>5. ASSUME HandsZero(g, x), Top0(h[t], n, x) PROVE HandsZero(h, x)
  <2>1. \A d \in 1..n : FrameZero(h[t][d], x)
    BY <1>2, <1>3, <1>5 DEF HandsZero
  <2>2. \A d \in 1..b : FrameZero(h[t][d], x)
    BY <1>4, <1>5, <2>1
  <2>3. \A u \in Threads : \A d \in 1..Len(h[u]) : FrameZero(h[u][d], x)
    <3> TAKE u \in Threads
    <3>1. CASE u = t
      BY <2>2, <3>1
    <3>2. CASE u # t
      BY <1>0, <1>5, <3>2 DEF HandsZero
    <3> QED BY <3>1, <3>2
  <2> QED BY <2>3 DEF HandsZero
<1>6. ASSUME HandsOnce(g, x), Top0(g[t], n, x), Top0(h[t], n, x) PROVE HandsOnce(h, x)
  <2>0. PICK v \in Threads : \E d \in 1..Len(g[v]) :
          /\ FrameOnce(g[v][d], x)
          /\ \A u \in Threads : \A e \in 1..Len(g[u]) :
               (u = v /\ e = d) \/ FrameZero(g[u][e], x)
    BY <1>6 DEF HandsOnce
  <2>1. PICK d \in 1..Len(g[v]) :
          /\ FrameOnce(g[v][d], x)
          /\ \A u \in Threads : \A e \in 1..Len(g[u]) :
               (u = v /\ e = d) \/ FrameZero(g[u][e], x)
    BY <2>0
  <2>2. \A f : FrameOnce(f, x) => ~FrameZero(f, x)
    BY DEF FrameOnce, FrameZero, Once, Zero
  <2>3. v = t => d \in 1..n
    BY <1>2, <1>6, <2>1, <2>2 DEF Top0
  <2>4. d \in 1..Len(h[v]) /\ h[v][d] = g[v][d]
    BY <1>0, <1>1, <1>2, <2>1, <2>3
  <2>5. \A u \in Threads : \A e \in 1..Len(h[u]) :
          (u = v /\ e = d) \/ FrameZero(h[u][e], x)
    <3> TAKE u \in Threads
    <3>1. CASE u # t
      BY <1>0, <2>1, <3>1
    <3>2. CASE u = t
      <4> TAKE e \in 1..Len(h[u])
      <4>1. CASE e \in 1..n
        BY <1>1, <1>2, <2>1, <3>2, <4>1
      <4>2. CASE e = n + 1 /\ b = n + 1
        BY <1>6, <3>2, <4>2 DEF Top0
      <4> QED BY <1>2, <3>2, <4>1, <4>2
    <3> QED BY <3>1, <3>2
  <2>6. FrameOnce(h[v][d], x)
    BY <2>1, <2>4
  <2> QED BY <2>4, <2>5, <2>6 DEF HandsOnce
<1>7. ASSUME HandsOnce(g, x), ~Top0(g[t], n, x)
      PROVE  /\ \A u \in Threads \ {t} : \A e \in 1..Len(g[u]) : FrameZero(g[u][e], x)
             /\ \A e \in 1..n : FrameZero(g[t][e], x)
             /\ Top1(g[t], n, x)
  <2>0. PICK v \in Threads : \E d \in 1..Len(g[v]) :
          FrameOnce(g[v][d], x) /\
          \A u \in Threads : \A e \in 1..Len(g[u]) :
            (u = v /\ e = d) \/ FrameZero(g[u][e], x)
    BY <1>7 DEF HandsOnce
  <2>1. PICK d \in 1..Len(g[v]) :
          FrameOnce(g[v][d], x) /\
          \A u \in Threads : \A e \in 1..Len(g[u]) :
            (u = v /\ e = d) \/ FrameZero(g[u][e], x)
    BY <2>0
  <2>2. a = n + 1 /\ n + 1 \in 1..a /\ ~FrameZero(g[t][n + 1], x)
    BY <1>2, <1>7 DEF Top0
  <2>3. v = t /\ d = n + 1
    BY <2>1, <2>2
  <2>4. Top1(g[t], n, x)
    BY <2>1, <2>2, <2>3 DEF Top1
  <2> QED BY <1>2, <2>1, <2>3, <2>4
<1>8. ASSUME \A u \in Threads \ {t} : \A e \in 1..Len(g[u]) : FrameZero(g[u][e], x),
             \A e \in 1..n : FrameZero(g[t][e], x)
      PROVE  /\ Top0(h[t], n, x) => HandsZero(h, x)
             /\ Top1(h[t], n, x) => HandsOnce(h, x)
  <2>1. \A e \in 1..n : FrameZero(h[t][e], x)
    BY <1>3, <1>8
  <2>2. \A u \in Threads : \A e \in 1..Len(h[u]) :
          (u = t /\ e = n + 1 /\ b = n + 1) \/ FrameZero(h[u][e], x)
    <3> TAKE u \in Threads
    <3>1. CASE u = t
      BY <1>2, <2>1, <3>1
    <3>2. CASE u # t
      BY <1>0, <1>8, <3>2
    <3> QED BY <3>1, <3>2
  <2>3. Top0(h[t], n, x) => HandsZero(h, x)
    BY <2>2 DEF Top0, HandsZero
  <2>4. Top1(h[t], n, x) => HandsOnce(h, x)
    <3> SUFFICES ASSUME Top1(h[t], n, x) PROVE HandsOnce(h, x)
      OBVIOUS
    <3>1. b = n + 1 /\ FrameOnce(h[t][n + 1], x) /\ n + 1 \in 1..Len(h[t])
      BY <1>2 DEF Top1
    <3> QED BY <2>2, <3>1 DEF HandsOnce
  <2> QED BY <2>3, <2>4
<1>9. Top1(g[t], n, x) => ~Top0(g[t], n, x)
  BY DEF Top0, Top1, FrameZero, FrameOnce, Zero, Once
<1>10. HandsZero(g, x) =>
         /\ \A u \in Threads \ {t} : \A e \in 1..Len(g[u]) : FrameZero(g[u][e], x)
         /\ \A e \in 1..n : FrameZero(g[t][e], x)
         /\ Top0(g[t], n, x)
  BY <1>2 DEF HandsZero, Top0
<1>11. Top0(g[t], n, x) /\ Top0(h[t], n, x) =>
         /\ HandsZero(g, x) => HandsZero(h, x)
         /\ HandsOnce(g, x) => HandsOnce(h, x)
  BY <1>5, <1>6
<1>12. ~Top0(g[t], n, x) /\ HandsOnce(g, x) =>
         /\ Top1(g[t], n, x)
         /\ Top0(h[t], n, x) => HandsZero(h, x)
         /\ Top1(h[t], n, x) => HandsOnce(h, x)
  BY <1>7, <1>8
<1>13. HandsZero(g, x) /\ Top1(h[t], n, x) => HandsOnce(h, x)
  BY <1>8, <1>10
<1>14. ~Top0(g[t], n, x) => ~HandsZero(g, x)
  BY <1>10
<1> QED BY <1>9, <1>11, <1>12, <1>13, <1>14

(* Replacing the top of a thread's stack, leaving a call and entering one.   *)
LEMMA SetTopHands ==
  ASSUME NEW g \in Stacks, NEW t \in Threads, g[t] # <<>>, NEW f \in FrameType, NEW x,
         NEW h, Tops(g, h, t, f)
  PROVE  LET old == Last(g[t])
         IN /\ h \in Stacks
            /\ (FrameZero(old, x) => FrameZero(f, x)) /\ (FrameOnce(old, x) => FrameOnce(f, x))
                 => KeepHands(g, h, x)
            /\ ~FrameZero(old, x) /\ (FrameOnce(old, x) => FrameZero(f, x)) => TakeHands(g, h, x)
            /\ (FrameZero(old, x) => FrameOnce(f, x)) => GiveHands(g, h, x)
            /\ (\A u \in Threads : StackOK(g[u])) /\ FrameOK(f) /\ f.op = old.op
                 => \A u \in Threads : StackOK(h[u])
<1> DEFINE s == g[t]
           n == Len(s) - 1
           old == Last(s)
           v == Front(s) \o <<f>>
<1>1. s \in Seq(FrameType)
  BY DEF Stacks
<1>2. /\ Len(s) \in Nat \ {0} /\ old = s[Len(s)]
  BY <1>1, StackPop
<1>3. /\ v \in Seq(FrameType) /\ Len(v) = Len(s) /\ v[Len(s)] = f
      /\ \A d \in 1..(Len(s) - 1) : v[d] = s[d]
  BY <1>1, StackSet
<1>4. n \in Nat /\ Len(s) = n + 1 /\ Len(v) = n + 1 /\ v[n + 1] = f /\ s[n + 1] = old
  <2>1. \A m \in Nat \ {0} : m - 1 \in Nat /\ m = (m - 1) + 1
    OBVIOUS
  <2> QED BY <1>2, <1>3, <2>1
<1> HIDE DEF v, old
<1>5. h[t] = v /\ \A u \in Threads \ {t} : h[u] = g[u]
  BY DEF Stacks, v, Tops
<1>6. h \in Stacks
  BY <1>3 DEF Stacks, v, Tops
<1>7. Changed(g, h, t, n)
  BY <1>3, <1>4, <1>5 DEF Differ, Changed
<1>8. /\ Top0(g[t], n, x) <=> FrameZero(old, x)
      /\ Top1(g[t], n, x) <=> FrameOnce(old, x)
      /\ Top0(h[t], n, x) <=> FrameZero(f, x)
      /\ Top1(h[t], n, x) <=> FrameOnce(f, x)
  BY <1>4, <1>5 DEF Top0, Top1
<1> HIDE DEF n
<1>9. /\ Top0(g[t], n, x) /\ Top0(h[t], n, x) =>
           /\ HandsZero(g, x) => HandsZero(h, x)
           /\ HandsOnce(g, x) => HandsOnce(h, x)
      /\ Top1(g[t], n, x) /\ Top1(h[t], n, x) /\ HandsOnce(g, x) => HandsOnce(h, x)
      /\ ~Top0(g[t], n, x) /\ Top0(h[t], n, x) /\ HandsOnce(g, x) => HandsZero(h, x)
      /\ ~Top0(g[t], n, x) => ~HandsZero(g, x)
      /\ ~Top0(g[t], n, x) /\ HandsOnce(g, x) => Top1(g[t], n, x)
      /\ Top1(h[t], n, x) /\ HandsZero(g, x) => HandsOnce(h, x)
  <2>1. n \in Nat /\ t \in Threads
    BY <1>4
  <2> QED BY ONLY <2>1, <1>7, HandsChange
<1>10. (\A u \in Threads : StackOK(g[u])) /\ FrameOK(f) /\ f.op = old.op
         => \A u \in Threads : StackOK(h[u])
  <2> SUFFICES ASSUME \A u \in Threads : StackOK(g[u]), FrameOK(f), f.op = old.op
               PROVE  \A u \in Threads : StackOK(h[u])
    OBVIOUS
  <2>1. StackOK(v)
    BY <1>1, StackShapes DEF v, old
  <2> QED BY <1>5, <2>1
<1>11. (FrameZero(old, x) => FrameZero(f, x)) /\ (FrameOnce(old, x) => FrameOnce(f, x))
         => KeepHands(g, h, x)
  BY <1>8, <1>9 DEF KeepHands
<1>12. ~FrameZero(old, x) /\ (FrameOnce(old, x) => FrameZero(f, x)) => TakeHands(g, h, x)
  BY <1>8, <1>9 DEF TakeHands
<1>13. (FrameZero(old, x) => FrameOnce(f, x)) => GiveHands(g, h, x)
  BY <1>8, <1>9 DEF GiveHands
<1> QED BY <1>6, <1>10, <1>11, <1>12, <1>13 DEF old

(* Leaving a call gives up what it holds.                                    *)
LEMMA PopHands ==
  ASSUME NEW g \in Stacks, NEW t \in Threads, g[t] # <<>>, NEW x,
         NEW h, Pops(g, h, t)
  PROVE  LET old == Last(g[t])
         IN /\ h \in Stacks
            /\ FrameZero(old, x) => KeepHands(g, h, x)
            /\ ~FrameZero(old, x) => TakeHands(g, h, x)
            /\ (\A u \in Threads : StackOK(g[u])) => \A u \in Threads : StackOK(h[u])
<1> DEFINE s == g[t]
           n == Len(s) - 1
           old == Last(s)
           v == Front(s)
<1>1. s \in Seq(FrameType)
  BY DEF Stacks
<1>2. /\ Len(s) \in Nat \ {0} /\ old = s[Len(s)]
      /\ v \in Seq(FrameType) /\ Len(v) = Len(s) - 1
      /\ \A d \in 1..(Len(s) - 1) : v[d] = s[d]
  BY <1>1, StackPop
<1>3. n \in Nat /\ Len(s) = n + 1 /\ Len(v) = n /\ s[n + 1] = old /\ n # n + 1
  BY <1>2
<1> HIDE DEF v, old
<1>4. h[t] = v /\ \A u \in Threads \ {t} : h[u] = g[u]
  BY DEF Stacks, v, Pops
<1>5. h \in Stacks
  BY <1>2 DEF Stacks, v, Pops
<1>6. Changed(g, h, t, n)
  BY <1>2, <1>3, <1>4 DEF Differ, Changed
<1>7. (Top0(g[t], n, x) <=> FrameZero(old, x)) /\ Top0(h[t], n, x)
  BY <1>3, <1>4 DEF Top0
<1> HIDE DEF n
<1>8. /\ Top0(g[t], n, x) /\ Top0(h[t], n, x) =>
           /\ HandsZero(g, x) => HandsZero(h, x)
           /\ HandsOnce(g, x) => HandsOnce(h, x)
      /\ Top1(g[t], n, x) /\ Top1(h[t], n, x) /\ HandsOnce(g, x) => HandsOnce(h, x)
      /\ ~Top0(g[t], n, x) /\ Top0(h[t], n, x) /\ HandsOnce(g, x) => HandsZero(h, x)
      /\ ~Top0(g[t], n, x) => ~HandsZero(g, x)
      /\ ~Top0(g[t], n, x) /\ HandsOnce(g, x) => Top1(g[t], n, x)
      /\ Top1(h[t], n, x) /\ HandsZero(g, x) => HandsOnce(h, x)
  <2>1. n \in Nat /\ t \in Threads
    BY <1>3
  <2> QED BY ONLY <2>1, <1>6, HandsChange
<1>9. (\A u \in Threads : StackOK(g[u])) => \A u \in Threads : StackOK(h[u])
  <2> SUFFICES ASSUME \A u \in Threads : StackOK(g[u]) PROVE \A u \in Threads : StackOK(h[u])
    OBVIOUS
  <2>1. StackOK(v)
    BY <1>1, StackShapes DEF v
  <2> QED BY <1>4, <2>1
<1>10. FrameZero(old, x) => KeepHands(g, h, x)
  BY <1>7, <1>8 DEF KeepHands
<1>11. ~FrameZero(old, x) => TakeHands(g, h, x)
  BY <1>7, <1>8 DEF TakeHands
<1> QED BY <1>5, <1>9, <1>10, <1>11 DEF old

(* Entering a call that holds nothing changes no count.                      *)
LEMMA PushHands ==
  ASSUME NEW g \in Stacks, NEW t \in Threads, NEW f \in FrameType, NEW x,
         NEW h, Pushes(g, h, t, f), FrameZero(f, x)
  PROVE  /\ h \in Stacks
         /\ KeepHands(g, h, x)
         /\ (/\ \A u \in Threads : StackOK(g[u])
             /\ FrameOK(f)
             /\ g[t] = <<>> \/ (f.op # "next" /\ Last(g[t]).op # "next"))
              => \A u \in Threads : StackOK(h[u])
<1> DEFINE s == g[t]
           n == Len(s)
           v == Append(s, f)
<1>1. s \in Seq(FrameType)
  BY DEF Stacks
<1>2. /\ v \in Seq(FrameType) /\ Len(s) \in Nat /\ Len(v) = Len(s) + 1
      /\ v[Len(s) + 1] = f /\ \A d \in 1..Len(s) : v[d] = s[d]
  BY <1>1, StackPush
<1>3. n \in Nat /\ Len(s) = n /\ Len(v) = n + 1 /\ v[n + 1] = f /\ n # n + 1
  BY <1>2
<1> HIDE DEF v
<1>4. h[t] = v /\ \A u \in Threads \ {t} : h[u] = g[u]
  BY DEF Stacks, v, Pushes
<1>5. h \in Stacks
  BY <1>2 DEF Stacks, v, Pushes
<1>6. Changed(g, h, t, n)
  BY <1>2, <1>3, <1>4 DEF Differ, Changed
<1>7. Top0(g[t], n, x) /\ Top0(h[t], n, x)
  BY <1>3, <1>4 DEF Top0
<1> HIDE DEF n
<1>8. /\ HandsZero(g, x) => HandsZero(h, x)
      /\ HandsOnce(g, x) => HandsOnce(h, x)
  <2>1. n \in Nat /\ t \in Threads
    BY <1>3
  <2> QED BY ONLY <2>1, <1>6, <1>7, HandsChange
<1>9. (/\ \A u \in Threads : StackOK(g[u])
       /\ FrameOK(f)
       /\ g[t] = <<>> \/ (f.op # "next" /\ Last(g[t]).op # "next"))
        => \A u \in Threads : StackOK(h[u])
  <2> SUFFICES ASSUME \A u \in Threads : StackOK(g[u]), FrameOK(f),
                      s = <<>> \/ (f.op # "next" /\ Last(s).op # "next")
               PROVE  \A u \in Threads : StackOK(h[u])
    OBVIOUS
  <2>1. StackOK(v)
    BY <1>1, StackShapes DEF v
  <2> QED BY <1>4, <2>1
<1> QED BY <1>5, <1>8, <1>9 DEF KeepHands

(* The next event of a batch is dealt with.                                  *)
LEMMA RestCounts ==
  ASSUME NEW old \in FrameType, FrameOK(old), old.batch # <<>>, NEW x
  PROVE  LET e == Head(old.batch)
             f == RestOf(old)
         IN /\ f \in FrameType /\ FrameOK(f) /\ f.op = old.op
            /\ f.got = old.got /\ f.win = old.win /\ f.stage = old.stage
            /\ e \in EventType /\ old.stage = "convert"
            /\ \E n \in Nat \ {0} : e.id = 2 * n
            /\ e.id # x => (FrameZero(old, x) => FrameZero(f, x))
                            /\ (FrameOnce(old, x) => FrameOnce(f, x))
            /\ e.id = x => ~FrameZero(old, x) /\ (FrameOnce(old, x) => FrameZero(f, x))
            /\ e.id = x /\ FrameOnce(old, x) => Zero(f.batch, x) /\ old.got.id # x
            /\ old.op = "next" /\ x # 0 => (FrameZero(old, x) <=> e.id # x)
<1> DEFINE b == old.batch
           e == Head(b)
           f == RestOf(old)
<1>1. b \in Seq(EventType) /\ old.got \in EventType /\ old.stage = "convert" /\ Even(b)
  BY DEF FrameType, FrameOK
<1>2. /\ Tail(b) \in Seq(EventType) /\ e \in EventType /\ e = b[1] /\ 1 \in 1..Len(b)
      /\ Len(Tail(b)) = Len(b) - 1
      /\ Zero(b, x) => Zero(Tail(b), x) /\ e.id # x
      /\ e.id # x /\ Once(b, x) => Once(Tail(b), x)
      /\ e.id = x /\ Once(b, x) => Zero(Tail(b), x)
      /\ Even(b) => Even(Tail(b)) /\ \E n \in Nat \ {0} : e.id = 2 * n
  BY <1>1, TailCounts
<1>3. /\ f \in FrameType /\ f.batch = Tail(b) /\ f.got = old.got /\ f.op = old.op
      /\ f.win = old.win /\ f.stage = old.stage
  <2> HIDE DEF EventType
  <2> QED BY <1>2 DEF FrameType, RestOf
<1> HIDE DEF b, e, f
<1>4. Len(b) \in Nat
  BY <1>1, LenProperties
<1>5. FrameOK(f)
  <2>1. f.op = "next" => Len(f.batch) <= 1 /\ f.got = NoEvent
    <3> SUFFICES ASSUME f.op = "next" PROVE Len(f.batch) <= 1 /\ f.got = NoEvent
      OBVIOUS
    <3>1. Len(b) <= 1 /\ old.got = NoEvent
      BY <1>3 DEF FrameOK, b
    <3> QED BY <1>2, <1>3, <1>4, <3>1
  <2>2. f.stage = "convert" /\ Even(f.batch)
    BY <1>1, <1>2, <1>3
  <2> QED BY <2>1, <2>2 DEF FrameOK
<1>6. e.id # x => (FrameZero(old, x) => FrameZero(f, x)) /\ (FrameOnce(old, x) => FrameOnce(f, x))
  BY <1>2, <1>3 DEF FrameZero, FrameOnce, b
<1>7. e.id = x => ~FrameZero(old, x)
  BY <1>2 DEF FrameZero, b
<1>8. e.id = x /\ FrameOnce(old, x) => FrameZero(f, x) /\ old.got.id # x
  BY <1>2, <1>3 DEF FrameZero, FrameOnce, b
<1>9. old.op = "next" /\ x # 0 => (FrameZero(old, x) <=> e.id # x)
  <2> SUFFICES ASSUME old.op = "next", x # 0, e.id # x PROVE FrameZero(old, x)
    BY <1>7
  <2>1. Len(b) <= 1 /\ old.got = NoEvent
    BY DEF FrameOK, b
  <2>2. Zero(b, x)
    <3>1. \A i \in 1..Len(b) : i = 1
      BY <1>4, <2>1
    <3> QED BY <1>2, <3>1 DEF Zero
  <2>3. NoEvent.id = 0
    BY DEF NoEvent, Event
  <2> QED BY <2>1, <2>2, <2>3 DEF FrameZero, b
<1> QED BY <1>1, <1>2, <1>3, <1>5, <1>6, <1>7, <1>8, <1>9 DEF FrameZero, b, e, f

(* An empty call has nothing.                                                *)
LEMMA EmptyFrame ==
  ASSUME NEW op \in {"next", "drain", "check", "discard"}, NEW w \in Windows \union {NoEvent.win},
         NEW stage \in {"search", "sweep", "take"}, NEW x, x # 0
  PROVE  LET f == Frame(op, w, stage, <<>>)
         IN f \in FrameType /\ FrameOK(f) /\ FrameZero(f, x) /\ f.op = op
<1>1. NoEvent \in EventType /\ NoEvent.id = 0
  BY DEF NoEvent, Event, EventType
<1>2. Frame(op, w, stage, <<>>) \in FrameType
  <2> HIDE DEF EventType
  <2> QED BY <1>1 DEF Frame, FrameType
<1>3. Even(<<>>) /\ Zero(<<>>, x) /\ Len(<<>>) = 0
  BY DEF Even, Zero
<1> QED BY <1>1, <1>2, <1>3 DEF Frame, FrameOK, FrameZero

-----------------------------------------------------------------------------
(* What the steps do.  NoEvent is nobody's.                                  *)
LEMMA NoEventZero ==
  NoEvent \in EventType /\ \A n \in Nat \ {0} : NoEvent.id # 2 * n
  BY DEF NoEvent, Event, EventType

(* The threads and the kinds of a client are known ones.                     *)
LEMMA KnownClient ==
  ASSUME QueueTypes
  PROVE  /\ client.threads \subseteq Threads /\ Main \in client.threads
         /\ client.kinds \subseteq {"plain", "swallow", "crossing", "destroy"}
  BY QueueAssumption DEF QueueTypes

(* An event is pushed: SDL's queue has it.                                   *)
LEMMA PushKeeps ==
  ASSUME QueueTypes, FramesInv, UNCHANGED client,
         NEW w \in Windows, NEW kind \in client.kinds, Push(w, kind)
  PROVE  /\ QueueTypes' /\ FramesInv' /\ pushed' = pushed + 1
         /\ \A n \in Nat \ {0} :
              IF n = pushed + 1 THEN Nowhere(2 * n) => Somewhere(2 * n)' ELSE Kept(2 * n)
<1> DEFINE e == Event(2 * (pushed + 1), w, kind)
<1>1. /\ pushed' = pushed + 1 /\ sdl' = Append(sdl, e)
      /\ UNCHANGED <<putBack, frames, taken, gone>>
  BY DEF Push
<1>2. e \in EventType /\ e.id = 2 * (pushed + 1) /\ pushed \in Nat
  <2>1. kind \in {"plain", "swallow", "crossing", "destroy"}
    BY KnownClient
  <2>2. pushed \in Nat
    BY DEF QueueTypes
  <2> QED BY <2>1, <2>2 DEF Event, EventType
<1> HIDE DEF e
<1>3. sdl \in Seq(EventType) /\ Even(sdl) /\ pushed + 1 \in Nat \ {0}
  BY <1>2 DEF QueueTypes, FramesInv
<1>4. \A x : /\ sdl' \in Seq(EventType)
             /\ e.id # x /\ Zero(sdl, x) => Zero(sdl', x)
             /\ e.id # x /\ Once(sdl, x) => Once(sdl', x)
             /\ e.id = x /\ Zero(sdl, x) => Once(sdl', x)
             /\ Even(sdl')
  BY <1>1, <1>2, <1>3, AppendCounts
<1>5. QueueTypes'
  BY <1>1, <1>3, <1>4 DEF QueueTypes
<1>6. FramesInv'
  BY <1>1, <1>4 DEF FramesInv
<1>7. ASSUME NEW n \in Nat \ {0}
      PROVE  IF n = pushed + 1 THEN Nowhere(2 * n) => Somewhere(2 * n)' ELSE Kept(2 * n)
  <2>1. n # pushed + 1 => e.id # 2 * n
    BY <1>2
  <2>2. CASE n = pushed + 1
    <3>1. Nowhere(2 * n) => Once(sdl', 2 * n)
      BY <1>2, <1>4, <2>2 DEF Nowhere
    <3> QED BY <1>1, <2>2, <3>1 DEF Nowhere, Somewhere
  <2>3. CASE n # pushed + 1
    <3>1. KeepList(sdl, sdl', 2 * n)
      BY <1>4, <2>1, <2>3 DEF KeepList
    <3> QED BY <1>1, <2>3, <3>1 DEF Kept, KeepList, Nowhere, Somewhere
  <2> QED BY <2>2, <2>3
<1> QED BY <1>1, <1>5, <1>6, <1>7

(* An event is put back: the put-back list has it, and the client not.       *)
LEMMA PutBackKeeps ==
  ASSUME QueueTypes, FramesInv, UNCHANGED client, NEW t \in client.threads, XPutBackEvent(t)
  PROVE  QueueTypes' /\ FramesInv' /\ pushed' = pushed /\ KeepsAll
<1>1. PICK e \in taken : taken' = taken \ {e} /\ putBack' = <<e>> \o putBack
  BY DEF XPutBackEvent
<1>2. UNCHANGED <<sdl, frames, gone, pushed>>
  BY DEF XPutBackEvent
<1>3. e \in EventType /\ putBack \in Seq(EventType)
  BY DEF QueueTypes
<1>4. ASSUME NEW x
      PROVE  /\ putBack' \in Seq(EventType)
             /\ e.id # x => KeepList(putBack, putBack', x) /\ KeepSet(taken, taken', x)
             /\ e.id = x => GiveList(putBack, putBack', x) /\ TakeSet(taken, taken', x)
  <2>1. /\ putBack' \in Seq(EventType)
        /\ e.id # x /\ Zero(putBack, x) => Zero(putBack', x)
        /\ e.id # x /\ Once(putBack, x) => Once(putBack', x)
        /\ e.id = x /\ Zero(putBack, x) => Once(putBack', x)
    BY <1>1, <1>3, PushCounts
  <2>2. /\ e.id # x /\ ZeroIn(taken, x) => ZeroIn(taken', x)
        /\ e.id # x /\ OnceIn(taken, x) => OnceIn(taken', x)
        /\ e.id = x /\ OnceIn(taken, x) => ZeroIn(taken', x)
        /\ e.id = x => ~ZeroIn(taken, x)
    BY <1>1, SetCounts
  <2> QED BY <2>1, <2>2 DEF KeepList, GiveList, KeepSet, TakeSet
<1>5. ASSUME NEW n \in Nat \ {0} PROVE Kept(2 * n)
  <2>1. CASE e.id # 2 * n
    BY <1>2, <1>4, <2>1 DEF Kept, KeepList, KeepSet, Nowhere, Somewhere
  <2>2. CASE e.id = 2 * n
    BY <1>2, <1>4, <2>2 DEF Kept, GiveList, TakeSet, Nowhere, Somewhere
  <2> QED BY <2>1, <2>2
<1>6. QueueTypes' /\ FramesInv'
  BY <1>1, <1>2, <1>4 DEF QueueTypes, FramesInv
<1> QED BY <1>2, <1>5, <1>6 DEF KeepsAll

(* The first event of the put-back list is returned.                         *)
LEMMA PopKeeps ==
  ASSUME QueueTypes, FramesInv, UNCHANGED client, NEW t \in client.threads, popPutBackEvent(t)
  PROVE  QueueTypes' /\ FramesInv' /\ pushed' = pushed /\ KeepsAll
<1> DEFINE e == Head(putBack)
<1>1. /\ putBack # <<>> /\ taken' = taken \union {e} /\ putBack' = Tail(putBack)
      /\ UNCHANGED <<sdl, frames, gone, pushed>>
  BY DEF popPutBackEvent
<1>2. putBack \in Seq(EventType)
  BY DEF QueueTypes
<1> HIDE DEF e
<1>3. ASSUME NEW x
      PROVE  /\ putBack' \in Seq(EventType) /\ e \in EventType
             /\ e.id # x => KeepList(putBack, putBack', x) /\ KeepSet(taken, taken', x)
             /\ e.id = x => TakeList(putBack, putBack', x) /\ GiveSet(taken, taken', x)
  <2>1. /\ putBack' \in Seq(EventType) /\ e \in EventType
        /\ Zero(putBack, x) => Zero(putBack', x) /\ e.id # x
        /\ e.id # x /\ Once(putBack, x) => Once(putBack', x)
        /\ e.id = x /\ Once(putBack, x) => Zero(putBack', x)
    BY <1>1, <1>2, TailCounts DEF e
  <2>2. /\ e.id # x /\ ZeroIn(taken, x) => ZeroIn(taken', x)
        /\ e.id # x /\ OnceIn(taken, x) => OnceIn(taken', x)
        /\ e.id = x /\ ZeroIn(taken, x) => OnceIn(taken', x)
    BY <1>1, SetCounts
  <2> QED BY <2>1, <2>2 DEF KeepList, TakeList, KeepSet, GiveSet
<1>4. ASSUME NEW n \in Nat \ {0} PROVE Kept(2 * n)
  <2>1. CASE e.id # 2 * n
    BY <1>1, <1>3, <2>1 DEF Kept, KeepList, KeepSet, Nowhere, Somewhere
  <2>2. CASE e.id = 2 * n
    BY <1>1, <1>3, <2>2 DEF Kept, TakeList, GiveSet, Nowhere, Somewhere
  <2> QED BY <2>1, <2>2
<1>5. QueueTypes' /\ FramesInv'
  <2>1. taken' \subseteq EventType
    BY <1>1, <1>3 DEF QueueTypes
  <2> QED BY <1>1, <1>3, <2>1 DEF QueueTypes, FramesInv
<1> QED BY <1>1, <1>4, <1>5 DEF KeepsAll

(* A call begins with nothing in hand.                                       *)
LEMMA EnterKeeps ==
  ASSUME QueueTypes, FramesInv, UNCHANGED <<client, sdl, putBack, taken, gone, pushed>>,
         NEW t \in Threads, frames[t] = <<>>,
         NEW op \in {"next", "drain", "check", "discard"}, NEW w \in Windows \union {NoEvent.win},
         NEW stage \in {"search", "sweep", "take"}, Enter(t, Frame(op, w, stage, <<>>))
  PROVE  QueueTypes' /\ FramesInv' /\ pushed' = pushed /\ KeepsAll
<1> DEFINE f == Frame(op, w, stage, <<>>)
<1>1. frames' = [frames EXCEPT ![t] = Append(@, f)]
  BY DEF Enter
<1>2. f \in FrameType /\ FrameOK(f) /\ \A n \in Nat \ {0} : FrameZero(f, 2 * n)
  <2>1. \A n \in Nat \ {0} : 2 * n # 0
    OBVIOUS
  <2>2. 1 \in Nat \ {0}
    OBVIOUS
  <2>3. \A x : x # 0 => f \in FrameType /\ FrameOK(f) /\ FrameZero(f, x)
    BY EmptyFrame
  <2> HIDE DEF f
  <2> QED BY <2>1, <2>2, <2>3
<1>3. frames \in Stacks
  BY DEF QueueTypes
<1> HIDE DEF f
<1>4. ASSUME NEW n \in Nat \ {0}
      PROVE  /\ frames' \in Stacks /\ KeepHands(frames, frames', 2 * n)
             /\ \A u \in Threads : StackOK(frames'[u])
  <2> DEFINE x == 2 * n
             g == frames
             h == frames'
  <2>1. \A u \in Threads : StackOK(g[u])
    BY DEF FramesInv
  <2>2. f \in FrameType /\ FrameOK(f) /\ FrameZero(f, x) /\ g \in Stacks /\ t \in Threads
        /\ Pushes(g, h, t, f) /\ g[t] = <<>>
    BY <1>1, <1>2, <1>3 DEF Pushes
  <2> HIDE DEF x, g, h
  <2>3. /\ h \in Stacks
        /\ KeepHands(g, h, x)
        /\ (/\ \A u \in Threads : StackOK(g[u])
            /\ FrameOK(f)
            /\ g[t] = <<>> \/ (f.op # "next" /\ Last(g[t]).op # "next"))
             => \A u \in Threads : StackOK(h[u])
    BY ONLY <2>2, PushHands
  <2> QED BY <2>1, <2>2, <2>3 DEF x, g, h
<1>5. ASSUME NEW n \in Nat \ {0} PROVE Kept(2 * n)
  BY <1>4 DEF Kept, KeepHands, Nowhere, Somewhere
<1>6. 1 \in Nat \ {0}
  OBVIOUS
<1>7. QueueTypes' /\ FramesInv'
  BY <1>4, <1>6 DEF QueueTypes, FramesInv
<1> QED BY <1>5, <1>7 DEF KeepsAll
(* A thread's next event is dealt with: a call that has others goes on, and  *)
(* XNextEvent has left or looks again.                                       *)
LEMMA DealsHands ==
  ASSUME NEW g \in Stacks, NEW t \in Threads, \A u \in Threads : StackOK(g[u]),
         g[t] # <<>>, Last(g[t]).batch # <<>>, NEW h, Deals(g, h, t), NEW x, x # 0
  PROVE  LET e == Head(Last(g[t]).batch)
         IN /\ h \in Stacks /\ \A u \in Threads : StackOK(h[u])
            /\ e \in EventType /\ \E n \in Nat \ {0} : e.id = 2 * n
            /\ e.id # x => KeepHands(g, h, x)
            /\ e.id = x => TakeHands(g, h, x)
            /\ h[t] = <<>> \/ Last(h[t]).op # "next"
<1> DEFINE s == g[t]
           old == Last(g[t])
           e == Head(old.batch)
           f == RestOf(old)
<1>1. s \in Seq(FrameType) /\ StackOK(s)
  BY DEF Stacks
<1>2. old \in FrameType /\ FrameOK(old) /\ (old.op = "next" => Front(s) = <<>>)
  BY <1>1, StackPop, StackShapes
<1> HIDE DEF old
<1>3. /\ f \in FrameType /\ FrameOK(f) /\ f.op = old.op
      /\ e \in EventType /\ \E n \in Nat \ {0} : e.id = 2 * n
      /\ e.id # x => (FrameZero(old, x) => FrameZero(f, x))
                      /\ (FrameOnce(old, x) => FrameOnce(f, x))
      /\ e.id = x => ~FrameZero(old, x) /\ (FrameOnce(old, x) => FrameZero(f, x))
      /\ old.op = "next" => (FrameZero(old, x) <=> e.id # x)
  <2>1. old.batch # <<>>
    BY DEF old
  <2> HIDE DEF s
  <2> QED BY <1>2, <2>1, RestCounts
<1> HIDE DEF s, e, f
<1>4. CASE old.op = "next"
  <2>1. Pops(g, h, t)
    BY <1>4 DEF Deals, old
  <2>2. /\ h \in Stacks
        /\ FrameZero(old, x) => KeepHands(g, h, x)
        /\ ~FrameZero(old, x) => TakeHands(g, h, x)
        /\ \A u \in Threads : StackOK(h[u])
    BY <2>1, PopHands DEF old
  <2>3. h[t] = <<>>
    BY <1>2, <1>4, <2>1 DEF Pops, Stacks, s
  <2> QED BY <1>3, <1>4, <2>2, <2>3 DEF old, e
<1>5. CASE old.op # "next"
  <2>1. Tops(g, h, t, f)
    BY <1>5 DEF Deals, old, f
  <2>2. /\ h \in Stacks
        /\ (FrameZero(old, x) => FrameZero(f, x)) /\ (FrameOnce(old, x) => FrameOnce(f, x))
             => KeepHands(g, h, x)
        /\ ~FrameZero(old, x) /\ (FrameOnce(old, x) => FrameZero(f, x)) => TakeHands(g, h, x)
        /\ \A u \in Threads : StackOK(h[u])
    BY <1>3, <2>1, SetTopHands DEF old
  <2>3. h[t] = Front(s) \o <<f>>
    BY <2>1 DEF Tops, Stacks, s
  <2>4. Last(h[t]).op # "next"
    <3>1. /\ h[t] \in Seq(FrameType) /\ Len(h[t]) = Len(s) /\ h[t][Len(s)] = f
      <4>1. s # <<>>
        BY DEF s
      <4> QED BY <1>1, <1>3, <2>3, <4>1, StackSet
    <3>2. Last(h[t]) = f
      BY <3>1 DEF Last
    <3> QED BY <1>3, <1>5, <3>2
  <2> QED BY <1>3, <1>5, <2>2, <2>4 DEF old, e
<1> QED BY <1>4, <1>5
(* XNextEvent takes the first event of SDL's queue, or leaves.               *)
LEMMA NextTakesKeeps ==
  ASSUME QueueTypes, FramesInv, UNCHANGED client, NEW t \in Threads, NextTakes(t)
  PROVE  QueueTypes' /\ FramesInv' /\ pushed' = pushed /\ KeepsAll
<1> DEFINE old == top(t)
           e == Head(sdl)
           f == [old EXCEPT !.stage = "convert", !.batch = <<e>>]
<1>1. /\ frames[t] # <<>> /\ old.op = "next" /\ old.stage = "take"
      /\ UNCHANGED <<putBack, taken, gone, pushed>>
  BY DEF NextTakes
<1>2. frames \in Stacks /\ frames[t] \in Seq(FrameType) /\ sdl \in Seq(EventType) /\ Even(sdl)
      /\ \A u \in Threads : StackOK(frames[u])
  BY DEF QueueTypes, FramesInv, Stacks
<1>3. /\ old = Last(frames[t]) /\ old \in FrameType /\ FrameOK(old) /\ Front(frames[t]) = <<>>
  BY <1>1, <1>2, StackPop, StackShapes DEF top
<1>4. old.batch = <<>> /\ old.got = NoEvent /\ \A n \in Nat \ {0} : FrameZero(old, 2 * n)
  <2>1. old.batch = <<>> /\ old.got = NoEvent
    BY <1>1, <1>3 DEF FrameOK
  <2>2. \A x : Zero(<<>>, x)
    BY DEF Zero
  <2> QED BY <2>1, <2>2, NoEventZero DEF FrameZero
<1> HIDE DEF old
<1>5. CASE sdl = <<>>
  <2>1. Pops(frames, frames', t) /\ UNCHANGED sdl
    BY <1>3, <1>5 DEF NextTakes, Pops
  <2>2. ASSUME NEW n \in Nat \ {0}
        PROVE  /\ frames' \in Stacks /\ KeepHands(frames, frames', 2 * n)
               /\ \A u \in Threads : StackOK(frames'[u])
    BY <1>1, <1>2, <1>3, <1>4, <2>1, PopHands
  <2>3. ASSUME NEW n \in Nat \ {0} PROVE Kept(2 * n)
    BY <1>1, <2>1, <2>2 DEF Kept, KeepHands, Nowhere, Somewhere
  <2>4. 1 \in Nat \ {0}
    OBVIOUS
  <2>5. QueueTypes' /\ FramesInv'
    BY <1>1, <2>1, <2>2, <2>4 DEF QueueTypes, FramesInv
  <2> QED BY <1>1, <2>3, <2>5 DEF KeepsAll
<1>6. CASE sdl # <<>>
  <2>1. Tops(frames, frames', t, f) /\ sdl' = Tail(sdl)
    BY <1>6 DEF NextTakes, SetTop, Tops, old
  <2>2. ASSUME NEW x
        PROVE  /\ sdl' \in Seq(EventType) /\ e \in EventType /\ Even(sdl')
               /\ \E n \in Nat \ {0} : e.id = 2 * n
               /\ e.id # x => KeepList(sdl, sdl', x)
               /\ e.id = x => TakeList(sdl, sdl', x)
    <3>1. /\ Tail(sdl) \in Seq(EventType) /\ e \in EventType
          /\ Zero(sdl, x) => Zero(Tail(sdl), x) /\ e.id # x
          /\ e.id # x /\ Once(sdl, x) => Once(Tail(sdl), x)
          /\ e.id = x /\ Once(sdl, x) => Zero(Tail(sdl), x)
          /\ Even(sdl) => Even(Tail(sdl)) /\ \E n \in Nat \ {0} : e.id = 2 * n
      BY <1>2, <1>6, TailCounts
    <3> QED BY <1>2, <2>1, <3>1 DEF KeepList, TakeList
  <2> HIDE DEF e
  <2>3. f \in FrameType /\ f.op = old.op /\ f.batch = <<e>> /\ f.got = NoEvent
        /\ f.stage = "convert"
    <3>1. <<e>> \in Seq(EventType)
      <4> HIDE DEF EventType
      <4> QED BY <2>2
    <3> HIDE DEF EventType
    <3> QED BY <1>3, <1>4, <3>1 DEF FrameType
  <2> HIDE DEF f
  <2>4. Len(<<e>>) = 1 /\ <<e>>[1] = e /\ \A i \in 1..1 : i = 1
    OBVIOUS
  <2>5. FrameOK(f)
    <3>1. Even(<<e>>)
      BY <2>2, <2>4 DEF Even
    <3> QED BY <2>3, <2>4, <3>1 DEF FrameOK
  <2>6. ASSUME NEW n \in Nat \ {0}
        PROVE  /\ e.id # 2 * n => FrameZero(f, 2 * n)
               /\ e.id = 2 * n => FrameOnce(f, 2 * n)
    <3>1. f.got.id # 2 * n
      BY <2>3, NoEventZero
    <3>2. e.id # 2 * n => Zero(f.batch, 2 * n)
      BY <2>3, <2>4 DEF Zero
    <3>3. e.id = 2 * n => Once(f.batch, 2 * n)
      BY <2>3, <2>4 DEF Once
    <3> QED BY <3>1, <3>2, <3>3 DEF FrameZero, FrameOnce
  <2>7. ASSUME NEW n \in Nat \ {0}
        PROVE  /\ frames' \in Stacks /\ \A u \in Threads : StackOK(frames'[u])
               /\ e.id # 2 * n => KeepHands(frames, frames', 2 * n)
               /\ e.id = 2 * n => GiveHands(frames, frames', 2 * n)
    <3> DEFINE x == 2 * n
    <3>1. FrameZero(old, x) /\ (e.id # x => FrameZero(f, x)) /\ (e.id = x => FrameOnce(f, x))
      BY <1>4, <2>6
    <3>2. ~FrameOnce(old, x)
      BY <3>1 DEF FrameOnce, FrameZero, Once, Zero
    <3> HIDE DEF x
    <3>3. /\ frames' \in Stacks
          /\ (FrameZero(old, x) => FrameZero(f, x)) /\ (FrameOnce(old, x) => FrameOnce(f, x))
               => KeepHands(frames, frames', x)
          /\ (FrameZero(old, x) => FrameOnce(f, x)) => GiveHands(frames, frames', x)
          /\ (\A u \in Threads : StackOK(frames[u])) /\ FrameOK(f) /\ f.op = old.op
               => \A u \in Threads : StackOK(frames'[u])
      BY <1>1, <1>2, <1>3, <2>1, <2>3, SetTopHands
    <3> QED BY <1>2, <2>3, <2>5, <3>1, <3>2, <3>3 DEF x
  <2>8. ASSUME NEW n \in Nat \ {0} PROVE Kept(2 * n)
    <3>1. CASE e.id # 2 * n
      BY <1>1, <2>2, <2>7, <3>1 DEF Kept, KeepList, KeepHands, Nowhere, Somewhere
    <3>2. CASE e.id = 2 * n
      BY <1>1, <2>2, <2>7, <3>2 DEF Kept, TakeList, GiveHands, Nowhere, Somewhere
    <3> QED BY <3>1, <3>2
  <2>9. 1 \in Nat \ {0}
    OBVIOUS
  <2>10. QueueTypes' /\ FramesInv'
    BY <1>1, <2>2, <2>7, <2>9 DEF QueueTypes, FramesInv
  <2> QED BY <1>1, <2>8, <2>10 DEF KeepsAll
<1> QED BY <1>5, <1>6

(* Which events match.                                                       *)
LEMMA MatchesIn ==
  ASSUME putBack \in Seq(EventType), NEW w
  PROVE  /\ Matches(w) \in SUBSET (1..Len(putBack))
         /\ Matches(w) # {} => First(Matches(w)) \in Matches(w)
<1>1. Len(putBack) \in Nat
  BY LenProperties
<1>2. Matches(w) \in SUBSET (1..Len(putBack))
  BY DEF Matches
<1>3. Matches(w) \in SUBSET Nat
  <2>1. \A i \in 1..Len(putBack) : i \in Nat
    BY <1>1
  <2> QED BY <1>2, <2>1
<1>4. IsFiniteSet(Matches(w))
  <2>1. IsFiniteSet(1..Len(putBack))
    BY <1>1, FS_Interval
  <2> QED BY <1>2, <2>1, FS_Subset
<1> QED BY <1>2, <1>3, <1>4, FirstIn

(* One of the put-back list is returned: the list has it no more.            *)
LEMMA TakesFromPutBack ==
  ASSUME putBack \in Seq(EventType), NEW i \in 1..Len(putBack),
         taken' = taken \union {putBack[i]}, putBack' = RemoveAt(putBack, i), NEW x
  PROVE  /\ putBack' \in Seq(EventType) /\ putBack[i] \in EventType
         /\ putBack[i].id # x => KeepList(putBack, putBack', x) /\ KeepSet(taken, taken', x)
         /\ putBack[i].id = x => TakeList(putBack, putBack', x) /\ GiveSet(taken, taken', x)
<1>1. /\ putBack' \in Seq(EventType)
      /\ Zero(putBack, x) => Zero(putBack', x)
      /\ putBack[i].id # x /\ Once(putBack, x) => Once(putBack', x)
      /\ putBack[i].id = x /\ Once(putBack, x) => Zero(putBack', x)
  BY RemoveCounts
<1>2. putBack[i] \in EventType
  BY ElementOfSeq
<1>3. /\ putBack[i].id # x /\ ZeroIn(taken, x) => ZeroIn(taken', x)
      /\ putBack[i].id # x /\ OnceIn(taken, x) => OnceIn(taken', x)
      /\ putBack[i].id = x /\ ZeroIn(taken, x) => OnceIn(taken', x)
  BY SetCounts
<1>4. putBack[i].id = x => ~Zero(putBack, x)
  BY DEF Zero
<1> QED BY <1>1, <1>2, <1>3, <1>4 DEF KeepList, TakeList, KeepSet, GiveSet
(* The call a thread is in.                                                  *)
LEMMA TopOf ==
  ASSUME QueueTypes, FramesInv, NEW t \in Threads, frames[t] # <<>>
  PROVE  /\ frames \in Stacks /\ \A u \in Threads : StackOK(frames[u])
         /\ top(t) = Last(frames[t]) /\ top(t) \in FrameType /\ FrameOK(top(t))
         /\ sdl \in Seq(EventType) /\ Even(sdl) /\ putBack \in Seq(EventType)
         /\ top(t).stage # "convert" =>
              /\ top(t).batch = <<>> /\ top(t).got = NoEvent
              /\ \A n \in Nat \ {0} : FrameZero(top(t), 2 * n)
<1>1. /\ frames \in Stacks /\ frames[t] \in Seq(FrameType) /\ \A u \in Threads : StackOK(frames[u])
      /\ sdl \in Seq(EventType) /\ Even(sdl) /\ putBack \in Seq(EventType)
  BY DEF QueueTypes, FramesInv, Stacks
<1>2. top(t) = Last(frames[t]) /\ Last(frames[t]) \in FrameType /\ FrameOK(Last(frames[t]))
  BY <1>1, StackPop, StackShapes DEF top
<1>3. top(t).stage # "convert" => top(t).batch = <<>> /\ top(t).got = NoEvent
  BY <1>2 DEF FrameOK
<1>4. \A x : Zero(<<>>, x)
  BY DEF Zero
<1>5. top(t).stage # "convert" => \A n \in Nat \ {0} : FrameZero(top(t), 2 * n)
  BY <1>3, <1>4, NoEventZero DEF FrameZero
<1> QED BY <1>1, <1>2, <1>3, <1>5

(* A locked call returns: its frame is left.                                 *)
LEMMA Leaves ==
  ASSUME QueueTypes, FramesInv, NEW t \in Threads, frames[t] # <<>>, Pops(frames, frames', t)
  PROVE  /\ frames' \in Stacks /\ \A u \in Threads : StackOK(frames'[u])
         /\ \A n \in Nat \ {0} :
              /\ FrameZero(top(t), 2 * n) => KeepHands(frames, frames', 2 * n)
              /\ ~FrameZero(top(t), 2 * n) => TakeHands(frames, frames', 2 * n)
<1>1. /\ frames \in Stacks /\ \A u \in Threads : StackOK(frames[u]) /\ top(t) = Last(frames[t])
  BY TopOf
<1>2. ASSUME NEW x
      PROVE  /\ frames' \in Stacks /\ \A u \in Threads : StackOK(frames'[u])
             /\ FrameZero(top(t), x) => KeepHands(frames, frames', x)
             /\ ~FrameZero(top(t), x) => TakeHands(frames, frames', x)
  BY <1>1, PopHands
<1> QED BY <1>2

(* The call goes on, as another.                                             *)
LEMMA GoesOn ==
  ASSUME QueueTypes, FramesInv, NEW t \in Threads, frames[t] # <<>>,
         NEW f \in FrameType, FrameOK(f), f.op = top(t).op, Tops(frames, frames', t, f)
  PROVE  /\ frames' \in Stacks /\ \A u \in Threads : StackOK(frames'[u])
         /\ \A n \in Nat \ {0} :
              /\ (FrameZero(top(t), 2 * n) => FrameZero(f, 2 * n))
                 /\ (FrameOnce(top(t), 2 * n) => FrameOnce(f, 2 * n))
                   => KeepHands(frames, frames', 2 * n)
              /\ (FrameZero(top(t), 2 * n) => FrameOnce(f, 2 * n))
                   => GiveHands(frames, frames', 2 * n)
<1>1. /\ frames \in Stacks /\ \A u \in Threads : StackOK(frames[u]) /\ top(t) = Last(frames[t])
  BY TopOf
<1>2. ASSUME NEW x
      PROVE  /\ frames' \in Stacks /\ \A u \in Threads : StackOK(frames'[u])
             /\ (FrameZero(top(t), x) => FrameZero(f, x))
                /\ (FrameOnce(top(t), x) => FrameOnce(f, x)) => KeepHands(frames, frames', x)
             /\ (FrameZero(top(t), x) => FrameOnce(f, x)) => GiveHands(frames, frames', x)
  BY <1>1, SetTopHands
<1> QED BY <1>2

(* A call that has nothing in hand yet goes to its next stage.               *)
LEMMA NextStage ==
  ASSUME QueueTypes, FramesInv, NEW t \in Threads, frames[t] # <<>>,
         top(t).stage # "convert", Tops(frames, frames', t, [top(t) EXCEPT !.stage = "take"])
  PROVE  /\ frames' \in Stacks /\ \A u \in Threads : StackOK(frames'[u])
         /\ \A n \in Nat \ {0} : KeepHands(frames, frames', 2 * n)
<1> DEFINE old == top(t)
           f == [old EXCEPT !.stage = "take"]
<1>1. old \in FrameType /\ FrameOK(old) /\ old.stage # "convert"
  BY TopOf
<1> HIDE DEF old
<1>2. /\ f \in FrameType /\ f.op = old.op /\ f.batch = old.batch /\ f.got = old.got
      /\ f.stage = "take"
  <2> HIDE DEF EventType
  <2> QED BY <1>1 DEF FrameType
<1> HIDE DEF f
<1>3. FrameOK(f)
  BY <1>1, <1>2 DEF FrameOK
<1>4. \A x : (FrameZero(old, x) => FrameZero(f, x)) /\ (FrameOnce(old, x) => FrameOnce(f, x))
  BY <1>2 DEF FrameZero, FrameOnce
<1>5. Tops(frames, frames', t, f)
  BY DEF old, f
<1>6. /\ frames' \in Stacks /\ \A u \in Threads : StackOK(frames'[u])
      /\ \A n \in Nat \ {0} :
              /\ (FrameZero(old, 2 * n) => FrameZero(f, 2 * n))
                 /\ (FrameOnce(old, 2 * n) => FrameOnce(f, 2 * n))
                   => KeepHands(frames, frames', 2 * n)
  BY <1>2, <1>3, <1>5, GoesOn DEF old
<1> QED BY <1>4, <1>6

(* XCheckWindowEvent searches the put-back list, and returns if it finds.    *)
LEMMA SearchKeeps ==
  ASSUME QueueTypes, FramesInv, UNCHANGED client, NEW t \in Threads, Search(t)
  PROVE  QueueTypes' /\ FramesInv' /\ pushed' = pushed /\ KeepsAll
<1> DEFINE w == top(t).win
           i == First(Matches(w))
<1>1. /\ frames[t] # <<>> /\ top(t).op = "check" /\ top(t).stage = "search"
      /\ UNCHANGED <<sdl, gone, pushed>>
  BY DEF Search
<1>2. putBack \in Seq(EventType) /\ Even(sdl)
  BY <1>1, TopOf
<1> HIDE DEF w
<1>3. CASE Matches(w) = {}
  <2>1. UNCHANGED <<putBack, taken>> /\ Tops(frames, frames', t, [top(t) EXCEPT !.stage = "take"])
    BY <1>3 DEF Search, SetTop, Tops, w
  <2>2. /\ frames' \in Stacks /\ \A u \in Threads : StackOK(frames'[u])
        /\ \A n \in Nat \ {0} : KeepHands(frames, frames', 2 * n)
    BY <1>1, <2>1, NextStage
  <2>3. QueueTypes' /\ FramesInv'
    BY <1>1, <2>1, <2>2 DEF QueueTypes, FramesInv
  <2>4. ASSUME NEW n \in Nat \ {0} PROVE Kept(2 * n)
    BY <1>1, <2>1, <2>2 DEF Kept, KeepHands, Nowhere, Somewhere
  <2> QED BY <1>1, <2>3, <2>4 DEF KeepsAll
<1>4. CASE Matches(w) # {}
  <2>1. /\ taken' = taken \union {putBack[i]} /\ putBack' = RemoveAt(putBack, i)
        /\ Pops(frames, frames', t)
    BY <1>4 DEF Search, LeaveLocked, Pops, w
  <2>2. i \in 1..Len(putBack)
    BY <1>2, <1>4, MatchesIn
  <2> HIDE DEF i
  <2>3. ASSUME NEW x
        PROVE  /\ putBack' \in Seq(EventType) /\ putBack[i] \in EventType
               /\ putBack[i].id # x => KeepList(putBack, putBack', x) /\ KeepSet(taken, taken', x)
               /\ putBack[i].id = x => TakeList(putBack, putBack', x) /\ GiveSet(taken, taken', x)
    BY <1>2, <2>1, <2>2, TakesFromPutBack
  <2>4. /\ frames' \in Stacks /\ \A u \in Threads : StackOK(frames'[u])
        /\ \A n \in Nat \ {0} : KeepHands(frames, frames', 2 * n)
    <3>1. \A n \in Nat \ {0} : FrameZero(top(t), 2 * n)
      BY <1>1, TopOf
    <3> QED BY <1>1, <2>1, <3>1, Leaves
  <2>5. QueueTypes' /\ FramesInv'
    <3>1. taken' \subseteq EventType
      BY <2>1, <2>3 DEF QueueTypes
    <3> QED BY <1>1, <2>3, <2>4, <3>1 DEF QueueTypes, FramesInv
  <2>6. ASSUME NEW n \in Nat \ {0} PROVE Kept(2 * n)
    <3>1. CASE putBack[i].id # 2 * n
      BY <1>1, <2>3, <2>4, <3>1 DEF Kept, KeepList, KeepSet, KeepHands, Nowhere, Somewhere
    <3>2. CASE putBack[i].id = 2 * n
      BY <1>1, <2>3, <2>4, <3>2 DEF Kept, TakeList, GiveSet, KeepHands, Nowhere, Somewhere
    <3> QED BY <3>1, <3>2
  <2> QED BY <1>1, <2>5, <2>6 DEF KeepsAll
<1> QED BY <1>3, <1>4

(* A discard takes what is put back for the window.                          *)
LEMMA SweepKeeps ==
  ASSUME QueueTypes, FramesInv, UNCHANGED client, NEW t \in Threads, Sweep(t)
  PROVE  QueueTypes' /\ FramesInv' /\ pushed' = pushed /\ KeepsAll
<1> DEFINE m == Matches(top(t).win)
           left == DOMAIN putBack \ m
<1>1. /\ frames[t] # <<>> /\ top(t).stage = "sweep"
      /\ putBack' = Only(putBack, left) /\ gone' = gone \union {putBack[i] : i \in m}
      /\ Tops(frames, frames', t, [top(t) EXCEPT !.stage = "take"])
      /\ UNCHANGED <<sdl, taken, pushed>>
  BY DEF Sweep, SetTop, Tops
<1>2. putBack \in Seq(EventType)
  BY <1>1, TopOf
<1>3. m \in SUBSET (1..Len(putBack)) /\ left = 1..Len(putBack) \ m
  BY <1>2, MatchesIn, LenProperties
<1> HIDE DEF m, left
<1>4. left \in SUBSET (1..Len(putBack)) /\ \A i \in 1..Len(putBack) : putBack[i] \in EventType
  BY <1>2, <1>3, ElementOfSeq
<1>5. ASSUME NEW x
      PROVE  /\ putBack' \in Seq(EventType)
             /\ Zero(putBack, x) => Zero(putBack', x)
             /\ Once(putBack, x) /\ (\A i \in 1..Len(putBack) : putBack[i].id = x => i \in left)
                  => Once(putBack', x)
             /\ (\A i \in left : putBack[i].id # x) => Zero(putBack', x)
  BY <1>1, <1>2, <1>4, OnlyCounts
<1>6. /\ frames' \in Stacks /\ \A u \in Threads : StackOK(frames'[u])
      /\ \A n \in Nat \ {0} : KeepHands(frames, frames', 2 * n)
  BY <1>1, NextStage
<1>7. QueueTypes' /\ FramesInv'
  <2>1. gone' \subseteq EventType
    BY <1>1, <1>3, <1>4 DEF QueueTypes
  <2> QED BY <1>1, <1>5, <1>6, <2>1 DEF QueueTypes, FramesInv
<1>8. ASSUME NEW n \in Nat \ {0} PROVE Kept(2 * n)
  <2> DEFINE x == 2 * n
  <2>0. KeepHands(frames, frames', x)
    BY <1>6
  <2> HIDE DEF x
  <2>1. CASE \A i \in m : putBack[i].id # x
    <3>1. \A i \in 1..Len(putBack) : putBack[i].id = x => i \in left
      BY <1>3, <2>1
    <3>2. KeepList(putBack, putBack', x)
      BY <1>5, <3>1 DEF KeepList
    <3>3. KeepSet(gone, gone', x)
      BY <1>1, <2>1 DEF KeepSet, ZeroIn, OnceIn
    <3>4. Kept(x)
      BY <1>1, <2>0, <3>2, <3>3 DEF Kept, KeepList, KeepSet, KeepHands, Nowhere, Somewhere
    <3> QED BY <3>4 DEF x
  <2>2. CASE \E i \in m : putBack[i].id = x
    <3>0. PICK i \in m : putBack[i].id = x
      BY <2>2
    <3>1. ~Zero(putBack, x)
      BY <1>3, <3>0 DEF Zero
    <3>2. ASSUME Once(putBack, x), ZeroIn(gone, x)
          PROVE  Zero(putBack', x) /\ OnceIn(gone', x)
      <4>1. \A j \in 1..Len(putBack) : putBack[j].id = x => j = i
        BY <1>3, <3>0, <3>2 DEF Once
      <4>2. \A j \in left : putBack[j].id # x
        BY <1>3, <3>0, <4>1
      <4>3. Zero(putBack', x)
        BY <1>5, <4>2
      <4>4. \A g \in gone' : g.id = x => g = putBack[i]
        BY <1>1, <1>3, <3>2, <4>1 DEF ZeroIn
      <4>5. OnceIn(gone', x)
        BY <1>1, <3>0, <4>4 DEF OnceIn
      <4> QED BY <4>3, <4>5
    <3>3. Kept(x)
      BY <1>1, <2>0, <3>1, <3>2 DEF Kept, KeepHands, Nowhere, Somewhere
    <3> QED BY <3>3 DEF x
  <2> QED BY <2>1, <2>2
<1> QED BY <1>1, <1>7, <1>8 DEF KeepsAll

(* A call takes all that SDL has queued.                                     *)
LEMMA TakeAllKeeps ==
  ASSUME QueueTypes, FramesInv, UNCHANGED client, NEW t \in Threads, TakeAll(t)
  PROVE  QueueTypes' /\ FramesInv' /\ pushed' = pushed /\ KeepsAll
<1> DEFINE old == top(t)
           f == [old EXCEPT !.stage = "convert", !.batch = sdl]
<1>1. /\ frames[t] # <<>> /\ old.op # "next" /\ old.stage = "take" /\ sdl' = <<>>
      /\ Tops(frames, frames', t, f)
      /\ UNCHANGED <<putBack, taken, gone, pushed>>
  BY DEF TakeAll, SetTop, Tops
<1>2. /\ old \in FrameType /\ FrameOK(old) /\ old.batch = <<>> /\ old.got = NoEvent
      /\ \A n \in Nat \ {0} : FrameZero(old, 2 * n)
      /\ sdl \in Seq(EventType) /\ Even(sdl)
  BY <1>1, TopOf
<1>3. Tops(frames, frames', t, f)
  BY <1>1
<1> HIDE DEF old
<1>4. f \in FrameType /\ f.op = old.op /\ f.batch = sdl /\ f.got = NoEvent /\ f.stage = "convert"
  <2> HIDE DEF EventType
  <2> QED BY <1>2 DEF FrameType
<1> HIDE DEF f
<1>5. FrameOK(f)
  BY <1>1, <1>2, <1>4 DEF FrameOK
<1>6. ASSUME NEW n \in Nat \ {0}
      PROVE  /\ Zero(sdl, 2 * n) => FrameZero(f, 2 * n)
             /\ Once(sdl, 2 * n) => FrameOnce(f, 2 * n)
             /\ ~FrameOnce(old, 2 * n) /\ FrameZero(old, 2 * n)
  <2>1. f.got.id # 2 * n /\ FrameZero(old, 2 * n)
    BY <1>2, <1>4, NoEventZero
  <2>2. ~FrameOnce(old, 2 * n)
    BY <2>1 DEF FrameOnce, FrameZero, Once, Zero
  <2> QED BY <1>4, <2>1, <2>2 DEF FrameZero, FrameOnce
<1>7. /\ frames' \in Stacks /\ \A u \in Threads : StackOK(frames'[u])
      /\ \A n \in Nat \ {0} :
           /\ (FrameZero(old, 2 * n) => FrameZero(f, 2 * n))
              /\ (FrameOnce(old, 2 * n) => FrameOnce(f, 2 * n))
                => KeepHands(frames, frames', 2 * n)
           /\ (FrameZero(old, 2 * n) => FrameOnce(f, 2 * n))
                => GiveHands(frames, frames', 2 * n)
  BY <1>1, <1>3, <1>4, <1>5, GoesOn DEF old
<1>8. /\ \A x : Zero(<<>>, x)
      /\ Even(<<>>) /\ <<>> \in Seq(EventType)
  <2> HIDE DEF EventType
  <2> QED BY DEF Zero, Even
<1>9. QueueTypes' /\ FramesInv'
  BY <1>1, <1>7, <1>8 DEF QueueTypes, FramesInv
<1>10. ASSUME NEW n \in Nat \ {0} PROVE Kept(2 * n)
  <2>1. CASE Zero(sdl, 2 * n)
    <3>1. KeepHands(frames, frames', 2 * n)
      BY <1>6, <1>7, <2>1
    <3>2. ~Once(sdl, 2 * n)
      BY <2>1 DEF Zero, Once
    <3> QED BY <1>1, <1>8, <2>1, <3>1, <3>2 DEF Kept, KeepHands, Nowhere, Somewhere
  <2>2. CASE Once(sdl, 2 * n)
    <3>1. GiveHands(frames, frames', 2 * n)
      BY <1>6, <1>7, <2>2
    <3>2. ~Zero(sdl, 2 * n)
      BY <2>2 DEF Zero, Once
    <3> QED BY <1>1, <1>8, <3>1, <3>2 DEF Kept, GiveHands, Nowhere, Somewhere
  <2>3. CASE ~Zero(sdl, 2 * n) /\ ~Once(sdl, 2 * n)
    BY <2>3 DEF Kept, Nowhere, Somewhere
  <2> QED BY <2>1, <2>2, <2>3
<1> QED BY <1>1, <1>9, <1>10 DEF KeepsAll
(* The next event of the call is dealt with.                                 *)
LEMMA NextEvent ==
  ASSUME QueueTypes, FramesInv, NEW t \in Threads, NEW kinds, Converting(t, kinds),
         NEW h, Deals(frames, h, t)
  PROVE  LET e == event(t)
         IN /\ h \in Stacks /\ \A u \in Threads : StackOK(h[u])
            /\ e \in EventType /\ e.kind \in kinds
            /\ \E m \in Nat \ {0} : e.id = 2 * m
            /\ h[t] = <<>> \/ Last(h[t]).op # "next"
            /\ \A n \in Nat \ {0} : /\ e.id # 2 * n => KeepHands(frames, h, 2 * n)
                                    /\ e.id = 2 * n => TakeHands(frames, h, 2 * n)
<1> DEFINE e == event(t)
<1>1. frames[t] # <<>> /\ top(t).batch # <<>> /\ e.kind \in kinds
  BY DEF Converting, event
<1>2. /\ frames \in Stacks /\ \A u \in Threads : StackOK(frames[u])
      /\ top(t) = Last(frames[t])
  BY <1>1, TopOf
<1>3. e = Head(Last(frames[t]).batch)
  BY <1>2 DEF event
<1> HIDE DEF e
<1>4. ASSUME NEW x, x # 0
      PROVE  /\ h \in Stacks /\ \A u \in Threads : StackOK(h[u])
             /\ e \in EventType /\ \E m \in Nat \ {0} : e.id = 2 * m
             /\ e.id # x => KeepHands(frames, h, x)
             /\ e.id = x => TakeHands(frames, h, x)
             /\ h[t] = <<>> \/ Last(h[t]).op # "next"
  BY <1>1, <1>2, <1>3, <1>4, DealsHands
<1>5. \A n \in Nat \ {0} : 2 * n # 0
  OBVIOUS
<1>6. 1 # 0
  OBVIOUS
<1> QED BY <1>1, <1>4, <1>5, <1>6 DEF e

(* The call goes on with the rest of its batch, or has none.                 *)
LEMMA DealsWhenSet ==
  ASSUME NEW t \in Threads
  PROVE  /\ (IF top(t).op = "next" THEN frames' = [frames EXCEPT ![t] = Front(@)]
                                   ELSE SetTop(t, Rest(t))) => Deals(frames, frames', t)
         /\ top(t).op # "next" /\ SetTop(t, Rest(t)) => Deals(frames, frames', t)
         /\ top(t).op = "next" /\ frames' = [frames EXCEPT ![t] = Front(@)]
              => Deals(frames, frames', t)
  BY DEF Deals, Tops, Pops, RestOf, Rest, SetTop, top

(* Two events are added to a list.                                           *)
LEMMA AppendTwo ==
  ASSUME NEW s \in Seq(EventType), NEW a \in EventType, NEW b \in EventType
  PROVE  s \o <<a, b>> = Append(Append(s, a), b)
<1> HIDE DEF EventType
<1>1. /\ <<a>> \in Seq(EventType) /\ <<b>> \in Seq(EventType)
      /\ <<a>> \o <<b>> = <<a, b>>
  <2>1. /\ <<a>> \in Seq(EventType) /\ <<b>> \in Seq(EventType) /\ <<a, b>> \in Seq(EventType)
        /\ Len(<<a>>) = 1 /\ Len(<<b>>) = 1 /\ Len(<<a, b>>) = 2
        /\ <<a>>[1] = a /\ <<b>>[1] = b /\ <<a, b>>[1] = a /\ <<a, b>>[2] = b
    OBVIOUS
  <2> DEFINE u == <<a>> \o <<b>>
             v == <<a, b>>
  <2>2. /\ u \in Seq(EventType) /\ Len(u) = Len(<<a>>) + Len(<<b>>)
        /\ \A i \in 1..(Len(<<a>>) + Len(<<b>>)) :
             u[i] = IF i <= Len(<<a>>) THEN <<a>>[i] ELSE <<b>>[i - Len(<<a>>)]
    BY <2>1, ConcatProperties
  <2>3. Len(u) = 2 /\ u[1] = a /\ u[2] = b
    BY <2>1, <2>2
  <2>4. v \in Seq(EventType) /\ Len(v) = 2 /\ v[1] = a /\ v[2] = b
    BY <2>1
  <2>5. u \in Seq(EventType)
    BY <2>2
  <2> HIDE DEF u, v
  <2>6. \A i \in 1..2 : u[i] = v[i]
    <3>1. \A i \in 1..2 : i = 1 \/ i = 2
      OBVIOUS
    <3> QED BY <2>3, <2>4, <3>1
  <2>7. u = v
    BY <2>3, <2>4, <2>5, <2>6, SeqEqual
  <2> QED BY <2>1, <2>7 DEF u, v
<1>2. (s \o <<a>>) \o <<b>> = s \o (<<a>> \o <<b>>)
  BY <1>1, ConcatAssociative
<1>3. Append(s, a) = s \o <<a>> /\ Append(s, a) \in Seq(EventType)
  BY AppendIsConcat, AppendProperties
<1>4. Append(Append(s, a), b) = Append(s, a) \o <<b>>
  BY <1>3, AppendIsConcat
<1> QED BY <1>1, <1>2, <1>3, <1>4

(* An event is swallowed, or is put back with its crossing.                  *)
LEMMA ConvertsKeeps ==
  ASSUME QueueTypes, FramesInv, UNCHANGED client, NEW t \in Threads, ConvertsToNone(t)
  PROVE  QueueTypes' /\ FramesInv' /\ pushed' = pushed /\ KeepsAll
<1> DEFINE e == event(t)
           a == Event(e.id - 1, e.win, "plain")
           b == Event(e.id, e.win, "plain")
<1>1. /\ Converting(t, {"swallow", "crossing"}) /\ UNCHANGED <<sdl, taken, pushed>>
      /\ putBack' = putBack \o Converted(e)
      /\ gone' = IF e.kind = "swallow" THEN gone \union {e} ELSE gone
      /\ Deals(frames, frames', t)
  BY DealsWhenSet DEF ConvertsToNone
<1>2. putBack \in Seq(EventType) /\ Even(sdl)
  BY <1>1, TopOf DEF Converting
<1> HIDE DEF e
<1>3. /\ frames' \in Stacks /\ \A u \in Threads : StackOK(frames'[u])
      /\ e \in EventType /\ e.kind \in {"swallow", "crossing"}
      /\ \E m \in Nat \ {0} : e.id = 2 * m
      /\ \A n \in Nat \ {0} : /\ e.id # 2 * n => KeepHands(frames, frames', 2 * n)
                              /\ e.id = 2 * n => TakeHands(frames, frames', 2 * n)
  BY <1>1, NextEvent DEF e
<1>4. CASE e.kind = "swallow"
  <2>1. putBack' = putBack
    <3>1. putBack' = putBack \o <<>>
      BY <1>1, <1>4 DEF Converted
    <3> HIDE DEF EventType
    <3> QED BY <1>2, <3>1, ConcatEmptySeq
  <2>2. gone' = gone \union {e}
    BY <1>1, <1>4
  <2>3. \A x : /\ e.id # x => KeepSet(gone, gone', x)
               /\ e.id = x => GiveSet(gone, gone', x)
    BY <2>2, SetCounts DEF KeepSet, GiveSet
  <2>4. QueueTypes' /\ FramesInv'
    <3>1. gone' \subseteq EventType
      BY <1>3, <2>2 DEF QueueTypes
    <3> QED BY <1>1, <1>3, <2>1, <3>1 DEF QueueTypes, FramesInv
  <2>5. ASSUME NEW n \in Nat \ {0} PROVE Kept(2 * n)
    <3>1. CASE e.id # 2 * n
      BY <1>1, <1>3, <2>1, <2>3, <3>1 DEF Kept, KeepSet, KeepHands, Nowhere, Somewhere
    <3>2. CASE e.id = 2 * n
      BY <1>1, <1>3, <2>1, <2>3, <3>2 DEF Kept, GiveSet, TakeHands, Nowhere, Somewhere
    <3> QED BY <3>1, <3>2
  <2> QED BY <1>1, <2>4, <2>5 DEF KeepsAll
<1>5. CASE e.kind = "crossing"
  <2>1. UNCHANGED gone
    BY <1>1, <1>5
  <2>2. /\ a \in EventType /\ b \in EventType /\ b.id = e.id
        /\ \A n \in Nat \ {0} : a.id # 2 * n
    <3>1. PICK m \in Nat \ {0} : e.id = 2 * m
      BY <1>3
    <3>2. e.id - 1 \in Nat /\ e.id \in Nat /\ \A n \in Nat \ {0} : e.id - 1 # 2 * n
      BY <3>1
    <3> QED BY <1>3, <3>2 DEF Event, EventType
  <2>3. putBack' = Append(Append(putBack, a), b)
    <3>1. putBack' = putBack \o <<a, b>>
      BY <1>1, <1>5 DEF Converted
    <3> QED BY <1>2, <2>2, <3>1, AppendTwo
  <2> HIDE DEF a, b
  <2>4. ASSUME NEW n \in Nat \ {0}
        PROVE  /\ putBack' \in Seq(EventType)
               /\ e.id # 2 * n => KeepList(putBack, putBack', 2 * n)
               /\ e.id = 2 * n => GiveList(putBack, putBack', 2 * n)
    <3> DEFINE x == 2 * n
               u == Append(putBack, a)
    <3>0. a.id # x /\ putBack' = Append(u, b)
      BY <2>2, <2>3
    <3> HIDE DEF x
    <3>1. /\ u \in Seq(EventType)
          /\ Zero(putBack, x) => Zero(u, x)
          /\ Once(putBack, x) => Once(u, x)
      BY <1>2, <2>2, <3>0, AppendCounts
    <3> HIDE DEF u
    <3>2. /\ putBack' \in Seq(EventType)
          /\ b.id # x /\ Zero(u, x) => Zero(putBack', x)
          /\ b.id # x /\ Once(u, x) => Once(putBack', x)
          /\ b.id = x /\ Zero(u, x) => Once(putBack', x)
      BY <2>2, <3>0, <3>1, AppendCounts
    <3>3. /\ putBack' \in Seq(EventType)
          /\ e.id # x => KeepList(putBack, putBack', x)
          /\ e.id = x => GiveList(putBack, putBack', x)
      BY <2>2, <3>1, <3>2 DEF KeepList, GiveList
    <3> QED BY <3>3 DEF x
  <2>5. 1 \in Nat \ {0}
    OBVIOUS
  <2>6. QueueTypes' /\ FramesInv'
    BY <1>1, <1>3, <2>1, <2>4, <2>5 DEF QueueTypes, FramesInv
  <2>7. ASSUME NEW n \in Nat \ {0} PROVE Kept(2 * n)
    <3>1. CASE e.id # 2 * n
      BY <1>1, <1>3, <2>1, <2>4, <3>1 DEF Kept, KeepList, KeepHands, Nowhere, Somewhere
    <3>2. CASE e.id = 2 * n
      BY <1>1, <1>3, <2>1, <2>4, <3>2 DEF Kept, GiveList, TakeHands, Nowhere, Somewhere
    <3> QED BY <3>1, <3>2
  <2> QED BY <1>1, <2>6, <2>7 DEF KeepsAll
<1> QED BY <1>3, <1>4, <1>5

(* XNextEvent returns the event.                                             *)
LEMMA ReturnsKeeps ==
  ASSUME QueueTypes, FramesInv, UNCHANGED client, NEW t \in Threads, ReturnsEvent(t)
  PROVE  QueueTypes' /\ FramesInv' /\ pushed' = pushed /\ KeepsAll
<1> DEFINE e == event(t)
<1>1. /\ Converting(t, {"plain"}) /\ UNCHANGED <<sdl, putBack, gone, pushed>>
      /\ taken' = taken \union {e} /\ Deals(frames, frames', t)
  BY DealsWhenSet DEF ReturnsEvent
<1>2. /\ frames' \in Stacks /\ \A u \in Threads : StackOK(frames'[u])
      /\ e \in EventType
      /\ \A n \in Nat \ {0} : /\ e.id # 2 * n => KeepHands(frames, frames', 2 * n)
                              /\ e.id = 2 * n => TakeHands(frames, frames', 2 * n)
  BY <1>1, NextEvent
<1> HIDE DEF e
<1>3. \A x : /\ e.id # x => KeepSet(taken, taken', x)
             /\ e.id = x => GiveSet(taken, taken', x)
  BY <1>1, SetCounts DEF KeepSet, GiveSet
<1>4. QueueTypes' /\ FramesInv'
  <2>1. taken' \subseteq EventType
    BY <1>1, <1>2 DEF QueueTypes
  <2> QED BY <1>1, <1>2, <2>1 DEF QueueTypes, FramesInv
<1>5. ASSUME NEW n \in Nat \ {0} PROVE Kept(2 * n)
  <2>1. CASE e.id # 2 * n
    BY <1>1, <1>2, <1>3, <2>1 DEF Kept, KeepSet, KeepHands, Nowhere, Somewhere
  <2>2. CASE e.id = 2 * n
    BY <1>1, <1>2, <1>3, <2>2 DEF Kept, GiveSet, TakeHands, Nowhere, Somewhere
  <2> QED BY <2>1, <2>2
<1> QED BY <1>1, <1>4, <1>5 DEF KeepsAll

(* A discard drops an event of its window.                                   *)
LEMMA DropsKeeps ==
  ASSUME QueueTypes, FramesInv, UNCHANGED client, NEW t \in Threads, DropsEvent(t)
  PROVE  QueueTypes' /\ FramesInv' /\ pushed' = pushed /\ KeepsAll
<1> DEFINE e == event(t)
<1>1. /\ Converting(t, {"plain"}) /\ UNCHANGED <<sdl, putBack, taken, pushed>>
      /\ gone' = gone \union {e} /\ Deals(frames, frames', t)
  BY DealsWhenSet DEF DropsEvent, Drops
<1>2. /\ frames' \in Stacks /\ \A u \in Threads : StackOK(frames'[u])
      /\ e \in EventType
      /\ \A n \in Nat \ {0} : /\ e.id # 2 * n => KeepHands(frames, frames', 2 * n)
                              /\ e.id = 2 * n => TakeHands(frames, frames', 2 * n)
  BY <1>1, NextEvent
<1> HIDE DEF e
<1>3. \A x : /\ e.id # x => KeepSet(gone, gone', x)
             /\ e.id = x => GiveSet(gone, gone', x)
  BY <1>1, SetCounts DEF KeepSet, GiveSet
<1>4. QueueTypes' /\ FramesInv'
  <2>1. gone' \subseteq EventType
    BY <1>1, <1>2 DEF QueueTypes
  <2> QED BY <1>1, <1>2, <2>1 DEF QueueTypes, FramesInv
<1>5. ASSUME NEW n \in Nat \ {0} PROVE Kept(2 * n)
  <2>1. CASE e.id # 2 * n
    BY <1>1, <1>2, <1>3, <2>1 DEF Kept, KeepSet, KeepHands, Nowhere, Somewhere
  <2>2. CASE e.id = 2 * n
    BY <1>1, <1>2, <1>3, <2>2 DEF Kept, GiveSet, TakeHands, Nowhere, Somewhere
  <2> QED BY <2>1, <2>2
<1> QED BY <1>1, <1>4, <1>5 DEF KeepsAll

(* Any other is appended to the put-back list.                               *)
LEMMA AppendsKeeps ==
  ASSUME QueueTypes, FramesInv, UNCHANGED client, NEW t \in Threads, AppendsEvent(t)
  PROVE  QueueTypes' /\ FramesInv' /\ pushed' = pushed /\ KeepsAll
<1> DEFINE e == event(t)
<1>1. /\ Converting(t, {"plain"}) /\ UNCHANGED <<sdl, taken, gone, pushed>>
      /\ putBack' = Append(putBack, e) /\ Deals(frames, frames', t)
  BY DealsWhenSet DEF AppendsEvent
<1>2. /\ frames' \in Stacks /\ \A u \in Threads : StackOK(frames'[u])
      /\ e \in EventType
      /\ \A n \in Nat \ {0} : /\ e.id # 2 * n => KeepHands(frames, frames', 2 * n)
                              /\ e.id = 2 * n => TakeHands(frames, frames', 2 * n)
  BY <1>1, NextEvent
<1>3. putBack \in Seq(EventType)
  BY <1>1, TopOf DEF Converting
<1> HIDE DEF e
<1>4. \A x : /\ putBack' \in Seq(EventType)
             /\ e.id # x => KeepList(putBack, putBack', x)
             /\ e.id = x => GiveList(putBack, putBack', x)
  BY <1>1, <1>2, <1>3, AppendCounts DEF KeepList, GiveList
<1>5. QueueTypes' /\ FramesInv'
  BY <1>1, <1>2, <1>4 DEF QueueTypes, FramesInv
<1>6. ASSUME NEW n \in Nat \ {0} PROVE Kept(2 * n)
  <2>1. CASE e.id # 2 * n
    BY <1>1, <1>2, <1>4, <2>1 DEF Kept, KeepList, KeepHands, Nowhere, Somewhere
  <2>2. CASE e.id = 2 * n
    BY <1>1, <1>2, <1>4, <2>2 DEF Kept, GiveList, TakeHands, Nowhere, Somewhere
  <2> QED BY <2>1, <2>2
<1> QED BY <1>1, <1>5, <1>6 DEF KeepsAll
(* The first match of XCheckWindowEvent is kept for the call's return.       *)
LEMMA KeepsKeeps ==
  ASSUME QueueTypes, FramesInv, UNCHANGED client, NEW t \in Threads, KeepsEvent(t)
  PROVE  QueueTypes' /\ FramesInv' /\ pushed' = pushed /\ KeepsAll
<1> DEFINE old == top(t)
           e == Head(old.batch)
           r == RestOf(old)
           f == [r EXCEPT !.got = e]
<1>1. /\ frames[t] # <<>> /\ old.batch # <<>> /\ old.op = "check" /\ old.got = NoEvent
      /\ UNCHANGED <<sdl, putBack, taken, gone, pushed>>
      /\ Tops(frames, frames', t, f)
  BY DEF KeepsEvent, Converting, Keeps, SetTop, Tops, Rest, RestOf, event
<1>2. old \in FrameType /\ FrameOK(old)
  BY <1>1, TopOf
<1>3. Tops(frames, frames', t, f)
  BY <1>1
<1> HIDE DEF old
<1>4. ASSUME NEW x
      PROVE  /\ r \in FrameType /\ FrameOK(r) /\ r.op = old.op /\ r.got = old.got
             /\ r.stage = "convert" /\ e \in EventType
             /\ e.id # x => (FrameZero(old, x) => FrameZero(r, x))
                             /\ (FrameOnce(old, x) => FrameOnce(r, x))
             /\ e.id = x => ~FrameZero(old, x)
             /\ e.id = x /\ FrameOnce(old, x) => Zero(r.batch, x)
  <2>1. /\ r \in FrameType /\ FrameOK(r) /\ r.op = old.op /\ r.got = old.got
        /\ r.stage = old.stage
        /\ e \in EventType /\ old.stage = "convert"
        /\ e.id # x => (FrameZero(old, x) => FrameZero(r, x))
                        /\ (FrameOnce(old, x) => FrameOnce(r, x))
        /\ e.id = x => ~FrameZero(old, x)
        /\ e.id = x /\ FrameOnce(old, x) => Zero(r.batch, x)
    BY <1>1, <1>2, RestCounts
  <2> QED BY <2>1
<1> HIDE DEF r, e
<1>5. /\ f \in FrameType /\ f.batch = r.batch /\ f.got = e /\ f.op = "check"
      /\ f.stage = "convert"
  <2> HIDE DEF EventType
  <2> QED BY <1>1, <1>4 DEF FrameType
<1> HIDE DEF f
<1>6. FrameOK(f)
  BY <1>4, <1>5 DEF FrameOK
<1>7. ASSUME NEW n \in Nat \ {0}
      PROVE  (FrameZero(old, 2 * n) => FrameZero(f, 2 * n))
             /\ (FrameOnce(old, 2 * n) => FrameOnce(f, 2 * n))
  <2> DEFINE x == 2 * n
  <2>1. old.got.id # x /\ r.got.id # x
    BY <1>1, <1>4, NoEventZero
  <2> HIDE DEF x
  <2>2. CASE e.id = x
    <3>1. ~FrameZero(old, x) /\ (FrameOnce(old, x) => Zero(f.batch, x) /\ f.got.id = x)
      BY <1>4, <1>5, <2>2
    <3> QED BY <3>1 DEF FrameOnce, x
  <2>3. CASE e.id # x
    <3>1. (FrameZero(old, x) => FrameZero(r, x)) /\ (FrameOnce(old, x) => FrameOnce(r, x))
      BY <1>4, <2>3
    <3>2. /\ FrameZero(r, x) => FrameZero(f, x)
          /\ FrameOnce(r, x) => FrameOnce(f, x)
      BY <1>5, <2>1, <2>3 DEF FrameZero, FrameOnce
    <3> QED BY <3>1, <3>2 DEF x
  <2> QED BY <2>2, <2>3
<1>8. /\ frames' \in Stacks /\ \A u \in Threads : StackOK(frames'[u])
      /\ \A n \in Nat \ {0} : KeepHands(frames, frames', 2 * n)
  <2>1. /\ frames' \in Stacks /\ \A u \in Threads : StackOK(frames'[u])
        /\ \A n \in Nat \ {0} :
             /\ (FrameZero(old, 2 * n) => FrameZero(f, 2 * n))
                /\ (FrameOnce(old, 2 * n) => FrameOnce(f, 2 * n))
                  => KeepHands(frames, frames', 2 * n)
             /\ (FrameZero(old, 2 * n) => FrameOnce(f, 2 * n))
                  => GiveHands(frames, frames', 2 * n)
    BY <1>1, <1>3, <1>5, <1>6, GoesOn DEF old
  <2> QED BY <1>7, <2>1
<1>9. QueueTypes' /\ FramesInv'
  BY <1>1, <1>8 DEF QueueTypes, FramesInv
<1>10. ASSUME NEW n \in Nat \ {0} PROVE Kept(2 * n)
  BY <1>1, <1>8 DEF Kept, KeepHands, Nowhere, Somewhere
<1> QED BY <1>1, <1>9, <1>10 DEF KeepsAll

(* A routed XDestroyWindow is run: its discard nests in the call, or follows *)
(* XNextEvent's.                                                             *)
LEMMA RunsKeeps ==
  ASSUME QueueTypes, FramesInv, UNCHANGED client, NEW t \in Threads, RunsThunk(t)
  PROVE  QueueTypes' /\ FramesInv' /\ pushed' = pushed /\ KeepsAll
<1> DEFINE e == event(t)
           outer == IF top(t).op = "next" THEN <<>> ELSE <<Rest(t)>>
           h == [frames EXCEPT ![t] = Front(@) \o outer]
           f == Frame("discard", e.win, "sweep", <<>>)
<1>1. /\ Converting(t, {"destroy"}) /\ UNCHANGED <<sdl, putBack, taken, pushed>>
      /\ gone' = gone \union {e}
      /\ frames' = [frames EXCEPT ![t] = Front(@) \o outer \o <<f>>]
  BY DEF RunsThunk, discardQueuedEventsForWindow
<1>2. frames \in Stacks /\ frames[t] \in Seq(FrameType) /\ frames[t] # <<>>
      /\ top(t) = Last(frames[t])
  BY <1>1, TopOf DEF Converting, Stacks
<1>3. Deals(frames, h, t)
  <2>1. CASE top(t).op = "next"
    <3>1. Front(frames[t]) \in Seq(FrameType)
      BY <1>2, StackPop
    <3>2. Front(frames[t]) \o <<>> = Front(frames[t])
      <4> HIDE DEF FrameType
      <4> QED BY <3>1, ConcatEmptySeq
    <3>3. h = [frames EXCEPT ![t] = Front(@)]
      BY <2>1, <3>2
    <3> QED BY <1>2, <2>1, <3>3 DEF Deals, Pops
  <2>2. CASE top(t).op # "next"
    BY <1>2, <2>2 DEF Deals, Tops, Rest, RestOf
  <2> QED BY <2>1, <2>2
<1>4. h[t] = Front(frames[t]) \o outer /\ \A u \in Threads \ {t} : h[u] = frames[u]
  BY <1>2 DEF Stacks
<1>5. frames' = [frames EXCEPT ![t] = h[t] \o <<f>>]
  BY <1>1, <1>4
<1> HIDE DEF outer, e, h
<1>6. /\ h \in Stacks /\ \A u \in Threads : StackOK(h[u])
      /\ e \in EventType
      /\ h[t] = <<>> \/ Last(h[t]).op # "next"
      /\ \A n \in Nat \ {0} : /\ e.id # 2 * n => KeepHands(frames, h, 2 * n)
                              /\ e.id = 2 * n => TakeHands(frames, h, 2 * n)
  BY <1>1, <1>3, NextEvent DEF e
<1>7. \A x : x # 0 => f \in FrameType /\ FrameOK(f) /\ FrameZero(f, x) /\ f.op = "discard"
  <2>1. e.win \in Windows \union {NoEvent.win}
    BY <1>6 DEF EventType
  <2> QED BY <2>1, EmptyFrame
<1> HIDE DEF f
<1>8. f \in FrameType
  <2>1. 1 # 0
    OBVIOUS
  <2> QED BY <1>7, <2>1
<1>9. Pushes(h, frames', t, f)
  <2>1. h[t] \in Seq(FrameType)
    BY <1>6 DEF Stacks
  <2>2. h[t] \o <<f>> = Append(h[t], f)
    BY <1>8, <2>1, StackPush
  <2>3. frames' = [u \in Threads |-> IF u = t THEN Append(h[t], f) ELSE h[u]]
    BY <1>2, <1>4, <1>5, <2>2 DEF Stacks
  <2> QED BY <1>6, <2>3 DEF Pushes, Stacks
<1>10. ASSUME NEW n \in Nat \ {0}
       PROVE  /\ frames' \in Stacks /\ \A u \in Threads : StackOK(frames'[u])
              /\ KeepHands(h, frames', 2 * n)
  <2> DEFINE x == 2 * n
  <2>1. FrameZero(f, x) /\ FrameOK(f) /\ f.op # "next"
    <3>1. 2 * n # 0
      OBVIOUS
    <3> QED BY <1>7, <3>1
  <2> HIDE DEF x
  <2>2. /\ frames' \in Stacks
        /\ KeepHands(h, frames', x)
        /\ (/\ \A u \in Threads : StackOK(h[u])
            /\ FrameOK(f)
            /\ h[t] = <<>> \/ (f.op # "next" /\ Last(h[t]).op # "next"))
             => \A u \in Threads : StackOK(frames'[u])
    BY <1>6, <1>8, <1>9, <2>1, PushHands
  <2> QED BY <1>6, <2>1, <2>2 DEF x
<1>11. \A x : /\ e.id # x => KeepSet(gone, gone', x)
              /\ e.id = x => GiveSet(gone, gone', x)
  BY <1>1, SetCounts DEF KeepSet, GiveSet
<1>12. QueueTypes' /\ FramesInv'
  <2>1. gone' \subseteq EventType
    BY <1>1, <1>6 DEF QueueTypes
  <2>2. 1 \in Nat \ {0}
    OBVIOUS
  <2> QED BY <1>1, <1>10, <2>1, <2>2 DEF QueueTypes, FramesInv
<1>13. ASSUME NEW n \in Nat \ {0} PROVE Kept(2 * n)
  <2>1. /\ e.id # 2 * n => KeepHands(frames, frames', 2 * n)
        /\ e.id = 2 * n => TakeHands(frames, frames', 2 * n)
    BY <1>6, <1>10 DEF KeepHands, TakeHands
  <2>2. CASE e.id # 2 * n
    BY <1>1, <1>11, <2>1, <2>2 DEF Kept, KeepSet, KeepHands, Nowhere, Somewhere
  <2>3. CASE e.id = 2 * n
    BY <1>1, <1>11, <2>1, <2>3 DEF Kept, GiveSet, TakeHands, Nowhere, Somewhere
  <2> QED BY <2>2, <2>3
<1> QED BY <1>1, <1>12, <1>13 DEF KeepsAll

(* Another thread puts it back in SDL's queue.                               *)
LEMMA RequeuesKeeps ==
  ASSUME QueueTypes, FramesInv, UNCHANGED client, NEW t \in Threads, Requeues(t)
  PROVE  QueueTypes' /\ FramesInv' /\ pushed' = pushed /\ KeepsAll
<1> DEFINE e == event(t)
<1>1. /\ Converting(t, {"destroy"}) /\ UNCHANGED <<putBack, taken, gone, pushed>>
      /\ sdl' = Append(sdl, e) /\ Deals(frames, frames', t)
  BY DealsWhenSet DEF Requeues
<1>2. /\ frames' \in Stacks /\ \A u \in Threads : StackOK(frames'[u])
      /\ e \in EventType /\ \E m \in Nat \ {0} : e.id = 2 * m
      /\ \A n \in Nat \ {0} : /\ e.id # 2 * n => KeepHands(frames, frames', 2 * n)
                              /\ e.id = 2 * n => TakeHands(frames, frames', 2 * n)
  BY <1>1, NextEvent
<1>3. sdl \in Seq(EventType) /\ Even(sdl)
  BY <1>1, TopOf DEF Converting
<1> HIDE DEF e
<1>4. \A x : /\ sdl' \in Seq(EventType) /\ Even(sdl')
             /\ e.id # x => KeepList(sdl, sdl', x)
             /\ e.id = x => GiveList(sdl, sdl', x)
  BY <1>1, <1>2, <1>3, AppendCounts DEF KeepList, GiveList
<1>5. QueueTypes' /\ FramesInv'
  BY <1>1, <1>2, <1>4 DEF QueueTypes, FramesInv
<1>6. ASSUME NEW n \in Nat \ {0} PROVE Kept(2 * n)
  <2>1. CASE e.id # 2 * n
    BY <1>1, <1>2, <1>4, <2>1 DEF Kept, KeepList, KeepHands, Nowhere, Somewhere
  <2>2. CASE e.id = 2 * n
    BY <1>1, <1>2, <1>4, <2>2 DEF Kept, GiveList, TakeHands, Nowhere, Somewhere
  <2> QED BY <2>1, <2>2
<1> QED BY <1>1, <1>5, <1>6 DEF KeepsAll

(* A locked call returns what it has kept, or what a late search finds.      *)
LEMMA EndsKeeps ==
  ASSUME QueueTypes, FramesInv, UNCHANGED client, NEW t \in Threads, Ends(t)
  PROVE  QueueTypes' /\ FramesInv' /\ pushed' = pushed /\ KeepsAll
<1> DEFINE old == top(t)
           got == old.got
           late == IF old.op = "check" /\ got = NoEvent THEN Matches(old.win) ELSE {}
           i == First(late)
<1>1. /\ frames[t] # <<>> /\ old.batch = <<>> /\ UNCHANGED <<sdl, gone, pushed>>
      /\ Pops(frames, frames', t)
      /\ putBack' = IF late = {} THEN putBack ELSE RemoveAt(putBack, i)
      /\ taken' = taken \union (({got} \ {NoEvent}) \union {putBack[j] : j \in {i : x \in late}})
  <2>1. (taken \union ({got} \ {NoEvent})) \union {putBack[j] : j \in {i : x \in late}}
          = taken \union (({got} \ {NoEvent}) \union {putBack[j] : j \in {i : x \in late}})
    OBVIOUS
  <2> QED BY <2>1 DEF Ends, LeaveLocked, Pops
<1>2. /\ putBack \in Seq(EventType) /\ Even(sdl) /\ got \in EventType
  BY <1>1, TopOf DEF FrameType
<1>3. \A x : FrameZero(old, x) <=> got.id # x
  BY <1>1 DEF FrameZero, Zero
<1>4. /\ frames' \in Stacks /\ \A u \in Threads : StackOK(frames'[u])
      /\ \A n \in Nat \ {0} :
           /\ FrameZero(old, 2 * n) => KeepHands(frames, frames', 2 * n)
           /\ ~FrameZero(old, 2 * n) => TakeHands(frames, frames', 2 * n)
  BY <1>1, Leaves
<1>5. late # {} => i \in 1..Len(putBack) /\ got = NoEvent
  BY <1>2, MatchesIn
<1> HIDE DEF late, got, i, old
<1>6. CASE late # {}
  <2>1. taken' = taken \union {putBack[i]} /\ putBack' = RemoveAt(putBack, i)
    BY <1>1, <1>5, <1>6
  <2>2. ASSUME NEW x
        PROVE  /\ putBack' \in Seq(EventType) /\ putBack[i] \in EventType
               /\ putBack[i].id # x => KeepList(putBack, putBack', x) /\ KeepSet(taken, taken', x)
               /\ putBack[i].id = x => TakeList(putBack, putBack', x) /\ GiveSet(taken, taken', x)
    BY <1>2, <1>5, <1>6, <2>1, TakesFromPutBack
  <2>3. \A n \in Nat \ {0} : KeepHands(frames, frames', 2 * n)
    BY <1>3, <1>4, <1>5, <1>6, NoEventZero
  <2>4. QueueTypes' /\ FramesInv'
    <3>1. taken' \subseteq EventType
      BY <2>1, <2>2 DEF QueueTypes
    <3> QED BY <1>1, <1>4, <2>2, <3>1 DEF QueueTypes, FramesInv
  <2>5. ASSUME NEW n \in Nat \ {0} PROVE Kept(2 * n)
    <3>1. CASE putBack[i].id # 2 * n
      BY <1>1, <2>2, <2>3, <3>1 DEF Kept, KeepList, KeepSet, KeepHands, Nowhere, Somewhere
    <3>2. CASE putBack[i].id = 2 * n
      BY <1>1, <2>2, <2>3, <3>2 DEF Kept, TakeList, GiveSet, KeepHands, Nowhere, Somewhere
    <3> QED BY <3>1, <3>2
  <2> QED BY <1>1, <2>4, <2>5 DEF KeepsAll
<1>7. CASE late = {}
  <2>1. UNCHANGED putBack /\ taken' = taken \union ({got} \ {NoEvent})
    BY <1>1, <1>7
  <2>2. QueueTypes' /\ FramesInv'
    <3>1. taken' \subseteq EventType
      BY <1>2, <2>1 DEF QueueTypes
    <3> QED BY <1>1, <1>4, <2>1, <3>1 DEF QueueTypes, FramesInv
  <2>3. ASSUME NEW n \in Nat \ {0} PROVE Kept(2 * n)
    <3>1. CASE got.id # 2 * n
      <4>1. KeepHands(frames, frames', 2 * n)
        BY <1>3, <1>4, <3>1
      <4>2. KeepSet(taken, taken', 2 * n)
        BY <2>1, <3>1 DEF KeepSet, ZeroIn, OnceIn
      <4> QED BY <1>1, <2>1, <4>1, <4>2 DEF Kept, KeepSet, KeepHands, Nowhere, Somewhere
    <3>2. CASE got.id = 2 * n
      <4>1. TakeHands(frames, frames', 2 * n)
        BY <1>3, <1>4, <3>2
      <4>2. taken' = taken \union {got}
        BY <2>1, <3>2, NoEventZero
      <4>3. GiveSet(taken, taken', 2 * n)
        BY <3>2, <4>2, SetCounts DEF GiveSet
      <4> QED BY <1>1, <2>1, <4>1, <4>3 DEF Kept, GiveSet, TakeHands, Nowhere, Somewhere
    <3> QED BY <3>1, <3>2
  <2> QED BY <1>1, <2>2, <2>3 DEF KeepsAll
<1> QED BY <1>6, <1>7
-----------------------------------------------------------------------------
(* At the start nothing has been pushed, and nothing is anywhere.            *)
LEMMA QueueInitInv == Init => QueueInv
<1> SUFFICES ASSUME Init PROVE QueueInv
  OBVIOUS
<1>1. /\ client \in Clients /\ sdl = <<>> /\ putBack = <<>> /\ frames = [t \in Threads |-> <<>>]
      /\ taken = {} /\ gone = {} /\ pushed = 0
  BY DEF Init
<1>2. QueueTypes
  <2>1. <<>> \in Seq(EventType) /\ <<>> \in Seq(FrameType)
    <3> HIDE DEF EventType, FrameType
    <3> QED OBVIOUS
  <2> QED BY <1>1, <2>1 DEF QueueTypes, Stacks
<1>3. Len(<<>>) = 0
  OBVIOUS
<1>4. FramesInv
  BY <1>1, <1>3 DEF FramesInv, Even, StackOK
<1>5. \A x : Nowhere(x)
  BY <1>1, <1>3 DEF Nowhere, Zero, ZeroIn, HandsZero
<1>6. PlacesInv
  <2>1. \A n \in Nat \ {0} : ~(n <= pushed)
    BY <1>1
  <2> QED BY <1>5, <2>1 DEF PlacesInv
<1> QED BY <1>2, <1>4, <1>6 DEF QueueInv

(* Every step keeps the counts, or pushes a new event.                       *)
LEMMA QueueStepInv == QueueInv /\ [Next]_vars => QueueInv'
<1> SUFFICES ASSUME QueueInv, [Next]_vars PROVE QueueInv'
  OBVIOUS
<1> USE DEF QueueInv
<1>1. ASSUME QueueTypes', FramesInv', pushed' = pushed, KeepsAll PROVE QueueInv'
  <2>1. ASSUME NEW n \in Nat \ {0}
        PROVE  IF n <= pushed THEN Somewhere(2 * n)' ELSE Nowhere(2 * n)'
    BY <1>1 DEF KeepsAll, Kept, PlacesInv
  <2>2. PlacesInv'
    BY <1>1, <2>1 DEF PlacesInv
  <2> QED BY <1>1, <2>2
<1>2. client.threads \subseteq Threads /\ Main \in Threads
  BY KnownClient
<1>3. ASSUME Next PROVE QueueInv'
  <2>0. UNCHANGED client
    BY <1>3 DEF Next
  <2>1. ASSUME NEW w \in Windows, NEW kind \in client.kinds, Push(w, kind) PROVE QueueInv'
    <3>1. /\ QueueTypes' /\ FramesInv' /\ pushed' = pushed + 1
          /\ \A n \in Nat \ {0} :
               IF n = pushed + 1 THEN Nowhere(2 * n) => Somewhere(2 * n)' ELSE Kept(2 * n)
      BY <2>0, <2>1, PushKeeps
    <3>2. pushed \in Nat
      BY DEF QueueTypes
    <3>3. ASSUME NEW n \in Nat \ {0}
          PROVE  IF n <= pushed + 1 THEN Somewhere(2 * n)' ELSE Nowhere(2 * n)'
      <4>1. /\ n = pushed + 1 => ~(n <= pushed) /\ n <= pushed + 1
            /\ n # pushed + 1 => (n <= pushed <=> n <= pushed + 1)
        BY <3>2
      <4>2. IF n <= pushed THEN Somewhere(2 * n) ELSE Nowhere(2 * n)
        BY DEF PlacesInv
      <4>3. CASE n = pushed + 1
        BY <3>1, <4>1, <4>2, <4>3
      <4>4. CASE n # pushed + 1
        BY <3>1, <4>1, <4>2, <4>4 DEF Kept
      <4> QED BY <4>3, <4>4
    <3>4. PlacesInv'
      BY <3>1, <3>3 DEF PlacesInv
    <3> QED BY <3>1, <3>4
  <2>2. ASSUME NEW w \in Windows, XDestroyWindow(w) PROVE QueueInv'
    <3>1. /\ UNCHANGED <<client, sdl, putBack, taken, gone, pushed>>
          /\ frames[Main] = <<>> /\ Enter(Main, Frame("discard", w, "sweep", <<>>))
      BY <2>0, <2>2 DEF XDestroyWindow, discardQueuedEventsForWindow, Starts
    <3> QED BY <1>1, <1>2, <3>1, EnterKeeps
  <2>3. ASSUME NEW t \in client.threads, XPutBackEvent(t) PROVE QueueInv'
    BY <1>1, <2>0, <2>3, PutBackKeeps
  <2>4. ASSUME NEW t \in client.threads, popPutBackEvent(t) PROVE QueueInv'
    BY <1>1, <2>0, <2>4, PopKeeps
  <2>5. ASSUME NEW t \in client.threads, NextFindsNoPutBack(t) PROVE QueueInv'
    <3>1. /\ UNCHANGED <<client, sdl, putBack, taken, gone, pushed>>
          /\ frames[t] = <<>> /\ Enter(t, Frame("next", NoEvent.win, "take", <<>>))
      BY <2>0, <2>5 DEF NextFindsNoPutBack, Starts
    <3> QED BY <1>1, <1>2, <3>1, EnterKeeps
  <2>6. ASSUME NEW t \in client.threads, NextTakes(t) PROVE QueueInv'
    BY <1>1, <1>2, <2>0, <2>6, NextTakesKeeps
  <2>7. ASSUME NEW t \in client.threads, drainSdlEventsToPutBack(t) PROVE QueueInv'
    <3>1. /\ UNCHANGED <<client, sdl, putBack, taken, gone, pushed>>
          /\ frames[t] = <<>> /\ Enter(t, Frame("drain", NoEvent.win, "take", <<>>))
      BY <2>0, <2>7 DEF drainSdlEventsToPutBack, Starts
    <3> QED BY <1>1, <1>2, <3>1, EnterKeeps
  <2>8. ASSUME NEW t \in client.threads, NEW w \in Windows, checkTypedEvent(t, w) PROVE QueueInv'
    <3>1. /\ UNCHANGED <<client, sdl, putBack, taken, gone, pushed>>
          /\ frames[t] = <<>> /\ Enter(t, Frame("check", w, "search", <<>>))
      BY <2>0, <2>8 DEF checkTypedEvent, Starts
    <3> QED BY <1>1, <1>2, <3>1, EnterKeeps
  <2>9. ASSUME NEW t \in client.threads, Search(t) PROVE QueueInv'
    BY <1>1, <1>2, <2>0, <2>9, SearchKeeps
  <2>10. ASSUME NEW t \in client.threads, Sweep(t) PROVE QueueInv'
    BY <1>1, <1>2, <2>0, <2>10, SweepKeeps
  <2>11. ASSUME NEW t \in client.threads, TakeAll(t) PROVE QueueInv'
    BY <1>1, <1>2, <2>0, <2>11, TakeAllKeeps
  <2>12. ASSUME NEW t \in client.threads, Ends(t) PROVE QueueInv'
    BY <1>1, <1>2, <2>0, <2>12, EndsKeeps
  <2>13. ASSUME NEW t \in client.threads, ConvertsToNone(t) PROVE QueueInv'
    BY <1>1, <1>2, <2>0, <2>13, ConvertsKeeps
  <2>14. ASSUME NEW t \in client.threads, ReturnsEvent(t) PROVE QueueInv'
    BY <1>1, <1>2, <2>0, <2>14, ReturnsKeeps
  <2>15. ASSUME NEW t \in client.threads, KeepsEvent(t) PROVE QueueInv'
    BY <1>1, <1>2, <2>0, <2>15, KeepsKeeps
  <2>16. ASSUME NEW t \in client.threads, DropsEvent(t) PROVE QueueInv'
    BY <1>1, <1>2, <2>0, <2>16, DropsKeeps
  <2>17. ASSUME NEW t \in client.threads, AppendsEvent(t) PROVE QueueInv'
    BY <1>1, <1>2, <2>0, <2>17, AppendsKeeps
  <2>18. ASSUME NEW t \in client.threads, RunsThunk(t) PROVE QueueInv'
    BY <1>1, <1>2, <2>0, <2>18, RunsKeeps
  <2>19. ASSUME NEW t \in client.threads, Requeues(t) PROVE QueueInv'
    BY <1>1, <1>2, <2>0, <2>19, RequeuesKeeps
  <2> QED BY <1>3, <2>1, <2>2, <2>3, <2>4, <2>5, <2>6, <2>7, <2>8, <2>9, <2>10, <2>11, <2>12,
             <2>13, <2>14, <2>15, <2>16, <2>17, <2>18, <2>19 DEF Next
<1>4. CASE UNCHANGED vars
  BY <1>4 DEF vars, QueueTypes, FramesInv, PlacesInv, Nowhere, Somewhere
<1> QED BY <1>3, <1>4

(* The events of a set with an id: what is in one place is counted once.     *)
InSet(set, x) == {e \in set : e.id = x}
(* One that is in a list, or in a set, once is counted once.                 *)
LEMMA CountsAre ==
  ASSUME NEW s \in Seq(EventType), NEW set, NEW x
  PROVE  /\ Zero(s, x) => Cardinality(AtPlace(s, x)) = 0
         /\ Once(s, x) => Cardinality(AtPlace(s, x)) = 1
         /\ ZeroIn(set, x) => Cardinality(InSet(set, x)) = 0
         /\ OnceIn(set, x) => Cardinality(InSet(set, x)) = 1
<1>1. Zero(s, x) => AtPlace(s, x) = {}
  BY DEF Zero, AtPlace
<1>2. Once(s, x) => \E i : AtPlace(s, x) = {i}
  <2> SUFFICES ASSUME NEW i \in 1..Len(s), s[i].id = x, \A j \in 1..Len(s) : s[j].id = x => j = i
               PROVE  AtPlace(s, x) = {i}
    BY DEF Once
  <2> QED BY DEF AtPlace
<1>3. ZeroIn(set, x) => InSet(set, x) = {}
  BY DEF ZeroIn, InSet
<1>4. OnceIn(set, x) => \E g : InSet(set, x) = {g}
  <2> SUFFICES ASSUME NEW g \in set, g.id = x, \A h \in set : h.id = x => h = g
               PROVE  InSet(set, x) = {g}
    BY DEF OnceIn
  <2> QED BY DEF InSet
<1>5. /\ \A v : v = {} => Cardinality(v) = 0
      /\ \A v : (\E i : v = {i}) => Cardinality(v) = 1
  BY FS_EmptySet, FS_Singleton
<1> QED BY <1>1, <1>2, <1>3, <1>4, <1>5

(* So it is with the threads' hands.                                         *)
LEMMA HandsAre ==
  ASSUME frames \in Stacks, NEW x
  PROVE  /\ HandsZero(frames, x) => Cardinality(InFrames(x)) = 0
         /\ HandsOnce(frames, x) => Cardinality(InFrames(x)) = 1
<1>1. \A t \in Threads : frames[t] \in Seq(FrameType) /\ DOMAIN frames[t] = 1..Len(frames[t])
  <2>1. \A t \in Threads : frames[t] \in Seq(FrameType)
    BY DEF Stacks
  <2> QED BY <2>1, LenProperties
<1>2. \A t \in Threads : \A d \in 1..Len(frames[t]) :
        frames[t][d].batch \in Seq(EventType) /\ Len(frames[t][d].batch) \in Nat
  <2>1. \A t \in Threads : \A d \in 1..Len(frames[t]) : frames[t][d] \in FrameType
    BY <1>1, ElementOfSeq
  <2>2. \A f \in FrameType : f.batch \in Seq(EventType)
    BY DEF FrameType
  <2>3. \A t \in Threads : \A d \in 1..Len(frames[t]) : frames[t][d].batch \in Seq(EventType)
    BY <2>1, <2>2
  <2> QED BY <2>3, LenProperties
<1>3. \A v : v \in InFrames(x) <=>
        \E t \in Threads : \E d \in 1..Len(frames[t]) : \E i \in InFrame(frames[t][d], x) :
          v = <<t, d, i>>
  BY <1>1 DEF InFrames
<1>4. \A f : FrameZero(f, x) => InFrame(f, x) = {}
  BY DEF FrameZero, InFrame, AtPlace, Zero
<1>5. ASSUME HandsZero(frames, x) PROVE InFrames(x) = {}
  BY <1>3, <1>4, <1>5 DEF HandsZero
<1>6. ASSUME HandsOnce(frames, x) PROVE \E v : InFrames(x) = {v}
  <2>1. PICK t \in Threads : \E d \in 1..Len(frames[t]) :
          FrameOnce(frames[t][d], x) /\
          \A u \in Threads : \A e \in 1..Len(frames[u]) :
            (u = t /\ e = d) \/ FrameZero(frames[u][e], x)
    BY <1>6 DEF HandsOnce
  <2>2. PICK d \in 1..Len(frames[t]) :
          FrameOnce(frames[t][d], x) /\
          \A u \in Threads : \A e \in 1..Len(frames[u]) :
            (u = t /\ e = d) \/ FrameZero(frames[u][e], x)
    BY <2>1
  <2> DEFINE f == frames[t][d]
  <2>3. \E i : InFrame(f, x) = {i}
    <3>0. f.batch \in Seq(EventType) /\ Len(f.batch) \in Nat
      BY <1>2
    <3> HIDE DEF f
    <3>1. CASE Once(f.batch, x) /\ f.got.id # x
      <4>1. PICK i \in 1..Len(f.batch) :
              f.batch[i].id = x /\ \A j \in 1..Len(f.batch) : f.batch[j].id = x => j = i
        BY <3>1 DEF Once
      <4>2. InFrame(f, x) = {i}
        BY <3>1, <4>1 DEF InFrame, AtPlace
      <4> QED BY <4>2
    <3>2. CASE Zero(f.batch, x) /\ f.got.id = x
      <4>1. InFrame(f, x) = {0}
        BY <3>2 DEF InFrame, AtPlace, Zero
      <4> QED BY <4>1
    <3> QED BY <2>2, <3>1, <3>2 DEF FrameOnce, f
  <2>4. PICK i : InFrame(f, x) = {i}
    BY <2>3
  <2>5. \A v : v \in InFrames(x) <=> v = <<t, d, i>>
    <3> TAKE v
    <3>1. ASSUME v \in InFrames(x) PROVE v = <<t, d, i>>
      <4>1. PICK u \in Threads : \E e \in 1..Len(frames[u]) : \E j \in InFrame(frames[u][e], x) :
              v = <<u, e, j>>
        BY <1>3, <3>1
      <4>2. PICK e \in 1..Len(frames[u]) : \E j \in InFrame(frames[u][e], x) : v = <<u, e, j>>
        BY <4>1
      <4>3. PICK j \in InFrame(frames[u][e], x) : v = <<u, e, j>>
        BY <4>2
      <4>4. u = t /\ e = d
        BY <1>4, <2>2, <4>3
      <4>5. j = i
        BY <2>4, <4>3, <4>4
      <4> QED BY <4>3, <4>4, <4>5
    <3>2. <<t, d, i>> \in InFrames(x)
      BY <1>3, <2>4
    <3> QED BY <3>1, <3>2
  <2>6. InFrames(x) = {<<t, d, i>>}
    BY <2>5
  <2> QED BY <2>6
<1>7. /\ \A v : v = {} => Cardinality(v) = 0
      /\ \A v : (\E i : v = {i}) => Cardinality(v) = 1
  BY FS_EmptySet, FS_Singleton
<1> QED BY <1>5, <1>6, <1>7

(* The invariant implies the property.                                       *)
LEMMA ConservedInv == QueueInv => EventsConserved
<1> SUFFICES ASSUME QueueInv, NEW n \in 1..pushed PROVE Places(2 * n) = 1
  BY DEF EventsConserved
<1>1. pushed \in Nat /\ sdl \in Seq(EventType) /\ putBack \in Seq(EventType) /\ frames \in Stacks
  BY DEF QueueInv, QueueTypes
<1>2. n \in Nat \ {0} /\ n <= pushed
  BY <1>1
<1> DEFINE x == 2 * n
<1>3. Somewhere(x)
  BY <1>2 DEF QueueInv, PlacesInv
<1> HIDE DEF x
<1> DEFINE a == Cardinality(AtPlace(sdl, x))
           b == Cardinality(AtPlace(putBack, x))
           c == Cardinality(InFrames(x))
           d == Cardinality(InSet(taken, x))
           g == Cardinality(InSet(gone, x))
<1>4. /\ (Zero(sdl, x) => a = 0) /\ (Once(sdl, x) => a = 1)
      /\ (Zero(putBack, x) => b = 0) /\ (Once(putBack, x) => b = 1)
      /\ (ZeroIn(taken, x) => d = 0) /\ (OnceIn(taken, x) => d = 1)
      /\ (ZeroIn(gone, x) => g = 0) /\ (OnceIn(gone, x) => g = 1)
  <2>1. /\ Zero(sdl, x) => a = 0
        /\ Once(sdl, x) => a = 1
        /\ ZeroIn(taken, x) => d = 0
        /\ OnceIn(taken, x) => d = 1
    BY <1>1, CountsAre
  <2>2. /\ Zero(putBack, x) => b = 0
        /\ Once(putBack, x) => b = 1
        /\ ZeroIn(gone, x) => g = 0
        /\ OnceIn(gone, x) => g = 1
    BY <1>1, CountsAre
  <2> QED BY <2>1, <2>2
<1>5. (HandsZero(frames, x) => c = 0) /\ (HandsOnce(frames, x) => c = 1)
  BY <1>1, HandsAre
<1>6. Places(x) = a + b + c + d + g
  BY DEF Places, InSet
<1> HIDE DEF a, b, c, d, g
<1>7. a + b + c + d + g = 1
  BY <1>3, <1>4, <1>5 DEF Somewhere
<1> QED BY <1>6, <1>7 DEF x

(* The event queue's invariant: the types of the lists and of the calls,     *)
(* what a call may hold at each of its stages, and that an event is in one   *)
(* place once it has been pushed and nowhere before (events.c's calls take    *)
(* events off SDL's queue before they know what to do with them).            *)
THEOREM QueueInvariant == Spec => []QueueInv
<1> QED BY QueueInitInv, QueueStepInv, PTL DEF Spec

(* No event is lost or delivered twice, whatever calls of whatever threads   *)
(* take events at the same time, nest, or hand them back.                    *)
THEOREM ConservedTheorem == Spec => []EventsConserved
<1> QED BY QueueInvariant, ConservedInv, PTL
=============================================================================
