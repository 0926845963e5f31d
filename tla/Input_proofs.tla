--------------------------- MODULE Input_proofs ---------------------------
(***************************************************************************)
(* Theorems about the components that input passes through: the timeline    *)
(* of a replay (Timeline), the target of what it injects (ReplayTarget),    *)
(* the input contexts that text is composed in (InputContext) and the table *)
(* of the texts that strokes are looked up in (TypedText).                   *)
(***************************************************************************)
EXTENDS Timeline, ReplayTarget, InputContext, TypedText, FiniteSetTheorems,
        SequenceTheorems, TLAPS

-----------------------------------------------------------------------------
(* Timeline.                                                                *)

(* The types.                                                               *)
BucketType == [slept : Nat, passed : Nat]
TimelineTypes ==
  /\ counter \in [Kinds -> 0..(Modulus - 1)] /\ lastSeen \in [Kinds -> 0..(Modulus - 1)]
  /\ during \in [Kinds -> 0..PerBucket]
  /\ unread \subseteq Kinds /\ sampling \in BOOLEAN
  /\ events \in Nat /\ quiet \in Nat /\ active \in Nat
  /\ clock \in Nat /\ began \in Nat /\ deadline \in Nat
  /\ result \in {NoResult, "timeout", "settled", "diverged"}
  /\ buckets \in Seq(BucketType)

(* The difference of a counter is what happened since it was read.           *)
DeltaInv == \A k \in Kinds : delta(k) = during[k]

(* Before the call, and after it, no pass is under way.                      *)
CallInv ==
  /\ deadline = 0 =>
       /\ buckets = <<>> /\ ~sampling /\ quiet = 0 /\ active = 0 /\ result = NoResult
       /\ \A k \in Kinds : during[k] = 0
  /\ deadline # 0 => Len(buckets) \in Nat \ {0}
  /\ ~sampling \/ ~Waiting => unread = {}

(* The events of some kinds that no pass has read, one by one.               *)
Unread(kinds, happened) ==
  {e \in kinds \X (1..PerBucket) : e[2] <= happened[e[1]]}

(* The events of the bucket under way: those of the pass before it that the  *)
(* pass came too late for, those of its sleep and those of its own pass.     *)
Ours == Len(buckets)
BucketInv ==
  Waiting =>
    IF sampling
    THEN /\ events + Cardinality(Unread(unread, during))
              <= PassBefore(Ours) + buckets[Ours].slept + buckets[Ours].passed
         /\ Cardinality(Unread(Kinds \ unread, during)) <= buckets[Ours].passed
         /\ buckets[Ours].slept > 0 => events > 0 \/ \E k \in unread : during[k] > 0
    ELSE /\ buckets[Ours].passed = 0
         /\ Cardinality(Unread(Kinds, during)) <= PassBefore(Ours) + buckets[Ours].slept
         /\ buckets[Ours].slept > 0 => \E k \in Kinds : during[k] > 0

(* The counts of quiet and of active buckets are those of the last ones.     *)
Busy(i) == PassBefore(i) + buckets[i].slept + buckets[i].passed > Threshold
StreakInv ==
  Waiting =>
    /\ quiet < Ours /\ active < Ours
    /\ quiet < QuietBuckets /\ active < DivergedBuckets
    /\ \A i \in (Ours - quiet)..(Ours - 1) : buckets[i].slept = 0
    /\ \A i \in (Ours - active)..(Ours - 1) : Busy(i)
    /\ (\A i \in 1..(Ours - 1) : buckets[i] = EmptyBucket) => quiet = Ours - 1

(* No bucket takes more time than a sleep that is late.                      *)
ClockInv ==
  Waiting => clock <= began + (IF sampling THEN Ours ELSE Ours - 1) * (1 + Late)

TimelineInv ==
  /\ TimelineTypes /\ DeltaInv /\ CallInv /\ BucketInv /\ StreakInv /\ ClockInv
  /\ VerdictIsTrue

(* A counter that goes one on is one further from what was seen of it.        *)
LEMMA DeltaGrows ==
  ASSUME NEW c \in 0..(Modulus - 1), NEW l \in 0..(Modulus - 1), NEW d \in Nat,
         (c - l) % Modulus = d, d + 1 < Modulus
  PROVE  (((c + 1) % Modulus) - l) % Modulus = d + 1 /\ (c + 1) % Modulus \in 0..(Modulus - 1)
<1>1. Modulus \in Nat \ {0}
  BY TimelineAssumption
<1>2. \A x \in Int : /\ 0 <= x /\ x < Modulus => x % Modulus = x
                     /\ -Modulus <= x /\ x < 0 => x % Modulus = x + Modulus
  BY <1>1
<1>3. CASE c + 1 < Modulus
  <2>1. (c + 1) % Modulus = c + 1
    BY <1>1, <1>2, <1>3
  <2>2. CASE c >= l
    BY <1>1, <1>2, <1>3, <2>1, <2>2
  <2>3. CASE c < l
    BY <1>1, <1>2, <1>3, <2>1, <2>3
  <2> QED BY <2>2, <2>3
<1>4. CASE c + 1 = Modulus
  <2>1. (c + 1) % Modulus = 0
    BY <1>1, <1>4
  <2>2. (c - l) % Modulus = c - l
    BY <1>1, <1>2, <1>4
  <2>3. l > 0
    BY <1>1, <1>4, <2>2
  <2>4. (0 - l) % Modulus = Modulus - l
    BY <1>1, <1>2, <2>3
  <2> QED BY <1>1, <1>4, <2>1, <2>2, <2>3, <2>4
<1> QED BY <1>1, <1>3, <1>4

(* Of finitely many kinds there are finitely many.                           *)
LEMMA UnreadFinite ==
  ASSUME NEW S, S \subseteq Kinds, NEW d
  PROVE  IsFiniteSet(Unread(S, d)) /\ Cardinality(Unread(S, d)) \in Nat
<1>1. IsFiniteSet(S) /\ IsFiniteSet(1..PerBucket)
  <2>1. IsFiniteSet(S)
    BY TimelineAssumption, FS_Subset
  <2>2. 1 \in Int /\ PerBucket \in Int
    BY TimelineAssumption
  <2> QED BY <2>1, <2>2, FS_Interval
<1>2. IsFiniteSet(S \X (1..PerBucket))
  BY <1>1, FS_Product
<1>3. Unread(S, d) \in SUBSET (S \X (1..PerBucket))
  BY DEF Unread
<1> QED BY <1>2, <1>3, FS_Subset, FS_CardinalityType

(* One more has happened.                                                   *)
LEMMA UnreadMore ==
  ASSUME NEW S, S \subseteq Kinds, NEW d \in [Kinds -> 0..PerBucket],
         NEW k \in Kinds, d[k] < PerBucket
  PROVE  Cardinality(Unread(S, [d EXCEPT ![k] = @ + 1]))
           = Cardinality(Unread(S, d)) + (IF k \in S THEN 1 ELSE 0)
<1> DEFINE e == [d EXCEPT ![k] = @ + 1]
<1>1. PerBucket \in Nat /\ d[k] \in Nat
  BY TimelineAssumption
<1>2. e[k] = d[k] + 1 /\ \A l \in Kinds \ {k} : e[l] = d[l]
  OBVIOUS
<1> HIDE DEF e
<1>3. CASE k \in S
  <2>1. <<k, d[k] + 1>> \in S \X (1..PerBucket)
    BY <1>1, <1>3
  <2>2. Unread(S, e) = Unread(S, d) \union {<<k, d[k] + 1>>}
    <3>1. ASSUME NEW l \in S, NEW i \in 1..PerBucket
          PROVE  i <= e[l] <=> i <= d[l] \/ (l = k /\ i = d[k] + 1)
      BY <1>1, <1>2, <3>1
    <3> QED BY <2>1, <3>1 DEF Unread
  <2>3. <<k, d[k] + 1>> \notin Unread(S, d)
    BY <1>1 DEF Unread
  <2>4. IsFiniteSet(Unread(S, d))
    BY UnreadFinite
  <2>5. Cardinality(Unread(S, e)) = Cardinality(Unread(S, d)) + 1
    BY <2>2, <2>3, <2>4, FS_AddElement
  <2> QED BY <1>3, <2>5 DEF e
<1>4. CASE k \notin S
  <2>1. Unread(S, e) = Unread(S, d)
    <3>1. \A l \in S : e[l] = d[l]
      BY <1>2, <1>4
    <3> QED BY <3>1 DEF Unread
  <2>2. Cardinality(Unread(S, d)) \in Nat
    BY UnreadFinite
  <2> QED BY <1>4, <2>1, <2>2 DEF e
<1> QED BY <1>3, <1>4

(* Those of one kind are as many as have happened of it.                     *)
LEMMA UnreadOne ==
  ASSUME NEW d \in [Kinds -> 0..PerBucket], NEW k \in Kinds
  PROVE  Cardinality(Unread({k}, d)) = d[k]
<1>1. PerBucket \in Nat /\ d[k] \in Nat /\ d[k] <= PerBucket
  BY TimelineAssumption
<1> DEFINE f == [i \in 1..d[k] |-> <<k, i>>]
<1>2. f \in Bijection(1..d[k], Unread({k}, d))
  <2>1. f \in [1..d[k] -> Unread({k}, d)]
    BY <1>1 DEF Unread
  <2>2. \A i, j \in 1..d[k] : f[i] = f[j] => i = j
    OBVIOUS
  <2>3. \A e \in Unread({k}, d) : \E i \in 1..d[k] : f[i] = e
    BY <1>1 DEF Unread
  <2> HIDE DEF f
  <2>4. f \in Injection(1..d[k], Unread({k}, d))
    BY <2>1, <2>2 DEF Injection, IsInjective
  <2>5. f \in Surjection(1..d[k], Unread({k}, d))
    BY <2>1, <2>3 DEF Surjection
  <2> QED BY <2>4, <2>5 DEF Bijection
<1> HIDE DEF f
<1>3. ExistsBijection(1..d[k], Unread({k}, d))
  BY <1>2 DEF ExistsBijection
<1> QED BY <1>1, <1>3, FS_CountingElements

(* One kind has been read.                                                  *)
LEMMA UnreadLess ==
  ASSUME NEW S, S \subseteq Kinds, NEW d \in [Kinds -> 0..PerBucket], NEW k \in S
  PROVE  Cardinality(Unread(S, d)) = Cardinality(Unread(S \ {k}, d)) + d[k]
<1>1. Unread(S, d) = Unread(S \ {k}, d) \union Unread({k}, d)
  BY DEF Unread
<1>2. Unread(S \ {k}, d) \intersect Unread({k}, d) = {}
  BY DEF Unread
<1>3. IsFiniteSet(Unread(S \ {k}, d)) /\ IsFiniteSet(Unread({k}, d))
  BY UnreadFinite
<1>4. Cardinality(Unread({k}, d)) = d[k]
  BY UnreadOne
<1>5. Cardinality(Unread(S \ {k}, d)) \in Nat /\ d[k] \in Nat
  BY UnreadFinite
<1> DEFINE A == Unread(S \ {k}, d)
           B == Unread({k}, d)
<1>6. Cardinality(Unread(S, d)) = Cardinality(A) + Cardinality(B) - Cardinality({})
  <2>1. IsFiniteSet(A) /\ IsFiniteSet(B) /\ A \intersect B = {}
    BY <1>2, <1>3
  <2>2. Unread(S, d) = A \union B
    BY <1>1
  <2> HIDE DEF A, B
  <2>3. Cardinality(A \union B) = Cardinality(A) + Cardinality(B) - Cardinality(A \intersect B)
    BY <2>1, FS_Union
  <2> QED BY <2>1, <2>2, <2>3
<1>7. Cardinality({}) = 0
  BY FS_EmptySet
<1> QED BY <1>4, <1>5, <1>6, <1>7

(* Of what has just been read nothing is left; of the others, what was.      *)
LEMMA UnreadNone ==
  ASSUME NEW S, S \subseteq Kinds, NEW d \in [Kinds -> 0..PerBucket], NEW k \in Kinds
  PROVE  Unread(S \union {k}, [d EXCEPT ![k] = 0]) = Unread(S \ {k}, d)
<1> DEFINE e == [d EXCEPT ![k] = 0]
<1>1. e[k] = 0 /\ \A l \in Kinds \ {k} : e[l] = d[l]
  OBVIOUS
<1> HIDE DEF e
<1>2. \A i \in 1..PerBucket : ~(i <= 0)
  BY TimelineAssumption
<1>3. \A l \in S \union {k}, i \in 1..PerBucket : i <= e[l] <=> l \in S \ {k} /\ i <= d[l]
  BY <1>1, <1>2
<1>4. Unread(S \union {k}, e) = Unread(S \ {k}, d)
  BY <1>3 DEF Unread
<1> QED BY <1>4 DEF e

(* The same for kinds without the one that was read.                        *)
LEMMA UnreadElse ==
  ASSUME NEW S, S \subseteq Kinds, NEW d \in [Kinds -> 0..PerBucket],
         NEW k \in Kinds, k \notin S
  PROVE  Unread(S, [d EXCEPT ![k] = 0]) = Unread(S, d)
<1>1. \A l \in S : [d EXCEPT ![k] = 0][l] = d[l]
  OBVIOUS
<1> QED BY <1>1 DEF Unread

(* The time of one more bucket, and of fewer.                                *)
LEMMA Spans ==
  ASSUME NEW m \in Nat, NEW n \in Nat
  PROVE  /\ m * (1 + Late) \in Nat
         /\ (m + 1) * (1 + Late) = m * (1 + Late) + 1 + Late
         /\ m <= n => m * (1 + Late) <= n * (1 + Late)
<1>1. Late \in Nat
  BY TimelineAssumption
<1> QED BY <1>1

(* The invariant holds at the start.                                        *)
LEMMA TimelineInitInv == TimelineInit => TimelineInv
<1> SUFFICES ASSUME TimelineInit PROVE TimelineInv
  OBVIOUS
<1>1. deadline = 0 /\ result = NoResult /\ ~Waiting
  BY DEF TimelineInit, Waiting
<1>2. TimelineTypes
  <2>1. buckets \in Seq(BucketType) /\ during \in [Kinds -> 0..PerBucket] /\ clock \in Nat
    BY TimelineAssumption DEF TimelineInit
  <2> QED BY <2>1 DEF TimelineInit, TimelineTypes, NoResult
<1>3. DeltaInv
  BY TimelineAssumption DEF TimelineInit, DeltaInv, delta
<1>4. CallInv
  BY DEF TimelineInit, CallInv
<1>5. BucketInv /\ StreakInv /\ ClockInv
  BY <1>1 DEF BucketInv, StreakInv, ClockInv
<1>6. VerdictIsTrue
  BY <1>1 DEF VerdictIsTrue, SettledIsQuiet, DivergedIsBusy, IdleSettles, NoResult
<1> QED BY <1>2, <1>3, <1>4, <1>5, <1>6 DEF TimelineInv

(* The call begins the first bucket.                                        *)
LEMMA BeginInv == TimelineInv /\ timelineWaitConverge => TimelineInv'
<1> SUFFICES ASSUME TimelineInv, timelineWaitConverge PROVE TimelineInv'
  OBVIOUS
<1>1. /\ TimelineTypes /\ DeltaInv /\ CallInv
  BY DEF TimelineInv
<1>2. /\ deadline = 0 /\ began' = clock /\ buckets' = <<EmptyBucket>> /\ lastSeen' = counter
      /\ UNCHANGED <<counter, unread, sampling, events, quiet, active, clock, result, during>>
      /\ deadline' \in Nat \ {0}
  BY <1>1, TimelineAssumption
     DEF timelineWaitConverge, replayWaitConvergeAnchorMs, TimelineTypes
<1>3. /\ ~sampling /\ quiet = 0 /\ active = 0 /\ result = NoResult /\ unread = {}
      /\ \A k \in Kinds : during[k] = 0
  BY <1>1, <1>2 DEF CallInv
<1>4. Len(buckets') = 1 /\ buckets'[1] = EmptyBucket /\ buckets' \in Seq(BucketType)
  BY <1>2 DEF EmptyBucket, BucketType
<1>5. TimelineTypes'
  BY <1>1, <1>2, <1>4 DEF TimelineTypes
<1>6. DeltaInv'
  <2> SUFFICES ASSUME NEW k \in Kinds PROVE (counter[k] - counter[k]) % Modulus = 0
    BY <1>2, <1>3 DEF DeltaInv, delta
  <2> QED BY <1>1, TimelineAssumption DEF TimelineTypes
<1>7. CallInv'
  BY <1>2, <1>3, <1>4 DEF CallInv
<1>8. BucketInv'
  <2>1. Unread(Kinds, during) = {}
    <3>1. \A k \in Kinds, i \in 1..PerBucket : ~(i <= during[k])
      BY <1>3, TimelineAssumption
    <3> QED BY <3>1 DEF Unread
  <2>2. Cardinality(Unread(Kinds, during)) = 0
    BY <2>1, FS_EmptySet
  <2> QED BY <1>2, <1>3, <1>4, <2>2 DEF BucketInv, Ours, PassBefore, EmptyBucket
<1>9. StreakInv'
  BY <1>2, <1>3, <1>4, TimelineAssumption DEF StreakInv, Ours
<1>10. ClockInv'
  BY <1>1, <1>2, <1>3, <1>4, TimelineAssumption DEF ClockInv, Ours, TimelineTypes
<1>11. VerdictIsTrue'
  BY <1>2, <1>3 DEF VerdictIsTrue, SettledIsQuiet, DivergedIsBusy, IdleSettles, NoResult
<1> QED BY <1>5, <1>6, <1>7, <1>8, <1>9, <1>10, <1>11 DEF TimelineInv

(* What an event leaves of the buckets: only the last one changes.          *)
LEMMA EmitBuckets ==
  ASSUME TimelineInv, NEW k \in Kinds, timelineEmit(k)
  PROVE  /\ buckets' \in Seq(BucketType) /\ Len(buckets') = Len(buckets)
         /\ Len(buckets) \in Nat \ {0}
         /\ \A i \in 1..(Ours - 1) : buckets'[i] = buckets[i]
         /\ buckets[Ours] \in BucketType
         /\ buckets'[Ours] =
              IF sampling THEN [slept |-> buckets[Ours].slept, passed |-> buckets[Ours].passed + 1]
              ELSE [slept |-> buckets[Ours].slept + 1, passed |-> buckets[Ours].passed]
<1>1. TimelineTypes /\ CallInv /\ Waiting
  BY DEF TimelineInv, timelineEmit
<1>2. Len(buckets) \in Nat \ {0}
  BY <1>1 DEF CallInv, Waiting
<1>3. buckets \in Seq(BucketType) /\ buckets[Ours] \in BucketType
  BY <1>1, <1>2 DEF TimelineTypes, Ours
<1> DEFINE b == IF sampling THEN [buckets[Ours] EXCEPT !.passed = @ + 1]
                            ELSE [buckets[Ours] EXCEPT !.slept = @ + 1]
<1>4. b = IF sampling THEN [slept |-> buckets[Ours].slept, passed |-> buckets[Ours].passed + 1]
          ELSE [slept |-> buckets[Ours].slept + 1, passed |-> buckets[Ours].passed]
  <2> DEFINE o == buckets[Ours]
  <2>1. o \in [slept : Nat, passed : Nat]
    BY <1>3 DEF BucketType
  <2> HIDE DEF o
  <2>2. /\ [o EXCEPT !.passed = @ + 1] = [slept |-> o.slept, passed |-> o.passed + 1]
        /\ [o EXCEPT !.slept = @ + 1] = [slept |-> o.slept + 1, passed |-> o.passed]
    BY <2>1
  <2> QED BY <2>2 DEF o
<1>5. b \in BucketType
  BY <1>3, <1>4 DEF BucketType
<1>6. buckets' = [buckets EXCEPT ![Ours] = b]
  BY DEF timelineEmit, Ours
<1> HIDE DEF b
<1>7. /\ buckets' \in Seq(BucketType) /\ Len(buckets') = Len(buckets)
      /\ \A i \in 1..Len(buckets) : buckets'[i] = IF i = Ours THEN b ELSE buckets[i]
  BY <1>2, <1>3, <1>5, <1>6 DEF Ours
<1> QED BY <1>2, <1>3, <1>4, <1>7 DEF Ours

(* An event is owed, and one of the bucket under way.                       *)
LEMMA EmitInv ==
  ASSUME TimelineInv, NEW k \in Kinds, timelineEmit(k)
  PROVE  TimelineInv'
<1>1. /\ TimelineTypes /\ DeltaInv /\ CallInv /\ BucketInv /\ StreakInv /\ ClockInv
      /\ Waiting
  BY DEF TimelineInv, timelineEmit
<1>2. /\ during[k] < PerBucket /\ counter' = [counter EXCEPT ![k] = (@ + 1) % Modulus]
      /\ during' = [during EXCEPT ![k] = @ + 1]
      /\ UNCHANGED <<lastSeen, unread, sampling, events, quiet, active, clock,
                     began, deadline, result>>
  BY DEF timelineEmit
<1>3. /\ during \in [Kinds -> 0..PerBucket] /\ PerBucket \in Nat /\ PerBucket < Modulus
      /\ Modulus \in Nat /\ during[k] \in Nat
  BY <1>1, TimelineAssumption DEF TimelineTypes
<1>4. during' \in [Kinds -> 0..PerBucket] /\ during'[k] = during[k] + 1
      /\ \A l \in Kinds \ {k} : during'[l] = during[l]
  BY <1>2, <1>3
<1>5. /\ counter' \in [Kinds -> 0..(Modulus - 1)]
      /\ (counter'[k] - lastSeen[k]) % Modulus = during'[k]
      /\ \A l \in Kinds \ {k} : counter'[l] = counter[l]
  <2>1. counter[k] \in 0..(Modulus - 1) /\ lastSeen[k] \in 0..(Modulus - 1)
        /\ (counter[k] - lastSeen[k]) % Modulus = during[k]
    BY <1>1 DEF TimelineTypes, DeltaInv, delta
  <2>2. /\ (((counter[k] + 1) % Modulus) - lastSeen[k]) % Modulus = during[k] + 1
        /\ (counter[k] + 1) % Modulus \in 0..(Modulus - 1)
    <3>1. during[k] + 1 < Modulus
      BY <1>2, <1>3
    <3> QED BY ONLY <1>3, <2>1, <3>1, DeltaGrows
  <2> QED BY <1>1, <1>2, <1>4, <2>2 DEF TimelineTypes
<1>6. TimelineTypes'
  BY <1>1, <1>2, <1>4, <1>5, EmitBuckets DEF TimelineTypes
<1>7. DeltaInv'
  BY <1>1, <1>2, <1>4, <1>5 DEF DeltaInv, delta
<1>8. CallInv'
  BY <1>1, <1>2, EmitBuckets DEF CallInv, Waiting
<1>9. /\ Waiting' /\ Ours' = Ours /\ Ours \in Nat \ {0}
      /\ \A i \in 1..(Ours - 1) : buckets'[i] = buckets[i] /\ PassBefore(i)' = PassBefore(i)
      /\ PassBefore(Ours)' = PassBefore(Ours) /\ PassBefore(Ours) \in Nat
  <2>1. Waiting' /\ Ours' = Ours /\ Ours \in Nat \ {0}
    BY <1>1, <1>2, EmitBuckets DEF Waiting, Ours
  <2>2. \A i \in 1..(Ours - 1) : buckets'[i] = buckets[i]
    BY EmitBuckets
  <2>3. \A i \in 1..(Ours - 1) : buckets[i] \in BucketType
    BY <1>1, <2>1 DEF TimelineTypes, Ours
  <2>4. \A i \in 1..Ours : i # 1 => i - 1 \in 1..(Ours - 1)
    BY <2>1
  <2> QED BY <2>1, <2>2, <2>3, <2>4 DEF PassBefore, BucketType
<1>10. /\ \A S : S \subseteq Kinds => Cardinality(Unread(S, during)) \in Nat
       /\ \A S : S \subseteq Kinds =>
            Cardinality(Unread(S, during')) =
              Cardinality(Unread(S, during)) + (IF k \in S THEN 1 ELSE 0)
  BY <1>2, <1>3, UnreadMore, UnreadFinite
<1>11. BucketInv'
  <2>1. events \in Nat /\ unread \subseteq Kinds
    BY <1>1 DEF TimelineTypes
  <2>2. CASE sampling
    <3>1. /\ buckets'[Ours].slept = buckets[Ours].slept
          /\ buckets'[Ours].passed = buckets[Ours].passed + 1
          /\ buckets[Ours].slept \in Nat /\ buckets[Ours].passed \in Nat
      BY <2>2, EmitBuckets DEF BucketType
    <3>2. events + Cardinality(Unread(unread, during'))
            <= PassBefore(Ours) + buckets[Ours].slept + buckets[Ours].passed + 1
      <4>1. events + Cardinality(Unread(unread, during))
              <= PassBefore(Ours) + buckets[Ours].slept + buckets[Ours].passed
        BY <1>1, <2>2 DEF BucketInv
      <4>2. Cardinality(Unread(unread, during')) <= Cardinality(Unread(unread, during)) + 1
            /\ Cardinality(Unread(unread, during)) \in Nat
            /\ Cardinality(Unread(unread, during')) \in Nat
        BY <1>10, <2>1
      <4> QED BY <1>9, <2>1, <3>1, <4>1, <4>2
    <3>3. Cardinality(Unread(Kinds \ unread, during')) <= buckets[Ours].passed + 1
      <4>1. Cardinality(Unread(Kinds \ unread, during)) <= buckets[Ours].passed
        BY <1>1, <2>2 DEF BucketInv
      <4>2. Kinds \ unread \subseteq Kinds
        OBVIOUS
      <4>3. Cardinality(Unread(Kinds \ unread, during')) <= Cardinality(Unread(Kinds \ unread, during)) + 1
            /\ Cardinality(Unread(Kinds \ unread, during)) \in Nat
            /\ Cardinality(Unread(Kinds \ unread, during')) \in Nat
        BY <1>10, <4>2
      <4> QED BY <3>1, <4>1, <4>3
    <3>4. buckets[Ours].slept > 0 => events > 0 \/ \E l \in unread : during'[l] > 0
      <4>1. buckets[Ours].slept > 0 => events > 0 \/ \E l \in unread : during[l] > 0
        BY <1>1, <2>2 DEF BucketInv
      <4>2. \A l \in Kinds : during[l] > 0 => during'[l] > 0
        BY <1>3, <1>4
      <4> QED BY <2>1, <4>1, <4>2
    <3>5. sampling' /\ unread' = unread /\ events' = events
      BY <1>2, <2>2
    <3> QED BY <1>9, <3>1, <3>2, <3>3, <3>4, <3>5 DEF BucketInv
  <2>3. CASE ~sampling
    <3>1. /\ buckets'[Ours].slept = buckets[Ours].slept + 1
          /\ buckets'[Ours].passed = buckets[Ours].passed
          /\ buckets[Ours].slept \in Nat
      BY <2>3, EmitBuckets DEF BucketType
    <3>2. Cardinality(Unread(Kinds, during')) = Cardinality(Unread(Kinds, during)) + 1
          /\ Cardinality(Unread(Kinds, during)) \in Nat
      BY <1>10
    <3>3. buckets[Ours].passed = 0
          /\ Cardinality(Unread(Kinds, during)) <= PassBefore(Ours) + buckets[Ours].slept
      BY <1>1, <2>3 DEF BucketInv
    <3>4. Cardinality(Unread(Kinds, during')) <= PassBefore(Ours) + buckets[Ours].slept + 1
      BY <1>9, <3>1, <3>2, <3>3
    <3>5. during'[k] > 0 /\ ~sampling'
      BY <1>2, <1>3, <1>4, <2>3
    <3>6. Cardinality(Unread(Kinds, during')) <= PassBefore(Ours) + buckets'[Ours].slept
      BY <1>9, <3>1, <3>4
    <3> QED BY <1>9, <3>1, <3>3, <3>5, <3>6 DEF BucketInv
  <2> QED BY <2>2, <2>3
<1>12. StreakInv'
  <2>1. \A i \in 1..(Ours - 1) : Busy(i)' <=> Busy(i)
    BY <1>9 DEF Busy
  <2>2. quiet \in Nat /\ active \in Nat /\ quiet < Ours /\ active < Ours
    BY <1>1 DEF StreakInv, TimelineTypes
  <2>3. /\ \A i \in (Ours - quiet)..(Ours - 1) : i \in 1..(Ours - 1)
        /\ \A i \in (Ours - active)..(Ours - 1) : i \in 1..(Ours - 1)
    BY <1>9, <2>2
  <2> QED BY <1>1, <1>2, <1>9, <2>1, <2>3 DEF StreakInv
<1>13. ClockInv'
  BY <1>1, <1>2, <1>9 DEF ClockInv
<1>14. VerdictIsTrue'
  BY <1>9 DEF Waiting, VerdictIsTrue, SettledIsQuiet, DivergedIsBusy, IdleSettles, NoResult
<1> QED BY <1>6, <1>7, <1>8, <1>11, <1>12, <1>13, <1>14 DEF TimelineInv

(* The pass begins.                                                         *)
LEMMA WakesInv == TimelineInv /\ Wakes => TimelineInv'
<1> SUFFICES ASSUME TimelineInv, Wakes PROVE TimelineInv'
  OBVIOUS
<1>1. /\ TimelineTypes /\ DeltaInv /\ CallInv /\ BucketInv /\ StreakInv /\ ClockInv
      /\ Waiting /\ ~sampling
  BY DEF TimelineInv, Wakes
<1>2. /\ sampling' = TRUE /\ unread' = Kinds /\ events' = 0
      /\ UNCHANGED <<counter, lastSeen, quiet, active, began, deadline, result,
                     buckets, during>>
  BY DEF Wakes
<1>3. clock' \in Nat /\ clock' <= clock + 1 + Late /\ clock \in Nat /\ Late \in Nat
      /\ began \in Nat
  BY <1>1, TimelineAssumption DEF Wakes, TimelineTypes
<1>4. Ours \in Nat \ {0} /\ Ours' = Ours /\ Waiting'
  BY <1>1, <1>2 DEF CallInv, Ours, Waiting
<1>5. TimelineTypes'
  BY <1>1, <1>2, <1>3 DEF TimelineTypes
<1>6. DeltaInv' /\ CallInv'
  BY <1>1, <1>2 DEF DeltaInv, delta, CallInv, Waiting
<1>7. BucketInv'
  <2>1. Kinds \ Kinds = {}
    OBVIOUS
  <2>2. Cardinality(Unread(Kinds \ Kinds, during)) = 0 /\ Cardinality(Unread(Kinds, during)) \in Nat
    <3>1. Unread({}, during) = {}
      BY DEF Unread
    <3> QED BY <2>1, <3>1, FS_EmptySet, UnreadFinite
  <2>3. /\ buckets[Ours].passed = 0
        /\ Cardinality(Unread(Kinds, during)) <= PassBefore(Ours) + buckets[Ours].slept
        /\ buckets[Ours].slept > 0 => \E k \in Kinds : during[k] > 0
    BY <1>1 DEF BucketInv
  <2>4. buckets[Ours] \in BucketType /\ PassBefore(Ours) \in Nat /\ PassBefore(Ours)' = PassBefore(Ours)
    <3>1. \A i \in 1..Ours : buckets[i] \in BucketType
      BY <1>1, <1>4 DEF TimelineTypes, Ours
    <3>2. Ours # 1 => Ours - 1 \in 1..Ours
      BY <1>4
    <3> QED BY <1>2, <1>4, <3>1, <3>2 DEF PassBefore, BucketType
  <2>5. 0 + Cardinality(Unread(Kinds, during))
          <= PassBefore(Ours) + buckets[Ours].slept + buckets[Ours].passed
    BY <2>2, <2>3, <2>4 DEF BucketType
  <2> QED BY <1>2, <1>4, <2>2, <2>3, <2>4, <2>5 DEF BucketInv
<1>8. StreakInv'
  BY <1>1, <1>2, <1>4 DEF StreakInv, Busy, PassBefore
<1>9. ClockInv'
  <2>1. clock <= began + (Ours - 1) * (1 + Late)
    BY <1>1 DEF ClockInv
  <2>2. /\ Ours * (1 + Late) = (Ours - 1) * (1 + Late) + 1 + Late
        /\ (Ours - 1) * (1 + Late) \in Nat
    <3>1. Ours - 1 \in Nat /\ (Ours - 1) + 1 = Ours
      BY <1>4
    <3> QED BY <3>1, Spans
  <2> QED BY <1>2, <1>3, <1>4, <2>1, <2>2 DEF ClockInv
<1>10. VerdictIsTrue'
  BY <1>4 DEF Waiting, VerdictIsTrue, SettledIsQuiet, DivergedIsBusy, IdleSettles, NoResult
<1> QED BY <1>5, <1>6, <1>7, <1>8, <1>9, <1>10 DEF TimelineInv

(* A counter is read: what had happened is counted.                         *)
LEMMA ReadInv ==
  ASSUME TimelineInv, NEW k \in Kinds, ReadCounter(k)
  PROVE  TimelineInv'
<1>1. /\ TimelineTypes /\ DeltaInv /\ CallInv /\ BucketInv /\ StreakInv /\ ClockInv
  BY DEF TimelineInv
<1>2. /\ k \in unread /\ unread' = unread \ {k} /\ unread \subseteq Kinds
      /\ events' = events + during[k]
      /\ lastSeen' = [lastSeen EXCEPT ![k] = counter[k]]
      /\ during' = [during EXCEPT ![k] = 0]
      /\ UNCHANGED <<counter, sampling, quiet, active, clock, began, deadline, result, buckets>>
  BY <1>1 DEF ReadCounter, TimelineTypes, DeltaInv
<1>3. sampling /\ Waiting /\ deadline # 0
  BY <1>1, <1>2 DEF CallInv, Waiting
<1>4. /\ during \in [Kinds -> 0..PerBucket] /\ PerBucket \in Nat /\ Modulus \in Nat \ {0}
      /\ during[k] \in Nat /\ events \in Nat
  BY <1>1, TimelineAssumption DEF TimelineTypes
<1>5. /\ during' \in [Kinds -> 0..PerBucket] /\ during'[k] = 0
      /\ \A l \in Kinds \ {k} : during'[l] = during[l]
  BY <1>2, <1>4
<1>6. /\ lastSeen' \in [Kinds -> 0..(Modulus - 1)] /\ lastSeen'[k] = counter[k]
      /\ \A l \in Kinds \ {k} : lastSeen'[l] = lastSeen[l]
  BY <1>1, <1>2 DEF TimelineTypes
<1>7. Ours \in Nat \ {0} /\ Ours' = Ours /\ Waiting' /\ PassBefore(Ours)' = PassBefore(Ours)
  BY <1>1, <1>2, <1>3 DEF CallInv, Ours, Waiting, PassBefore
<1>8. TimelineTypes'
  BY <1>1, <1>2, <1>4, <1>5, <1>6 DEF TimelineTypes
<1>9. DeltaInv'
  <2>1. counter[k] \in Int
    BY <1>1, <1>4 DEF TimelineTypes
  <2>2. (counter[k] - counter[k]) % Modulus = 0
    BY <1>4, <2>1
  <2> QED BY <1>1, <1>2, <1>5, <1>6, <2>2 DEF DeltaInv, delta
<1>10. CallInv'
  BY <1>1, <1>2, <1>3 DEF CallInv, Waiting
<1>11. BucketInv'
  <2>1. /\ events + Cardinality(Unread(unread, during))
             <= PassBefore(Ours) + buckets[Ours].slept + buckets[Ours].passed
        /\ Cardinality(Unread(Kinds \ unread, during)) <= buckets[Ours].passed
        /\ buckets[Ours].slept > 0 => events > 0 \/ \E l \in unread : during[l] > 0
    BY <1>1, <1>3 DEF BucketInv
  <2>2. Cardinality(Unread(unread, during)) = Cardinality(Unread(unread \ {k}, during)) + during[k]
    BY <1>2, <1>4, UnreadLess
  <2>3. Unread(unread \ {k}, during') = Unread(unread \ {k}, during)
    <3>1. k \notin unread \ {k} /\ unread \ {k} \subseteq Kinds
      BY <1>2
    <3>2. Unread(unread \ {k}, [during EXCEPT ![k] = 0]) = Unread(unread \ {k}, during)
      BY <1>2, <1>4, <3>1, UnreadElse
    <3> QED BY <1>2, <3>2
  <2>4. Unread(Kinds \ (unread \ {k}), during') = Unread(Kinds \ unread, during)
    <3>1. /\ Kinds \ (unread \ {k}) = (Kinds \ unread) \union {k}
          /\ (Kinds \ unread) \ {k} = Kinds \ unread
          /\ Kinds \ unread \subseteq Kinds
      BY <1>2
    <3>2. Unread((Kinds \ unread) \union {k}, during') = Unread((Kinds \ unread) \ {k}, during)
      BY <1>2, <1>4, <3>1, UnreadNone
    <3> QED BY <3>1, <3>2
  <2>5. Cardinality(Unread(unread \ {k}, during)) \in Nat
    BY <1>2, UnreadFinite
  <2>6. events + during[k] + Cardinality(Unread(unread \ {k}, during))
          <= PassBefore(Ours) + buckets[Ours].slept + buckets[Ours].passed
    <3>1. events + (Cardinality(Unread(unread \ {k}, during)) + during[k])
            <= PassBefore(Ours) + buckets[Ours].slept + buckets[Ours].passed
      BY <2>1, <2>2
    <3>2. events + (Cardinality(Unread(unread \ {k}, during)) + during[k]) =
            events + during[k] + Cardinality(Unread(unread \ {k}, during))
      BY <1>4, <2>5
    <3> QED BY <3>1, <3>2
  <2>7. buckets[Ours].slept > 0 => events + during[k] > 0 \/ \E l \in unread \ {k} : during'[l] > 0
    <3>1. CASE during[k] > 0
      BY <1>4, <3>1
    <3>2. CASE during[k] = 0
      <4>1. \A l \in unread : during[l] > 0 => l \in unread \ {k} /\ during'[l] > 0
        BY <1>2, <1>5, <3>2
      <4> QED BY <1>4, <2>1, <3>2, <4>1
    <3> QED BY <1>4, <3>1, <3>2
  <2> QED BY <1>2, <1>3, <1>7, <2>1, <2>3, <2>4, <2>6, <2>7 DEF BucketInv
<1>12. StreakInv'
  BY <1>1, <1>2, <1>3, <1>7 DEF StreakInv, Busy, PassBefore
<1>13. ClockInv'
  BY <1>1, <1>2, <1>3, <1>7 DEF ClockInv
<1>14. VerdictIsTrue'
  BY <1>7 DEF Waiting, VerdictIsTrue, SettledIsQuiet, DivergedIsBusy, IdleSettles, NoResult
<1> QED BY <1>8, <1>9, <1>10, <1>11, <1>12, <1>13, <1>14 DEF TimelineInv

(* What a pass over the counters has found is what its bucket had.          *)
LEMMA PassFacts ==
  ASSUME TimelineInv, sampling, unread = {}, Waiting
  PROVE  /\ Ours \in Nat \ {0}
         /\ \A i \in 1..Ours : buckets[i] \in BucketType /\ PassBefore(i) \in Nat
         /\ events > Threshold => Busy(Ours)
         /\ events = 0 => buckets[Ours].slept = 0
         /\ (\A i \in 1..Ours : buckets[i] = EmptyBucket) => events = 0
<1>1. TimelineTypes /\ CallInv /\ BucketInv
  BY DEF TimelineInv
<1>2. Ours \in Nat \ {0}
  BY <1>1 DEF CallInv, Ours, Waiting
<1>3. \A i \in 1..Ours : buckets[i] \in BucketType
  BY <1>1, <1>2 DEF TimelineTypes, Ours
<1>4. \A i \in 1..Ours : PassBefore(i) \in Nat
  <2> SUFFICES ASSUME NEW i \in 1..Ours PROVE PassBefore(i) \in Nat
    OBVIOUS
  <2>1. i # 1 => i - 1 \in 1..Ours
    BY <1>2
  <2> QED BY <1>3, <2>1 DEF PassBefore, BucketType
<1>5. Cardinality(Unread(unread, during)) = 0
  <2>1. Unread({}, during) = {}
    BY DEF Unread
  <2> QED BY <2>1, FS_EmptySet
<1>6. /\ events + 0 <= PassBefore(Ours) + buckets[Ours].slept + buckets[Ours].passed
      /\ buckets[Ours].slept > 0 => events > 0
  BY <1>1, <1>5 DEF BucketInv
<1>7. /\ events \in Nat /\ Threshold \in Nat /\ Ours \in 1..Ours
      /\ buckets[Ours].slept \in Nat /\ buckets[Ours].passed \in Nat /\ PassBefore(Ours) \in Nat
  <2>1. Ours \in 1..Ours
    BY <1>2
  <2>2. buckets[Ours] \in BucketType /\ PassBefore(Ours) \in Nat
    BY ONLY <1>3, <1>4, <2>1
  <2>3. events \in Nat /\ Threshold \in Nat
    BY <1>1, TimelineAssumption DEF TimelineTypes
  <2> QED BY ONLY <2>1, <2>2, <2>3 DEF BucketType
<1>8. events > Threshold => Busy(Ours)
  BY <1>6, <1>7 DEF Busy
<1>9. events = 0 => buckets[Ours].slept = 0
  BY <1>6, <1>7
<1>10. ASSUME \A i \in 1..Ours : buckets[i] = EmptyBucket
       PROVE  events = 0
  <2>1. buckets[Ours].slept = 0 /\ buckets[Ours].passed = 0
    BY <1>7, <1>10 DEF EmptyBucket
  <2>2. PassBefore(Ours) = 0
    <3>1. Ours # 1 => Ours - 1 \in 1..Ours
      BY <1>2
    <3> QED BY <1>10, <3>1 DEF PassBefore, EmptyBucket
  <2> QED BY <1>6, <1>7, <2>1, <2>2
<1> QED BY <1>2, <1>3, <1>4, <1>8, <1>9, <1>10

(* What another bucket leaves of the earlier ones.                          *)
LEMMA AnotherBucket ==
  ASSUME buckets \in Seq(BucketType), Len(buckets) \in Nat \ {0},
         buckets' = Append(buckets, EmptyBucket)
  PROVE  /\ buckets' \in Seq(BucketType) /\ Ours' = Ours + 1
         /\ buckets'[Ours + 1] = EmptyBucket
         /\ \A i \in 1..Ours : buckets'[i] = buckets[i] /\ (Busy(i)' <=> Busy(i))
         /\ PassBefore(Ours)' = buckets[Ours].passed
<1>1. EmptyBucket \in BucketType
  BY DEF EmptyBucket, BucketType
<1>2. /\ buckets' \in Seq(BucketType) /\ Ours' = Ours + 1
      /\ buckets'[Ours + 1] = EmptyBucket
      /\ \A i \in 1..Ours : buckets'[i] = buckets[i]
  BY <1>1 DEF Ours
<1>3. \A i \in 1..Ours : PassBefore(i)' = PassBefore(i)
  <2> SUFFICES ASSUME NEW i \in 1..Ours PROVE PassBefore(i)' = PassBefore(i)
    OBVIOUS
  <2>1. i # 1 => i - 1 \in 1..Ours
    BY DEF Ours
  <2>2. i # 1 => buckets'[i - 1] = buckets[i - 1]
    BY <1>2, <2>1
  <2> QED BY <2>2 DEF PassBefore
<1>4. PassBefore(Ours)' = buckets[Ours].passed
  <2>1. Ours \in 1..Ours /\ Ours' - 1 = Ours /\ Ours' # 1
    BY <1>2 DEF Ours
  <2>2. buckets'[Ours' - 1] = buckets[Ours]
    BY <1>2, <2>1
  <2> QED BY <2>1, <2>2 DEF PassBefore
<1> QED BY <1>2, <1>3, <1>4 DEF Busy

(* The streak of one more bucket is at most one longer.                      *)
LEMMA WithinStreak ==
  ASSUME NEW last \in Nat, NEW old \in Nat, NEW new \in Nat, NEW i \in (last + 1 - new)..last
  PROVE  /\ new <= old + 1 /\ i # last => i \in (last - old)..(last - 1)
         /\ new < last + 1 => i \in 1..last /\ new # 0
<1>1. i \in Int /\ i <= last /\ last + 1 <= i + new
  OBVIOUS
<1>2. ASSUME new <= old + 1, i # last PROVE i \in (last - old)..(last - 1)
  <2>1. last <= i + old /\ i <= last - 1
    BY <1>1, <1>2
  <2> QED BY <1>1, <2>1
<1>3. ASSUME new < last + 1 PROVE i \in 1..last /\ new # 0
  BY <1>1, <1>3
<1> QED BY <1>2, <1>3

(* The pass ends: in the next bucket, or the wait is over.                  *)
LEMMA NextBucketInv ==
  ASSUME TimelineInv, sampling, unread = {}, Waiting, NextBucket,
         UNCHANGED <<counter, lastSeen, unread, events, clock, began, deadline, during>>,
         quiet' \in Nat, active' \in Nat, quiet' <= quiet + 1, active' <= active + 1,
         quiet' < QuietBuckets, active' < DivergedBuckets,
         quiet' # 0 => buckets[Ours].slept = 0, active' # 0 => Busy(Ours),
         (\A i \in 1..Ours : buckets[i] = EmptyBucket) => quiet' = quiet + 1
  PROVE  TimelineInv'
<1>1. /\ TimelineTypes /\ DeltaInv /\ CallInv /\ BucketInv /\ StreakInv /\ ClockInv
  BY DEF TimelineInv
<1>2. /\ Ours \in Nat \ {0} /\ quiet \in Nat /\ active \in Nat /\ deadline # 0
      /\ clock \in Nat /\ began \in Nat /\ deadline \in Nat
      /\ Ours \in 1..Ours /\ Ours = Len(buckets) /\ buckets \in Seq(BucketType)
      /\ \A i \in 1..Ours : buckets[i] \in BucketType /\ PassBefore(i) \in Nat
  BY <1>1, PassFacts DEF TimelineTypes, Ours, Waiting
<1>3. /\ QuietBuckets \in Nat \ {0} /\ DivergedBuckets \in Nat \ {0}
      /\ Timeout \in Nat \ {0} /\ Late \in Nat
  BY TimelineAssumption
<1>4. sampling' = FALSE
  BY DEF NextBucket
<1>5. DeltaInv'
  BY <1>1 DEF DeltaInv, delta
<1>6. /\ clock <= began + Ours * (1 + Late) /\ Ours * (1 + Late) \in Nat
  <2>1. Ours * (1 + Late) \in Nat
    BY <1>2, Spans
  <2> QED BY <1>1, <2>1 DEF ClockInv
<1>7. CASE inTime
  <2>1. result' = NoResult /\ buckets' = Append(buckets, EmptyBucket) /\ result = NoResult
    BY <1>7 DEF NextBucket, Waiting
  <2>2. /\ buckets' \in Seq(BucketType) /\ Ours' = Ours + 1
        /\ buckets'[Ours + 1] = EmptyBucket
        /\ \A i \in 1..Ours : buckets'[i] = buckets[i] /\ (Busy(i)' <=> Busy(i))
        /\ PassBefore(Ours)' = buckets[Ours].passed
    BY <1>2, <2>1, AnotherBucket
  <2>3. Waiting'
    BY <1>2, <2>1 DEF Waiting
  <2>4. TimelineTypes'
    BY <1>1, <1>4, <2>1, <2>2 DEF TimelineTypes
  <2>5. CallInv'
    BY <1>1, <1>2, <2>2, <2>3 DEF CallInv, Ours
  <2>6. BucketInv'
    <3>1. Kinds \ unread = Kinds
      OBVIOUS
    <3>2. Cardinality(Unread(Kinds, during)) <= buckets[Ours].passed
      BY <1>1, <3>1 DEF BucketInv
    <3>3. buckets[Ours].passed \in Nat /\ Cardinality(Unread(Kinds, during)) \in Nat
      BY <1>2, UnreadFinite DEF BucketType
    <3>4. buckets'[Ours + 1].slept = 0 /\ buckets'[Ours + 1].passed = 0
      BY <2>2 DEF EmptyBucket
    <3>5. buckets'[Ours'] = buckets'[Ours + 1]
      BY <2>2
    <3>6. Cardinality(Unread(Kinds, during)) <= PassBefore(Ours)' + buckets'[Ours'].slept
      BY <2>2, <3>2, <3>3, <3>4, <3>5
    <3>7. ~(buckets'[Ours'].slept > 0)
      BY <3>4, <3>5
    <3> QED BY <1>4, <3>4, <3>5, <3>6, <3>7 DEF BucketInv
  <2>7. StreakInv'
    <3>1. /\ quiet < Ours /\ active < Ours
          /\ \A i \in (Ours - quiet)..(Ours - 1) : buckets[i].slept = 0
          /\ \A i \in (Ours - active)..(Ours - 1) : Busy(i)
          /\ (\A i \in 1..(Ours - 1) : buckets[i] = EmptyBucket) => quiet = Ours - 1
      BY <1>1 DEF StreakInv
    <3>2. quiet' < Ours + 1 /\ active' < Ours + 1
      BY <1>2, <3>1
    <3>3. ASSUME NEW i \in (Ours + 1 - quiet')..Ours PROVE buckets'[i].slept = 0
      <4>0. i \in (Ours + 1 - quiet')..Ours
        OBVIOUS
      <4>1. i \in 1..Ours /\ quiet' # 0
        BY ONLY <4>0, <1>2, <3>2, quiet' \in Nat, WithinStreak
      <4>2. CASE i = Ours
        BY <2>2, <4>1, <4>2
      <4>3. CASE i # Ours
        <5>0. Ours \in Nat /\ quiet \in Nat /\ quiet' \in Nat /\ quiet' <= quiet + 1
          BY <1>2
        <5>1. i \in (Ours - quiet)..(Ours - 1)
          BY ONLY <4>0, <4>3, <5>0, WithinStreak
        <5> QED BY <2>2, <3>1, <4>1, <5>1
      <4> QED BY <4>2, <4>3
    <3>4. ASSUME NEW i \in (Ours + 1 - active')..Ours PROVE Busy(i)'
      <4>0. i \in (Ours + 1 - active')..Ours
        OBVIOUS
      <4>1. i \in 1..Ours /\ active' # 0
        BY ONLY <4>0, <1>2, <3>2, active' \in Nat, WithinStreak
      <4>2. CASE i = Ours
        BY <2>2, <4>1, <4>2
      <4>3. CASE i # Ours
        <5>0. Ours \in Nat /\ active \in Nat /\ active' \in Nat /\ active' <= active + 1
          BY <1>2
        <5>1. i \in (Ours - active)..(Ours - 1)
          BY ONLY <4>0, <4>3, <5>0, WithinStreak
        <5> QED BY <2>2, <3>1, <4>1, <5>1
      <4> QED BY <4>2, <4>3
    <3>5. ASSUME \A i \in 1..Ours : buckets'[i] = EmptyBucket PROVE quiet' = Ours
      <4>1. \A i \in 1..Ours : buckets[i] = EmptyBucket
        BY <2>2, <3>5
      <4>2. \A i \in 1..(Ours - 1) : i \in 1..Ours
        BY <1>2
      <4>3. quiet = Ours - 1 /\ quiet' = quiet + 1
        BY <3>1, <4>1, <4>2
      <4> QED BY <1>2, <4>3
    <3>6. Ours' = Ours + 1 /\ (Ours + 1) - 1 = Ours
      BY <1>2, <2>2
    <3>7. Ours' - 1 = Ours
      BY <1>2, <2>2
    <3>8. /\ \A i \in (Ours' - quiet')..(Ours' - 1) : buckets'[i].slept = 0
          /\ \A i \in (Ours' - active')..(Ours' - 1) : Busy(i)'
      <4>1. Ours' - quiet' = Ours + 1 - quiet' /\ Ours' - active' = Ours + 1 - active'
        BY <1>2, <3>6
      <4> QED BY ONLY <3>3, <3>4, <3>7, <4>1, Zenon
    <3>9. (\A i \in 1..(Ours' - 1) : buckets'[i] = EmptyBucket) => quiet' = Ours' - 1
      BY ONLY <3>5, <3>7
    <3>10. quiet' < Ours' /\ active' < Ours'
      BY ONLY <2>2, <3>2
    <3>11. quiet' < QuietBuckets /\ active' < DivergedBuckets
      OBVIOUS
    <3> QED BY ONLY <3>8, <3>9, <3>10, <3>11, Zenon DEF StreakInv
  <2>8. ClockInv'
    <3>1. Ours' - 1 = Ours
      BY <1>2, <2>2
    <3> QED BY <1>4, <1>6, <3>1 DEF ClockInv
  <2>9. VerdictIsTrue'
    BY <2>1 DEF VerdictIsTrue, SettledIsQuiet, DivergedIsBusy, IdleSettles, NoResult
  <2> QED BY <1>5, <2>4, <2>5, <2>6, <2>7, <2>8, <2>9 DEF TimelineInv
<1>8. CASE ~inTime
  <2>1. result' = "timeout" /\ buckets' = buckets /\ deadline <= clock
    BY <1>2, <1>8 DEF NextBucket, inTime
  <2>2. ~Waiting'
    BY <2>1 DEF Waiting, NoResult
  <2>3. TimelineTypes' /\ CallInv'
    BY <1>1, <1>2, <1>4, <2>1, <2>2 DEF TimelineTypes, CallInv
  <2>4. BucketInv' /\ StreakInv' /\ ClockInv'
    BY <2>2 DEF BucketInv, StreakInv, ClockInv
  <2>5. ASSUME \A i \in 1..Ours : buckets[i] = EmptyBucket
        PROVE  deadline - began <= (QuietBuckets - 1) * (1 + Late)
    <3>1. \A i \in 1..(Ours - 1) : buckets[i] = EmptyBucket
      BY <1>2, <2>5
    <3>2. quiet' = Ours
      BY <1>1, <1>2, <2>5, <3>1 DEF StreakInv
    <3>3. Ours <= QuietBuckets - 1 /\ QuietBuckets - 1 \in Nat
      BY <1>2, <1>3, <3>2
    <3>4. Ours * (1 + Late) <= (QuietBuckets - 1) * (1 + Late)
          /\ (QuietBuckets - 1) * (1 + Late) \in Nat
      BY <1>2, <3>3, Spans
    <3> QED BY <1>2, <1>6, <2>1, <3>4, SMTT(30)
  <2>6. VerdictIsTrue'
    BY <2>1, <2>5 DEF VerdictIsTrue, SettledIsQuiet, DivergedIsBusy, IdleSettles, Ours
  <2> QED BY <1>5, <2>3, <2>4, <2>6 DEF TimelineInv
<1> QED BY <1>7, <1>8

(* A verdict: it is true of the buckets there are.                          *)
LEMMA VerdictInv ==
  ASSUME TimelineInv, unread = {}, Waiting,
         UNCHANGED <<counter, lastSeen, unread, sampling, events, clock, began, deadline,
                     buckets, during>>,
         quiet' \in Nat, active' \in Nat,
         \/ /\ result' = "settled" /\ QuietBuckets <= Ours
            /\ \A i \in (Ours - QuietBuckets + 1)..Ours : buckets[i].slept = 0
         \/ /\ result' = "diverged" /\ DivergedBuckets <= Ours
            /\ \A i \in (Ours - DivergedBuckets + 1)..Ours : Busy(i)
  PROVE  TimelineInv'
<1>1. TimelineTypes /\ DeltaInv /\ CallInv
  BY DEF TimelineInv
<1>2. ~Waiting' /\ result' \in {"settled", "diverged"} /\ deadline # 0
  BY DEF Waiting, NoResult
<1>3. TimelineTypes' /\ DeltaInv' /\ CallInv'
  BY <1>1, <1>2 DEF TimelineTypes, DeltaInv, delta, CallInv
<1>4. BucketInv' /\ StreakInv' /\ ClockInv'
  BY <1>2 DEF BucketInv, StreakInv, ClockInv
<1>5. VerdictIsTrue'
  BY DEF VerdictIsTrue, SettledIsQuiet, DivergedIsBusy, IdleSettles, LastBuckets, Busy,
         PassBefore, Ours
<1> QED BY <1>3, <1>4, <1>5 DEF TimelineInv

(* The end of a pass, whatever it has found.                                *)
LEMMA CloseInv == TimelineInv /\ CloseBucket => TimelineInv'
<1> SUFFICES ASSUME TimelineInv, CloseBucket PROVE TimelineInv'
  OBVIOUS
<1>1. /\ sampling /\ unread = {} /\ Waiting
      /\ UNCHANGED <<counter, lastSeen, unread, events, clock, began, deadline, during>>
  BY DEF CloseBucket
<1>2. /\ TimelineTypes /\ StreakInv
  BY DEF TimelineInv
<1>3. /\ quiet \in Nat /\ active \in Nat /\ events \in Nat
      /\ quiet < QuietBuckets /\ active < DivergedBuckets /\ quiet < Ours /\ active < Ours
      /\ \A i \in (Ours - quiet)..(Ours - 1) : buckets[i].slept = 0
      /\ \A i \in (Ours - active)..(Ours - 1) : Busy(i)
  BY <1>1, <1>2 DEF TimelineTypes, StreakInv
<1>4. /\ Ours \in Nat \ {0}
      /\ events > Threshold => Busy(Ours)
      /\ events = 0 => buckets[Ours].slept = 0
      /\ (\A i \in 1..Ours : buckets[i] = EmptyBucket) => events = 0
  BY <1>1, PassFacts
<1>5. QuietBuckets \in Nat \ {0} /\ DivergedBuckets \in Nat \ {0} /\ Threshold \in Nat
  BY TimelineAssumption
<1>6. CASE events > Threshold
  <2>0. events # 0 /\ events \notin 1..Threshold
    BY <1>3, <1>5, <1>6
  <2>1. active' = active + 1 /\ quiet' = 0 /\ events # 0
        /\ IF active' >= DivergedBuckets
             THEN result' = "diverged" /\ UNCHANGED <<sampling, buckets>>
             ELSE NextBucket
    BY <2>0, Zenon DEF CloseBucket
  <2>2. CASE active' >= DivergedBuckets
    <3>1. DivergedBuckets = active + 1 /\ DivergedBuckets <= Ours
      BY <1>3, <1>4, <1>5, <2>1, <2>2
    <3>2. ASSUME NEW i \in (Ours - DivergedBuckets + 1)..Ours PROVE Busy(i)
      <4>1. i = Ours \/ i \in (Ours - active)..(Ours - 1)
        BY <1>3, <1>4, <3>1
      <4> QED BY <1>3, <1>4, <1>6, <4>1
    <3>3. result' = "diverged" /\ UNCHANGED <<sampling, buckets>> /\ active' \in Nat /\ quiet' \in Nat
      BY <1>3, <2>1, <2>2
    <3> QED BY <1>1, <3>1, <3>2, <3>3, VerdictInv
  <2>3. CASE ~(active' >= DivergedBuckets)
    <3>1. /\ NextBucket /\ active' < DivergedBuckets /\ quiet' < QuietBuckets
          /\ active' \in Nat /\ quiet' \in Nat /\ quiet' <= quiet + 1 /\ active' <= active + 1
          /\ quiet' = 0 /\ Busy(Ours) /\ ~(\A i \in 1..Ours : buckets[i] = EmptyBucket)
      BY <1>3, <1>4, <1>5, <1>6, <2>1, <2>3
    <3> QED BY <1>1, <3>1, NextBucketInv
  <2> QED BY <2>2, <2>3
<1>7. CASE events = 0
  <2>0. ~(events > Threshold) /\ events \notin 1..Threshold
    BY <1>5, <1>7
  <2>1. active' = 0 /\ quiet' = quiet + 1
        /\ IF quiet' >= QuietBuckets
             THEN result' = "settled" /\ UNCHANGED <<sampling, buckets>>
             ELSE NextBucket
    BY <2>0, Zenon DEF CloseBucket, resetActive, quietEnough
  <2>2. CASE quiet' >= QuietBuckets
    <3>1. QuietBuckets = quiet + 1 /\ QuietBuckets <= Ours
      BY <1>3, <1>4, <1>5, <2>1, <2>2
    <3>2. ASSUME NEW i \in (Ours - QuietBuckets + 1)..Ours PROVE buckets[i].slept = 0
      <4>1. i = Ours \/ i \in (Ours - quiet)..(Ours - 1)
        BY <1>3, <1>4, <3>1
      <4> QED BY <1>3, <1>4, <1>7, <4>1
    <3>3. result' = "settled" /\ UNCHANGED <<sampling, buckets>> /\ active' \in Nat /\ quiet' \in Nat
      BY <1>3, <2>1, <2>2
    <3> QED BY <1>1, <3>1, <3>2, <3>3, VerdictInv
  <2>3. CASE ~(quiet' >= QuietBuckets)
    <3>1. /\ NextBucket /\ active' < DivergedBuckets /\ quiet' < QuietBuckets
          /\ active' \in Nat /\ quiet' \in Nat /\ quiet' <= quiet + 1 /\ active' <= active + 1
          /\ active' = 0 /\ quiet' = quiet + 1 /\ buckets[Ours].slept = 0
      BY <1>3, <1>4, <1>5, <1>7, <2>1, <2>3
    <3> QED BY <1>1, <3>1, NextBucketInv
  <2> QED BY <2>2, <2>3
<1>8. CASE events \in 1..Threshold
  <2>0. events # 0 /\ ~(events > Threshold)
    BY <1>5, <1>8
  <2>1. active' = 0 /\ quiet' = 0 /\ NextBucket
    BY <2>0, Zenon DEF CloseBucket, resetActive
  <2>2. /\ active' < DivergedBuckets /\ quiet' < QuietBuckets
        /\ active' \in Nat /\ quiet' \in Nat /\ quiet' <= quiet + 1 /\ active' <= active + 1
        /\ ~(\A i \in 1..Ours : buckets[i] = EmptyBucket)
    BY <1>3, <1>4, <1>5, <1>8, <2>1
  <2> QED BY <1>1, <2>1, <2>2, NextBucketInv
<1> QED BY <1>3, <1>5, <1>6, <1>7, <1>8

(* The invariant holds, for any kinds, counters, time-out and buckets.       *)
THEOREM TimelineInvariant == TimelineSpec => []TimelineInv
<1>1. TimelineInv /\ [TimelineNext]_timelineVars => TimelineInv'
  <2> SUFFICES ASSUME TimelineInv, [TimelineNext]_timelineVars PROVE TimelineInv'
    OBVIOUS
  <2>1. CASE UNCHANGED timelineVars
    <3>1. UNCHANGED <<counter, lastSeen, unread, sampling, events, quiet, active,
                      clock, began, deadline, result, buckets, during>>
      BY <2>1 DEF timelineVars
    <3> QED BY <3>1
         DEF TimelineInv, TimelineTypes, DeltaInv, delta, CallInv, BucketInv, StreakInv,
             ClockInv, Waiting, Ours, Unread, Busy, PassBefore, VerdictIsTrue,
             SettledIsQuiet, DivergedIsBusy, IdleSettles, LastBuckets
  <2> QED BY <2>1, BeginInv, WakesInv, CloseInv, EmitInv, ReadInv DEF TimelineNext
<1> QED BY <1>1, TimelineInitInv, PTL DEF TimelineSpec

(* What the wait returns is true of the buckets it has sampled.              *)
THEOREM VerdictTheorem == TimelineSpec => []VerdictIsTrue
<1>1. TimelineInv => VerdictIsTrue
  BY DEF TimelineInv
<1> QED BY <1>1, TimelineInvariant, PTL

-----------------------------------------------------------------------------
(* ReplayTarget.                                                            *)

(* The steps of a call, and what it may have left of them.                  *)
Steps == {"before", "id", "root", "after", "local", "before2", "after2",
          "setLocal", "setRoot", "setHas", "push", "pointer"}
MotionLists ==
  {<<"before", "id", "root", "after", "local", "before2", "root", "after2",
     "setLocal", "setRoot", "setHas", "push">>,
   <<"id", "root", "after", "local", "before2", "root", "after2",
     "setLocal", "setRoot", "setHas", "push">>,
   <<"root", "after", "local", "before2", "root", "after2",
     "setLocal", "setRoot", "setHas", "push">>,
   <<"after", "local", "before2", "root", "after2",
     "setLocal", "setRoot", "setHas", "push">>,
   <<"local", "before2", "root", "after2", "setLocal", "setRoot", "setHas", "push">>}
RememberLists ==
  {<<"before2", "root", "after2", "setLocal", "setRoot", "setHas", "push">>,
   <<"root", "after2", "setLocal", "setRoot", "setHas", "push">>,
   <<"after2", "setLocal", "setRoot", "setHas", "push">>,
   <<"root", "setLocal", "setRoot", "setHas", "push">>,
   <<"setLocal", "setRoot", "setHas", "push">>, <<"setRoot", "setHas", "push">>,
   <<"setHas", "push">>, <<"push">>}
RelativeLists ==
  {<<"id", "pointer", "before2", "root", "after2", "setLocal", "setRoot", "setHas">>,
   <<"pointer", "before2", "root", "after2", "setLocal", "setRoot", "setHas">>,
   <<"before2", "root", "after2", "setLocal", "setRoot", "setHas">>,
   <<"root", "after2", "setLocal", "setRoot", "setHas">>,
   <<"after2", "setLocal", "setRoot", "setHas">>,
   <<"root", "setLocal", "setRoot", "setHas">>,
   <<"setLocal", "setRoot", "setHas">>, <<"setRoot", "setHas">>, <<"setHas">>}
CallLists == {<<>>} \union MotionLists \union RememberLists \union RelativeLists
Follows(a, b) ==
  <<a, b>> \in {<<"before", "id">>, <<"id", "root">>, <<"id", "pointer">>, <<"root", "after">>,
                <<"root", "after2">>, <<"root", "setLocal">>, <<"after", "local">>,
                <<"local", "before2">>, <<"pointer", "before2">>, <<"before2", "root">>,
                <<"after2", "setLocal">>, <<"setLocal", "setRoot">>, <<"setRoot", "setHas">>,
                <<"setHas", "push">>}
Between(s) == Len(s) > 1 /\ s[1] = "root" /\ s[2] = "after"

(* The types.                                                               *)
TargetType == [id : Windows \union {NoWindow}, root : Nat]
CandidateType == [id : Windows \union {NoWindow}, root : Nat, area : Nat]
CallType == [todo : CallLists, tries : 0..(MaxAttempts - 1), before : Nat,
             got : TargetType, at : Int, stable : SUBSET TargetType]
PushedType == [id : Windows \union {NoWindow}, at : Int, local : Int,
               stable : SUBSET TargetType]
StoreTypes ==
  /\ seq \in Nat /\ client \in Clients
  /\ target \in TargetType /\ storing \in TargetType
  /\ targetArea \in Nat /\ targetAreaHighWater \in Nat
  /\ DOMAIN known \subseteq Windows
  /\ known \in [DOMAIN known -> [root : Nat, area : Nat \ {0}]]
  /\ first \in CandidateType /\ latest \in CandidateType
  /\ holder \in Threads \union {NoThread}
ReaderTypes ==
  /\ pointer \in [has : BOOLEAN, local : Int, root : Int]
  /\ call \in [Threads -> CallType]
  /\ pushed \in [Threads -> PushedType]

(* The accesses of a writer, and what it may have left of them.             *)
Accesses == {"seq", "publish", "rebase", "root", "id"}
EvenLists ==
  {<<>>, <<"seq", "publish", "seq">>,
   <<"seq", "publish", "seq", "rebase", "seq", "root", "id", "seq">>,
   <<"rebase", "seq", "root", "id", "seq">>, <<"seq", "root", "id", "seq">>,
   <<"seq", "publish", "seq", "seq", "id", "seq">>, <<"seq", "id", "seq">>}
OddLists ==
  {<<"publish", "seq">>, <<"seq">>,
   <<"publish", "seq", "rebase", "seq", "root", "id", "seq">>,
   <<"seq", "rebase", "seq", "root", "id", "seq">>,
   <<"root", "id", "seq">>, <<"id", "seq">>,
   <<"publish", "seq", "seq", "id", "seq">>, <<"seq", "seq", "id", "seq">>}

(* The counter is odd while a writer is between two of its bumps; nobody is  *)
(* at work when nothing is left to do.                                      *)
WriterInv ==
  /\ stores \in EvenLists \union OddLists
  /\ seq % 2 = 1 <=> stores \in OddLists
  /\ holder = NoThread <=> stores = <<>>

(* What the writer has decided is the target already, though some of it is   *)
(* yet to be stored.                                                        *)
Has(l, step) == \E i \in 1..Len(l) : l[i] = step
Left(field) == Has(stores, field)
Decided == [id |-> IF Left("id") THEN storing.id ELSE target.id,
            root |-> IF Left("root") THEN storing.root ELSE target.root]
DecidedInv ==
  IF Decided.id = NoWindow THEN targetArea = 0
  ELSE /\ Decided.id \in DOMAIN known
       /\ Decided.root = known[Decided.id].root
       /\ targetArea = known[Decided.id].area

(* The lists name windows that are known, each once.                        *)
Names(s) ==
  /\ s \in Seq(DOMAIN known)
  /\ \A i, j \in 1..Len(s) : s[i] = s[j] => i = j
ListsInv == Names(order) /\ Names(stack)
PublishedInv ==
  ~Left("publish") =>
    IF order = <<>> THEN first = NoCandidate /\ latest = NoCandidate
    ELSE first = Candidate(Head(order)) /\ latest = Candidate(Last(order))

(* A reader's counter is an even one of the past, and while it is the        *)
(* present one, what has been read is the target.                           *)
Starts(c, step) == c.todo # <<>> /\ Head(c.todo) = step
ReaderOk(c) ==
  /\ c.todo # <<>> /\ seq % 2 = 0 => target \in c.stable
  /\ c.before <= seq /\ c.before % 2 = 0
  /\ c.before = seq /\ Between(c.todo) => c.got.id = target.id
  /\ c.before = seq /\ Starts(c, "after") => c.got = target
  /\ Starts(c, "local") => c.got \in c.stable /\ c.got.id # NoWindow
ReaderInv == \A t \in Threads : ReaderOk(call[t])

(* Where a call and a write do not overlap, nothing is left to write while   *)
(* one is under way, and the pointer goes with the target: before a call has *)
(* begun to set it, and after.                                              *)
Idle == \A t \in Threads : call[t].todo = <<>>
Places(p, root) == p.has => p.local = p.root - root
PlacesFor(c, p) ==
  /\ ~Starts(c, "setRoot") => Places(p, target.root)
  /\ Head(c.todo) \in {"after", "after2", "local", "setLocal", "setRoot"} =>
       c.got.root = target.root
  /\ Starts(c, "setRoot") => p.local = c.at
  /\ Starts(c, "setHas") => p.local = p.root - target.root
SerialInv ==
  ~client.overlap =>
    /\ Idle => Places(pointer, IF Left("root") /\ ~Left("rebase") THEN storing.root
                                                                  ELSE target.root)
    /\ \A t \in Threads : call[t].todo # <<>> =>
         /\ stores = <<>> /\ \A u \in Threads \ {t} : call[u].todo = <<>>
         /\ PlacesFor(call[t], pointer)

TargetInv ==
  /\ StoreTypes /\ ReaderTypes /\ WriterInv /\ DecidedInv /\ ListsInv /\ PublishedInv
  /\ ReaderInv /\ SerialInv /\ MotionIsCoherent

-----------------------------------------------------------------------------
(* The two kinds of list have nothing in common: an even one makes an even  *)
(* number of bumps, and so on.                                              *)
LEMMA ParityDisjoint == EvenLists \intersect OddLists = {}
BY DEF EvenLists, OddLists

(* The next access of a writer, and the list it leaves.                     *)
LEMMA WriterLists ==
  ASSUME NEW l \in EvenLists \union OddLists, l # <<>>
  PROVE  /\ Tail(l) \in EvenLists \union OddLists
         /\ Head(l) = "seq" => (l \in EvenLists <=> Tail(l) \in OddLists)
         /\ Head(l) # "seq" => (l \in EvenLists <=> Tail(l) \in EvenLists)
         /\ Head(l) \in {"publish", "root", "id"} => l \in OddLists /\ ~Has(Tail(l), Head(l))
         /\ Head(l) = "rebase" => l \in EvenLists /\ Has(Tail(l), "root") /\ ~Has(Tail(l), "rebase")
         /\ Head(l) = "root" => ~Has(Tail(l), "rebase")
         /\ Head(l) \in {"seq", "publish", "root", "id", "rebase"}
<1>1. CASE l = <<"seq", "publish", "seq">>
  <2>1. Head(l) = "seq" /\ Tail(l) = <<"publish", "seq">>
    BY <1>1
  <2>2. l \in EvenLists /\ Tail(l) \in OddLists
    BY <1>1, <2>1 DEF EvenLists, OddLists
  <2> QED
    BY <2>1, <2>2, ParityDisjoint, Zenon
<1>2. CASE l = <<"seq", "publish", "seq", "rebase", "seq", "root", "id", "seq">>
  <2>1. Head(l) = "seq" /\ Tail(l) = <<"publish", "seq", "rebase", "seq", "root", "id", "seq">>
    BY <1>2
  <2>2. l \in EvenLists /\ Tail(l) \in OddLists
    BY <1>2, <2>1 DEF EvenLists, OddLists
  <2> QED
    BY <2>1, <2>2, ParityDisjoint, Zenon
<1>3. CASE l = <<"rebase", "seq", "root", "id", "seq">>
  <2>1. Head(l) = "rebase" /\ Tail(l) = <<"seq", "root", "id", "seq">>
    BY <1>3
  <2>2. l \in EvenLists /\ Tail(l) \in EvenLists
    BY <1>3, <2>1 DEF EvenLists
  <2>3. Has(Tail(l), "root")
    <3>1. Has(<<"seq", "root", "id", "seq">>, "root")
      BY DEF Has
    <3> QED
      BY <2>1, <3>1, Zenon
  <2>4. ~Has(Tail(l), "rebase")
    <3>1. ~Has(<<"seq", "root", "id", "seq">>, "rebase")
      BY DEF Has
    <3> QED
      BY <2>1, <3>1, Zenon
  <2> QED
    BY <2>1, <2>2, <2>3, <2>4, ParityDisjoint, Zenon
<1>4. CASE l = <<"seq", "root", "id", "seq">>
  <2>1. Head(l) = "seq" /\ Tail(l) = <<"root", "id", "seq">>
    BY <1>4
  <2>2. l \in EvenLists /\ Tail(l) \in OddLists
    BY <1>4, <2>1 DEF EvenLists, OddLists
  <2> QED
    BY <2>1, <2>2, ParityDisjoint, Zenon
<1>5. CASE l = <<"seq", "publish", "seq", "seq", "id", "seq">>
  <2>1. Head(l) = "seq" /\ Tail(l) = <<"publish", "seq", "seq", "id", "seq">>
    BY <1>5
  <2>2. l \in EvenLists /\ Tail(l) \in OddLists
    BY <1>5, <2>1 DEF EvenLists, OddLists
  <2> QED
    BY <2>1, <2>2, ParityDisjoint, Zenon
<1>6. CASE l = <<"seq", "id", "seq">>
  <2>1. Head(l) = "seq" /\ Tail(l) = <<"id", "seq">>
    BY <1>6
  <2>2. l \in EvenLists /\ Tail(l) \in OddLists
    BY <1>6, <2>1 DEF EvenLists, OddLists
  <2> QED
    BY <2>1, <2>2, ParityDisjoint, Zenon
<1>7. CASE l = <<"publish", "seq">>
  <2>1. Head(l) = "publish" /\ Tail(l) = <<"seq">>
    BY <1>7
  <2>2. l \in OddLists /\ Tail(l) \in OddLists
    BY <1>7, <2>1 DEF OddLists
  <2>3. ~Has(Tail(l), "publish")
    <3>1. ~Has(<<"seq">>, "publish")
      BY DEF Has
    <3> QED
      BY <2>1, <3>1, Zenon
  <2> QED
    BY <2>1, <2>2, <2>3, ParityDisjoint, Zenon
<1>8. CASE l = <<"seq">>
  <2>1. Head(l) = "seq" /\ Tail(l) = <<>>
    BY <1>8
  <2>2. l \in OddLists /\ Tail(l) \in EvenLists
    BY <1>8, <2>1 DEF EvenLists, OddLists
  <2> QED
    BY <2>1, <2>2, ParityDisjoint, Zenon
<1>9. CASE l = <<"publish", "seq", "rebase", "seq", "root", "id", "seq">>
  <2>1. Head(l) = "publish" /\ Tail(l) = <<"seq", "rebase", "seq", "root", "id", "seq">>
    BY <1>9
  <2>2. l \in OddLists /\ Tail(l) \in OddLists
    BY <1>9, <2>1 DEF OddLists
  <2>3. ~Has(Tail(l), "publish")
    <3>1. ~Has(<<"seq", "rebase", "seq", "root", "id", "seq">>, "publish")
      BY DEF Has
    <3> QED
      BY <2>1, <3>1, Zenon
  <2> QED
    BY <2>1, <2>2, <2>3, ParityDisjoint, Zenon
<1>10. CASE l = <<"seq", "rebase", "seq", "root", "id", "seq">>
  <2>1. Head(l) = "seq" /\ Tail(l) = <<"rebase", "seq", "root", "id", "seq">>
    BY <1>10
  <2>2. l \in OddLists /\ Tail(l) \in EvenLists
    BY <1>10, <2>1 DEF EvenLists, OddLists
  <2> QED
    BY <2>1, <2>2, ParityDisjoint, Zenon
<1>11. CASE l = <<"root", "id", "seq">>
  <2>1. Head(l) = "root" /\ Tail(l) = <<"id", "seq">>
    BY <1>11
  <2>2. l \in OddLists /\ Tail(l) \in OddLists
    BY <1>11, <2>1 DEF OddLists
  <2>3. ~Has(Tail(l), "root")
    <3>1. ~Has(<<"id", "seq">>, "root")
      BY DEF Has
    <3> QED
      BY <2>1, <3>1, Zenon
  <2>4. ~Has(Tail(l), "rebase")
    <3>1. ~Has(<<"id", "seq">>, "rebase")
      BY DEF Has
    <3> QED
      BY <2>1, <3>1, Zenon
  <2> QED
    BY <2>1, <2>2, <2>3, <2>4, ParityDisjoint, Zenon
<1>12. CASE l = <<"id", "seq">>
  <2>1. Head(l) = "id" /\ Tail(l) = <<"seq">>
    BY <1>12
  <2>2. l \in OddLists /\ Tail(l) \in OddLists
    BY <1>12, <2>1 DEF OddLists
  <2>3. ~Has(Tail(l), "id")
    <3>1. ~Has(<<"seq">>, "id")
      BY DEF Has
    <3> QED
      BY <2>1, <3>1, Zenon
  <2> QED
    BY <2>1, <2>2, <2>3, ParityDisjoint, Zenon
<1>13. CASE l = <<"publish", "seq", "seq", "id", "seq">>
  <2>1. Head(l) = "publish" /\ Tail(l) = <<"seq", "seq", "id", "seq">>
    BY <1>13
  <2>2. l \in OddLists /\ Tail(l) \in OddLists
    BY <1>13, <2>1 DEF OddLists
  <2>3. ~Has(Tail(l), "publish")
    <3>1. ~Has(<<"seq", "seq", "id", "seq">>, "publish")
      BY DEF Has
    <3> QED
      BY <2>1, <3>1, Zenon
  <2> QED
    BY <2>1, <2>2, <2>3, ParityDisjoint, Zenon
<1>14. CASE l = <<"seq", "seq", "id", "seq">>
  <2>1. Head(l) = "seq" /\ Tail(l) = <<"seq", "id", "seq">>
    BY <1>14
  <2>2. l \in OddLists /\ Tail(l) \in EvenLists
    BY <1>14, <2>1 DEF EvenLists, OddLists
  <2> QED
    BY <2>1, <2>2, ParityDisjoint, Zenon
<1> QED
  BY <1>1, <1>2, <1>3, <1>4, <1>5, <1>6, <1>7, <1>8, <1>9, <1>10, <1>11, <1>12, <1>13, <1>14, Zenon DEF EvenLists, OddLists

(* The next step of a call, and what it leaves.                             *)
LEMMA CallSteps ==
  ASSUME NEW l \in CallLists, l # <<>>
  PROVE  /\ Tail(l) \in CallLists /\ Head(l) \in Steps
         /\ Head(l) = "before" => l = <<"before", "id", "root", "after", "local", "before2", "root", "after2", "setLocal", "setRoot", "setHas", "push">>
         /\ Head(l) = "after" => l = <<"after", "local", "before2", "root", "after2", "setLocal", "setRoot", "setHas", "push">>
         /\ Head(l) = "before2" => l = <<"before2", "root", "after2", "setLocal", "setRoot", "setHas", "push">> \/ l = <<"before2", "root", "after2", "setLocal", "setRoot", "setHas">>
         /\ Head(l) = "after2" => l = <<"after2", "setLocal", "setRoot", "setHas", "push">> \/ l = <<"after2", "setLocal", "setRoot", "setHas">>
         /\ Tail(l) = <<>> => Head(l) \in {"setHas", "push"}
         /\ Head(l) = "push" => Tail(l) = <<>>
         /\ Tail(l) # <<>> => Follows(Head(l), Head(Tail(l)))
         /\ Between(Tail(l)) => Head(l) = "id" /\ l[2] # "pointer"
         /\ Head(l) = "id" => (l[2] # "pointer" <=> Head(Tail(l)) = "root")
         /\ Head(l) = "root" => (Between(l) <=> Head(Tail(l)) = "after")
         /\ Between(l) => Head(l) = "root"
<1>1. CASE l = <<"before", "id", "root", "after", "local", "before2", "root", "after2", "setLocal", "setRoot", "setHas", "push">>
  <2>1. Head(l) = "before" /\ Tail(l) = <<"id", "root", "after", "local", "before2", "root", "after2", "setLocal", "setRoot", "setHas", "push">>
    BY <1>1
  <2>2. Tail(l) \in CallLists /\ Head(l) \in Steps
    BY <2>1 DEF CallLists, MotionLists, Steps
  <2>3. Tail(l) # <<>> /\ Head(Tail(l)) = "id"
    <3>1. <<"id", "root", "after", "local", "before2", "root", "after2", "setLocal", "setRoot", "setHas", "push">> # <<>> /\ Head(<<"id", "root", "after", "local", "before2", "root", "after2", "setLocal", "setRoot", "setHas", "push">>) = "id"
      OBVIOUS
    <3> QED
      BY <2>1, <3>1, Zenon
  <2>4. ~Between(Tail(l))
    <3>1. ~Between(<<"id", "root", "after", "local", "before2", "root", "after2", "setLocal", "setRoot", "setHas", "push">>)
      BY DEF Between
    <3> QED
      BY <2>1, <3>1, Zenon
  <2>5. ~Between(l)
    <3>1. ~Between(<<"before", "id", "root", "after", "local", "before2", "root", "after2", "setLocal", "setRoot", "setHas", "push">>)
      BY DEF Between
    <3> QED
      BY <1>1, <3>1, Zenon
  <2> QED
    BY <1>1, <2>1, <2>2, <2>3, <2>4, <2>5 DEF Follows
<1>2. CASE l = <<"id", "root", "after", "local", "before2", "root", "after2", "setLocal", "setRoot", "setHas", "push">>
  <2>1. Head(l) = "id" /\ Tail(l) = <<"root", "after", "local", "before2", "root", "after2", "setLocal", "setRoot", "setHas", "push">>
    BY <1>2
  <2>2. Tail(l) \in CallLists /\ Head(l) \in Steps
    BY <2>1 DEF CallLists, MotionLists, Steps
  <2>3. Tail(l) # <<>> /\ Head(Tail(l)) = "root"
    <3>1. <<"root", "after", "local", "before2", "root", "after2", "setLocal", "setRoot", "setHas", "push">> # <<>> /\ Head(<<"root", "after", "local", "before2", "root", "after2", "setLocal", "setRoot", "setHas", "push">>) = "root"
      OBVIOUS
    <3> QED
      BY <2>1, <3>1, Zenon
  <2>4. Between(Tail(l))
    <3>1. Between(<<"root", "after", "local", "before2", "root", "after2", "setLocal", "setRoot", "setHas", "push">>)
      BY DEF Between
    <3> QED
      BY <2>1, <3>1, Zenon
  <2>5. ~Between(l)
    <3>1. ~Between(<<"id", "root", "after", "local", "before2", "root", "after2", "setLocal", "setRoot", "setHas", "push">>)
      BY DEF Between
    <3> QED
      BY <1>2, <3>1, Zenon
  <2>6. l[2] = "root"
    BY <1>2
  <2> QED
    BY <1>2, <2>1, <2>2, <2>3, <2>4, <2>5, <2>6 DEF Follows
<1>3. CASE l = <<"root", "after", "local", "before2", "root", "after2", "setLocal", "setRoot", "setHas", "push">>
  <2>1. Head(l) = "root" /\ Tail(l) = <<"after", "local", "before2", "root", "after2", "setLocal", "setRoot", "setHas", "push">>
    BY <1>3
  <2>2. Tail(l) \in CallLists /\ Head(l) \in Steps
    BY <2>1 DEF CallLists, MotionLists, Steps
  <2>3. Tail(l) # <<>> /\ Head(Tail(l)) = "after"
    <3>1. <<"after", "local", "before2", "root", "after2", "setLocal", "setRoot", "setHas", "push">> # <<>> /\ Head(<<"after", "local", "before2", "root", "after2", "setLocal", "setRoot", "setHas", "push">>) = "after"
      OBVIOUS
    <3> QED
      BY <2>1, <3>1, Zenon
  <2>4. ~Between(Tail(l))
    <3>1. ~Between(<<"after", "local", "before2", "root", "after2", "setLocal", "setRoot", "setHas", "push">>)
      BY DEF Between
    <3> QED
      BY <2>1, <3>1, Zenon
  <2>5. Between(l)
    <3>1. Between(<<"root", "after", "local", "before2", "root", "after2", "setLocal", "setRoot", "setHas", "push">>)
      BY DEF Between
    <3> QED
      BY <1>3, <3>1, Zenon
  <2> QED
    BY <1>3, <2>1, <2>2, <2>3, <2>4, <2>5 DEF Follows
<1>4. CASE l = <<"after", "local", "before2", "root", "after2", "setLocal", "setRoot", "setHas", "push">>
  <2>1. Head(l) = "after" /\ Tail(l) = <<"local", "before2", "root", "after2", "setLocal", "setRoot", "setHas", "push">>
    BY <1>4
  <2>2. Tail(l) \in CallLists /\ Head(l) \in Steps
    BY <2>1 DEF CallLists, MotionLists, Steps
  <2>3. Tail(l) # <<>> /\ Head(Tail(l)) = "local"
    <3>1. <<"local", "before2", "root", "after2", "setLocal", "setRoot", "setHas", "push">> # <<>> /\ Head(<<"local", "before2", "root", "after2", "setLocal", "setRoot", "setHas", "push">>) = "local"
      OBVIOUS
    <3> QED
      BY <2>1, <3>1, Zenon
  <2>4. ~Between(Tail(l))
    <3>1. ~Between(<<"local", "before2", "root", "after2", "setLocal", "setRoot", "setHas", "push">>)
      BY DEF Between
    <3> QED
      BY <2>1, <3>1, Zenon
  <2>5. ~Between(l)
    <3>1. ~Between(<<"after", "local", "before2", "root", "after2", "setLocal", "setRoot", "setHas", "push">>)
      BY DEF Between
    <3> QED
      BY <1>4, <3>1, Zenon
  <2> QED
    BY <1>4, <2>1, <2>2, <2>3, <2>4, <2>5 DEF Follows
<1>5. CASE l = <<"local", "before2", "root", "after2", "setLocal", "setRoot", "setHas", "push">>
  <2>1. Head(l) = "local" /\ Tail(l) = <<"before2", "root", "after2", "setLocal", "setRoot", "setHas", "push">>
    BY <1>5
  <2>2. Tail(l) \in CallLists /\ Head(l) \in Steps
    BY <2>1 DEF CallLists, RememberLists, Steps
  <2>3. Tail(l) # <<>> /\ Head(Tail(l)) = "before2"
    <3>1. <<"before2", "root", "after2", "setLocal", "setRoot", "setHas", "push">> # <<>> /\ Head(<<"before2", "root", "after2", "setLocal", "setRoot", "setHas", "push">>) = "before2"
      OBVIOUS
    <3> QED
      BY <2>1, <3>1, Zenon
  <2>4. ~Between(Tail(l))
    <3>1. ~Between(<<"before2", "root", "after2", "setLocal", "setRoot", "setHas", "push">>)
      BY DEF Between
    <3> QED
      BY <2>1, <3>1, Zenon
  <2>5. ~Between(l)
    <3>1. ~Between(<<"local", "before2", "root", "after2", "setLocal", "setRoot", "setHas", "push">>)
      BY DEF Between
    <3> QED
      BY <1>5, <3>1, Zenon
  <2> QED
    BY <1>5, <2>1, <2>2, <2>3, <2>4, <2>5 DEF Follows
<1>6. CASE l = <<"before2", "root", "after2", "setLocal", "setRoot", "setHas", "push">>
  <2>1. Head(l) = "before2" /\ Tail(l) = <<"root", "after2", "setLocal", "setRoot", "setHas", "push">>
    BY <1>6
  <2>2. Tail(l) \in CallLists /\ Head(l) \in Steps
    BY <2>1 DEF CallLists, RememberLists, Steps
  <2>3. Tail(l) # <<>> /\ Head(Tail(l)) = "root"
    <3>1. <<"root", "after2", "setLocal", "setRoot", "setHas", "push">> # <<>> /\ Head(<<"root", "after2", "setLocal", "setRoot", "setHas", "push">>) = "root"
      OBVIOUS
    <3> QED
      BY <2>1, <3>1, Zenon
  <2>4. ~Between(Tail(l))
    <3>1. ~Between(<<"root", "after2", "setLocal", "setRoot", "setHas", "push">>)
      BY DEF Between
    <3> QED
      BY <2>1, <3>1, Zenon
  <2>5. ~Between(l)
    <3>1. ~Between(<<"before2", "root", "after2", "setLocal", "setRoot", "setHas", "push">>)
      BY DEF Between
    <3> QED
      BY <1>6, <3>1, Zenon
  <2> QED
    BY <1>6, <2>1, <2>2, <2>3, <2>4, <2>5 DEF Follows
<1>7. CASE l = <<"root", "after2", "setLocal", "setRoot", "setHas", "push">>
  <2>1. Head(l) = "root" /\ Tail(l) = <<"after2", "setLocal", "setRoot", "setHas", "push">>
    BY <1>7
  <2>2. Tail(l) \in CallLists /\ Head(l) \in Steps
    BY <2>1 DEF CallLists, RememberLists, Steps
  <2>3. Tail(l) # <<>> /\ Head(Tail(l)) = "after2"
    <3>1. <<"after2", "setLocal", "setRoot", "setHas", "push">> # <<>> /\ Head(<<"after2", "setLocal", "setRoot", "setHas", "push">>) = "after2"
      OBVIOUS
    <3> QED
      BY <2>1, <3>1, Zenon
  <2>4. ~Between(Tail(l))
    <3>1. ~Between(<<"after2", "setLocal", "setRoot", "setHas", "push">>)
      BY DEF Between
    <3> QED
      BY <2>1, <3>1, Zenon
  <2>5. ~Between(l)
    <3>1. ~Between(<<"root", "after2", "setLocal", "setRoot", "setHas", "push">>)
      BY DEF Between
    <3> QED
      BY <1>7, <3>1, Zenon
  <2> QED
    BY <1>7, <2>1, <2>2, <2>3, <2>4, <2>5 DEF Follows
<1>8. CASE l = <<"after2", "setLocal", "setRoot", "setHas", "push">>
  <2>1. Head(l) = "after2" /\ Tail(l) = <<"setLocal", "setRoot", "setHas", "push">>
    BY <1>8
  <2>2. Tail(l) \in CallLists /\ Head(l) \in Steps
    BY <2>1 DEF CallLists, RememberLists, Steps
  <2>3. Tail(l) # <<>> /\ Head(Tail(l)) = "setLocal"
    <3>1. <<"setLocal", "setRoot", "setHas", "push">> # <<>> /\ Head(<<"setLocal", "setRoot", "setHas", "push">>) = "setLocal"
      OBVIOUS
    <3> QED
      BY <2>1, <3>1, Zenon
  <2>4. ~Between(Tail(l))
    <3>1. ~Between(<<"setLocal", "setRoot", "setHas", "push">>)
      BY DEF Between
    <3> QED
      BY <2>1, <3>1, Zenon
  <2>5. ~Between(l)
    <3>1. ~Between(<<"after2", "setLocal", "setRoot", "setHas", "push">>)
      BY DEF Between
    <3> QED
      BY <1>8, <3>1, Zenon
  <2> QED
    BY <1>8, <2>1, <2>2, <2>3, <2>4, <2>5 DEF Follows
<1>9. CASE l = <<"setLocal", "setRoot", "setHas", "push">>
  <2>1. Head(l) = "setLocal" /\ Tail(l) = <<"setRoot", "setHas", "push">>
    BY <1>9
  <2>2. Tail(l) \in CallLists /\ Head(l) \in Steps
    BY <2>1 DEF CallLists, RememberLists, Steps
  <2>3. Tail(l) # <<>> /\ Head(Tail(l)) = "setRoot"
    <3>1. <<"setRoot", "setHas", "push">> # <<>> /\ Head(<<"setRoot", "setHas", "push">>) = "setRoot"
      OBVIOUS
    <3> QED
      BY <2>1, <3>1, Zenon
  <2>4. ~Between(Tail(l))
    <3>1. ~Between(<<"setRoot", "setHas", "push">>)
      BY DEF Between
    <3> QED
      BY <2>1, <3>1, Zenon
  <2>5. ~Between(l)
    <3>1. ~Between(<<"setLocal", "setRoot", "setHas", "push">>)
      BY DEF Between
    <3> QED
      BY <1>9, <3>1, Zenon
  <2> QED
    BY <1>9, <2>1, <2>2, <2>3, <2>4, <2>5 DEF Follows
<1>10. CASE l = <<"setRoot", "setHas", "push">>
  <2>1. Head(l) = "setRoot" /\ Tail(l) = <<"setHas", "push">>
    BY <1>10
  <2>2. Tail(l) \in CallLists /\ Head(l) \in Steps
    BY <2>1 DEF CallLists, RememberLists, Steps
  <2>3. Tail(l) # <<>> /\ Head(Tail(l)) = "setHas"
    <3>1. <<"setHas", "push">> # <<>> /\ Head(<<"setHas", "push">>) = "setHas"
      OBVIOUS
    <3> QED
      BY <2>1, <3>1, Zenon
  <2>4. ~Between(Tail(l))
    <3>1. ~Between(<<"setHas", "push">>)
      BY DEF Between
    <3> QED
      BY <2>1, <3>1, Zenon
  <2>5. ~Between(l)
    <3>1. ~Between(<<"setRoot", "setHas", "push">>)
      BY DEF Between
    <3> QED
      BY <1>10, <3>1, Zenon
  <2> QED
    BY <1>10, <2>1, <2>2, <2>3, <2>4, <2>5 DEF Follows
<1>11. CASE l = <<"setHas", "push">>
  <2>1. Head(l) = "setHas" /\ Tail(l) = <<"push">>
    BY <1>11
  <2>2. Tail(l) \in CallLists /\ Head(l) \in Steps
    BY <2>1 DEF CallLists, RememberLists, Steps
  <2>3. Tail(l) # <<>> /\ Head(Tail(l)) = "push"
    <3>1. <<"push">> # <<>> /\ Head(<<"push">>) = "push"
      OBVIOUS
    <3> QED
      BY <2>1, <3>1, Zenon
  <2>4. ~Between(Tail(l))
    <3>1. ~Between(<<"push">>)
      BY DEF Between
    <3> QED
      BY <2>1, <3>1, Zenon
  <2>5. ~Between(l)
    <3>1. ~Between(<<"setHas", "push">>)
      BY DEF Between
    <3> QED
      BY <1>11, <3>1, Zenon
  <2> QED
    BY <1>11, <2>1, <2>2, <2>3, <2>4, <2>5 DEF Follows
<1>12. CASE l = <<"push">>
  <2>1. Head(l) = "push" /\ Tail(l) = <<>>
    BY <1>12
  <2>2. Tail(l) \in CallLists /\ Head(l) \in Steps
    BY <2>1 DEF CallLists, Steps
  <2>3. Tail(l) = <<>>
    BY <2>1
  <2>4. ~Between(Tail(l))
    <3>1. ~Between(<<>>)
      BY DEF Between
    <3> QED
      BY <2>1, <3>1, Zenon
  <2>5. ~Between(l)
    <3>1. ~Between(<<"push">>)
      BY DEF Between
    <3> QED
      BY <1>12, <3>1, Zenon
  <2> QED
    BY <1>12, <2>1, <2>2, <2>3, <2>4, <2>5 DEF Follows
<1>13. CASE l = <<"id", "pointer", "before2", "root", "after2", "setLocal", "setRoot", "setHas">>
  <2>1. Head(l) = "id" /\ Tail(l) = <<"pointer", "before2", "root", "after2", "setLocal", "setRoot", "setHas">>
    BY <1>13
  <2>2. Tail(l) \in CallLists /\ Head(l) \in Steps
    BY <2>1 DEF CallLists, RelativeLists, Steps
  <2>3. Tail(l) # <<>> /\ Head(Tail(l)) = "pointer"
    <3>1. <<"pointer", "before2", "root", "after2", "setLocal", "setRoot", "setHas">> # <<>> /\ Head(<<"pointer", "before2", "root", "after2", "setLocal", "setRoot", "setHas">>) = "pointer"
      OBVIOUS
    <3> QED
      BY <2>1, <3>1, Zenon
  <2>4. ~Between(Tail(l))
    <3>1. ~Between(<<"pointer", "before2", "root", "after2", "setLocal", "setRoot", "setHas">>)
      BY DEF Between
    <3> QED
      BY <2>1, <3>1, Zenon
  <2>5. ~Between(l)
    <3>1. ~Between(<<"id", "pointer", "before2", "root", "after2", "setLocal", "setRoot", "setHas">>)
      BY DEF Between
    <3> QED
      BY <1>13, <3>1, Zenon
  <2>6. l[2] = "pointer"
    BY <1>13
  <2> QED
    BY <1>13, <2>1, <2>2, <2>3, <2>4, <2>5, <2>6 DEF Follows
<1>14. CASE l = <<"pointer", "before2", "root", "after2", "setLocal", "setRoot", "setHas">>
  <2>1. Head(l) = "pointer" /\ Tail(l) = <<"before2", "root", "after2", "setLocal", "setRoot", "setHas">>
    BY <1>14
  <2>2. Tail(l) \in CallLists /\ Head(l) \in Steps
    BY <2>1 DEF CallLists, RelativeLists, Steps
  <2>3. Tail(l) # <<>> /\ Head(Tail(l)) = "before2"
    <3>1. <<"before2", "root", "after2", "setLocal", "setRoot", "setHas">> # <<>> /\ Head(<<"before2", "root", "after2", "setLocal", "setRoot", "setHas">>) = "before2"
      OBVIOUS
    <3> QED
      BY <2>1, <3>1, Zenon
  <2>4. ~Between(Tail(l))
    <3>1. ~Between(<<"before2", "root", "after2", "setLocal", "setRoot", "setHas">>)
      BY DEF Between
    <3> QED
      BY <2>1, <3>1, Zenon
  <2>5. ~Between(l)
    <3>1. ~Between(<<"pointer", "before2", "root", "after2", "setLocal", "setRoot", "setHas">>)
      BY DEF Between
    <3> QED
      BY <1>14, <3>1, Zenon
  <2> QED
    BY <1>14, <2>1, <2>2, <2>3, <2>4, <2>5 DEF Follows
<1>15. CASE l = <<"before2", "root", "after2", "setLocal", "setRoot", "setHas">>
  <2>1. Head(l) = "before2" /\ Tail(l) = <<"root", "after2", "setLocal", "setRoot", "setHas">>
    BY <1>15
  <2>2. Tail(l) \in CallLists /\ Head(l) \in Steps
    BY <2>1 DEF CallLists, RelativeLists, Steps
  <2>3. Tail(l) # <<>> /\ Head(Tail(l)) = "root"
    <3>1. <<"root", "after2", "setLocal", "setRoot", "setHas">> # <<>> /\ Head(<<"root", "after2", "setLocal", "setRoot", "setHas">>) = "root"
      OBVIOUS
    <3> QED
      BY <2>1, <3>1, Zenon
  <2>4. ~Between(Tail(l))
    <3>1. ~Between(<<"root", "after2", "setLocal", "setRoot", "setHas">>)
      BY DEF Between
    <3> QED
      BY <2>1, <3>1, Zenon
  <2>5. ~Between(l)
    <3>1. ~Between(<<"before2", "root", "after2", "setLocal", "setRoot", "setHas">>)
      BY DEF Between
    <3> QED
      BY <1>15, <3>1, Zenon
  <2> QED
    BY <1>15, <2>1, <2>2, <2>3, <2>4, <2>5 DEF Follows
<1>16. CASE l = <<"root", "after2", "setLocal", "setRoot", "setHas">>
  <2>1. Head(l) = "root" /\ Tail(l) = <<"after2", "setLocal", "setRoot", "setHas">>
    BY <1>16
  <2>2. Tail(l) \in CallLists /\ Head(l) \in Steps
    BY <2>1 DEF CallLists, RelativeLists, Steps
  <2>3. Tail(l) # <<>> /\ Head(Tail(l)) = "after2"
    <3>1. <<"after2", "setLocal", "setRoot", "setHas">> # <<>> /\ Head(<<"after2", "setLocal", "setRoot", "setHas">>) = "after2"
      OBVIOUS
    <3> QED
      BY <2>1, <3>1, Zenon
  <2>4. ~Between(Tail(l))
    <3>1. ~Between(<<"after2", "setLocal", "setRoot", "setHas">>)
      BY DEF Between
    <3> QED
      BY <2>1, <3>1, Zenon
  <2>5. ~Between(l)
    <3>1. ~Between(<<"root", "after2", "setLocal", "setRoot", "setHas">>)
      BY DEF Between
    <3> QED
      BY <1>16, <3>1, Zenon
  <2> QED
    BY <1>16, <2>1, <2>2, <2>3, <2>4, <2>5 DEF Follows
<1>17. CASE l = <<"after2", "setLocal", "setRoot", "setHas">>
  <2>1. Head(l) = "after2" /\ Tail(l) = <<"setLocal", "setRoot", "setHas">>
    BY <1>17
  <2>2. Tail(l) \in CallLists /\ Head(l) \in Steps
    BY <2>1 DEF CallLists, RelativeLists, Steps
  <2>3. Tail(l) # <<>> /\ Head(Tail(l)) = "setLocal"
    <3>1. <<"setLocal", "setRoot", "setHas">> # <<>> /\ Head(<<"setLocal", "setRoot", "setHas">>) = "setLocal"
      OBVIOUS
    <3> QED
      BY <2>1, <3>1, Zenon
  <2>4. ~Between(Tail(l))
    <3>1. ~Between(<<"setLocal", "setRoot", "setHas">>)
      BY DEF Between
    <3> QED
      BY <2>1, <3>1, Zenon
  <2>5. ~Between(l)
    <3>1. ~Between(<<"after2", "setLocal", "setRoot", "setHas">>)
      BY DEF Between
    <3> QED
      BY <1>17, <3>1, Zenon
  <2> QED
    BY <1>17, <2>1, <2>2, <2>3, <2>4, <2>5 DEF Follows
<1>18. CASE l = <<"setLocal", "setRoot", "setHas">>
  <2>1. Head(l) = "setLocal" /\ Tail(l) = <<"setRoot", "setHas">>
    BY <1>18
  <2>2. Tail(l) \in CallLists /\ Head(l) \in Steps
    BY <2>1 DEF CallLists, RelativeLists, Steps
  <2>3. Tail(l) # <<>> /\ Head(Tail(l)) = "setRoot"
    <3>1. <<"setRoot", "setHas">> # <<>> /\ Head(<<"setRoot", "setHas">>) = "setRoot"
      OBVIOUS
    <3> QED
      BY <2>1, <3>1, Zenon
  <2>4. ~Between(Tail(l))
    <3>1. ~Between(<<"setRoot", "setHas">>)
      BY DEF Between
    <3> QED
      BY <2>1, <3>1, Zenon
  <2>5. ~Between(l)
    <3>1. ~Between(<<"setLocal", "setRoot", "setHas">>)
      BY DEF Between
    <3> QED
      BY <1>18, <3>1, Zenon
  <2> QED
    BY <1>18, <2>1, <2>2, <2>3, <2>4, <2>5 DEF Follows
<1>19. CASE l = <<"setRoot", "setHas">>
  <2>1. Head(l) = "setRoot" /\ Tail(l) = <<"setHas">>
    BY <1>19
  <2>2. Tail(l) \in CallLists /\ Head(l) \in Steps
    BY <2>1 DEF CallLists, RelativeLists, Steps
  <2>3. Tail(l) # <<>> /\ Head(Tail(l)) = "setHas"
    <3>1. <<"setHas">> # <<>> /\ Head(<<"setHas">>) = "setHas"
      OBVIOUS
    <3> QED
      BY <2>1, <3>1, Zenon
  <2>4. ~Between(Tail(l))
    <3>1. ~Between(<<"setHas">>)
      BY DEF Between
    <3> QED
      BY <2>1, <3>1, Zenon
  <2>5. ~Between(l)
    <3>1. ~Between(<<"setRoot", "setHas">>)
      BY DEF Between
    <3> QED
      BY <1>19, <3>1, Zenon
  <2> QED
    BY <1>19, <2>1, <2>2, <2>3, <2>4, <2>5 DEF Follows
<1>20. CASE l = <<"setHas">>
  <2>1. Head(l) = "setHas" /\ Tail(l) = <<>>
    BY <1>20
  <2>2. Tail(l) \in CallLists /\ Head(l) \in Steps
    BY <2>1 DEF CallLists, Steps
  <2>3. Tail(l) = <<>>
    BY <2>1
  <2>4. ~Between(Tail(l))
    <3>1. ~Between(<<>>)
      BY DEF Between
    <3> QED
      BY <2>1, <3>1, Zenon
  <2>5. ~Between(l)
    <3>1. ~Between(<<"setHas">>)
      BY DEF Between
    <3> QED
      BY <1>20, <3>1, Zenon
  <2> QED
    BY <1>20, <2>1, <2>2, <2>3, <2>4, <2>5 DEF Follows
<1>21. CASE l = <<"root", "setLocal", "setRoot", "setHas", "push">>
  <2>1. Head(l) = "root" /\ Tail(l) = <<"setLocal", "setRoot", "setHas", "push">>
    BY <1>21
  <2>2. Tail(l) \in CallLists /\ Head(l) \in Steps
    BY <2>1 DEF CallLists, RememberLists, Steps
  <2>3. Tail(l) # <<>> /\ Head(Tail(l)) = "setLocal"
    <3>1. <<"setLocal", "setRoot", "setHas", "push">> # <<>> /\ Head(<<"setLocal", "setRoot", "setHas", "push">>) = "setLocal"
      OBVIOUS
    <3> QED
      BY <2>1, <3>1, Zenon
  <2>4. ~Between(Tail(l))
    <3>1. ~Between(<<"setLocal", "setRoot", "setHas", "push">>)
      BY DEF Between
    <3> QED
      BY <2>1, <3>1, Zenon
  <2>5. ~Between(l)
    <3>1. ~Between(<<"root", "setLocal", "setRoot", "setHas", "push">>)
      BY DEF Between
    <3> QED
      BY <1>21, <3>1, Zenon
  <2> QED
    BY <1>21, <2>1, <2>2, <2>3, <2>4, <2>5 DEF Follows
<1>22. CASE l = <<"root", "setLocal", "setRoot", "setHas">>
  <2>1. Head(l) = "root" /\ Tail(l) = <<"setLocal", "setRoot", "setHas">>
    BY <1>22
  <2>2. Tail(l) \in CallLists /\ Head(l) \in Steps
    BY <2>1 DEF CallLists, RelativeLists, Steps
  <2>3. Tail(l) # <<>> /\ Head(Tail(l)) = "setLocal"
    <3>1. <<"setLocal", "setRoot", "setHas">> # <<>> /\ Head(<<"setLocal", "setRoot", "setHas">>) = "setLocal"
      OBVIOUS
    <3> QED
      BY <2>1, <3>1, Zenon
  <2>4. ~Between(Tail(l))
    <3>1. ~Between(<<"setLocal", "setRoot", "setHas">>)
      BY DEF Between
    <3> QED
      BY <2>1, <3>1, Zenon
  <2>5. ~Between(l)
    <3>1. ~Between(<<"root", "setLocal", "setRoot", "setHas">>)
      BY DEF Between
    <3> QED
      BY <1>22, <3>1, Zenon
  <2> QED
    BY <1>22, <2>1, <2>2, <2>3, <2>4, <2>5 DEF Follows
<1> QED
  BY <1>1, <1>2, <1>3, <1>4, <1>5, <1>6, <1>7, <1>8, <1>9, <1>10, <1>11, <1>12, <1>13, <1>14, <1>15, <1>16, <1>17, <1>18, <1>19, <1>20, <1>21, <1>22, Zenon DEF CallLists, MotionLists, RememberLists, RelativeLists

(* A list that has one list's elements, then another's, is the two of them. *)
LEMMA ConcatIs ==
  ASSUME NEW S, NEW p \in Seq(S), NEW r \in Seq(S), NEW x \in Seq(S),
         Len(x) = Len(p) + Len(r),
         \A i \in 1..Len(p) : p[i] = x[i],
         \A i \in 1..Len(r) : r[i] = x[Len(p) + i]
  PROVE  p \o r = x
<1>1. p \o r \in Seq(S) /\ Len(p \o r) = Len(x)
  BY ConcatProperties
<1>2. \A i \in 1..Len(x) : (p \o r)[i] = x[i]
  <2> TAKE i \in 1..Len(x)
  <2>1. CASE i <= Len(p)
    BY <2>1, ConcatProperties
  <2>2. CASE i > Len(p)
    <3>1. (p \o r)[i] = r[i - Len(p)]
      BY <2>2, ConcatProperties
    <3>2. i - Len(p) \in 1..Len(r) /\ i = Len(p) + (i - Len(p))
      BY <2>2
    <3> QED
      BY <3>1, <3>2
  <2> QED
    BY <2>1, <2>2
<1> QED
  BY <1>1, <1>2, SeqEqual

(* A list that has the elements from a place on is the list from there.     *)
LEMMA SubSeqIs ==
  ASSUME NEW S, NEW s \in Seq(S), NEW k \in 1..Len(s), NEW r \in Seq(S),
         Len(r) = Len(s) - k + 1, \A i \in 1..Len(r) : r[i] = s[k + i - 1]
  PROVE  SubSeq(s, k, Len(s)) = r
<1>1. SubSeq(s, k, Len(s)) \in Seq(S) /\ Len(SubSeq(s, k, Len(s))) = Len(r)
  BY SubSeqProperties
<1>2. \A i \in 1..Len(r) : SubSeq(s, k, Len(s))[i] = r[i]
  BY SubSeqProperties
<1> QED
  BY <1>1, <1>2, SeqEqual

(* The programs of the two motions, and what the three writers store.       *)
LEMMA ProgramLists ==
  /\ XTestFakeMotionEvent = <<"before", "id", "root", "after", "local", "before2", "root", "after2", "setLocal", "setRoot", "setHas", "push">>
  /\ XTestFakeRelativeMotionEvent = <<"id", "pointer", "before2", "root", "after2", "setLocal", "setRoot", "setHas">>
<1>1. <<"before", "id", "root", "after">> \o <<"local">>
        = <<"before", "id", "root", "after", "local">>
  <2> DEFINE p == <<"before", "id", "root", "after">>
             r == <<"local">>
             x == <<"before", "id", "root", "after", "local">>
  <2>1. p \in Seq(Steps)
    BY DEF Steps
  <2>2. r \in Seq(Steps)
    BY DEF Steps
  <2>3. x \in Seq(Steps)
    BY DEF Steps
  <2>4. Len(p) = 4 /\ Len(r) = 1 /\ Len(x) = 5
    OBVIOUS
  <2>5. \A i \in 1..4 : p[i] = x[i]
    OBVIOUS
  <2>6. \A i \in 1..1 : r[i] = x[4 + i]
    OBVIOUS
  <2> HIDE DEF p, r, x
  <2>7. Len(x) = Len(p) + Len(r)
    BY <2>4
  <2>8. \A i \in 1..Len(p) : p[i] = x[i]
    BY <2>4, <2>5
  <2>9. \A i \in 1..Len(r) : r[i] = x[Len(p) + i]
    BY <2>4, <2>6
  <2>10. p \o r = x
    BY <2>1, <2>2, <2>3, <2>7, <2>8, <2>9, ConcatIs
  <2> QED
    BY <2>10 DEF p, r, x
<1>2. <<"before", "id", "root", "after", "local">> \o <<"before2", "root", "after2", "setLocal", "setRoot", "setHas">>
        = <<"before", "id", "root", "after", "local", "before2", "root", "after2", "setLocal", "setRoot", "setHas">>
  <2> DEFINE p == <<"before", "id", "root", "after", "local">>
             r == <<"before2", "root", "after2", "setLocal", "setRoot", "setHas">>
             x == <<"before", "id", "root", "after", "local", "before2", "root", "after2", "setLocal", "setRoot", "setHas">>
  <2>1. p \in Seq(Steps)
    BY DEF Steps
  <2>2. r \in Seq(Steps)
    BY DEF Steps
  <2>3. x \in Seq(Steps)
    BY DEF Steps
  <2>4. Len(p) = 5 /\ Len(r) = 6 /\ Len(x) = 11
    OBVIOUS
  <2>5. \A i \in 1..5 : p[i] = x[i]
    OBVIOUS
  <2>6. \A i \in 1..6 : r[i] = x[5 + i]
    OBVIOUS
  <2> HIDE DEF p, r, x
  <2>7. Len(x) = Len(p) + Len(r)
    BY <2>4
  <2>8. \A i \in 1..Len(p) : p[i] = x[i]
    BY <2>4, <2>5
  <2>9. \A i \in 1..Len(r) : r[i] = x[Len(p) + i]
    BY <2>4, <2>6
  <2>10. p \o r = x
    BY <2>1, <2>2, <2>3, <2>7, <2>8, <2>9, ConcatIs
  <2> QED
    BY <2>10 DEF p, r, x
<1>3. <<"before", "id", "root", "after", "local", "before2", "root", "after2", "setLocal", "setRoot", "setHas">> \o <<"push">>
        = <<"before", "id", "root", "after", "local", "before2", "root", "after2", "setLocal", "setRoot", "setHas", "push">>
  <2> DEFINE p == <<"before", "id", "root", "after", "local", "before2", "root", "after2", "setLocal", "setRoot", "setHas">>
             r == <<"push">>
             x == <<"before", "id", "root", "after", "local", "before2", "root", "after2", "setLocal", "setRoot", "setHas", "push">>
  <2>1. p \in Seq(Steps)
    BY DEF Steps
  <2>2. r \in Seq(Steps)
    BY DEF Steps
  <2>3. x \in Seq(Steps)
    BY DEF Steps
  <2>4. Len(p) = 11 /\ Len(r) = 1 /\ Len(x) = 12
    OBVIOUS
  <2>5. \A i \in 1..11 : p[i] = x[i]
    OBVIOUS
  <2>6. \A i \in 1..1 : r[i] = x[11 + i]
    OBVIOUS
  <2> HIDE DEF p, r, x
  <2>7. Len(x) = Len(p) + Len(r)
    BY <2>4
  <2>8. \A i \in 1..Len(p) : p[i] = x[i]
    BY <2>4, <2>5
  <2>9. \A i \in 1..Len(r) : r[i] = x[Len(p) + i]
    BY <2>4, <2>6
  <2>10. p \o r = x
    BY <2>1, <2>2, <2>3, <2>7, <2>8, <2>9, ConcatIs
  <2> QED
    BY <2>10 DEF p, r, x
<1>4. <<"id", "pointer">> \o <<"before2", "root", "after2", "setLocal", "setRoot", "setHas">>
        = <<"id", "pointer", "before2", "root", "after2", "setLocal", "setRoot", "setHas">>
  <2> DEFINE p == <<"id", "pointer">>
             r == <<"before2", "root", "after2", "setLocal", "setRoot", "setHas">>
             x == <<"id", "pointer", "before2", "root", "after2", "setLocal", "setRoot", "setHas">>
  <2>1. p \in Seq(Steps)
    BY DEF Steps
  <2>2. r \in Seq(Steps)
    BY DEF Steps
  <2>3. x \in Seq(Steps)
    BY DEF Steps
  <2>4. Len(p) = 2 /\ Len(r) = 6 /\ Len(x) = 8
    OBVIOUS
  <2>5. \A i \in 1..2 : p[i] = x[i]
    OBVIOUS
  <2>6. \A i \in 1..6 : r[i] = x[2 + i]
    OBVIOUS
  <2> HIDE DEF p, r, x
  <2>7. Len(x) = Len(p) + Len(r)
    BY <2>4
  <2>8. \A i \in 1..Len(p) : p[i] = x[i]
    BY <2>4, <2>5
  <2>9. \A i \in 1..Len(r) : r[i] = x[Len(p) + i]
    BY <2>4, <2>6
  <2>10. p \o r = x
    BY <2>1, <2>2, <2>3, <2>7, <2>8, <2>9, ConcatIs
  <2> QED
    BY <2>10 DEF p, r, x
<1> QED
  BY <1>1, <1>2, <1>3, <1>4, Zenon DEF XTestFakeMotionEvent, XTestFakeRelativeMotionEvent,
       replayTargetTranslateRoot, replayTargetRememberPointer

(* What the three writers store.                                            *)
LEMMA StoredLists ==
  /\ Retarget = <<"rebase", "seq", "root", "id", "seq">>
  /\ publishBrackets \o Retarget = <<"seq", "publish", "seq", "rebase", "seq", "root", "id", "seq">>
  /\ publishBrackets \o <<"seq", "id", "seq">> = <<"seq", "publish", "seq", "seq", "id", "seq">>
  /\ publishBrackets \o <<>> = <<"seq", "publish", "seq">>
<1>1. <<"rebase">> \o <<"seq", "root", "id", "seq">>
        = <<"rebase", "seq", "root", "id", "seq">>
  <2> DEFINE p == <<"rebase">>
             r == <<"seq", "root", "id", "seq">>
             x == <<"rebase", "seq", "root", "id", "seq">>
  <2>1. p \in Seq(Accesses)
    BY DEF Accesses
  <2>2. r \in Seq(Accesses)
    BY DEF Accesses
  <2>3. x \in Seq(Accesses)
    BY DEF Accesses
  <2>4. Len(p) = 1 /\ Len(r) = 4 /\ Len(x) = 5
    OBVIOUS
  <2>5. \A i \in 1..1 : p[i] = x[i]
    OBVIOUS
  <2>6. \A i \in 1..4 : r[i] = x[1 + i]
    OBVIOUS
  <2> HIDE DEF p, r, x
  <2>7. Len(x) = Len(p) + Len(r)
    BY <2>4
  <2>8. \A i \in 1..Len(p) : p[i] = x[i]
    BY <2>4, <2>5
  <2>9. \A i \in 1..Len(r) : r[i] = x[Len(p) + i]
    BY <2>4, <2>6
  <2>10. p \o r = x
    BY <2>1, <2>2, <2>3, <2>7, <2>8, <2>9, ConcatIs
  <2> QED
    BY <2>10 DEF p, r, x
<1>2. <<"seq", "publish", "seq">> \o <<"rebase", "seq", "root", "id", "seq">>
        = <<"seq", "publish", "seq", "rebase", "seq", "root", "id", "seq">>
  <2> DEFINE p == <<"seq", "publish", "seq">>
             r == <<"rebase", "seq", "root", "id", "seq">>
             x == <<"seq", "publish", "seq", "rebase", "seq", "root", "id", "seq">>
  <2>1. p \in Seq(Accesses)
    BY DEF Accesses
  <2>2. r \in Seq(Accesses)
    BY DEF Accesses
  <2>3. x \in Seq(Accesses)
    BY DEF Accesses
  <2>4. Len(p) = 3 /\ Len(r) = 5 /\ Len(x) = 8
    OBVIOUS
  <2>5. \A i \in 1..3 : p[i] = x[i]
    OBVIOUS
  <2>6. \A i \in 1..5 : r[i] = x[3 + i]
    OBVIOUS
  <2> HIDE DEF p, r, x
  <2>7. Len(x) = Len(p) + Len(r)
    BY <2>4
  <2>8. \A i \in 1..Len(p) : p[i] = x[i]
    BY <2>4, <2>5
  <2>9. \A i \in 1..Len(r) : r[i] = x[Len(p) + i]
    BY <2>4, <2>6
  <2>10. p \o r = x
    BY <2>1, <2>2, <2>3, <2>7, <2>8, <2>9, ConcatIs
  <2> QED
    BY <2>10 DEF p, r, x
<1>3. <<"seq", "publish", "seq">> \o <<"seq", "id", "seq">>
        = <<"seq", "publish", "seq", "seq", "id", "seq">>
  <2> DEFINE p == <<"seq", "publish", "seq">>
             r == <<"seq", "id", "seq">>
             x == <<"seq", "publish", "seq", "seq", "id", "seq">>
  <2>1. p \in Seq(Accesses)
    BY DEF Accesses
  <2>2. r \in Seq(Accesses)
    BY DEF Accesses
  <2>3. x \in Seq(Accesses)
    BY DEF Accesses
  <2>4. Len(p) = 3 /\ Len(r) = 3 /\ Len(x) = 6
    OBVIOUS
  <2>5. \A i \in 1..3 : p[i] = x[i]
    OBVIOUS
  <2>6. \A i \in 1..3 : r[i] = x[3 + i]
    OBVIOUS
  <2> HIDE DEF p, r, x
  <2>7. Len(x) = Len(p) + Len(r)
    BY <2>4
  <2>8. \A i \in 1..Len(p) : p[i] = x[i]
    BY <2>4, <2>5
  <2>9. \A i \in 1..Len(r) : r[i] = x[Len(p) + i]
    BY <2>4, <2>6
  <2>10. p \o r = x
    BY <2>1, <2>2, <2>3, <2>7, <2>8, <2>9, ConcatIs
  <2> QED
    BY <2>10 DEF p, r, x
<1>4. <<"seq", "publish", "seq">> \o <<>> = <<"seq", "publish", "seq">>
  <2>1. <<"seq", "publish", "seq">> \in Seq(Accesses)
    BY DEF Accesses
  <2> QED
    BY <2>1, ConcatEmptySeq
<1> QED
  BY <1>1, <1>2, <1>3, <1>4, Zenon DEF Retarget, rebasePointerToTargetRoot, setBrackets,
       publishBrackets

(* What the loops of a reader are followed by.                              *)
LEMMA RetryLists ==
  /\ SubSeq(<<"before", "id", "root", "after", "local", "before2", "root", "after2", "setLocal", "setRoot", "setHas", "push">>, 5, 12)
       = <<"local", "before2", "root", "after2", "setLocal", "setRoot", "setHas", "push">>
  /\ <<"before", "id", "root", "after">> \o <<"local", "before2", "root", "after2", "setLocal", "setRoot", "setHas", "push">>
       = <<"before", "id", "root", "after", "local", "before2", "root", "after2", "setLocal", "setRoot", "setHas", "push">>
  /\ SubSeq(<<"before2", "root", "after2", "setLocal", "setRoot", "setHas", "push">>, 4, 7)
       = <<"setLocal", "setRoot", "setHas", "push">>
  /\ SubSeq(<<"before2", "root", "after2", "setLocal", "setRoot", "setHas">>, 4, 6)
       = <<"setLocal", "setRoot", "setHas">>
  /\ <<"before2", "root", "after2">> \o <<"setLocal", "setRoot", "setHas", "push">>
       = <<"before2", "root", "after2", "setLocal", "setRoot", "setHas", "push">>
  /\ <<"before2", "root", "after2">> \o <<"setLocal", "setRoot", "setHas">>
       = <<"before2", "root", "after2", "setLocal", "setRoot", "setHas">>
  /\ <<"root">> \o <<"setLocal", "setRoot", "setHas", "push">> = <<"root", "setLocal", "setRoot", "setHas", "push">>
  /\ <<"root">> \o <<"setLocal", "setRoot", "setHas">> = <<"root", "setLocal", "setRoot", "setHas">>
  /\ SubSeq(<<"after", "local", "before2", "root", "after2", "setLocal", "setRoot", "setHas", "push">>, 2, 9)
       = <<"local", "before2", "root", "after2", "setLocal", "setRoot", "setHas", "push">>
  /\ SubSeq(<<"after2", "setLocal", "setRoot", "setHas", "push">>, 2, 5) = <<"setLocal", "setRoot", "setHas", "push">>
  /\ SubSeq(<<"after2", "setLocal", "setRoot", "setHas">>, 2, 4) = <<"setLocal", "setRoot", "setHas">>
<1>1. SubSeq(<<"before", "id", "root", "after", "local", "before2", "root", "after2", "setLocal", "setRoot", "setHas", "push">>, 5, 12)
        = <<"local", "before2", "root", "after2", "setLocal", "setRoot", "setHas", "push">>
  <2> DEFINE s == <<"before", "id", "root", "after", "local", "before2", "root", "after2", "setLocal", "setRoot", "setHas", "push">>
             r == <<"local", "before2", "root", "after2", "setLocal", "setRoot", "setHas", "push">>
  <2>1. s \in Seq(Steps)
    BY DEF Steps
  <2>2. r \in Seq(Steps)
    BY DEF Steps
  <2>3. Len(s) = 12 /\ Len(r) = 8
    OBVIOUS
  <2>4. \A i \in 1..8 : r[i] = s[4 + i]
    OBVIOUS
  <2> HIDE DEF s, r
  <2>5. Len(r) = Len(s) - 5 + 1 /\ 5 \in 1..Len(s)
    BY <2>3
  <2>6. \A i \in 1..Len(r) : r[i] = s[5 + i - 1]
    BY <2>3, <2>4
  <2>7. SubSeq(s, 5, Len(s)) = r
    BY <2>1, <2>2, <2>5, <2>6, SubSeqIs
  <2> QED
    BY <2>3, <2>7 DEF s, r
<1>2. <<"before", "id", "root", "after">> \o <<"local", "before2", "root", "after2", "setLocal", "setRoot", "setHas", "push">>
        = <<"before", "id", "root", "after", "local", "before2", "root", "after2", "setLocal", "setRoot", "setHas", "push">>
  <2> DEFINE p == <<"before", "id", "root", "after">>
             r == <<"local", "before2", "root", "after2", "setLocal", "setRoot", "setHas", "push">>
             x == <<"before", "id", "root", "after", "local", "before2", "root", "after2", "setLocal", "setRoot", "setHas", "push">>
  <2>1. p \in Seq(Steps)
    BY DEF Steps
  <2>2. r \in Seq(Steps)
    BY DEF Steps
  <2>3. x \in Seq(Steps)
    BY DEF Steps
  <2>4. Len(p) = 4 /\ Len(r) = 8 /\ Len(x) = 12
    OBVIOUS
  <2>5. \A i \in 1..4 : p[i] = x[i]
    OBVIOUS
  <2>6. \A i \in 1..8 : r[i] = x[4 + i]
    OBVIOUS
  <2> HIDE DEF p, r, x
  <2>7. Len(x) = Len(p) + Len(r)
    BY <2>4
  <2>8. \A i \in 1..Len(p) : p[i] = x[i]
    BY <2>4, <2>5
  <2>9. \A i \in 1..Len(r) : r[i] = x[Len(p) + i]
    BY <2>4, <2>6
  <2>10. p \o r = x
    BY <2>1, <2>2, <2>3, <2>7, <2>8, <2>9, ConcatIs
  <2> QED
    BY <2>10 DEF p, r, x
<1>3. SubSeq(<<"before2", "root", "after2", "setLocal", "setRoot", "setHas", "push">>, 4, 7)
        = <<"setLocal", "setRoot", "setHas", "push">>
  <2> DEFINE s == <<"before2", "root", "after2", "setLocal", "setRoot", "setHas", "push">>
             r == <<"setLocal", "setRoot", "setHas", "push">>
  <2>1. s \in Seq(Steps)
    BY DEF Steps
  <2>2. r \in Seq(Steps)
    BY DEF Steps
  <2>3. Len(s) = 7 /\ Len(r) = 4
    OBVIOUS
  <2>4. \A i \in 1..4 : r[i] = s[3 + i]
    OBVIOUS
  <2> HIDE DEF s, r
  <2>5. Len(r) = Len(s) - 4 + 1 /\ 4 \in 1..Len(s)
    BY <2>3
  <2>6. \A i \in 1..Len(r) : r[i] = s[4 + i - 1]
    BY <2>3, <2>4
  <2>7. SubSeq(s, 4, Len(s)) = r
    BY <2>1, <2>2, <2>5, <2>6, SubSeqIs
  <2> QED
    BY <2>3, <2>7 DEF s, r
<1>4. SubSeq(<<"before2", "root", "after2", "setLocal", "setRoot", "setHas">>, 4, 6)
        = <<"setLocal", "setRoot", "setHas">>
  <2> DEFINE s == <<"before2", "root", "after2", "setLocal", "setRoot", "setHas">>
             r == <<"setLocal", "setRoot", "setHas">>
  <2>1. s \in Seq(Steps)
    BY DEF Steps
  <2>2. r \in Seq(Steps)
    BY DEF Steps
  <2>3. Len(s) = 6 /\ Len(r) = 3
    OBVIOUS
  <2>4. \A i \in 1..3 : r[i] = s[3 + i]
    OBVIOUS
  <2> HIDE DEF s, r
  <2>5. Len(r) = Len(s) - 4 + 1 /\ 4 \in 1..Len(s)
    BY <2>3
  <2>6. \A i \in 1..Len(r) : r[i] = s[4 + i - 1]
    BY <2>3, <2>4
  <2>7. SubSeq(s, 4, Len(s)) = r
    BY <2>1, <2>2, <2>5, <2>6, SubSeqIs
  <2> QED
    BY <2>3, <2>7 DEF s, r
<1>5. <<"before2", "root", "after2">> \o <<"setLocal", "setRoot", "setHas", "push">>
        = <<"before2", "root", "after2", "setLocal", "setRoot", "setHas", "push">>
  <2> DEFINE p == <<"before2", "root", "after2">>
             r == <<"setLocal", "setRoot", "setHas", "push">>
             x == <<"before2", "root", "after2", "setLocal", "setRoot", "setHas", "push">>
  <2>1. p \in Seq(Steps)
    BY DEF Steps
  <2>2. r \in Seq(Steps)
    BY DEF Steps
  <2>3. x \in Seq(Steps)
    BY DEF Steps
  <2>4. Len(p) = 3 /\ Len(r) = 4 /\ Len(x) = 7
    OBVIOUS
  <2>5. \A i \in 1..3 : p[i] = x[i]
    OBVIOUS
  <2>6. \A i \in 1..4 : r[i] = x[3 + i]
    OBVIOUS
  <2> HIDE DEF p, r, x
  <2>7. Len(x) = Len(p) + Len(r)
    BY <2>4
  <2>8. \A i \in 1..Len(p) : p[i] = x[i]
    BY <2>4, <2>5
  <2>9. \A i \in 1..Len(r) : r[i] = x[Len(p) + i]
    BY <2>4, <2>6
  <2>10. p \o r = x
    BY <2>1, <2>2, <2>3, <2>7, <2>8, <2>9, ConcatIs
  <2> QED
    BY <2>10 DEF p, r, x
<1>6. <<"before2", "root", "after2">> \o <<"setLocal", "setRoot", "setHas">>
        = <<"before2", "root", "after2", "setLocal", "setRoot", "setHas">>
  <2> DEFINE p == <<"before2", "root", "after2">>
             r == <<"setLocal", "setRoot", "setHas">>
             x == <<"before2", "root", "after2", "setLocal", "setRoot", "setHas">>
  <2>1. p \in Seq(Steps)
    BY DEF Steps
  <2>2. r \in Seq(Steps)
    BY DEF Steps
  <2>3. x \in Seq(Steps)
    BY DEF Steps
  <2>4. Len(p) = 3 /\ Len(r) = 3 /\ Len(x) = 6
    OBVIOUS
  <2>5. \A i \in 1..3 : p[i] = x[i]
    OBVIOUS
  <2>6. \A i \in 1..3 : r[i] = x[3 + i]
    OBVIOUS
  <2> HIDE DEF p, r, x
  <2>7. Len(x) = Len(p) + Len(r)
    BY <2>4
  <2>8. \A i \in 1..Len(p) : p[i] = x[i]
    BY <2>4, <2>5
  <2>9. \A i \in 1..Len(r) : r[i] = x[Len(p) + i]
    BY <2>4, <2>6
  <2>10. p \o r = x
    BY <2>1, <2>2, <2>3, <2>7, <2>8, <2>9, ConcatIs
  <2> QED
    BY <2>10 DEF p, r, x
<1>7. <<"root">> \o <<"setLocal", "setRoot", "setHas", "push">>
        = <<"root", "setLocal", "setRoot", "setHas", "push">>
  <2> DEFINE p == <<"root">>
             r == <<"setLocal", "setRoot", "setHas", "push">>
             x == <<"root", "setLocal", "setRoot", "setHas", "push">>
  <2>1. p \in Seq(Steps)
    BY DEF Steps
  <2>2. r \in Seq(Steps)
    BY DEF Steps
  <2>3. x \in Seq(Steps)
    BY DEF Steps
  <2>4. Len(p) = 1 /\ Len(r) = 4 /\ Len(x) = 5
    OBVIOUS
  <2>5. \A i \in 1..1 : p[i] = x[i]
    OBVIOUS
  <2>6. \A i \in 1..4 : r[i] = x[1 + i]
    OBVIOUS
  <2> HIDE DEF p, r, x
  <2>7. Len(x) = Len(p) + Len(r)
    BY <2>4
  <2>8. \A i \in 1..Len(p) : p[i] = x[i]
    BY <2>4, <2>5
  <2>9. \A i \in 1..Len(r) : r[i] = x[Len(p) + i]
    BY <2>4, <2>6
  <2>10. p \o r = x
    BY <2>1, <2>2, <2>3, <2>7, <2>8, <2>9, ConcatIs
  <2> QED
    BY <2>10 DEF p, r, x
<1>8. <<"root">> \o <<"setLocal", "setRoot", "setHas">>
        = <<"root", "setLocal", "setRoot", "setHas">>
  <2> DEFINE p == <<"root">>
             r == <<"setLocal", "setRoot", "setHas">>
             x == <<"root", "setLocal", "setRoot", "setHas">>
  <2>1. p \in Seq(Steps)
    BY DEF Steps
  <2>2. r \in Seq(Steps)
    BY DEF Steps
  <2>3. x \in Seq(Steps)
    BY DEF Steps
  <2>4. Len(p) = 1 /\ Len(r) = 3 /\ Len(x) = 4
    OBVIOUS
  <2>5. \A i \in 1..1 : p[i] = x[i]
    OBVIOUS
  <2>6. \A i \in 1..3 : r[i] = x[1 + i]
    OBVIOUS
  <2> HIDE DEF p, r, x
  <2>7. Len(x) = Len(p) + Len(r)
    BY <2>4
  <2>8. \A i \in 1..Len(p) : p[i] = x[i]
    BY <2>4, <2>5
  <2>9. \A i \in 1..Len(r) : r[i] = x[Len(p) + i]
    BY <2>4, <2>6
  <2>10. p \o r = x
    BY <2>1, <2>2, <2>3, <2>7, <2>8, <2>9, ConcatIs
  <2> QED
    BY <2>10 DEF p, r, x
<1>9. SubSeq(<<"after", "local", "before2", "root", "after2", "setLocal", "setRoot", "setHas", "push">>, 2, 9)
        = <<"local", "before2", "root", "after2", "setLocal", "setRoot", "setHas", "push">>
  <2> DEFINE s == <<"after", "local", "before2", "root", "after2", "setLocal", "setRoot", "setHas", "push">>
             r == <<"local", "before2", "root", "after2", "setLocal", "setRoot", "setHas", "push">>
  <2>1. s \in Seq(Steps)
    BY DEF Steps
  <2>2. r \in Seq(Steps)
    BY DEF Steps
  <2>3. Len(s) = 9 /\ Len(r) = 8
    OBVIOUS
  <2>4. \A i \in 1..8 : r[i] = s[1 + i]
    OBVIOUS
  <2> HIDE DEF s, r
  <2>5. Len(r) = Len(s) - 2 + 1 /\ 2 \in 1..Len(s)
    BY <2>3
  <2>6. \A i \in 1..Len(r) : r[i] = s[2 + i - 1]
    BY <2>3, <2>4
  <2>7. SubSeq(s, 2, Len(s)) = r
    BY <2>1, <2>2, <2>5, <2>6, SubSeqIs
  <2> QED
    BY <2>3, <2>7 DEF s, r
<1>10. SubSeq(<<"after2", "setLocal", "setRoot", "setHas", "push">>, 2, 5)
        = <<"setLocal", "setRoot", "setHas", "push">>
  <2> DEFINE s == <<"after2", "setLocal", "setRoot", "setHas", "push">>
             r == <<"setLocal", "setRoot", "setHas", "push">>
  <2>1. s \in Seq(Steps)
    BY DEF Steps
  <2>2. r \in Seq(Steps)
    BY DEF Steps
  <2>3. Len(s) = 5 /\ Len(r) = 4
    OBVIOUS
  <2>4. \A i \in 1..4 : r[i] = s[1 + i]
    OBVIOUS
  <2> HIDE DEF s, r
  <2>5. Len(r) = Len(s) - 2 + 1 /\ 2 \in 1..Len(s)
    BY <2>3
  <2>6. \A i \in 1..Len(r) : r[i] = s[2 + i - 1]
    BY <2>3, <2>4
  <2>7. SubSeq(s, 2, Len(s)) = r
    BY <2>1, <2>2, <2>5, <2>6, SubSeqIs
  <2> QED
    BY <2>3, <2>7 DEF s, r
<1>11. SubSeq(<<"after2", "setLocal", "setRoot", "setHas">>, 2, 4)
        = <<"setLocal", "setRoot", "setHas">>
  <2> DEFINE s == <<"after2", "setLocal", "setRoot", "setHas">>
             r == <<"setLocal", "setRoot", "setHas">>
  <2>1. s \in Seq(Steps)
    BY DEF Steps
  <2>2. r \in Seq(Steps)
    BY DEF Steps
  <2>3. Len(s) = 4 /\ Len(r) = 3
    OBVIOUS
  <2>4. \A i \in 1..3 : r[i] = s[1 + i]
    OBVIOUS
  <2> HIDE DEF s, r
  <2>5. Len(r) = Len(s) - 2 + 1 /\ 2 \in 1..Len(s)
    BY <2>3
  <2>6. \A i \in 1..Len(r) : r[i] = s[2 + i - 1]
    BY <2>3, <2>4
  <2>7. SubSeq(s, 2, Len(s)) = r
    BY <2>1, <2>2, <2>5, <2>6, SubSeqIs
  <2> QED
    BY <2>3, <2>7 DEF s, r
<1> QED
  BY <1>1, <1>2, <1>3, <1>4, <1>5, <1>6, <1>7, <1>8, <1>9, <1>10, <1>11, Zenon

-----------------------------------------------------------------------------
(* A writer's list is a sequence of accesses.                               *)
LEMMA WriterListsAreSequences == EvenLists \union OddLists \subseteq Seq(Accesses)
BY DEF EvenLists, OddLists, Accesses

(* A list names a step if that is its first one, or its tail names it.      *)
LEMMA HasStep ==
  ASSUME NEW l \in EvenLists \union OddLists, l # <<>>, NEW step
  PROVE  Has(l, step) <=> Head(l) = step \/ Has(Tail(l), step)
<1>1. l \in Seq(Accesses) /\ l # <<>>
  BY WriterListsAreSequences
<1> HIDE DEF Accesses
<1>2. /\ Len(l) \in Nat \ {0} /\ Head(l) = l[1] /\ Len(Tail(l)) = Len(l) - 1
      /\ \A i \in 1..Len(Tail(l)) : Tail(l)[i] = l[i + 1]
  BY <1>1, HeadTailProperties
<1>3. ASSUME Has(l, step) PROVE Head(l) = step \/ Has(Tail(l), step)
  <2>1. PICK i \in 1..Len(l) : l[i] = step
    BY <1>3 DEF Has
  <2>2. CASE i = 1
    BY <2>1, <2>2, <1>2
  <2>3. CASE i # 1
    <3>1. i - 1 \in 1..Len(Tail(l)) /\ (i - 1) + 1 = i
      BY <2>3, <1>2
    <3>2. Tail(l)[i - 1] = step
      BY <3>1, <2>1, <1>2
    <3> QED
      BY <3>1, <3>2 DEF Has
  <2> QED
    BY <2>2, <2>3
<1>4. ASSUME Head(l) = step PROVE Has(l, step)
  <2>1. 1 \in 1..Len(l) /\ l[1] = step
    BY <1>2, <1>4
  <2> QED
    BY <2>1 DEF Has
<1>5. ASSUME Has(Tail(l), step) PROVE Has(l, step)
  <2>1. PICK i \in 1..Len(Tail(l)) : Tail(l)[i] = step
    BY <1>5 DEF Has
  <2>2. i + 1 \in 1..Len(l) /\ l[i + 1] = step
    BY <2>1, <1>2
  <2> QED
    BY <2>2 DEF Has
<1> QED
  BY <1>3, <1>4, <1>5

(* Nothing is in the empty list.                                            *)
LEMMA HasNothing == \A step : ~Has(<<>>, step)
BY DEF Has

(* What the lists that a writer begins with name, and that they are even.   *)
LEMMA BeginningLists ==
  ASSUME NEW l
  PROVE  /\ l = <<"seq", "publish", "seq">> =>
              /\ l \in EvenLists /\ Has(l, "publish") /\ ~Has(l, "id")
              /\ ~Has(l, "root") /\ ~Has(l, "rebase")
         /\ l = <<"seq", "publish", "seq", "seq", "id", "seq">> =>
              /\ l \in EvenLists /\ Has(l, "publish") /\ Has(l, "id")
              /\ ~Has(l, "root") /\ ~Has(l, "rebase")
         /\ l = <<"rebase", "seq", "root", "id", "seq">> =>
              /\ l \in EvenLists /\ ~Has(l, "publish") /\ Has(l, "id")
              /\ Has(l, "root") /\ Has(l, "rebase")
         /\ l = <<"seq", "publish", "seq", "rebase", "seq", "root", "id", "seq">> =>
              /\ l \in EvenLists /\ Has(l, "publish") /\ Has(l, "id")
              /\ Has(l, "root") /\ Has(l, "rebase")
<1>1. CASE l = <<"seq", "publish", "seq">>
  <2>1. LET m == <<"seq", "publish", "seq">>
        IN  /\ Has(m, "publish") /\ ~Has(m, "id")
            /\ ~Has(m, "root") /\ ~Has(m, "rebase")
    BY DEF Has
  <2>2. l \in EvenLists /\ l # <<>>
    BY <1>1 DEF EvenLists
  <2> QED
    BY <1>1, <2>1, <2>2
<1>2. CASE l = <<"seq", "publish", "seq", "seq", "id", "seq">>
  <2>1. LET m == <<"seq", "publish", "seq", "seq", "id", "seq">>
        IN  /\ Has(m, "publish") /\ Has(m, "id")
            /\ ~Has(m, "root") /\ ~Has(m, "rebase")
    BY DEF Has
  <2>2. l \in EvenLists
    BY <1>2 DEF EvenLists
  <2> QED
    BY <1>2, <2>1, <2>2
<1>3. CASE l = <<"rebase", "seq", "root", "id", "seq">>
  <2>1. LET m == <<"rebase", "seq", "root", "id", "seq">>
        IN  /\ ~Has(m, "publish") /\ Has(m, "id")
            /\ Has(m, "root") /\ Has(m, "rebase")
    BY DEF Has
  <2>2. l \in EvenLists
    BY <1>3 DEF EvenLists
  <2> QED
    BY <1>3, <2>1, <2>2
<1>4. CASE l = <<"seq", "publish", "seq", "rebase", "seq", "root", "id", "seq">>
  <2>1. LET m == <<"seq", "publish", "seq", "rebase", "seq", "root", "id", "seq">>
        IN  /\ Has(m, "publish") /\ Has(m, "id")
            /\ Has(m, "root") /\ Has(m, "rebase")
    BY DEF Has
  <2>2. l \in EvenLists
    BY <1>4 DEF EvenLists
  <2> QED
    BY <1>4, <2>1, <2>2
<1> QED
  BY <1>1, <1>2, <1>3, <1>4

(* A list without a window has the others, each once as before.             *)
LEMMA WithoutFacts ==
  ASSUME NEW S, NEW s \in Seq(S), NEW w,
         \A i, j \in 1..Len(s) : s[i] = s[j] => i = j
  PROVE  /\ Without(s, w) \in Seq(S \ {w})
         /\ \A i, j \in 1..Len(Without(s, w)) : Without(s, w)[i] = Without(s, w)[j] => i = j
<1>1. CASE ~\E i \in DOMAIN s : s[i] = w
  <2>1. Without(s, w) = s
    BY <1>1 DEF Without
  <2>2. s \in Seq(S \ {w})
    BY <1>1
  <2> QED
    BY <2>1, <2>2
<1>2. CASE \E i \in DOMAIN s : s[i] = w
  <2> DEFINE k == CHOOSE i \in DOMAIN s : s[i] = w
             a == SubSeq(s, 1, k - 1)
             b == SubSeq(s, k + 1, Len(s))
             r == a \o b
  <2>1. k \in 1..Len(s) /\ s[k] = w
    BY <1>2
  <2>2. Without(s, w) = r
    BY <1>2 DEF Without, RemoveAt
  <2> HIDE DEF k
  <2>3. a \in Seq(S) /\ Len(a) = k - 1 /\ \A i \in 1..Len(a) : a[i] = s[i]
    BY <2>1, SubSeqProperties
  <2>4. b \in Seq(S) /\ Len(b) = Len(s) - k /\ \A i \in 1..Len(b) : b[i] = s[k + i]
    BY <2>1, SubSeqProperties
  <2> HIDE DEF a, b
  <2>5. /\ r \in Seq(S) /\ Len(r) = Len(a) + Len(b)
        /\ \A i \in 1..(Len(a) + Len(b)) : r[i] = IF i <= Len(a) THEN a[i] ELSE b[i - Len(a)]
    <3>1. a \in Seq(S) /\ b \in Seq(S)
      BY <2>3, <2>4
    <3> QED
      BY <3>1, ConcatProperties
  <2>6. Len(r) = Len(s) - 1
    BY <2>1, <2>3, <2>4, <2>5
  <2> HIDE DEF r
  <2>7. ASSUME NEW i \in 1..Len(r)
        PROVE  /\ i < k => r[i] = s[i]
               /\ i >= k => r[i] = s[i + 1]
    <3>1. CASE i < k
      <4>1. i \in 1..Len(a) /\ i \in 1..(Len(a) + Len(b))
        BY <3>1, <2>1, <2>3, <2>5
      <4>2. r[i] = a[i]
        BY <4>1, <2>5
      <4>3. a[i] = s[i]
        BY <4>1, <2>3
      <4>4. ~(i >= k)
        BY <3>1, <2>1
      <4> QED
        BY <4>2, <4>3, <4>4
    <3>2. CASE i >= k
      <4>1. i - Len(a) \in 1..Len(b) /\ i \in 1..(Len(a) + Len(b)) /\ ~(i <= Len(a))
        BY <3>2, <2>1, <2>3, <2>4, <2>5, <2>6
      <4>2. r[i] = b[i - Len(a)]
        BY <4>1, <2>5
      <4>3. PICK m \in 1..Len(b) : m = i - Len(a)
        BY <4>1
      <4>4. b[m] = s[k + m]
        BY <2>4
      <4>5. k + m = i + 1
        <5>1. Len(a) = k - 1 /\ k \in Int /\ i \in Int
          BY <2>1, <2>3
        <5> QED BY ONLY <4>3, <5>1
      <4>6. ~(i < k)
        BY <3>2, <2>1
      <4> QED
        BY <4>2, <4>3, <4>4, <4>5, <4>6
    <3> QED
      BY <3>1, <3>2, <2>1
  <2>8. \A i \in 1..Len(r) : r[i] # w
    <3> TAKE i \in 1..Len(r)
    <3>1. CASE i < k
      BY <3>1, <2>1, <2>6, <2>7
    <3>2. CASE i >= k
      <4>1. i + 1 \in 1..Len(s) /\ i + 1 # k /\ r[i] = s[i + 1]
        BY <3>2, <2>1, <2>6, <2>7
      <4> QED
        BY <4>1, <2>1
    <3> QED
      BY <3>1, <3>2, <2>1
  <2>9. r \in Seq(S \ {w})
    BY <2>5, <2>8
  <2>10. \A i, j \in 1..Len(r) : r[i] = r[j] => i = j
    <3> TAKE i, j \in 1..Len(r)
    <3> DEFINE at(n) == IF n < k THEN n ELSE n + 1
    <3>1. r[i] = s[at(i)] /\ at(i) \in 1..Len(s)
      BY <2>7, <2>6, <2>1
    <3>2. r[j] = s[at(j)] /\ at(j) \in 1..Len(s)
      BY <2>7, <2>6, <2>1
    <3>3. at(i) = at(j) => i = j
      BY <2>1
    <3> HIDE DEF at
    <3> QED
      BY <3>1, <3>2, <3>3
  <2> QED
    BY <2>2, <2>9, <2>10
<1> QED
  BY <1>1, <1>2

(* So has a list with a window added that it did not have.                  *)
LEMMA AppendFacts ==
  ASSUME NEW S, NEW s \in Seq(S), NEW w, w \notin S,
         \A i, j \in 1..Len(s) : s[i] = s[j] => i = j
  PROVE  /\ Append(s, w) \in Seq(S \union {w})
         /\ \A i, j \in 1..Len(Append(s, w)) : Append(s, w)[i] = Append(s, w)[j] => i = j
<1> DEFINE r == Append(s, w)
<1>1. /\ Len(r) = Len(s) + 1 /\ r[Len(s) + 1] = w
      /\ \A i \in 1..Len(s) : r[i] = s[i] /\ s[i] \in S
  BY AppendProperties
<1>2. r \in Seq(S \union {w})
  BY AppendProperties
<1> HIDE DEF r
<1>3. ASSUME NEW i \in 1..Len(r), NEW j \in 1..Len(r), r[i] = r[j] PROVE i = j
  <2>1. CASE i <= Len(s) /\ j <= Len(s)
    BY <2>1, <1>1, <1>3
  <2>2. CASE i <= Len(s) /\ j = Len(s) + 1
    BY <2>2, <1>1, <1>3
  <2>3. CASE i = Len(s) + 1 /\ j <= Len(s)
    BY <2>3, <1>1, <1>3
  <2>4. CASE i = Len(s) + 1 /\ j = Len(s) + 1
    BY <2>4
  <2> QED
    BY <2>1, <2>2, <2>3, <2>4, <1>1
<1> QED
  BY <1>2, <1>3 DEF r

(* What is left of a call whose attempts at a load are used up.             *)
LEMMA OnceLists ==
  /\ <<"root", "setLocal", "setRoot", "setHas", "push">> \in CallLists
  /\ <<"root", "setLocal", "setRoot", "setHas", "push">> # <<>>
  /\ Head(<<"root", "setLocal", "setRoot", "setHas", "push">>) = "root"
  /\ ~Between(<<"root", "setLocal", "setRoot", "setHas", "push">>)
  /\ <<"root", "setLocal", "setRoot", "setHas">> \in CallLists
  /\ <<"root", "setLocal", "setRoot", "setHas">> # <<>>
  /\ Head(<<"root", "setLocal", "setRoot", "setHas">>) = "root"
  /\ ~Between(<<"root", "setLocal", "setRoot", "setHas">>)
<1>1. <<"root", "setLocal", "setRoot", "setHas", "push">> \in CallLists
  BY DEF CallLists, RememberLists
<1>2. <<"root", "setLocal", "setRoot", "setHas">> \in CallLists
  BY DEF CallLists, RelativeLists
<1>3. /\ <<"root", "setLocal", "setRoot", "setHas", "push">> # <<>>
      /\ Head(<<"root", "setLocal", "setRoot", "setHas", "push">>) = "root"
      /\ <<"root", "setLocal", "setRoot", "setHas">> # <<>>
      /\ Head(<<"root", "setLocal", "setRoot", "setHas">>) = "root"
  OBVIOUS
<1>4. /\ ~Between(<<"root", "setLocal", "setRoot", "setHas", "push">>)
      /\ ~Between(<<"root", "setLocal", "setRoot", "setHas">>)
  BY DEF Between
<1> QED
  BY <1>1, <1>2, <1>3, <1>4, Zenon

-----------------------------------------------------------------------------
(* Nobody writes: nothing is left to store, and the counter is even.        *)
LEMMA NobodyWrites ==
  ASSUME WriterInv, holder = NoThread
  PROVE  /\ stores = <<>> /\ seq % 2 # 1
         /\ \A step : ~Left(step)
         /\ Decided = [id |-> target.id, root |-> target.root]
<1>1. stores = <<>>
  BY DEF WriterInv
<1>2. stores \in EvenLists
  BY <1>1 DEF EvenLists
<1>3. stores \notin OddLists
  BY <1>2, ParityDisjoint
<1>4. \A step : ~Left(step)
  BY <1>1, HasNothing DEF Left
<1> QED
  BY <1>1, <1>3, <1>4 DEF WriterInv, Decided

(* When a writer begins, the readers are as they were, and with no overlap  *)
(* there are none.                                                          *)
LEMMA WriterBegins ==
  ASSUME TargetInv, NEW t \in Threads, targetWriteLock(t),
         UNCHANGED <<seq, target, pointer, call, pushed, client>>,
         Left("root")' => Left("rebase")'
  PROVE  ReaderTypes' /\ ReaderInv' /\ SerialInv' /\ MotionIsCoherent'
<1>1. ReaderTypes'
  BY DEF TargetInv, ReaderTypes
<1>2. ReaderInv'
  BY DEF TargetInv, ReaderInv, ReaderOk, Starts
<1>3. SerialInv'
  <2> SUFFICES ASSUME ~client.overlap PROVE SerialInv'
    BY DEF SerialInv
  <2>1. Idle
    BY DEF targetWriteLock, Idle
  <2>2. ~Left("root")
    BY NobodyWrites DEF targetWriteLock, TargetInv
  <2>3. Places(pointer, target.root)
    BY <2>1, <2>2 DEF TargetInv, SerialInv
  <2>4. Places(pointer, target.root)'
    BY <2>3 DEF Places
  <2>5. \A u \in Threads : call'[u].todo = <<>>
    BY <2>1 DEF Idle
  <2>6. ~(Left("root") /\ ~Left("rebase"))'
    OBVIOUS
  <2>7. Places(pointer, IF Left("root") /\ ~Left("rebase") THEN storing.root ELSE target.root)'
    BY <2>4, <2>6 DEF Places
  <2> QED
    BY <2>5, <2>7 DEF SerialInv
<1>4. MotionIsCoherent'
  BY DEF TargetInv, MotionIsCoherent
<1> QED
  BY <1>1, <1>2, <1>3, <1>4

(* A motion's window and origin, as a writer begins to store them.          *)
LEMMA WriterInvBegins ==
  ASSUME TargetInv, NEW t \in Threads, targetWriteLock(t), seq' = seq,
         stores' \in EvenLists, stores' # <<>>
  PROVE  WriterInv'
<1>1. seq' % 2 # 1
  BY NobodyWrites DEF TargetInv, targetWriteLock
<1>2. stores' \notin OddLists
  BY ParityDisjoint
<1>3. holder' # NoThread
  BY TargetAssumption DEF targetWriteLock, Threads
<1> QED
  BY <1>1, <1>2, <1>3 DEF WriterInv

(* Selecting a window that is known.                                        *)
LEMMA SelectStep ==
  ASSUME TargetInv, NEW c \in CandidateType, replayTargetSelectStored(c),
         c.id \in DOMAIN known, c.root = known[c.id].root, c.area = known[c.id].area
  PROVE  TargetInv'
<1>1. stores' = <<"rebase", "seq", "root", "id", "seq">>
  BY StoredLists DEF replayTargetSelectStored, Stores
<1>2. /\ stores' \in EvenLists /\ ~Left("publish")' /\ Left("id")'
      /\ Left("root")' /\ Left("rebase")'
  BY <1>1, BeginningLists DEF Left
<1>3. Replay \in Threads /\ targetWriteLock(Replay)
  BY DEF Threads, replayTargetSelectStored
<1>4. storing' = [id |-> c.id, root |-> c.root]
  BY DEF replayTargetSelectStored, Stores
<1>5. storing' \in TargetType
  BY <1>4 DEF TargetType, CandidateType
<1>6. holder' = Replay
  BY <1>3 DEF targetWriteLock
<1>7. targetArea' = c.area
  BY DEF replayTargetSelectStored, storedArea
<1>8. /\ UNCHANGED <<seq, target, targetAreaHighWater, known, order, stack>>
      /\ UNCHANGED <<first, latest, pointer, call, pushed, client>>
  BY DEF replayTargetSelectStored
<1>9. StoreTypes'
  <2>1. targetArea' \in Nat
    BY <1>7 DEF CandidateType
  <2>2. holder' \in Threads \union {NoThread}
    BY <1>6, <1>3
  <2> QED
    BY <1>5, <1>8, <2>1, <2>2 DEF TargetInv, StoreTypes
<1>10. WriterInv'
  <2>1. stores' # <<>>
    BY <1>1
  <2> QED
    BY <1>2, <1>3, <1>8, <2>1, WriterInvBegins
<1>11. DecidedInv'
  <2>1. Decided' = [id |-> c.id, root |-> c.root]
    BY <1>2, <1>4 DEF Decided
  <2>2. c.id # NoWindow
    BY DEF replayTargetSelectStored
  <2> QED
    BY <1>7, <1>8, <2>1, <2>2 DEF DecidedInv
<1>12. ListsInv'
  BY <1>8 DEF TargetInv, ListsInv, Names
<1>13. PublishedInv'
  <2>1. ~Left("publish")
    BY <1>3, NobodyWrites DEF TargetInv, targetWriteLock
  <2> QED
    BY <1>8, <2>1 DEF TargetInv, PublishedInv, Candidate
<1>14. ReaderTypes' /\ ReaderInv' /\ SerialInv' /\ MotionIsCoherent'
  BY <1>2, <1>3, <1>8, WriterBegins
<1> QED
  BY <1>9, <1>10, <1>11, <1>12, <1>13, <1>14 DEF TargetInv

(* Selecting the oldest, the newest or the topmost of the known windows.    *)
LEMMA KnownCandidates ==
  ASSUME TargetInv
  PROVE  /\ \A w \in DOMAIN known : Candidate(w) \in CandidateType
         /\ holder = NoThread /\ first.id # NoWindow =>
              \E w \in DOMAIN known : first = Candidate(w)
         /\ holder = NoThread /\ latest.id # NoWindow =>
              \E w \in DOMAIN known : latest = Candidate(w)
         /\ \A i \in 1..Len(stack) : stack[i] \in DOMAIN known
<1>1. \A w \in DOMAIN known : Candidate(w) \in CandidateType
  BY DEF TargetInv, StoreTypes, Candidate, CandidateType
<1>2. order \in Seq(DOMAIN known) /\ stack \in Seq(DOMAIN known)
  BY DEF TargetInv, ListsInv, Names
<1>3. ASSUME holder = NoThread
      PROVE  /\ first.id # NoWindow => \E w \in DOMAIN known : first = Candidate(w)
             /\ latest.id # NoWindow => \E w \in DOMAIN known : latest = Candidate(w)
  <2>1. ~Left("publish")
    BY <1>3, NobodyWrites DEF TargetInv
  <2>2. CASE order = <<>>
    <3>1. first = NoCandidate /\ latest = NoCandidate
      BY <2>1, <2>2 DEF TargetInv, PublishedInv
    <3> QED
      BY <3>1 DEF NoCandidate
  <2>3. CASE order # <<>>
    <3>1. first = Candidate(Head(order)) /\ latest = Candidate(Last(order))
      BY <2>1, <2>3 DEF TargetInv, PublishedInv
    <3>2. Len(order) \in Nat \ {0} /\ Head(order) = order[1] /\ Last(order) = order[Len(order)]
      BY <1>2, <2>3 DEF Last
    <3>3. Head(order) \in DOMAIN known /\ Last(order) \in DOMAIN known
      BY <1>2, <3>2
    <3> QED
      BY <3>1, <3>3
  <2> QED
    BY <2>2, <2>3
<1>4. \A i \in 1..Len(stack) : stack[i] \in DOMAIN known
  BY <1>2
<1> QED
  BY <1>1, <1>3, <1>4

(* The three selections.                                                    *)
LEMMA Selections ==
  ASSUME TargetInv,
         \/ replayTargetSelectFirst \/ replayTargetSelectLatest
         \/ \E hit \in SUBSET Windows : replayTargetSelectAtRoot(hit)
  PROVE  TargetInv'
<1>1. ASSUME NEW w \in DOMAIN known, replayTargetSelectStored(Candidate(w)) PROVE TargetInv'
  <2>1. Candidate(w) \in CandidateType
    BY KnownCandidates
  <2>2. /\ Candidate(w).id = w /\ Candidate(w).root = known[w].root
        /\ Candidate(w).area = known[w].area
    BY DEF Candidate
  <2> QED
    BY <1>1, <2>1, <2>2, SelectStep
<1>2. CASE replayTargetSelectFirst
  <2>1. replayTargetSelectStored(first)
    BY <1>2 DEF replayTargetSelectFirst
  <2>2. holder = NoThread /\ first.id # NoWindow
    BY <2>1 DEF replayTargetSelectStored, targetWriteLock
  <2>3. PICK w \in DOMAIN known : first = Candidate(w)
    BY <2>2, KnownCandidates
  <2>4. replayTargetSelectStored(Candidate(w))
    BY <2>1, <2>3
  <2> QED
    BY <1>1, <2>4
<1>3. CASE replayTargetSelectLatest
  <2>1. replayTargetSelectStored(latest)
    BY <1>3 DEF replayTargetSelectLatest
  <2>2. holder = NoThread /\ latest.id # NoWindow
    BY <2>1 DEF replayTargetSelectStored, targetWriteLock
  <2>3. PICK w \in DOMAIN known : latest = Candidate(w)
    BY <2>2, KnownCandidates
  <2>4. replayTargetSelectStored(Candidate(w))
    BY <2>1, <2>3
  <2> QED
    BY <1>1, <2>4
<1>4. ASSUME NEW hit \in SUBSET Windows, replayTargetSelectAtRoot(hit) PROVE TargetInv'
  <2>1. PICK i \in 1..Len(stack) : replayTargetSelectStored(Candidate(stack[i]))
    BY <1>4 DEF replayTargetSelectAtRoot
  <2>2. stack[i] \in DOMAIN known
    BY KnownCandidates
  <2> QED
    BY <1>1, <2>1, <2>2
<1> QED
  BY <1>2, <1>3, <1>4

(* Offering a window: it is known by its place and size, and it becomes the *)
(* target or the target stays a known window.                               *)
LEMMA OfferStep ==
  ASSUME TargetInv, NEW w \in Windows, NEW p \in Roots, NEW a \in client.areas,
         replayTargetOfferWindow(w, p, a)
  PROVE  TargetInv'
<1> DEFINE takes == takesTarget(w, a)
<1>1. Main \in Threads /\ targetWriteLock(Main)
  BY DEF Threads, replayTargetOfferWindow
<1>2. /\ UNCHANGED <<seq, target, first, latest>>
      /\ UNCHANGED <<pointer, call, pushed, client>>
  BY DEF replayTargetOfferWindow
<1>3. /\ known' = [v \in DOMAIN known \union {w} |->
                     IF v = w THEN [root |-> p, area |-> a] ELSE known[v]]
      /\ order' = IF w \in DOMAIN known THEN order ELSE Append(order, w)
      /\ stack' = Append(Without(stack, w), w)
  BY DEF replayTargetOfferWindow, rememberKnownTarget
<1>4. /\ takes => targetArea' = a
      /\ ~takes => targetArea' = targetArea
      /\ targetAreaHighWater' \in {a, targetAreaHighWater}
  BY DEF replayTargetOfferWindow
<1>5. takes => /\ stores' = <<"seq", "publish", "seq", "rebase", "seq", "root", "id", "seq">>
               /\ storing' = [id |-> w, root |-> p]
  BY StoredLists DEF replayTargetOfferWindow, Stores
<1>6. ~takes => stores' = <<"seq", "publish", "seq">> /\ storing' = NoTarget
  BY DEF replayTargetOfferWindow, Stores, publishBrackets
<1>7. a \in Nat \ {0} /\ p \in Nat
  <2>1. client.areas \subseteq Areas
    BY TargetAssumption DEF TargetInv, StoreTypes
  <2> QED
    BY <2>1, TargetAssumption
<1>8. holder = NoThread /\ holder' = Main
  BY <1>1 DEF targetWriteLock
<1>9. takes => /\ stores' \in EvenLists /\ Left("publish")' /\ Left("id")'
               /\ Left("root")' /\ Left("rebase")'
  BY <1>5, BeginningLists DEF Left
<1>10. ~takes => /\ stores' \in EvenLists /\ Left("publish")' /\ ~Left("id")'
                 /\ ~Left("root")' /\ ~Left("rebase")'
  BY <1>6, BeginningLists DEF Left
<1>11. stores' # <<>>
  <2>1. CASE takes
    <3>1. <<"seq", "publish", "seq", "rebase", "seq", "root", "id", "seq">> # <<>>
      OBVIOUS
    <3> QED BY <2>1, <1>5, <3>1, Zenon
  <2>2. CASE ~takes
    <3>1. <<"seq", "publish", "seq">> # <<>>
      OBVIOUS
    <3> QED BY <2>2, <1>6, <3>1, Zenon
  <2> QED
    BY <2>1, <2>2, Zenon
<1>12. NoWindow \notin Windows
  BY TargetAssumption
<1> HIDE DEF takes
<1>13. StoreTypes'
  <2>1. storing' \in TargetType
    BY <1>5, <1>6, <1>7 DEF NoTarget, TargetType
  <2>2. targetArea' \in Nat /\ targetAreaHighWater' \in Nat
    BY <1>4, <1>7 DEF TargetInv, StoreTypes
  <2>3. DOMAIN known' = DOMAIN known \union {w} /\ DOMAIN known' \subseteq Windows
    BY <1>3 DEF TargetInv, StoreTypes
  <2>4. \A v \in DOMAIN known' : known'[v] \in [root : Nat, area : Nat \ {0}]
    BY <1>3, <1>7 DEF TargetInv, StoreTypes
  <2>5. known' \in [DOMAIN known' -> [root : Nat, area : Nat \ {0}]]
    BY <1>3, <2>3, <2>4
  <2>6. holder' \in Threads \union {NoThread}
    BY <1>1, <1>8
  <2> QED
    BY <1>2, <2>1, <2>2, <2>3, <2>5, <2>6 DEF TargetInv, StoreTypes
<1>14. WriterInv'
  BY <1>1, <1>2, <1>9, <1>10, <1>11, WriterInvBegins
<1>15. DecidedInv'
  <2>1. CASE takes
    <3>1. Decided' = [id |-> w, root |-> p]
      BY <2>1, <1>5, <1>9 DEF Decided
    <3>2. w # NoWindow /\ w \in DOMAIN known' /\ known'[w] = [root |-> p, area |-> a]
      BY <1>3, <1>12
    <3> QED
      BY <2>1, <1>4, <3>1, <3>2 DEF DecidedInv
  <2>2. CASE ~takes
    <3>1. Decided' = [id |-> target.id, root |-> target.root]
      BY <2>2, <1>2, <1>10 DEF Decided
    <3>2. Decided = [id |-> target.id, root |-> target.root]
      BY <1>8, NobodyWrites DEF TargetInv
    <3>3. IF target.id = NoWindow THEN targetArea = 0
          ELSE /\ target.id \in DOMAIN known
               /\ target.root = known[target.id].root
               /\ targetArea = known[target.id].area
      BY <3>2 DEF TargetInv, DecidedInv
    <3>4. target.id # w
      <4> SUFFICES ASSUME target.id = w PROVE FALSE
        OBVIOUS
      <4>1. w \in DOMAIN known /\ targetArea = known[w].area
        BY <3>3, <1>12
      <4>2. known[w].area \in Nat \ {0}
        BY <4>1 DEF TargetInv, StoreTypes
      <4> QED
        BY <2>2, <4>1, <4>2 DEF takes, takesTarget
    <3>5. target.id \in DOMAIN known =>
            target.id \in DOMAIN known' /\ known'[target.id] = known[target.id]
      BY <1>3, <3>4
    <3>6. targetArea' = targetArea
      BY <2>2, <1>4
    <3> QED
      BY <3>1, <3>3, <3>5, <3>6 DEF DecidedInv
  <2> QED
    BY <2>1, <2>2
<1>16. ListsInv'
  <2> DEFINE D == DOMAIN known
  <2>1. DOMAIN known' = D \union {w}
    BY <1>3
  <2>2. /\ order \in Seq(D) /\ \A i, j \in 1..Len(order) : order[i] = order[j] => i = j
        /\ stack \in Seq(D) /\ \A i, j \in 1..Len(stack) : stack[i] = stack[j] => i = j
    BY DEF TargetInv, ListsInv, Names
  <2> DEFINE rest == Without(stack, w)
  <2>3. /\ rest \in Seq(D \ {w})
        /\ \A i, j \in 1..Len(rest) : rest[i] = rest[j] => i = j
    BY <2>2, WithoutFacts
  <2> HIDE DEF rest
  <2>4. w \notin D \ {w} /\ (D \ {w}) \union {w} = D \union {w}
    OBVIOUS
  <2>5. /\ Append(rest, w) \in Seq((D \ {w}) \union {w})
        /\ \A i, j \in 1..Len(Append(rest, w)) :
             Append(rest, w)[i] = Append(rest, w)[j] => i = j
    BY <2>3, <2>4, AppendFacts
  <2>6. stack' = Append(rest, w)
    BY <1>3 DEF rest
  <2>7. Names(stack)'
    BY <2>1, <2>4, <2>5, <2>6 DEF Names
  <2>8. Names(order)'
    <3>1. CASE w \in D
      <4>1. D \union {w} = D /\ order' = order
        BY <3>1, <1>3
      <4> QED
        BY <4>1, <2>1, <2>2 DEF Names
    <3>2. CASE w \notin D
      <4>1. /\ Append(order, w) \in Seq(D \union {w})
            /\ \A i, j \in 1..Len(Append(order, w)) :
                 Append(order, w)[i] = Append(order, w)[j] => i = j
        BY <2>2, <3>2, AppendFacts
      <4>2. order' = Append(order, w)
        BY <3>2, <1>3
      <4> QED
        BY <2>1, <4>1, <4>2 DEF Names
    <3> QED
      BY <3>1, <3>2
  <2> QED
    BY <2>7, <2>8 DEF ListsInv
<1>17. PublishedInv'
  BY <1>9, <1>10 DEF PublishedInv
<1>18. ReaderTypes' /\ ReaderInv' /\ SerialInv' /\ MotionIsCoherent'
  BY <1>1, <1>2, <1>9, <1>10, WriterBegins
<1> QED
  BY <1>13, <1>14, <1>15, <1>16, <1>17, <1>18 DEF TargetInv

(* Forgetting a window: if it was the target, there is none.                *)
LEMMA ForgetStep ==
  ASSUME TargetInv, NEW w \in Windows, replayTargetForgetWindow(w)
  PROVE  TargetInv'
<1>1. Main \in Threads /\ targetWriteLock(Main)
  BY DEF Threads, replayTargetForgetWindow
<1>2. /\ UNCHANGED <<seq, target, targetAreaHighWater, first, latest>>
      /\ UNCHANGED <<pointer, call, pushed, client>>
  BY DEF replayTargetForgetWindow
<1>3. /\ known' = [v \in DOMAIN known \ {w} |-> known[v]]
      /\ order' = Without(order, w) /\ stack' = Without(stack, w)
      /\ targetArea' = IF target.id = w THEN 0 ELSE targetArea
      /\ storing' = NoTarget
  BY DEF replayTargetForgetWindow, Stores
<1>4. /\ target.id = w => stores' = <<"seq", "publish", "seq", "seq", "id", "seq">>
      /\ target.id # w => stores' = <<"seq", "publish", "seq">>
  BY StoredLists DEF replayTargetForgetWindow, Stores
<1>5. /\ stores' \in EvenLists /\ Left("publish")' /\ ~Left("root")' /\ ~Left("rebase")'
      /\ Left("id")' <=> target.id = w
  BY <1>4, BeginningLists DEF Left
<1>6. stores' # <<>>
  BY <1>4
<1>7. holder = NoThread /\ holder' = Main
  BY <1>1 DEF targetWriteLock
<1>8. StoreTypes'
  <2>1. storing' \in TargetType
    BY <1>3 DEF NoTarget, TargetType
  <2>2. targetArea' \in Nat
    BY <1>3 DEF TargetInv, StoreTypes
  <2>3. DOMAIN known' = DOMAIN known \ {w} /\ DOMAIN known' \subseteq Windows
    BY <1>3 DEF TargetInv, StoreTypes
  <2>4. known' \in [DOMAIN known' -> [root : Nat, area : Nat \ {0}]]
    BY <1>3, <2>3 DEF TargetInv, StoreTypes
  <2>5. holder' \in Threads \union {NoThread}
    BY <1>1, <1>7
  <2> QED
    BY <1>2, <2>1, <2>2, <2>3, <2>4, <2>5 DEF TargetInv, StoreTypes
<1>9. WriterInv'
  BY <1>1, <1>2, <1>5, <1>6, WriterInvBegins
<1>10. DecidedInv'
  <2>1. CASE target.id = w
    <3>1. Decided'.id = NoWindow
      BY <2>1, <1>3, <1>5 DEF Decided, NoTarget
    <3> QED
      BY <2>1, <1>3, <3>1 DEF DecidedInv
  <2>2. CASE target.id # w
    <3>1. Decided' = [id |-> target.id, root |-> target.root]
      BY <2>2, <1>2, <1>5 DEF Decided
    <3>2. Decided = [id |-> target.id, root |-> target.root]
      BY <1>7, NobodyWrites DEF TargetInv
    <3>3. target.id \in DOMAIN known =>
            target.id \in DOMAIN known' /\ known'[target.id] = known[target.id]
      BY <1>3, <2>2
    <3>4. targetArea' = targetArea
      BY <2>2, <1>3
    <3> QED
      BY <3>1, <3>2, <3>3, <3>4 DEF TargetInv, DecidedInv
  <2> QED
    BY <2>1, <2>2
<1>11. ListsInv'
  <2> DEFINE D == DOMAIN known
  <2>1. DOMAIN known' = D \ {w}
    BY <1>3
  <2>2. /\ order \in Seq(D) /\ \A i, j \in 1..Len(order) : order[i] = order[j] => i = j
        /\ stack \in Seq(D) /\ \A i, j \in 1..Len(stack) : stack[i] = stack[j] => i = j
    BY DEF TargetInv, ListsInv, Names
  <2>3. /\ Without(stack, w) \in Seq(D \ {w})
        /\ \A i, j \in 1..Len(Without(stack, w)) :
             Without(stack, w)[i] = Without(stack, w)[j] => i = j
    BY <2>2, WithoutFacts
  <2>4. /\ Without(order, w) \in Seq(D \ {w})
        /\ \A i, j \in 1..Len(Without(order, w)) :
             Without(order, w)[i] = Without(order, w)[j] => i = j
    BY <2>2, WithoutFacts
  <2> QED
    BY <1>3, <2>1, <2>3, <2>4 DEF ListsInv, Names
<1>12. PublishedInv'
  BY <1>5 DEF PublishedInv
<1>13. ReaderTypes' /\ ReaderInv' /\ SerialInv' /\ MotionIsCoherent'
  BY <1>1, <1>2, <1>5, WriterBegins
<1> QED
  BY <1>8, <1>9, <1>10, <1>11, <1>12, <1>13 DEF TargetInv

-----------------------------------------------------------------------------
(* An access: what is decided stays decided, the counter is odd while the   *)
(* target is stored, and a reader that counted before is found out.         *)
LEMMA AccessStep ==
  ASSUME TargetInv, Access
  PROVE  TargetInv'
<1> DEFINE field == Head(stores)
<1>1. /\ stores # <<>> /\ stores \in EvenLists \union OddLists /\ stores' = Tail(stores)
      /\ seq' = IF field = "seq" THEN seq + 1 ELSE seq
  BY DEF Access, TargetInv, WriterInv
<1>2. /\ target' = CASE field = "root" -> [target EXCEPT !.root = storing.root]
                     [] field = "id" -> [target EXCEPT !.id = storing.id]
                     [] OTHER -> target
      /\ pointer' = IF field = "rebase" /\ pointer.has
                      THEN [pointer EXCEPT !.local = pointer.root - storing.root]
                      ELSE pointer
  BY DEF Access
<1>3. IF stores' = <<>> THEN holder' = NoThread /\ storing' = NoTarget
                        ELSE holder' = holder /\ storing' = storing
  BY DEF Access
<1>4. /\ UNCHANGED <<targetArea, targetAreaHighWater, known, order, stack>>
      /\ UNCHANGED <<pushed, client>>
  BY DEF Access, scope
<1>5. IF field = "publish" THEN publishFirstLatestLocked ELSE UNCHANGED <<first, latest>>
  BY DEF Access
<1>6. call' = IF field = "seq" /\ seq' % 2 = 0
                THEN [t \in Threads |->
                        IF call[t].todo = <<>> THEN call[t]
                        ELSE [call[t] EXCEPT !.stable = @ \union {target'}]]
                ELSE call
  BY DEF Access
<1>7. /\ seq \in Nat /\ target \in TargetType /\ storing \in TargetType
      /\ pointer \in [has : BOOLEAN, local : Int, root : Int]
      /\ call \in [Threads -> CallType]
  BY DEF TargetInv, StoreTypes, ReaderTypes
<1>8. /\ stores' \in EvenLists \union OddLists
      /\ field = "seq" => (stores \in EvenLists <=> stores' \in OddLists)
      /\ field # "seq" => (stores \in EvenLists <=> stores' \in EvenLists)
      /\ field \in {"publish", "root", "id"} => stores \in OddLists /\ ~Has(stores', field)
      /\ field = "rebase" => Has(stores', "root") /\ ~Has(stores', "rebase")
      /\ field = "root" => ~Has(stores', "rebase")
      /\ field \in {"seq", "publish", "root", "id", "rebase"}
  BY <1>1, WriterLists
<1>9. \A step : Left(step) <=> field = step \/ Left(step)'
  BY <1>1, HasStep DEF Left
<1>10. \A step : Left(step)' => stores' # <<>> /\ storing' = storing
  <2>1. \A step : stores' = <<>> => ~Left(step)'
    BY HasNothing DEF Left
  <2> QED
    BY <2>1, <1>3
<1>11. seq % 2 = 1 <=> stores \in OddLists
  BY DEF TargetInv, WriterInv
<1>12. /\ target' \in TargetType
       /\ target'.root = IF field = "root" THEN storing.root ELSE target.root
       /\ target'.id = IF field = "id" THEN storing.id ELSE target.id
       /\ field # "root" /\ field # "id" => target' = target
  <2>1. CASE field = "root"
    BY <2>1, <1>2, <1>7 DEF TargetType
  <2>2. CASE field = "id"
    BY <2>2, <1>2, <1>7 DEF TargetType
  <2>3. CASE field # "root" /\ field # "id"
    BY <2>3, <1>2, <1>7
  <2> QED
    BY <2>1, <2>2, <2>3
<1>13. /\ pointer' \in [has : BOOLEAN, local : Int, root : Int]
       /\ pointer'.has = pointer.has /\ pointer'.root = pointer.root
       /\ field # "rebase" => pointer' = pointer
       /\ field = "rebase" /\ pointer.has => pointer'.local = pointer.root - storing.root
  <2>1. CASE field = "rebase" /\ pointer.has
    <3>1. pointer' = [pointer EXCEPT !.local = pointer.root - storing.root]
      BY <2>1, <1>2
    <3>2. pointer.root - storing.root \in Int
      BY <1>7 DEF TargetType
    <3> QED
      BY <2>1, <3>1, <3>2, <1>7
  <2>2. CASE ~(field = "rebase" /\ pointer.has)
    BY <2>2, <1>2, <1>7
  <2> QED
    BY <2>1, <2>2
<1>14. \A t \in Threads : /\ call'[t] \in CallType
                          /\ call'[t].todo = call[t].todo /\ call'[t].before = call[t].before
                          /\ call'[t].got = call[t].got
                          /\ call[t].stable \subseteq call'[t].stable
                          /\ field = "seq" /\ seq' % 2 = 0 /\ call[t].todo # <<>> =>
                               target' \in call'[t].stable
                          /\ ~(field = "seq" /\ seq' % 2 = 0) => call'[t] = call[t]
                          /\ call[t].todo = <<>> => call'[t] = call[t]
  <2> TAKE t \in Threads
  <2>1. CASE ~(field = "seq" /\ seq' % 2 = 0)
    BY <2>1, <1>6, <1>7
  <2>2. CASE field = "seq" /\ seq' % 2 = 0 /\ call[t].todo = <<>>
    BY <2>2, <1>6, <1>7
  <2>3. CASE field = "seq" /\ seq' % 2 = 0 /\ call[t].todo # <<>>
    <3> DEFINE T == target'
    <3>1. T \in TargetType
      BY <1>12
    <3>2. call'[t] = [call[t] EXCEPT !.stable = @ \union {T}]
      BY <2>3, <1>6
    <3>3. call[t] \in CallType
      BY <1>7
    <3> HIDE DEF T
    <3>4. /\ call'[t] \in CallType
          /\ call'[t].todo = call[t].todo /\ call'[t].before = call[t].before
          /\ call'[t].got = call[t].got
          /\ call[t].stable \subseteq call'[t].stable /\ T \in call'[t].stable
      BY <3>1, <3>2, <3>3 DEF CallType
    <3> QED
      BY <2>3, <3>4 DEF T
  <2> QED
    BY <2>1, <2>2, <2>3
<1> HIDE DEF field
<1>15. StoreTypes'
  <2>1. seq' \in Nat /\ holder' \in Threads \union {NoThread}
    BY <1>1, <1>3, <1>7 DEF TargetInv, StoreTypes
  <2>2. storing' \in TargetType
    BY <1>3, <1>7 DEF NoTarget, TargetType
  <2>3. first' \in CandidateType /\ latest' \in CandidateType
    <3>1. CASE field # "publish"
      BY <3>1, <1>5 DEF TargetInv, StoreTypes
    <3>2. CASE field = "publish" /\ order = <<>>
      BY <3>2, <1>5 DEF publishFirstLatestLocked, NoCandidate, CandidateType
    <3>3. CASE field = "publish" /\ order # <<>>
      <4>1. first' = Candidate(Head(order)) /\ latest' = Candidate(Last(order))
        BY <3>3, <1>5 DEF publishFirstLatestLocked
      <4>2. order \in Seq(DOMAIN known)
        BY DEF TargetInv, ListsInv, Names
      <4>3. Len(order) \in Nat \ {0} /\ Head(order) = order[1] /\ Last(order) = order[Len(order)]
        BY <4>2, <3>3 DEF Last
      <4>4. Head(order) \in DOMAIN known /\ Last(order) \in DOMAIN known
        BY <4>2, <4>3
      <4> QED
        BY <4>1, <4>4, KnownCandidates
    <3> QED
      BY <3>1, <3>2, <3>3
  <2> QED
    BY <1>4, <1>12, <2>1, <2>2, <2>3 DEF TargetInv, StoreTypes
<1>16. ReaderTypes'
  <2>1. call' \in [Threads -> CallType]
    <3>1. call' = [t \in Threads |-> call'[t]]
      BY <1>6, <1>7
    <3> QED
      BY <3>1, <1>14
  <2> QED
    BY <1>4, <1>13, <2>1 DEF TargetInv, ReaderTypes
<1>17. WriterInv'
  <2>1. seq' % 2 = 1 <=> stores' \in OddLists
    <3>1. stores \in OddLists <=> stores \notin EvenLists
      BY <1>1, ParityDisjoint
    <3>2. stores' \in OddLists <=> stores' \notin EvenLists
      BY <1>8, ParityDisjoint
    <3>3. field = "seq" => (seq' % 2 = 1 <=> seq % 2 # 1)
      BY <1>1, <1>7
    <3>4. field # "seq" => seq' = seq
      BY <1>1
    <3> QED
      BY <3>1, <3>2, <3>3, <3>4, <1>8, <1>11
  <2>2. holder' = NoThread <=> stores' = <<>>
    <3>1. holder # NoThread
      BY <1>1 DEF TargetInv, WriterInv
    <3> QED
      BY <3>1, <1>3
  <2> QED
    BY <1>8, <2>1, <2>2 DEF WriterInv
<1>18. DecidedInv'
  <2>1. Decided'.id = Decided.id
    <3>1. Decided.id = IF Left("id") THEN storing.id ELSE target.id
      BY DEF Decided
    <3>2. Decided'.id = IF Left("id")' THEN storing'.id ELSE target'.id
      BY DEF Decided
    <3>3. CASE field = "id"
      <4>1. Left("id") /\ ~Left("id")'
        BY <3>3, <1>8, <1>9 DEF Left
      <4> QED
        BY <3>1, <3>2, <3>3, <4>1, <1>12
    <3>4. CASE field # "id"
      <4>1. Left("id") <=> Left("id")'
        BY <3>4, <1>9
      <4>2. Left("id")' => storing' = storing
        BY <1>10
      <4> QED
        BY <3>1, <3>2, <3>4, <4>1, <4>2, <1>12
    <3> QED
      BY <3>3, <3>4
  <2>2. Decided'.root = Decided.root
    <3>1. Decided.root = IF Left("root") THEN storing.root ELSE target.root
      BY DEF Decided
    <3>2. Decided'.root = IF Left("root")' THEN storing'.root ELSE target'.root
      BY DEF Decided
    <3>3. CASE field = "root"
      <4>1. Left("root") /\ ~Left("root")'
        BY <3>3, <1>8, <1>9 DEF Left
      <4> QED
        BY <3>1, <3>2, <3>3, <4>1, <1>12
    <3>4. CASE field # "root"
      <4>1. Left("root") <=> Left("root")'
        BY <3>4, <1>9
      <4>2. Left("root")' => storing' = storing
        BY <1>10
      <4> QED
        BY <3>1, <3>2, <3>4, <4>1, <4>2, <1>12
    <3> QED
      BY <3>3, <3>4
  <2> QED
    BY <1>4, <2>1, <2>2 DEF TargetInv, DecidedInv
<1>19. ListsInv'
  BY <1>4 DEF TargetInv, ListsInv, Names
<1>20. PublishedInv'
  <2>1. CASE field = "publish"
    BY <2>1, <1>4, <1>5 DEF PublishedInv, publishFirstLatestLocked, Candidate
  <2>2. CASE field # "publish"
    <3>1. Left("publish") <=> Left("publish")'
      BY <2>2, <1>9
    <3> QED
      BY <2>2, <3>1, <1>4, <1>5 DEF TargetInv, PublishedInv, Candidate
  <2> QED
    BY <2>1, <2>2
<1>21. ReaderInv'
  <2> SUFFICES ASSUME NEW t \in Threads PROVE ReaderOk(call[t])'
    BY DEF ReaderInv
  <2>1. /\ call[t].todo # <<>> /\ seq % 2 = 0 => target \in call[t].stable
        /\ call[t].before <= seq /\ call[t].before % 2 = 0 /\ call[t].before \in Nat
        /\ call[t].before = seq /\ Between(call[t].todo) => call[t].got.id = target.id
        /\ call[t].before = seq /\ Starts(call[t], "after") => call[t].got = target
        /\ Starts(call[t], "local") => call[t].got \in call[t].stable /\ call[t].got.id # NoWindow
    BY <1>7 DEF TargetInv, ReaderInv, ReaderOk, CallType
  <2>2. call'[t].todo # <<>> /\ seq' % 2 = 0 => target' \in call'[t].stable
    <3>1. CASE field = "seq"
      BY <3>1, <1>14
    <3>2. CASE field \in {"root", "id"}
      <4>1. seq' % 2 = 1
        BY <3>2, <1>1, <1>8, <1>11
      <4> QED
        BY <4>1
    <3>3. CASE field \in {"publish", "rebase"}
      BY <3>3, <1>1, <1>12, <1>14, <2>1
    <3> QED
      BY <3>1, <3>2, <3>3, <1>8
  <2>3. call'[t].before <= seq' /\ call'[t].before % 2 = 0
    <3>1. seq <= seq'
      BY <1>1, <1>7
    <3>2. call'[t].before = call[t].before /\ seq' \in Nat
      BY <1>14, <1>1, <1>7
    <3> QED
      BY <3>1, <3>2, <2>1, <1>7
  <2>4. call'[t].before = seq' => call[t].before = seq /\ target' = target
    <3> SUFFICES ASSUME call[t].before = seq' PROVE call[t].before = seq /\ target' = target
      BY <1>14
    <3>1. CASE field = "seq"
      BY <3>1, <1>1, <1>7, <2>1
    <3>2. CASE field \in {"root", "id"}
      BY <3>2, <1>1, <1>8, <1>11, <2>1
    <3>3. CASE field \in {"publish", "rebase"}
      BY <3>3, <1>1, <1>12
    <3> QED
      BY <3>1, <3>2, <3>3, <1>8
  <2>5. call'[t].todo = call[t].todo /\ call'[t].got = call[t].got
        /\ call[t].stable \subseteq call'[t].stable
    BY <1>14
  <2> QED
    BY <2>1, <2>2, <2>3, <2>4, <2>5 DEF ReaderOk, Starts
<1>22. SerialInv'
  <2> SUFFICES ASSUME ~client.overlap PROVE SerialInv'
    BY <1>4 DEF SerialInv
  <2>1. Idle
    BY <1>1 DEF TargetInv, SerialInv, Idle
  <2>2. \A t \in Threads : call'[t].todo = <<>>
    BY <2>1, <1>14 DEF Idle
  <2>3. Places(pointer, IF Left("root") /\ ~Left("rebase") THEN storing.root ELSE target.root)
    BY <2>1 DEF TargetInv, SerialInv
  <2>4. Places(pointer', IF Left("root")' /\ ~Left("rebase")' THEN storing'.root ELSE target'.root)
    <3>1. CASE field = "rebase"
      <4>1. Left("root")' /\ ~Left("rebase")' /\ storing' = storing
        BY <3>1, <1>8, <1>10 DEF Left
      <4> QED
        BY <3>1, <4>1, <1>13 DEF Places
    <3>2. CASE field = "root"
      <4>1. Left("root") /\ ~Left("root")' /\ ~Left("rebase")'
        BY <3>2, <1>8, <1>9 DEF Left
      <4>2. ~Left("rebase")
        BY <3>2, <4>1, <1>9
      <4>3. target'.root = storing.root /\ pointer' = pointer
        BY <3>2, <1>12, <1>13
      <4> QED
        BY <4>1, <4>2, <4>3, <2>3 DEF Places
    <3>3. CASE field # "rebase" /\ field # "root"
      <4>1. (Left("root") <=> Left("root")') /\ (Left("rebase") <=> Left("rebase")')
        BY <3>3, <1>9
      <4>2. Left("root")' => storing' = storing
        BY <1>10
      <4>3. target'.root = target.root /\ pointer' = pointer
        BY <3>3, <1>12, <1>13
      <4> QED
        BY <4>1, <4>2, <4>3, <2>3 DEF Places
    <3> QED
      BY <3>1, <3>2, <3>3
  <2> QED
    BY <2>2, <2>4 DEF SerialInv, Places
<1>23. MotionIsCoherent'
  BY <1>4 DEF TargetInv, MotionIsCoherent
<1> QED
  BY <1>15, <1>16, <1>17, <1>18, <1>19, <1>20, <1>21, <1>22, <1>23 DEF TargetInv

-----------------------------------------------------------------------------
(* The types of a pointer, and of a call's fields.                          *)
PointerType == [has : BOOLEAN, local : Int, root : Int]

(* No call and no target are in the types, and a reader that has nothing    *)
(* left to do is in order.                                                  *)
LEMMA NoCallFacts ==
  ASSUME TargetInv
  PROVE  NoCall \in CallType /\ ReaderOk(NoCall) /\ NoCall.todo = <<>>
<1>1. NoTarget \in TargetType
  BY DEF NoTarget, TargetType
<1>2. <<>> \in CallLists
  BY DEF CallLists
<1>3. 0 \in 0..(MaxAttempts - 1)
  BY TargetAssumption
<1>4. NoCall \in CallType
  BY <1>1, <1>2, <1>3 DEF NoCall, CallType
<1>5. seq \in Nat
  BY DEF TargetInv, StoreTypes
<1>6. ~Between(<<>>)
  BY DEF Between
<1> QED
  BY <1>4, <1>5, <1>6 DEF NoCall, ReaderOk, Starts

(* A step of one thread's call, with what it makes of the pointer and of    *)
(* the event to push: all that is left is that the call and the pointer are *)
(* in order.                                                                *)
LEMMA ReaderStep ==
  ASSUME TargetInv, NEW t \in Threads, NEW c \in CallType, NEW p \in PointerType,
         call' = [call EXCEPT ![t] = c], pointer' = p, UNCHANGED <<targetVars, client>>,
         ReaderOk(c),
         pushed' \in [Threads -> PushedType], MotionIsCoherent',
         ~client.overlap => /\ stores = <<>> /\ \A u \in Threads \ {t} : call[u].todo = <<>>
                            /\ c.todo = <<>> => Places(p, target.root)
                            /\ c.todo # <<>> => PlacesFor(c, p)
  PROVE  TargetInv'
<1>1. /\ UNCHANGED <<seq, target, targetArea, targetAreaHighWater, known, order>>
      /\ UNCHANGED <<stack, first, latest, holder, stores, storing, client>>
  BY DEF targetVars
<1>2. StoreTypes'
  BY <1>1 DEF TargetInv, StoreTypes
<1>3. WriterInv' /\ DecidedInv'
  BY <1>1 DEF TargetInv, WriterInv, DecidedInv, Decided, Left
<1>4. ListsInv' /\ PublishedInv'
  BY <1>1 DEF TargetInv, ListsInv, Names, PublishedInv, Left, Candidate
<1>5. call \in [Threads -> CallType]
  BY DEF TargetInv, ReaderTypes
<1>6. /\ call' \in [Threads -> CallType]
      /\ call'[t] = c
      /\ \A u \in Threads \ {t} : call'[u] = call[u]
  BY <1>5
<1>7. ReaderTypes'
  BY <1>6 DEF ReaderTypes, PointerType
<1>8. ReaderInv'
  <2> SUFFICES ASSUME NEW u \in Threads PROVE ReaderOk(call[u])'
    BY DEF ReaderInv
  <2>1. CASE u = t
    <3>1. call'[u] = c
      BY <2>1, <1>6
    <3> QED
      BY <3>1, <1>1 DEF ReaderOk
  <2>2. CASE u # t
    <3>1. call'[u] = call[u] /\ ReaderOk(call[u])
      BY <2>2, <1>6 DEF TargetInv, ReaderInv
    <3> QED
      BY <3>1, <1>1 DEF ReaderOk
  <2> QED
    BY <2>1, <2>2
<1>9. SerialInv'
  <2> SUFFICES ASSUME ~client.overlap PROVE SerialInv'
    BY <1>1 DEF SerialInv
  <2>1. stores' = <<>> /\ \A u \in Threads \ {t} : call'[u].todo = <<>>
    BY <1>1, <1>6
  <2>2. ~Left("root")'
    BY <2>1, HasNothing DEF Left
  <2>3. ASSUME Idle' PROVE Places(pointer', target'.root)
    <3>1. c.todo = <<>>
      BY <2>3, <1>6 DEF Idle
    <3> QED
      BY <3>1, <1>1
  <2>4. ASSUME NEW u \in Threads, call'[u].todo # <<>>
        PROVE  /\ \A v \in Threads \ {u} : call'[v].todo = <<>>
               /\ PlacesFor(call[u], pointer)'
    <3>1. u = t
      BY <2>1, <2>4
    <3>2. call'[u] = c /\ c.todo # <<>>
      BY <3>1, <2>4, <1>6
    <3>3. PlacesFor(c, p)
      BY <3>2
    <3>4. PlacesFor(call[u], pointer)'
      BY <3>2, <3>3, <1>1 DEF PlacesFor, Places
    <3> QED
      BY <3>1, <3>4, <2>1
  <2> QED
    BY <2>1, <2>2, <2>3, <2>4 DEF SerialInv
<1> QED
  BY <1>2, <1>3, <1>4, <1>7, <1>8, <1>9 DEF TargetInv

(* Where nothing overlaps, a call that is under way is alone.               *)
LEMMA CallIsAlone ==
  ASSUME TargetInv, NEW t \in Threads, call[t].todo # <<>>, ~client.overlap
  PROVE  /\ stores = <<>> /\ \A u \in Threads \ {t} : call[u].todo = <<>>
         /\ PlacesFor(call[t], pointer)
BY DEF TargetInv, SerialInv

(* A step that only reads.                                                  *)
LEMMA LoadStep ==
  ASSUME TargetInv, NEW t \in Threads, NEW c \in CallType, call[t].todo # <<>>,
         call' = [call EXCEPT ![t] = c], OnlyCall, ReaderOk(c),
         ~client.overlap => /\ c.todo = <<>> => Places(pointer, target.root)
                            /\ c.todo # <<>> => PlacesFor(c, pointer)
  PROVE  TargetInv'
<1>1. UNCHANGED <<targetVars, client, pointer, pushed>>
  BY DEF OnlyCall, scope
<1>2. pushed' \in [Threads -> PushedType] /\ MotionIsCoherent'
  BY <1>1 DEF TargetInv, ReaderTypes, MotionIsCoherent
<1>3. pointer \in PointerType /\ pointer' = pointer
  BY <1>1 DEF TargetInv, ReaderTypes, PointerType
<1>4. ~client.overlap => /\ stores = <<>> /\ \A u \in Threads \ {t} : call[u].todo = <<>>
  BY CallIsAlone
<1> QED
  BY <1>1, <1>2, <1>3, <1>4, ReaderStep

(* A call that goes on to its next step.                                    *)
LEMMA AdvanceFacts ==
  ASSUME TargetInv, NEW t \in Threads, call[t].todo # <<>>
  PROVE  /\ Advance(t) \in CallType /\ call[t] \in CallType
         /\ Tail(call[t].todo) = <<>> => Advance(t) = NoCall
         /\ Tail(call[t].todo) # <<>> => Advance(t) = [call[t] EXCEPT !.todo = Tail(@)]
         /\ Advance(t).todo = Tail(call[t].todo)
<1>1. call[t] \in CallType
  BY DEF TargetInv, ReaderTypes
<1>2. call[t].todo \in CallLists
  BY <1>1 DEF CallType
<1>3. Tail(call[t].todo) \in CallLists
  BY <1>2, CallSteps
<1>4. [call[t] EXCEPT !.todo = Tail(@)] \in CallType
  BY <1>1, <1>3 DEF CallType
<1>5. [call[t] EXCEPT !.todo = Tail(@)].todo = Tail(call[t].todo)
  BY <1>1 DEF CallType
<1> QED
  BY <1>1, <1>4, <1>5, NoCallFacts DEF Advance

(* What is so of a call under way.                                          *)
LEMMA UnderWay ==
  ASSUME TargetInv, NEW t \in Threads, call[t].todo # <<>>
  PROVE  /\ call[t].todo \in CallLists /\ call[t].before \in Nat /\ call[t].at \in Int
         /\ call[t].tries \in 0..(MaxAttempts - 1) /\ call[t].got \in TargetType
         /\ seq \in Nat /\ target \in TargetType
         /\ ReaderOk(call[t])
         /\ ~client.overlap => PlacesFor(call[t], pointer)
BY CallIsAlone DEF TargetInv, StoreTypes, ReaderTypes, ReaderInv, CallType

(* The start of a call.                                                     *)
LEMMA StartStep ==
  ASSUME TargetInv, NEW t \in Threads, NEW at \in Int, NEW todos \in CallLists,
         todos # <<>>, Head(todos) \in {"before", "id"}, StartCall(t, todos, at)
  PROVE  TargetInv'
<1> DEFINE s == IF seq % 2 = 0 THEN {target} ELSE {}
           c == [NoCall EXCEPT !.todo = todos, !.at = at, !.stable = s]
<1>1. call' = [call EXCEPT ![t] = c]
  BY DEF StartCall
<1>2. target \in TargetType /\ seq \in Nat
  BY DEF TargetInv, StoreTypes
<1>3. s \in SUBSET TargetType /\ (seq % 2 = 0 => target \in s)
  BY <1>2
<1> HIDE DEF s
<1>4. /\ c \in CallType /\ c.todo = todos /\ c.before = 0 /\ c.stable = s
  BY <1>3, NoCallFacts DEF CallType, NoCall
<1> HIDE DEF c
<1>5. ReaderOk(c)
  <2>1. ~Between(c.todo)
    BY <1>4, CallSteps
  <2> QED
    BY <1>2, <1>3, <1>4, <2>1 DEF ReaderOk, Starts
<1>6. UNCHANGED <<targetVars, client, pointer, pushed>>
  BY DEF StartCall
<1>7. pushed' \in [Threads -> PushedType] /\ MotionIsCoherent'
  BY <1>6 DEF TargetInv, ReaderTypes, MotionIsCoherent
<1>8. pointer \in PointerType /\ pointer' = pointer
  BY <1>6 DEF TargetInv, ReaderTypes, PointerType
<1>9. ASSUME ~client.overlap
      PROVE  /\ stores = <<>> /\ \A u \in Threads \ {t} : call[u].todo = <<>>
             /\ c.todo # <<>> => PlacesFor(c, pointer)
  <2>1. stores = <<>> /\ Idle
    BY <1>9 DEF StartCall, Idle
  <2>2. ~Left("root")
    BY <2>1, HasNothing DEF Left
  <2>3. Places(pointer, target.root)
    BY <1>9, <2>1, <2>2 DEF TargetInv, SerialInv
  <2> QED
    BY <1>4, <2>1, <2>3 DEF PlacesFor, Starts, Idle
<1>10. c.todo # <<>>
  BY <1>4
<1> QED
  BY <1>1, <1>4, <1>5, <1>6, <1>7, <1>8, <1>9, <1>10, ReaderStep

(* The two programs are calls that may be started.                          *)
LEMMA BothCallLists ==
  /\ XTestFakeMotionEvent \in CallLists /\ XTestFakeMotionEvent # <<>>
  /\ Head(XTestFakeMotionEvent) = "before"
  /\ XTestFakeRelativeMotionEvent \in CallLists /\ XTestFakeRelativeMotionEvent # <<>>
  /\ Head(XTestFakeRelativeMotionEvent) = "id"
<1>1. XTestFakeMotionEvent \in CallLists
  BY ProgramLists DEF CallLists, MotionLists
<1>2. XTestFakeRelativeMotionEvent \in CallLists
  BY ProgramLists DEF CallLists, RelativeLists
<1>3. XTestFakeMotionEvent # <<>> /\ Head(XTestFakeMotionEvent) = "before"
  BY ProgramLists
<1>4. XTestFakeRelativeMotionEvent # <<>> /\ Head(XTestFakeRelativeMotionEvent) = "id"
  BY ProgramLists
<1> QED
  BY <1>1, <1>2, <1>3, <1>4

(* A call that gives up.                                                    *)
LEMMA GivesUp ==
  ASSUME TargetInv, NEW t \in Threads, call[t].todo # <<>>,
         Head(call[t].todo) # "setRoot",
         call' = [call EXCEPT ![t] = NoCall], OnlyCall
  PROVE  TargetInv'
<1>1. NoCall \in CallType /\ ReaderOk(NoCall) /\ NoCall.todo = <<>>
  BY NoCallFacts
<1>2. ~client.overlap => Places(pointer, target.root)
  BY UnderWay DEF PlacesFor, Starts
<1> QED
  BY <1>1, <1>2, LoadStep

(* The first load of a reader's loop.                                       *)
LEMMA CounterRead ==
  ASSUME TargetInv, NEW t \in Threads, NEW step \in {"before", "before2"}, At(t, step),
         seq % 2 # 1, call' = [call EXCEPT ![t] = [Advance(t) EXCEPT !.before = seq]], OnlyCall
  PROVE  TargetInv'
<1> DEFINE c == [Advance(t) EXCEPT !.before = seq]
           rest == Tail(call[t].todo)
<1>1. call[t].todo # <<>> /\ Head(call[t].todo) = step
  BY DEF At, NextStep
<1>2. /\ call[t].todo \in CallLists /\ seq \in Nat
      /\ ReaderOk(call[t]) /\ (~client.overlap => PlacesFor(call[t], pointer))
  BY <1>1, UnderWay
<1>3. rest # <<>> /\ Head(rest) \in {"id", "root"} /\ ~Between(rest)
  BY <1>1, <1>2, CallSteps DEF Follows
<1>4. Advance(t) = [call[t] EXCEPT !.todo = rest] /\ Advance(t) \in CallType
  BY <1>1, <1>3, AdvanceFacts
<1>5. call[t] \in CallType
  BY <1>1, AdvanceFacts
<1>6. /\ c \in CallType /\ c.todo = rest /\ c.before = seq /\ c.stable = call[t].stable
  BY <1>2, <1>4, <1>5 DEF CallType
<1> HIDE DEF c, rest
<1>7. seq % 2 = 0
  BY <1>2
<1>8. ReaderOk(c)
  BY <1>1, <1>2, <1>3, <1>6, <1>7 DEF ReaderOk, Starts
<1>9. ~client.overlap => PlacesFor(c, pointer)
  BY <1>1, <1>2, <1>3, <1>6 DEF PlacesFor, Starts
<1> QED
  BY <1>1, <1>3, <1>6, <1>8, <1>9, LoadStep DEF c

(* Another attempt, from the top of the loop or, when there have been       *)
(* enough, with the one load that makes do.                                 *)
LEMMA RetryStep ==
  ASSUME TargetInv, NEW t \in Threads, call[t].todo # <<>>,
         Head(call[t].todo) \in {"before", "before2", "after", "after2"},
         NEW loop, NEW rest, Retry(t, loop, rest), OnlyCall,
         loop \o rest \in CallLists, loop \o rest # <<>>,
         Head(loop \o rest) \in {"before", "before2"},
         Head(loop) # "before" =>
           /\ <<"root">> \o rest \in CallLists /\ <<"root">> \o rest # <<>>
           /\ Head(<<"root">> \o rest) = "root" /\ ~Between(<<"root">> \o rest)
  PROVE  TargetInv'
<1> DEFINE again == loop \o rest
           once == <<"root">> \o rest
<1>1. /\ call[t] \in CallType /\ call[t].tries \in 0..(MaxAttempts - 1)
      /\ ReaderOk(call[t]) /\ (~client.overlap => PlacesFor(call[t], pointer))
  BY UnderWay, AdvanceFacts
<1>2. CASE call[t].tries + 1 < MaxAttempts
  <2> DEFINE c == [call[t] EXCEPT !.tries = @ + 1, !.todo = again]
  <2>1. call' = [call EXCEPT ![t] = c]
    BY <1>2 DEF Retry
  <2>2. call[t].tries + 1 \in 0..(MaxAttempts - 1)
    BY <1>1, <1>2, TargetAssumption
  <2>3. again \in CallLists
    OBVIOUS
  <2>4. ~Between(again)
    BY CallSteps
  <2> HIDE DEF again
  <2>5. /\ c \in CallType /\ c.todo = again /\ c.before = call[t].before
        /\ c.stable = call[t].stable
    BY <1>1, <2>2, <2>3 DEF CallType
  <2> HIDE DEF c
  <2>6. again # <<>> /\ Head(again) \in {"before", "before2"}
    BY DEF again
  <2>7. ReaderOk(c)
    BY <1>1, <2>4, <2>5, <2>6 DEF ReaderOk, Starts
  <2>8. ~client.overlap => PlacesFor(c, pointer)
    BY <1>1, <2>5, <2>6 DEF PlacesFor, Starts
  <2> QED
    BY <2>1, <2>5, <2>6, <2>7, <2>8, LoadStep
<1>3. CASE ~(call[t].tries + 1 < MaxAttempts) /\ Head(loop) = "before"
  <2>1. call' = [call EXCEPT ![t] = NoCall]
    BY <1>3 DEF Retry
  <2> QED
    BY <2>1, GivesUp
<1>4. CASE ~(call[t].tries + 1 < MaxAttempts) /\ Head(loop) # "before"
  <2> DEFINE c == [call[t] EXCEPT !.tries = 0, !.todo = once]
  <2>1. call' = [call EXCEPT ![t] = c]
    BY <1>4 DEF Retry
  <2>2. 0 \in 0..(MaxAttempts - 1)
    BY TargetAssumption
  <2>3. /\ once \in CallLists /\ once # <<>>
        /\ Head(once) = "root" /\ ~Between(once)
    BY <1>4
  <2> HIDE DEF once
  <2>4. /\ c \in CallType /\ c.todo = once /\ c.before = call[t].before
        /\ c.stable = call[t].stable
    BY <1>1, <2>2, <2>3 DEF CallType
  <2> HIDE DEF c
  <2>5. ReaderOk(c)
    BY <1>1, <2>3, <2>4 DEF ReaderOk, Starts
  <2>6. ~client.overlap => PlacesFor(c, pointer)
    BY <1>1, <2>3, <2>4 DEF PlacesFor, Starts
  <2> QED
    BY <2>1, <2>3, <2>4, <2>5, <2>6, LoadStep
<1> QED
  BY <1>2, <1>3, <1>4

(* Reading the counter before a load.                                       *)
LEMMA ReadBeforeStep ==
  ASSUME TargetInv, NEW t \in Threads, ReadBefore(t)
  PROVE  TargetInv'
<1>1. PICK step \in {"before", "before2"} :
        /\ At(t, step)
        /\ IF seq % 2 = 1
             THEN Retry(t, LoopOf(step), RestAfter(t, Len(LoopOf(step))))
             ELSE call' = [call EXCEPT ![t] = [Advance(t) EXCEPT !.before = seq]]
        /\ OnlyCall
  BY DEF ReadBefore
<1>2. call[t].todo # <<>> /\ Head(call[t].todo) = step
  BY <1>1 DEF At, NextStep
<1>3. call[t].todo \in CallLists
  BY <1>2, UnderWay
<1>4. CASE seq % 2 # 1
  BY <1>1, <1>4, CounterRead
<1>5. CASE seq % 2 = 1 /\ step = "before"
  <2> DEFINE loop == <<"before", "id", "root", "after">>
             rest == <<"local", "before2", "root", "after2", "setLocal", "setRoot", "setHas", "push">>
             all == <<"before", "id", "root", "after", "local", "before2", "root", "after2",
                      "setLocal", "setRoot", "setHas", "push">>
  <2>1. call[t].todo = all
    BY <1>2, <1>3, <1>5, CallSteps
  <2>2. LoopOf(step) = loop
    BY <1>5 DEF LoopOf, replayTargetTranslateRoot
  <2>3. Len(loop) = 4 /\ Len(all) = 12
    OBVIOUS
  <2>4. SubSeq(all, 5, 12) = rest /\ loop \o rest = all
    BY RetryLists
  <2>5. all # <<>> /\ Head(all) = "before" /\ Head(loop) = "before"
    OBVIOUS
  <2> HIDE DEF loop, rest, all
  <2>6. RestAfter(t, Len(LoopOf(step))) = rest
    <3>1. RestAfter(t, 4) = SubSeq(all, 4 + 1, 12)
      BY <2>1, <2>3 DEF RestAfter
    <3>2. 4 + 1 = 5
      OBVIOUS
    <3> QED
      BY <2>2, <2>3, <2>4, <3>1, <3>2
  <2>7. Retry(t, loop, rest)
    BY <1>1, <1>5, <2>2, <2>6
  <2> QED
    BY <1>1, <1>2, <1>3, <2>1, <2>4, <2>5, <2>7, RetryStep
<1>6. CASE seq % 2 = 1 /\ step = "before2"
  <2> DEFINE loop == <<"before2", "root", "after2">>
             motion == <<"setLocal", "setRoot", "setHas", "push">>
             relative == <<"setLocal", "setRoot", "setHas">>
             allM == <<"before2", "root", "after2", "setLocal", "setRoot", "setHas", "push">>
             allR == <<"before2", "root", "after2", "setLocal", "setRoot", "setHas">>
             onceM == <<"root", "setLocal", "setRoot", "setHas", "push">>
             onceR == <<"root", "setLocal", "setRoot", "setHas">>
  <2>1. call[t].todo = allM \/ call[t].todo = allR
    BY <1>2, <1>3, <1>6, CallSteps
  <2>2. LoopOf(step) = loop
    BY <1>6 DEF LoopOf
  <2>3. Len(loop) = 3 /\ Len(allM) = 7 /\ Len(allR) = 6
    OBVIOUS
  <2>4. /\ SubSeq(allM, 4, 7) = motion /\ SubSeq(allR, 4, 6) = relative
        /\ loop \o motion = allM /\ loop \o relative = allR
        /\ <<"root">> \o motion = onceM /\ <<"root">> \o relative = onceR
    BY RetryLists
  <2>5. /\ allM # <<>> /\ Head(allM) = "before2" /\ allR # <<>> /\ Head(allR) = "before2"
        /\ Head(loop) # "before"
    OBVIOUS
  <2>6. /\ onceM \in CallLists /\ onceM # <<>> /\ Head(onceM) = "root" /\ ~Between(onceM)
        /\ onceR \in CallLists /\ onceR # <<>> /\ Head(onceR) = "root" /\ ~Between(onceR)
    BY OnceLists
  <2> HIDE DEF loop, motion, relative, allM, allR, onceM, onceR
  <2>7. 3 + 1 = 4
    OBVIOUS
  <2>8. CASE call[t].todo = allM
    <3>1. RestAfter(t, Len(LoopOf(step))) = motion
      <4>1. RestAfter(t, 3) = SubSeq(allM, 3 + 1, 7)
        BY <2>8, <2>3 DEF RestAfter
      <4> QED
        BY <4>1, <2>2, <2>3, <2>4, <2>7
    <3>2. Retry(t, loop, motion)
      BY <1>1, <1>6, <2>2, <3>1
    <3>3. /\ loop \o motion \in CallLists /\ loop \o motion # <<>>
          /\ Head(loop \o motion) \in {"before", "before2"}
      BY <1>3, <2>8, <2>4, <2>5
    <3>4. /\ <<"root">> \o motion \in CallLists /\ <<"root">> \o motion # <<>>
          /\ Head(<<"root">> \o motion) = "root" /\ ~Between(<<"root">> \o motion)
      BY <2>4, <2>6
    <3>5. Head(call[t].todo) \in {"before", "before2", "after", "after2"}
      BY <1>2
    <3> QED
      BY <1>1, <1>2, <3>2, <3>3, <3>4, <3>5, RetryStep
  <2>9. CASE call[t].todo = allR
    <3>1. RestAfter(t, Len(LoopOf(step))) = relative
      <4>1. RestAfter(t, 3) = SubSeq(allR, 3 + 1, 6)
        BY <2>9, <2>3 DEF RestAfter
      <4> QED
        BY <4>1, <2>2, <2>3, <2>4, <2>7
    <3>2. Retry(t, loop, relative)
      BY <1>1, <1>6, <2>2, <3>1
    <3>3. /\ loop \o relative \in CallLists /\ loop \o relative # <<>>
          /\ Head(loop \o relative) \in {"before", "before2"}
      BY <1>3, <2>9, <2>4, <2>5
    <3>4. /\ <<"root">> \o relative \in CallLists /\ <<"root">> \o relative # <<>>
          /\ Head(<<"root">> \o relative) = "root" /\ ~Between(<<"root">> \o relative)
      BY <2>4, <2>6
    <3>5. Head(call[t].todo) \in {"before", "before2", "after", "after2"}
      BY <1>2
    <3> QED
      BY <1>1, <1>2, <3>2, <3>3, <3>4, <3>5, RetryStep
  <2> QED
    BY <2>1, <2>8, <2>9
<1> QED
  BY <1>4, <1>5, <1>6

(* Reading the counter after a load: when it has not moved, what was read   *)
(* is the target.                                                           *)
LEMMA ReadAfterStep ==
  ASSUME TargetInv, NEW t \in Threads, ReadAfter(t)
  PROVE  TargetInv'
<1>1. PICK step \in {"after", "after2"} :
        /\ At(t, step)
        /\ IF ~unchangedSince(t) THEN Retry(t, LoopOf(step), RestAfter(t, 1))
           ELSE call' = [call EXCEPT ![t] =
                  IF step = "after" /\ call[t].got.id = NoWindow THEN NoCall
                  ELSE [Advance(t) EXCEPT !.tries = 0]]
        /\ OnlyCall
  BY Zenon DEF ReadAfter
<1>2. call[t].todo # <<>> /\ Head(call[t].todo) = step
  BY <1>1 DEF At, NextStep
<1>3. /\ call[t].todo \in CallLists /\ seq \in Nat
      /\ ReaderOk(call[t]) /\ (~client.overlap => PlacesFor(call[t], pointer))
  BY <1>2, UnderWay
<1>4. CASE unchangedSince(t) /\ step = "after" /\ call[t].got.id = NoWindow
  <2>1. call' = [call EXCEPT ![t] = NoCall]
    BY <1>1, <1>4
  <2> QED
    BY <1>1, <1>2, <2>1, GivesUp
<1>5. CASE unchangedSince(t) /\ ~(step = "after" /\ call[t].got.id = NoWindow)
  <2> DEFINE c == [Advance(t) EXCEPT !.tries = 0]
             rest == Tail(call[t].todo)
  <2>1. call' = [call EXCEPT ![t] = c]
    BY <1>1, <1>5
  <2>2. /\ rest # <<>> /\ Head(rest) \in {"local", "setLocal"} /\ ~Between(rest)
        /\ Head(rest) = "local" => step = "after"
    BY <1>2, <1>3, CallSteps DEF Follows
  <2>3. Advance(t) = [call[t] EXCEPT !.todo = rest] /\ Advance(t) \in CallType
    BY <1>2, <2>2, AdvanceFacts
  <2>4. call[t] \in CallType /\ 0 \in 0..(MaxAttempts - 1)
    BY <1>2, AdvanceFacts, TargetAssumption
  <2>5. /\ c \in CallType /\ c.todo = rest /\ c.before = call[t].before
        /\ c.stable = call[t].stable /\ c.got = call[t].got
    BY <2>3, <2>4 DEF CallType
  <2> HIDE DEF c, rest
  <2>6. call[t].before = seq
    BY <1>5 DEF unchangedSince
  <2>7. target \in call[t].stable
    BY <1>2, <1>3, <2>6 DEF ReaderOk
  <2>8. step = "after" => call[t].got = target /\ call[t].got.id # NoWindow
    BY <1>2, <1>3, <1>5, <2>6 DEF ReaderOk, Starts
  <2>9. ReaderOk(c)
    BY <1>2, <1>3, <2>2, <2>5, <2>7, <2>8 DEF ReaderOk, Starts
  <2>10. ~client.overlap => PlacesFor(c, pointer)
    BY <1>2, <1>3, <2>2, <2>5 DEF PlacesFor, Starts
  <2> QED
    BY <1>1, <1>2, <2>1, <2>2, <2>5, <2>9, <2>10, LoadStep
<1>6. CASE ~unchangedSince(t) /\ step = "after"
  <2> DEFINE loop == <<"before", "id", "root", "after">>
             left == <<"after", "local", "before2", "root", "after2", "setLocal", "setRoot",
                       "setHas", "push">>
             rest == <<"local", "before2", "root", "after2", "setLocal", "setRoot", "setHas", "push">>
             all == <<"before", "id", "root", "after", "local", "before2", "root", "after2",
                      "setLocal", "setRoot", "setHas", "push">>
  <2>1. call[t].todo = left
    BY <1>2, <1>3, <1>6, CallSteps
  <2>2. LoopOf(step) = loop
    BY <1>6 DEF LoopOf, replayTargetTranslateRoot
  <2>3. Len(left) = 9
    OBVIOUS
  <2>4. SubSeq(left, 2, 9) = rest /\ loop \o rest = all
    BY RetryLists
  <2>5. all # <<>> /\ Head(all) = "before" /\ Head(loop) = "before"
    OBVIOUS
  <2>6. all \in CallLists
    BY DEF CallLists, MotionLists
  <2> HIDE DEF loop, left, rest, all
  <2>7. RestAfter(t, 1) = rest
    <3>1. RestAfter(t, 1) = SubSeq(left, 1 + 1, 9)
      BY <2>1, <2>3 DEF RestAfter
    <3>2. 1 + 1 = 2
      OBVIOUS
    <3> QED
      BY <2>4, <3>1, <3>2, Zenon
  <2>8. Retry(t, loop, rest)
    BY <1>1, <1>6, <2>2, <2>7
  <2>9. /\ loop \o rest \in CallLists /\ loop \o rest # <<>>
        /\ Head(loop \o rest) \in {"before", "before2"}
    BY <2>4, <2>5, <2>6
  <2>10. Head(call[t].todo) \in {"before", "before2", "after", "after2"}
    BY <1>2
  <2> QED
    BY <1>1, <1>2, <2>5, <2>8, <2>9, <2>10, RetryStep
<1>7. CASE ~unchangedSince(t) /\ step = "after2"
  <2> DEFINE loop == <<"before2", "root", "after2">>
             motion == <<"setLocal", "setRoot", "setHas", "push">>
             relative == <<"setLocal", "setRoot", "setHas">>
             leftM == <<"after2", "setLocal", "setRoot", "setHas", "push">>
             leftR == <<"after2", "setLocal", "setRoot", "setHas">>
             allM == <<"before2", "root", "after2", "setLocal", "setRoot", "setHas", "push">>
             allR == <<"before2", "root", "after2", "setLocal", "setRoot", "setHas">>
             onceM == <<"root", "setLocal", "setRoot", "setHas", "push">>
             onceR == <<"root", "setLocal", "setRoot", "setHas">>
  <2>1. call[t].todo = leftM \/ call[t].todo = leftR
    BY <1>2, <1>3, <1>7, CallSteps
  <2>2. LoopOf(step) = loop
    BY <1>7 DEF LoopOf
  <2>3. Len(leftM) = 5 /\ Len(leftR) = 4
    OBVIOUS
  <2>4. /\ SubSeq(leftM, 2, 5) = motion /\ SubSeq(leftR, 2, 4) = relative
        /\ loop \o motion = allM /\ loop \o relative = allR
        /\ <<"root">> \o motion = onceM /\ <<"root">> \o relative = onceR
    BY RetryLists
  <2>5. /\ allM # <<>> /\ Head(allM) = "before2" /\ allR # <<>> /\ Head(allR) = "before2"
    OBVIOUS
  <2>6. /\ onceM \in CallLists /\ onceM # <<>> /\ Head(onceM) = "root" /\ ~Between(onceM)
        /\ onceR \in CallLists /\ onceR # <<>> /\ Head(onceR) = "root" /\ ~Between(onceR)
    BY OnceLists
  <2>7. allM \in CallLists
    BY DEF CallLists, RememberLists
  <2>8. allR \in CallLists
    BY DEF CallLists, RelativeLists
  <2>9. Head(call[t].todo) \in {"before", "before2", "after", "after2"}
    BY <1>2
  <2> HIDE DEF loop, motion, relative, leftM, leftR, allM, allR, onceM, onceR
  <2>10. CASE call[t].todo = leftM
    <3>1. RestAfter(t, 1) = motion
      <4>1. RestAfter(t, 1) = SubSeq(leftM, 1 + 1, 5)
        BY <2>10, <2>3 DEF RestAfter
      <4>2. 1 + 1 = 2
        OBVIOUS
      <4> QED
        BY <4>1, <4>2, <2>4, Zenon
    <3>2. Retry(t, loop, motion)
      BY <1>1, <1>7, <2>2, <3>1
    <3>3. /\ loop \o motion \in CallLists /\ loop \o motion # <<>>
          /\ Head(loop \o motion) \in {"before", "before2"}
      BY <2>4, <2>5, <2>7
    <3>4. /\ <<"root">> \o motion \in CallLists /\ <<"root">> \o motion # <<>>
          /\ Head(<<"root">> \o motion) = "root" /\ ~Between(<<"root">> \o motion)
      BY <2>4, <2>6
    <3> QED
      BY <1>1, <1>2, <2>9, <3>2, <3>3, <3>4, RetryStep
  <2>11. CASE call[t].todo = leftR
    <3>1. RestAfter(t, 1) = relative
      <4>1. RestAfter(t, 1) = SubSeq(leftR, 1 + 1, 4)
        BY <2>11, <2>3 DEF RestAfter
      <4>2. 1 + 1 = 2
        OBVIOUS
      <4> QED
        BY <4>1, <4>2, <2>4, Zenon
    <3>2. Retry(t, loop, relative)
      BY <1>1, <1>7, <2>2, <3>1
    <3>3. /\ loop \o relative \in CallLists /\ loop \o relative # <<>>
          /\ Head(loop \o relative) \in {"before", "before2"}
      BY <2>4, <2>5, <2>8
    <3>4. /\ <<"root">> \o relative \in CallLists /\ <<"root">> \o relative # <<>>
          /\ Head(<<"root">> \o relative) = "root" /\ ~Between(<<"root">> \o relative)
      BY <2>4, <2>6
    <3> QED
      BY <1>1, <1>2, <2>9, <3>2, <3>3, <3>4, RetryStep
  <2> QED
    BY <2>1, <2>10, <2>11
<1> QED
  BY <1>4, <1>5, <1>6, <1>7

(* Reading the window.                                                      *)
LEMMA ReadIdStep ==
  ASSUME TargetInv, NEW t \in Threads, ReadId(t)
  PROVE  TargetInv'
<1>1. /\ At(t, "id") /\ OnlyCall
      /\ call' = [call EXCEPT ![t] =
           IF target.id = NoWindow /\ call[t].todo[2] = "pointer"
             THEN NoCall ELSE [Advance(t) EXCEPT !.got.id = target.id]]
  BY DEF ReadId
<1>2. call[t].todo # <<>> /\ Head(call[t].todo) = "id"
  BY <1>1 DEF At, NextStep
<1>3. /\ call[t].todo \in CallLists /\ seq \in Nat /\ target \in TargetType
      /\ ReaderOk(call[t]) /\ (~client.overlap => PlacesFor(call[t], pointer))
  BY <1>2, UnderWay
<1>4. CASE target.id = NoWindow /\ call[t].todo[2] = "pointer"
  <2>1. call' = [call EXCEPT ![t] = NoCall]
    BY <1>1, <1>4
  <2> QED
    BY <1>1, <1>2, <2>1, GivesUp
<1>5. CASE ~(target.id = NoWindow /\ call[t].todo[2] = "pointer")
  <2> DEFINE c == [Advance(t) EXCEPT !.got.id = target.id]
             rest == Tail(call[t].todo)
  <2>1. call' = [call EXCEPT ![t] = c]
    BY <1>1, <1>5
  <2>2. rest # <<>> /\ Head(rest) \in {"root", "pointer"}
    BY <1>2, <1>3, CallSteps DEF Follows
  <2>3. Advance(t) = [call[t] EXCEPT !.todo = rest] /\ Advance(t) \in CallType
    BY <1>2, <2>2, AdvanceFacts
  <2>4. call[t] \in CallType
    BY <1>2, AdvanceFacts
  <2>5. /\ c \in CallType /\ c.todo = rest /\ c.before = call[t].before
        /\ c.stable = call[t].stable /\ c.got.id = target.id
    BY <1>3, <2>3, <2>4 DEF CallType, TargetType
  <2> HIDE DEF c, rest
  <2>6. ReaderOk(c)
    BY <1>2, <1>3, <2>2, <2>5 DEF ReaderOk, Starts
  <2>7. ~client.overlap => PlacesFor(c, pointer)
    BY <1>2, <1>3, <2>2, <2>5 DEF PlacesFor, Starts
  <2> QED
    BY <1>1, <1>2, <2>1, <2>2, <2>5, <2>6, <2>7, LoadStep
<1> QED
  BY <1>4, <1>5

(* Reading the origin.                                                      *)
LEMMA ReadRootStep ==
  ASSUME TargetInv, NEW t \in Threads, ReadRoot(t)
  PROVE  TargetInv'
<1> DEFINE c == [Advance(t) EXCEPT !.got.root = target.root]
           rest == Tail(call[t].todo)
<1>1. At(t, "root") /\ OnlyCall /\ call' = [call EXCEPT ![t] = c]
  BY DEF ReadRoot
<1>2. call[t].todo # <<>> /\ Head(call[t].todo) = "root"
  BY <1>1 DEF At, NextStep
<1>3. /\ call[t].todo \in CallLists /\ seq \in Nat /\ target \in TargetType
      /\ ReaderOk(call[t]) /\ (~client.overlap => PlacesFor(call[t], pointer))
  BY <1>2, UnderWay
<1>4. /\ rest # <<>> /\ Head(rest) \in {"after", "after2", "setLocal"} /\ ~Between(rest)
      /\ Head(rest) = "after" => Between(call[t].todo)
  BY <1>2, <1>3, CallSteps DEF Follows
<1>5. Advance(t) = [call[t] EXCEPT !.todo = rest] /\ Advance(t) \in CallType
  BY <1>2, <1>4, AdvanceFacts
<1>6. call[t] \in CallType
  BY <1>2, AdvanceFacts
<1>7. /\ c \in CallType /\ c.todo = rest /\ c.before = call[t].before
      /\ c.stable = call[t].stable /\ c.got.root = target.root /\ c.got.id = call[t].got.id
      /\ c.got \in TargetType
  BY <1>3, <1>5, <1>6 DEF CallType, TargetType
<1> HIDE DEF c, rest
<1>8. c.before = seq /\ Starts(c, "after") => c.got = target
  <2> SUFFICES ASSUME c.before = seq, Starts(c, "after") PROVE c.got = target
    OBVIOUS
  <2>1. Between(call[t].todo)
    BY <1>4, <1>7 DEF Starts
  <2>2. c.got.id = target.id /\ c.got.root = target.root
    BY <1>3, <1>7, <2>1 DEF ReaderOk
  <2> QED
    BY <1>3, <1>7, <2>2 DEF TargetType
<1>9. ReaderOk(c)
  BY <1>2, <1>3, <1>4, <1>7, <1>8 DEF ReaderOk, Starts
<1>10. ~client.overlap => PlacesFor(c, pointer)
  BY <1>2, <1>3, <1>4, <1>7 DEF PlacesFor, Starts
<1> QED
  BY <1>1, <1>2, <1>4, <1>7, <1>9, <1>10, LoadStep

(* The distance of a relative motion becomes a place.                       *)
LEMMA ReadPointerStep ==
  ASSUME TargetInv, NEW t \in Threads, ReadPointer(t)
  PROVE  TargetInv'
<1> DEFINE moved == call[t].at + IF pointer.has THEN pointer.local ELSE 0
           c == [Advance(t) EXCEPT !.at = moved]
           rest == Tail(call[t].todo)
<1>1. At(t, "pointer") /\ OnlyCall
  BY DEF ReadPointer
<1>2. call[t].todo # <<>> /\ Head(call[t].todo) = "pointer"
  BY <1>1 DEF At, NextStep
<1>3. /\ call[t].todo \in CallLists /\ seq \in Nat /\ call[t].at \in Int
      /\ ReaderOk(call[t]) /\ (~client.overlap => PlacesFor(call[t], pointer))
  BY <1>2, UnderWay
<1>4. rest # <<>> /\ Head(rest) = "before2" /\ ~Between(rest)
  BY <1>2, <1>3, CallSteps DEF Follows
<1>5. Advance(t) = [call[t] EXCEPT !.todo = rest] /\ Advance(t) \in CallType
  BY <1>2, <1>4, AdvanceFacts
<1>6. call[t] \in CallType
  BY <1>2, AdvanceFacts
<1>7. Advance(t).at = call[t].at
  BY <1>5, <1>6 DEF CallType
<1>8. call' = [call EXCEPT ![t] = c]
  BY <1>7 DEF ReadPointer
<1>9. moved \in Int
  BY <1>3 DEF TargetInv, ReaderTypes
<1> HIDE DEF moved
<1>10. /\ c \in CallType /\ c.todo = rest /\ c.before = call[t].before
       /\ c.stable = call[t].stable
  BY <1>5, <1>6, <1>9 DEF CallType
<1> HIDE DEF c, rest
<1>11. ReaderOk(c)
  BY <1>2, <1>3, <1>4, <1>10 DEF ReaderOk, Starts
<1>12. ~client.overlap => PlacesFor(c, pointer)
  BY <1>2, <1>3, <1>4, <1>10 DEF PlacesFor, Starts
<1> QED
  BY <1>1, <1>2, <1>4, <1>8, <1>10, <1>11, <1>12, LoadStep

(* The place of a motion becomes local to the window that was read, and is  *)
(* kept for the event.                                                      *)
LEMMA ToLocalStep ==
  ASSUME TargetInv, NEW t \in Threads, ToLocal(t)
  PROVE  TargetInv'
<1> DEFINE local == call[t].at - call[t].got.root
           c == [Advance(t) EXCEPT !.at = local]
           e == [id |-> call[t].got.id, at |-> call[t].at, local |-> local,
                 stable |-> call[t].stable]
           rest == Tail(call[t].todo)
<1>1. /\ At(t, "local") /\ pushed' = [pushed EXCEPT ![t] = e]
      /\ UNCHANGED <<targetVars, pointer, client>>
  BY DEF ToLocal, scope
<1>2. call[t].todo # <<>> /\ Head(call[t].todo) = "local"
  BY <1>1 DEF At, NextStep
<1>3. /\ call[t].todo \in CallLists /\ seq \in Nat /\ call[t].at \in Int
      /\ call[t].got \in TargetType
      /\ ReaderOk(call[t]) /\ (~client.overlap => PlacesFor(call[t], pointer))
  BY <1>2, UnderWay
<1>4. rest # <<>> /\ Head(rest) = "before2" /\ ~Between(rest)
  BY <1>2, <1>3, CallSteps DEF Follows
<1>5. Advance(t) = [call[t] EXCEPT !.todo = rest] /\ Advance(t) \in CallType
  BY <1>2, <1>4, AdvanceFacts
<1>6. call[t] \in CallType
  BY <1>2, AdvanceFacts
<1>7. Advance(t).at = call[t].at
  BY <1>5, <1>6 DEF CallType
<1>8. call' = [call EXCEPT ![t] = c]
  BY <1>7 DEF ToLocal
<1>9. local \in Int
  BY <1>3 DEF TargetType
<1>10. /\ c \in CallType /\ c.todo = rest /\ c.before = call[t].before
       /\ c.stable = call[t].stable
  BY <1>5, <1>6, <1>9 DEF CallType
<1>11. pushed' \in [Threads -> PushedType]
  <2>1. e \in PushedType
    BY <1>3, <1>6, <1>9 DEF PushedType, CallType, TargetType
  <2> QED
    BY <1>1, <2>1 DEF TargetInv, ReaderTypes
<1>12. MotionIsCoherent'
  <2> SUFFICES ASSUME NEW u \in Threads, pushed'[u].id # NoWindow
               PROVE  \E s \in pushed'[u].stable :
                        s.id = pushed'[u].id /\ pushed'[u].local = pushed'[u].at - s.root
    BY DEF MotionIsCoherent
  <2>1. pushed \in [Threads -> PushedType]
    BY DEF TargetInv, ReaderTypes
  <2>2. CASE u = t
    <3>1. pushed'[u] = e
      BY <1>1, <2>1, <2>2
    <3>2. call[t].got \in call[t].stable
      BY <1>2, <1>3 DEF ReaderOk, Starts
    <3> QED
      BY <3>1, <3>2
  <2>3. CASE u # t
    <3>1. pushed'[u] = pushed[u]
      BY <1>1, <2>1, <2>3
    <3> QED
      BY <3>1 DEF TargetInv, MotionIsCoherent
  <2> QED
    BY <2>2, <2>3
<1> HIDE DEF c, e, rest, local
<1>13. ReaderOk(c)
  BY <1>2, <1>3, <1>4, <1>10 DEF ReaderOk, Starts
<1>14. ~client.overlap => PlacesFor(c, pointer)
  BY <1>2, <1>3, <1>4, <1>10 DEF PlacesFor, Starts
<1>15. pointer \in PointerType /\ pointer' = pointer
  BY <1>1 DEF TargetInv, ReaderTypes, PointerType
<1>16. ~client.overlap => stores = <<>> /\ \A u \in Threads \ {t} : call[u].todo = <<>>
  BY <1>2, CallIsAlone
<1> QED
  BY <1>1, <1>4, <1>8, <1>10, <1>11, <1>12, <1>13, <1>14, <1>15, <1>16, ReaderStep

(* Storing the injected pointer, a field at a time.                         *)
LEMMA SetPointerStep ==
  ASSUME TargetInv, NEW t \in Threads, SetPointer(t)
  PROVE  TargetInv'
<1> DEFINE c == Advance(t)
           step == Head(call[t].todo)
           rest == Tail(call[t].todo)
<1>1. /\ call[t].todo # <<>> /\ call' = [call EXCEPT ![t] = c]
      /\ UNCHANGED <<targetVars, pushed, client>>
  BY DEF SetPointer, scope
<1>2. \/ step = "setLocal" /\ pointer' = [pointer EXCEPT !.local = call[t].at]
      \/ step = "setRoot" /\ pointer' = [pointer EXCEPT !.root = call[t].got.root + call[t].at]
      \/ step = "setHas" /\ pointer' = [pointer EXCEPT !.has = TRUE]
  BY DEF SetPointer, NextStep
<1>3. /\ call[t].todo \in CallLists /\ seq \in Nat /\ call[t].at \in Int
      /\ call[t].got \in TargetType /\ target \in TargetType
      /\ ReaderOk(call[t]) /\ (~client.overlap => PlacesFor(call[t], pointer))
  BY <1>1, UnderWay
<1>4. /\ rest # <<>> => Head(rest) \in {"setRoot", "setHas", "push"}
      /\ rest # <<>> => (Head(rest) = "setRoot" <=> step = "setLocal")
      /\ rest # <<>> => (Head(rest) = "setHas" <=> step = "setRoot")
      /\ rest = <<>> => step = "setHas"
      /\ ~Between(rest)
  BY <1>1, <1>2, <1>3, CallSteps DEF Follows
<1>5. call[t] \in CallType /\ c \in CallType /\ c.todo = rest
  BY <1>1, AdvanceFacts
<1>6. rest # <<>> => /\ c.before = call[t].before /\ c.stable = call[t].stable
                     /\ c.at = call[t].at /\ c.got = call[t].got
  <2> SUFFICES ASSUME rest # <<>>
               PROVE  /\ c.before = call[t].before /\ c.stable = call[t].stable
                      /\ c.at = call[t].at /\ c.got = call[t].got
    OBVIOUS
  <2>1. c = [call[t] EXCEPT !.todo = rest]
    BY <1>1, AdvanceFacts
  <2> QED
    BY <1>5, <2>1 DEF CallType
<1>7. rest = <<>> => c = NoCall
  BY <1>1, AdvanceFacts
<1> HIDE DEF c, rest, step
<1>8. ReaderOk(c)
  <2>1. CASE rest = <<>>
    BY <1>7, <2>1, NoCallFacts
  <2>2. CASE rest # <<>>
    BY <1>1, <1>3, <1>4, <1>5, <1>6, <2>2 DEF ReaderOk, Starts
  <2> QED
    BY <2>1, <2>2
<1>9. pointer \in PointerType /\ call[t].got.root + call[t].at \in Int
  BY <1>3 DEF TargetInv, ReaderTypes, PointerType, TargetType
<1>10. pointer' \in PointerType
  BY <1>2, <1>3, <1>9 DEF PointerType
<1>11. ASSUME ~client.overlap
       PROVE  /\ rest = <<>> => Places(pointer', target.root)
              /\ rest # <<>> => PlacesFor(c, pointer')
  <2>1. PlacesFor(call[t], pointer)
    BY <1>3, <1>11
  <2>2. CASE step = "setLocal"
    <3>1. pointer'.local = call[t].at
      BY <1>2, <1>9, <2>2 DEF PointerType
    <3>2. call[t].got.root = target.root
      BY <2>1, <2>2 DEF PlacesFor, step
    <3>3. rest # <<>> /\ Head(rest) = "setRoot"
      BY <1>4, <2>2
    <3> QED
      BY <1>5, <1>6, <3>1, <3>2, <3>3 DEF PlacesFor, Starts
  <2>3. CASE step = "setRoot"
    <3>1. /\ pointer'.local = pointer.local /\ pointer'.has = pointer.has
          /\ pointer'.root = call[t].got.root + call[t].at
      BY <1>2, <1>9, <2>3 DEF PointerType
    <3>2. call[t].got.root = target.root /\ pointer.local = call[t].at
      BY <1>1, <2>1, <2>3 DEF PlacesFor, Starts, step
    <3>3. pointer'.local = pointer'.root - target.root
      <4>1. target.root \in Int
        BY <1>3 DEF TargetType
      <4> QED
        BY <1>3, <3>1, <3>2, <4>1
    <3>4. rest # <<>> /\ Head(rest) = "setHas"
      BY <1>4, <2>3
    <3> QED
      BY <1>5, <3>3, <3>4 DEF PlacesFor, Places, Starts
  <2>4. CASE step = "setHas"
    <3>1. pointer'.local = pointer.local /\ pointer'.root = pointer.root
      BY <1>2, <1>9, <2>4 DEF PointerType
    <3>2. pointer.local = pointer.root - target.root
      BY <1>1, <2>1, <2>4 DEF PlacesFor, Starts, step
    <3>3. Places(pointer', target.root)
      BY <3>1, <3>2 DEF Places
    <3>4. rest # <<>> => Head(rest) = "push"
      BY <1>4, <2>4
    <3> QED
      BY <1>5, <3>3, <3>4 DEF PlacesFor, Starts
  <2> QED
    BY <1>2, <2>2, <2>3, <2>4
<1>12. pushed' \in [Threads -> PushedType] /\ MotionIsCoherent'
  BY <1>1 DEF TargetInv, ReaderTypes, MotionIsCoherent
<1>13. ~client.overlap => stores = <<>> /\ \A u \in Threads \ {t} : call[u].todo = <<>>
  BY <1>1, CallIsAlone
<1>14. ~client.overlap => /\ stores = <<>> /\ \A u \in Threads \ {t} : call[u].todo = <<>>
                          /\ c.todo = <<>> => Places(pointer', target.root)
                          /\ c.todo # <<>> => PlacesFor(c, pointer')
  BY <1>5, <1>11, <1>13
<1> DEFINE p == pointer'
<1>15. p \in PointerType /\ pointer' = p
  BY <1>10
<1> QED
  BY <1>1, <1>5, <1>8, <1>10, <1>12, <1>14, ReaderStep

(* Pushing the event.                                                       *)
LEMMA PushStep ==
  ASSUME TargetInv, NEW t \in Threads, pushFakeEvent(t)
  PROVE  TargetInv'
<1>1. /\ At(t, "push") /\ pushed' = [pushed EXCEPT ![t] = NoEvent]
      /\ call' = [call EXCEPT ![t] = Advance(t)] /\ UNCHANGED <<targetVars, pointer, client>>
  BY DEF pushFakeEvent, scope
<1>2. call[t].todo # <<>> /\ Head(call[t].todo) = "push"
  BY <1>1 DEF At, NextStep
<1>3. call[t].todo \in CallLists /\ (~client.overlap => PlacesFor(call[t], pointer))
  BY <1>2, UnderWay
<1>4. Tail(call[t].todo) = <<>>
  BY <1>2, <1>3, CallSteps
<1>5. Advance(t) = NoCall
  BY <1>2, <1>4, AdvanceFacts
<1>6. NoCall \in CallType /\ ReaderOk(NoCall) /\ NoCall.todo = <<>>
  BY NoCallFacts
<1>7. NoEvent \in PushedType /\ NoEvent.id = NoWindow
  BY DEF NoEvent, PushedType
<1>8. pushed \in [Threads -> PushedType]
  BY DEF TargetInv, ReaderTypes
<1>9. pushed' \in [Threads -> PushedType]
  BY <1>1, <1>7, <1>8
<1>10. MotionIsCoherent'
  <2> SUFFICES ASSUME NEW u \in Threads, pushed'[u].id # NoWindow
               PROVE  \E s \in pushed'[u].stable :
                        s.id = pushed'[u].id /\ pushed'[u].local = pushed'[u].at - s.root
    BY DEF MotionIsCoherent
  <2>1. u # t
    BY <1>1, <1>7, <1>8
  <2>2. pushed'[u] = pushed[u]
    BY <1>1, <1>8, <2>1
  <2> QED
    BY <2>2 DEF TargetInv, MotionIsCoherent
<1>11. pointer \in PointerType /\ pointer' = pointer
  BY <1>1 DEF TargetInv, ReaderTypes, PointerType
<1>12. ~client.overlap => /\ stores = <<>> /\ \A u \in Threads \ {t} : call[u].todo = <<>>
                          /\ Places(pointer, target.root)
  BY <1>2, CallIsAlone DEF PlacesFor, Starts
<1> QED
  BY <1>1, <1>5, <1>6, <1>9, <1>10, <1>11, <1>12, ReaderStep

-----------------------------------------------------------------------------
(* Nothing is known, written or read at first.                              *)
LEMMA TargetInitially == TargetInit => TargetInv
<1> SUFFICES ASSUME TargetInit PROVE TargetInv
  OBVIOUS
<1> USE DEF TargetInit
<1>1. StoreTypes
  BY TargetAssumption DEF StoreTypes, TargetType, CandidateType, NoTarget, NoCandidate
<1>2. <<>> \in CallLists /\ <<>> \in EvenLists
  BY DEF CallLists, EvenLists
<1>3. <<>> \notin OddLists
  BY <1>2, ParityDisjoint
<1>4. NoCall \in CallType
  BY <1>2, TargetAssumption DEF NoCall, CallType, NoTarget, TargetType
<1>5. NoEvent \in PushedType /\ NoEvent.id = NoWindow
  BY DEF NoEvent, PushedType
<1>6. ReaderTypes
  BY <1>4, <1>5 DEF ReaderTypes
<1>7. WriterInv
  BY <1>2, <1>3 DEF WriterInv
<1>8. ~Left("id") /\ ~Left("root") /\ ~Left("publish")
  BY HasNothing DEF Left
<1>9. DecidedInv
  BY <1>8 DEF DecidedInv, Decided, NoTarget
<1>10. ListsInv /\ PublishedInv
  BY DEF ListsInv, Names, PublishedInv
<1>11. NoCall.todo = <<>> /\ NoCall.before = 0
  BY DEF NoCall
<1>12. ReaderInv
  <2>1. ~Between(<<>>)
    BY DEF Between
  <2> QED
    BY <1>11, <2>1 DEF ReaderInv, ReaderOk, Starts
<1>13. SerialInv
  BY <1>8, <1>11 DEF SerialInv, Idle, Places
<1>14. MotionIsCoherent
  BY <1>5 DEF MotionIsCoherent
<1> QED
  BY <1>1, <1>6, <1>7, <1>9, <1>10, <1>12, <1>13, <1>14 DEF TargetInv

(* Every step keeps it.                                                     *)
LEMMA TargetPreserved == TargetInv /\ [TargetNext]_replayTargetVars => TargetInv'
<1> SUFFICES ASSUME TargetInv, [TargetNext]_replayTargetVars PROVE TargetInv'
  OBVIOUS
<1>1. CASE \E w \in Windows, p \in Roots, a \in client.areas : replayTargetOfferWindow(w, p, a)
  BY <1>1, OfferStep
<1>2. CASE \E w \in Windows : replayTargetForgetWindow(w)
  BY <1>2, ForgetStep
<1>3. CASE \/ replayTargetSelectFirst \/ replayTargetSelectLatest
           \/ \E hit \in SUBSET Windows : replayTargetSelectAtRoot(hit)
  BY <1>3, Selections
<1>4. CASE Access
  BY <1>4, AccessStep
<1>5. ASSUME NEW t \in Threads, NEW p \in Roots, StartCall(t, XTestFakeMotionEvent, p)
      PROVE  TargetInv'
  <2>1. p \in Int
    BY TargetAssumption
  <2> QED
    BY <1>5, <2>1, BothCallLists, StartStep
<1>6. ASSUME NEW t \in Threads, NEW d \in {-1, 1}, StartCall(t, XTestFakeRelativeMotionEvent, d)
      PROVE  TargetInv'
  <2>1. d \in Int
    OBVIOUS
  <2> QED
    BY <1>6, <2>1, BothCallLists, StartStep
<1>7. ASSUME NEW t \in Threads,
             \/ ReadBefore(t) \/ ReadId(t) \/ ReadRoot(t) \/ ReadAfter(t)
             \/ ToLocal(t) \/ ReadPointer(t) \/ SetPointer(t) \/ pushFakeEvent(t)
      PROVE  TargetInv'
  BY <1>7, ReadBeforeStep, ReadIdStep, ReadRootStep, ReadAfterStep, ToLocalStep,
     ReadPointerStep, SetPointerStep, PushStep
<1>8. CASE UNCHANGED replayTargetVars
  <2>1. /\ UNCHANGED <<seq, target, targetArea, targetAreaHighWater, known, order>>
        /\ UNCHANGED <<stack, first, latest, holder, stores, storing>>
        /\ UNCHANGED <<pointer, call, pushed, client>>
    BY <1>8 DEF replayTargetVars, targetVars, scope
  <2>2. StoreTypes' /\ ReaderTypes'
    BY <2>1 DEF TargetInv, StoreTypes, ReaderTypes
  <2>3. WriterInv' /\ DecidedInv'
    BY <2>1 DEF TargetInv, WriterInv, DecidedInv, Decided, Left
  <2>4. ListsInv' /\ PublishedInv'
    BY <2>1 DEF TargetInv, ListsInv, Names, PublishedInv, Left, Candidate
  <2>5. ReaderInv' /\ MotionIsCoherent'
    BY <2>1 DEF TargetInv, ReaderInv, ReaderOk, MotionIsCoherent
  <2>6. SerialInv'
    BY <2>1 DEF TargetInv, SerialInv, Idle, Left, PlacesFor, Places
  <2> QED
    BY <2>2, <2>3, <2>4, <2>5, <2>6 DEF TargetInv
<1> QED
  BY <1>1, <1>2, <1>3, <1>4, <1>5, <1>6, <1>7, <1>8 DEF TargetNext

(* The inductive invariant: what the writer has decided is a known window   *)
(* or none, the counter is odd between the stores of a target, and a reader *)
(* whose counter is the present one has read the present target             *)
(* (replay-target.c).                                                       *)
THEOREM TargetInvariant == TargetSpec => []TargetInv
BY TargetInitially, TargetPreserved, PTL DEF TargetSpec

(* The target of injected input exists, at its place and size, the scripts' *)
(* stand-ins are the oldest and the newest window, a motion's window and    *)
(* position belong together though they are read with no lock, and the      *)
(* pointer goes with the target, for any windows, positions, sizes and      *)
(* number of attempts (replay-target.c, xtest.c:90).                        *)
THEOREM InjectedInputTheorem == TargetSpec => []InjectedInputIsSound
<1>1. TargetInv => InjectedInputIsSound
  <2> SUFFICES ASSUME TargetInv PROVE InjectedInputIsSound
    OBVIOUS
  <2>1. ASSUME holder = NoThread
        PROVE  /\ stores = <<>> /\ seq % 2 = 0
               /\ ~Left("publish") /\ ~Left("root")
               /\ Decided = [id |-> target.id, root |-> target.root]
    BY <2>1, NobodyWrites DEF TargetInv, StoreTypes
  <2>2. TargetTypeOK
    <3>1. \A t \in Threads : call[t].tries < MaxAttempts
      <4> TAKE t \in Threads
      <4>1. call[t].tries \in 0..(MaxAttempts - 1)
        BY DEF TargetInv, ReaderTypes, CallType
      <4> QED
        BY <4>1, TargetAssumption
    <3>2. /\ seq \in Nat /\ target.id \in Windows \union {NoWindow}
          /\ DOMAIN known \subseteq Windows /\ holder \in Threads \union {NoThread}
      BY DEF TargetInv, StoreTypes, TargetType
    <3>3. holder = NoThread <=> stores = <<>>
      BY DEF TargetInv, WriterInv
    <3> QED
      BY <2>1, <3>1, <3>2, <3>3 DEF TargetTypeOK
  <2>3. TargetIsKnown
    BY <2>1, <2>2 DEF TargetIsKnown, TargetInv, DecidedInv
  <2>4. CandidatesAreExtremes
    BY <2>1 DEF CandidatesAreExtremes, TargetInv, PublishedInv
  <2>5. PointerFollowsTarget
    BY <2>1 DEF PointerFollowsTarget, PointerMatches, TargetInv, SerialInv, Idle, Places
  <2> QED
    BY <2>3, <2>4, <2>5 DEF InjectedInputIsSound, TargetInv
<1> QED
  BY <1>1, TargetInvariant, PTL

-----------------------------------------------------------------------------
(* InputContext.                                                            *)

(* What the library has still to do, from the bottom of its stack.           *)
Depth == Len(running)
StepAt(k) == running[Depth + 1 - k]
Op(k) == StepAt(k).op
Of(k) == StepAt(k).ic
TopIs(op, ic) == Depth > 0 /\ Op(Depth) = op /\ Of(Depth) = ic

(* Of a preedit that is being handled: its callback and its further steps.   *)
PreeditOps == {"callback", "start", "draw", "caret", "done", "leave"}
StepOps == PreeditOps \union {"preedit", "unset", "focus", "free"}
StepType == [op : StepOps, ic : Contexts \union {NoContext}, n : Nat]
NextOp(op) == CASE op = "start" -> "draw" [] op = "draw" -> "caret"
                [] op = "caret" -> "done" [] OTHER -> "leave"

ContextTypes ==
  /\ program \in Programs
  /\ alive \subseteq Contexts /\ destroying \subseteq alive
  /\ preeditActive \subseteq alive /\ told \subseteq Contexts
  /\ preeditLength \in [Contexts -> Nat] /\ shown \in [Contexts -> Nat]
  /\ focused \in alive \union {NoContext} /\ nextFocus \in alive \union {NoContext}
  /\ textActive = (focused # NoContext) /\ hostSends = textActive
  /\ reentered \in BOOLEAN /\ orderly \in BOOLEAN
  /\ running \in Seq(StepType)
  /\ \A k \in 1..Depth : Op(k) # "preedit" => Of(k) \in Contexts

(* Below a step of a preedit is the next one, and below its callback one of  *)
(* those that check the focus, or the last.                                  *)
Continues(k) == Of(k - 1) = Of(k) /\ StepAt(k - 1).n = StepAt(k).n
Orders(k) ==
  /\ Op(k) \in {"preedit", "start"} => k = Depth
  /\ Op(k) \in {"start", "draw", "caret", "done"} =>
       k > 1 /\ Op(k - 1) = NextOp(Op(k)) /\ Continues(k)
  /\ Op(k) = "callback" =>
       k > 1 /\ Op(k - 1) \in {"draw", "caret", "done", "leave"} /\ Continues(k)
OrderInv ==
  /\ \A k \in 1..Depth : Orders(k)
  /\ \A j, k \in 1..Depth : Op(j) = "leave" /\ Op(k) = "leave" => j = k
  /\ reentered <=> \E k \in 1..Depth : Op(k) = "leave"

(* A context is freed once, when it is unfocused.                            *)
FreeInv ==
  /\ \A k \in 1..Depth :
       Op(k) = "free" =>
         /\ Of(k) \in destroying
         /\ IF k = Depth THEN focused # Of(k)
            ELSE Op(k + 1) = "unset" /\ Of(k + 1) = Of(k)
  /\ \A j, k \in 1..Depth :
       Op(j) = "free" /\ Op(k) = "free" /\ Of(j) = Of(k) => j = k

(* The context that is about to get the focus is that of the last step to    *)
(* move it, and is not freed before that.                                    *)
Awaits(q) ==
  /\ Op(q) = "focus" /\ Of(q) = nextFocus
  /\ \A j \in (q + 1)..Depth :
       Op(j) # "focus" /\ ~(Op(j) = "free" /\ Of(j) = nextFocus)
FocusInv == nextFocus # NoContext => \E q \in 1..Depth : Awaits(q)

(* What moves the focus or frees a context comes from a callback or from the *)
(* client, and the preedit that it ends first is that of the context that    *)
(* loses the focus.                                                          *)
Ends(k) ==
  /\ Op(k) \in {"preedit", "leave"} => Op(k - 1) \in {"unset", "focus"} /\ StepAt(k).n = 0
  /\ Op(k) = "preedit" => focused # NoContext /\ (Op(k - 1) = "unset" => Of(k - 1) = focused)
  /\ Op(k) = "leave" /\ Op(k - 1) = "unset" => Of(k - 1) = Of(k)
  /\ Op(k) \in {"free", "focus"} => Op(k - 1) = "callback"
  /\ Op(k) = "unset" => Op(k - 1) \in {"callback", "free"}
EndsInv == \A k \in 2..Depth : Ends(k)

(* What a client whose callbacks leave the focus alone is told.              *)
Ready(k) == k = Depth \/ Op(k + 1) = "callback"
CalmAt(k) ==
  /\ Op(k) = "focus" => k = 1
  /\ Op(k) = "unset" /\ k > 1 => Op(k - 1) = "free"
  /\ Op(k) \in PreeditOps =>
       /\ focused \in {Of(k), NoContext}
       /\ focused = Of(k) \/ Of(k) \notin alive \/ TopIs("free", Of(k))
CalmStep(k) ==
  Ready(k) /\ focused = Of(k) =>
    /\ Op(k) = "draw" /\ StepAt(k).n > 0 => Of(k) \in told
    /\ Op(k) = "caret" => Of(k) \in told
    /\ Op(k) \in {"caret", "done"} => shown[Of(k)] = StepAt(k).n
    /\ Op(k) = "leave" /\ StepAt(k).n = 0 => Of(k) \notin told
    /\ Op(k) = "unset" /\ k = Depth /\ Of(k) \in told => k > 1 /\ Op(k - 1) = "free"
CalmStack == \A k \in 1..Depth : CalmAt(k)
CalmSteps == \A k \in 1..Depth : CalmStep(k)
Midway(ic) ==
  \E k \in 1..Depth : Op(k) \in {"caret", "done"} /\ Of(k) = ic /\ Ready(k)
Seen(ic) ==
  /\ ic \in told => ic \in preeditActive \/ TopIs("free", ic)
  /\ ic \in told => ic = focused \/ TopIs("free", ic)
  /\ ic \notin told => shown[ic] = 0
  /\ ic \in alive => preeditLength[ic] = shown[ic] \/ Midway(ic)
CalmView ==
  /\ orderly /\ preeditActive \subseteq told
  /\ \A ic \in Contexts : Seen(ic)
  /\ Depth > 0 /\ Op(Depth) = "focus" => told = {}
CalmInv ==
  program.nested \subseteq {"destroy"} => CalmStack /\ CalmSteps /\ CalmView

ContextInv ==
  /\ ContextTypes /\ OrderInv /\ FreeInv /\ FocusInv /\ EndsInv /\ CalmInv
RunInv == OrderInv /\ FreeInv /\ FocusInv /\ EndsInv

(* A step of the library that leaves the d lowest steps of its stack alone.  *)
Keeps(d) ==
  /\ running' \in Seq(StepType) /\ Depth' \in Nat
  /\ \A k \in 1..d : StepAt(k)' = StepAt(k) /\ Op(k)' = Op(k) /\ Of(k)' = Of(k)

(* A stack counted from its bottom keeps its places when steps go from its   *)
(* top, or come there.                                                       *)
LEMMA DroppedFromTop ==
  ASSUME NEW S, NEW s \in Seq(S), NEW m \in Nat, m < Len(s)
  PROVE  /\ SubSeq(s, m + 1, Len(s)) \in Seq(S) /\ Len(s) \in Nat
         /\ Len(SubSeq(s, m + 1, Len(s))) = Len(s) - m
         /\ \A k \in 1..(Len(s) - m) :
              SubSeq(s, m + 1, Len(s))[Len(SubSeq(s, m + 1, Len(s))) + 1 - k]
                = s[Len(s) + 1 - k]
<1> DEFINE r == SubSeq(s, m + 1, Len(s))
<1>1. Len(s) \in Nat /\ DOMAIN s = 1..Len(s)
  BY LenProperties
<1>2. \A i \in (m + 1)..Len(s) : s[i] \in S
  BY <1>1, ElementOfSeq
<1>3. r \in Seq(S) /\ Len(r) = Len(s) - m /\ \A i \in 1..(Len(s) - m) : r[i] = s[m + i]
  <2>1. m + 1 \in 1..Len(s) /\ Len(s) \in (m + 1)..Len(s)
    BY <1>1
  <2>2. /\ r \in Seq(S) /\ Len(r) = Len(s) - (m + 1) + 1
        /\ \A i \in 1..(Len(s) - (m + 1) + 1) : r[i] = s[(m + 1) + i - 1]
    BY <1>1, <1>2, <2>1, SubSeqProperties
  <2>3. Len(s) - (m + 1) + 1 = Len(s) - m
    BY <1>1
  <2>4. \A i \in 1..(Len(s) - m) : (m + 1) + i - 1 = m + i
    BY <1>1
  <2> QED BY <2>2, <2>3, <2>4
<1>5. r = SubSeq(s, m + 1, Len(s))
  OBVIOUS
<1> HIDE DEF r
<1>4. ASSUME NEW k \in 1..(Len(s) - m)
      PROVE  r[Len(r) + 1 - k] = s[Len(s) + 1 - k]
  <2>1. Len(r) = Len(s) - m /\ m \in Nat /\ k \in 1..(Len(s) - m)
    BY <1>3
  <2>2. Len(r) + 1 - k \in 1..(Len(s) - m) /\ m + (Len(r) + 1 - k) = Len(s) + 1 - k
    BY ONLY <1>1, <2>1
  <2> QED BY <1>3, <2>2
<1> QED BY <1>1, <1>3, <1>4, <1>5

(* The same for one step.                                                    *)
LEMMA TailFromTop ==
  ASSUME NEW S, NEW s \in Seq(S), s # <<>>
  PROVE  /\ Tail(s) \in Seq(S) /\ Len(s) \in Nat \ {0} /\ Len(Tail(s)) = Len(s) - 1
         /\ Head(s) = s[Len(s) + 1 - Len(s)]
         /\ \A k \in 1..(Len(s) - 1) : Tail(s)[Len(Tail(s)) + 1 - k] = s[Len(s) + 1 - k]
<1> DEFINE r == Tail(s)
<1>1. Len(s) \in Nat \ {0}
  BY LenProperties, EmptySeq
<1>2. /\ r \in Seq(S) /\ Len(r) = Len(s) - 1
      /\ \A i \in 1..(Len(s) - 1) : r[i] = s[i + 1]
  BY HeadTailProperties
<1>5. r = Tail(s)
  OBVIOUS
<1> HIDE DEF r
<1>3. ASSUME NEW k \in 1..(Len(s) - 1)
      PROVE  r[Len(r) + 1 - k] = s[Len(s) + 1 - k]
  <2>1. Len(r) + 1 - k \in 1..(Len(s) - 1) /\ (Len(r) + 1 - k) + 1 = Len(s) + 1 - k
    BY <1>1, <1>2
  <2> QED BY <1>2, <2>1
<1>4. Head(s) = s[Len(s) + 1 - Len(s)]
  <2>1. Len(s) + 1 - Len(s) = 1
    BY <1>1
  <2> QED BY <2>1
<1> QED BY <1>1, <1>2, <1>3, <1>4, <1>5

(* And for steps that come on top.                                           *)
LEMMA PushedOnTop ==
  ASSUME NEW S, NEW p \in Seq(S), NEW s \in Seq(S)
  PROVE  /\ p \o s \in Seq(S) /\ Len(s) \in Nat /\ Len(p) \in Nat
         /\ Len(p \o s) = Len(s) + Len(p)
         /\ \A k \in 1..Len(s) : (p \o s)[Len(p \o s) + 1 - k] = s[Len(s) + 1 - k]
         /\ \A k \in (Len(s) + 1)..Len(p \o s) :
              (p \o s)[Len(p \o s) + 1 - k] = p[Len(p \o s) + 1 - k]
<1> DEFINE r == p \o s
<1>1. Len(s) \in Nat /\ Len(p) \in Nat
  BY LenProperties
<1>2. /\ r \in Seq(S) /\ Len(r) = Len(p) + Len(s)
      /\ \A i \in 1..(Len(p) + Len(s)) : r[i] = IF i <= Len(p) THEN p[i] ELSE s[i - Len(p)]
  BY ConcatProperties
<1>3. ASSUME NEW k \in 1..Len(s)
      PROVE  r[Len(r) + 1 - k] = s[Len(s) + 1 - k]
  <2>1. /\ Len(r) + 1 - k \in 1..(Len(p) + Len(s)) /\ ~(Len(r) + 1 - k <= Len(p))
        /\ (Len(r) + 1 - k) - Len(p) = Len(s) + 1 - k
    BY <1>1, <1>2
  <2> QED BY <1>2, <2>1
<1>4. ASSUME NEW k \in (Len(s) + 1)..Len(r)
      PROVE  r[Len(r) + 1 - k] = p[Len(r) + 1 - k]
  <2>1. Len(r) + 1 - k \in 1..(Len(p) + Len(s)) /\ Len(r) + 1 - k <= Len(p)
    BY <1>1, <1>2
  <2> QED BY <1>2, <2>1
<1>5. r = p \o s
  OBVIOUS
<1> HIDE DEF r
<1> QED BY <1>1, <1>2, <1>3, <1>4, <1>5

(* The steps of the stack are steps.                                         *)
LEMMA StepsHaveTypes ==
  ASSUME ContextTypes
  PROVE  /\ Depth \in Nat /\ (running # <<>> <=> Depth > 0)
         /\ \A k \in 1..Depth : /\ StepAt(k) \in StepType /\ Op(k) \in StepOps
                                /\ Of(k) \in Contexts \union {NoContext}
                                /\ StepAt(k).n \in Nat
<1>1. running \in Seq(StepType)
  BY DEF ContextTypes
<1>2. Len(running) \in Nat /\ (running # <<>> <=> Len(running) > 0)
  BY <1>1, LenProperties, EmptySeq
<1>3. ASSUME NEW k \in 1..Len(running) PROVE StepAt(k) \in StepType
  <2>1. Len(running) + 1 - k \in 1..Len(running)
    BY <1>2
  <2> QED BY <1>1, <2>1, ElementOfSeq DEF StepAt, Depth
<1> QED BY <1>2, <1>3 DEF Depth, Op, Of, StepType

(* What is kept of a step is kept of what it says.                           *)
LEMMA KeepsSteps ==
  ASSUME NEW d, running' \in Seq(StepType), \A k \in 1..d : StepAt(k)' = StepAt(k)
  PROVE  Keeps(d)
<1>1. \A k \in 1..d : Op(k)' = Op(k) /\ Of(k)' = Of(k)
  BY DEF Op, Of
<1>2. Depth' \in Nat
  BY LenProperties DEF Depth
<1> QED BY <1>1, <1>2 DEF Keeps

(* What the actions do to the stack, counted from its bottom.                *)
LEMMA Drops ==
  ASSUME ContextTypes, NEW m \in Nat, m < Depth, running' = SubSeq(running, m + 1, Len(running))
  PROVE  Keeps(Depth - m) /\ Depth' = Depth - m
<1>1. running \in Seq(StepType)
  BY DEF ContextTypes
<1>2. /\ running' \in Seq(StepType) /\ Len(running') = Len(running) - m /\ Len(running) \in Nat
      /\ \A k \in 1..(Len(running) - m) :
           running'[Len(running') + 1 - k] = running[Len(running) + 1 - k]
  <2>1. m < Len(running)
    BY DEF Depth
  <2> QED BY <1>1, <2>1, DroppedFromTop
<1>3. \A k \in 1..(Depth - m) : StepAt(k)' = StepAt(k)
  BY <1>2 DEF StepAt, Depth
<1>4. Depth' = Depth - m
  BY <1>2 DEF Depth
<1> QED BY <1>2, <1>3, <1>4, KeepsSteps

(* One step.                                                                 *)
LEMMA Pops ==
  ASSUME ContextTypes, running # <<>>, running' = Tail(running)
  PROVE  Keeps(Depth - 1) /\ Depth' = Depth - 1 /\ Depth > 0
<1>1. running \in Seq(StepType)
  BY DEF ContextTypes
<1>2. /\ running' \in Seq(StepType) /\ Len(running) \in Nat \ {0}
      /\ Len(running') = Len(running) - 1
      /\ \A k \in 1..(Len(running) - 1) :
           running'[Len(running') + 1 - k] = running[Len(running) + 1 - k]
  BY <1>1, TailFromTop
<1>3. \A k \in 1..(Depth - 1) : StepAt(k)' = StepAt(k)
  BY <1>2 DEF StepAt, Depth
<1>4. Depth' = Depth - 1 /\ Depth > 0
  BY <1>2 DEF Depth
<1> QED BY <1>2, <1>3, <1>4, KeepsSteps

(* New steps, and their places.                                              *)
LEMMA Pushes ==
  ASSUME ContextTypes, NEW p \in Seq(StepType), running' = p \o running
  PROVE  /\ Keeps(Depth) /\ Depth' = Depth + Len(p)
         /\ \A k \in (Depth + 1)..Depth' : StepAt(k)' = p[Depth' + 1 - k]
<1>1. running \in Seq(StepType)
  BY DEF ContextTypes
<1>2. /\ running' \in Seq(StepType) /\ Len(running) \in Nat /\ Len(p) \in Nat
      /\ Len(running') = Len(running) + Len(p)
      /\ \A k \in 1..Len(running) :
           running'[Len(running') + 1 - k] = running[Len(running) + 1 - k]
      /\ \A k \in (Len(running) + 1)..Len(running') :
           running'[Len(running') + 1 - k] = p[Len(running') + 1 - k]
  BY <1>1, PushedOnTop
<1>3. /\ \A k \in 1..Depth : StepAt(k)' = StepAt(k)
      /\ \A k \in (Depth + 1)..Depth' : StepAt(k)' = p[Depth' + 1 - k]
  BY <1>2 DEF StepAt, Depth
<1>4. Depth' = Depth + Len(p)
  BY <1>2 DEF Depth
<1> QED BY <1>2, <1>3, <1>4, KeepsSteps

(* New steps in the place of the one on top.                                 *)
LEMMA Replaces ==
  ASSUME ContextTypes, running # <<>>, NEW p \in Seq(StepType), running' = p \o Tail(running)
  PROVE  /\ Keeps(Depth - 1) /\ Depth' = Depth - 1 + Len(p)
         /\ \A k \in Depth..Depth' : StepAt(k)' = p[Depth' + 1 - k]
<1>1. running \in Seq(StepType)
  BY DEF ContextTypes
<1> DEFINE t == Tail(running)
<1>2. /\ t \in Seq(StepType) /\ Len(running) \in Nat \ {0} /\ Len(t) = Len(running) - 1
      /\ \A k \in 1..(Len(running) - 1) : t[Len(t) + 1 - k] = running[Len(running) + 1 - k]
  BY <1>1, TailFromTop
<1>3. running' = p \o t
  OBVIOUS
<1> HIDE DEF t
<1>4. /\ running' \in Seq(StepType) /\ Len(p) \in Nat /\ Len(running') = Len(t) + Len(p)
      /\ \A k \in 1..Len(t) : running'[Len(running') + 1 - k] = t[Len(t) + 1 - k]
      /\ \A k \in (Len(t) + 1)..Len(running') :
           running'[Len(running') + 1 - k] = p[Len(running') + 1 - k]
  <2> DEFINE r == p \o t
  <2>1. /\ r \in Seq(StepType) /\ Len(p) \in Nat /\ Len(r) = Len(t) + Len(p)
        /\ \A k \in 1..Len(t) : r[Len(r) + 1 - k] = t[Len(t) + 1 - k]
        /\ \A k \in (Len(t) + 1)..Len(r) : r[Len(r) + 1 - k] = p[Len(r) + 1 - k]
    <3>1. p \in Seq(StepType) /\ t \in Seq(StepType)
      BY <1>2
    <3> QED BY ONLY <3>1, PushedOnTop
  <2> QED BY ONLY <1>3, <2>1
<1>5. Len(t) + 1 = Len(running)
  BY <1>2
<1>6. /\ \A k \in 1..(Len(running) - 1) :
           running'[Len(running') + 1 - k] = running[Len(running) + 1 - k]
      /\ \A k \in Len(running)..Len(running') :
           running'[Len(running') + 1 - k] = p[Len(running') + 1 - k]
  BY <1>2, <1>4, <1>5
<1>7. /\ \A k \in 1..(Depth - 1) : StepAt(k)' = StepAt(k)
      /\ \A k \in Depth..Depth' : StepAt(k)' = p[Depth' + 1 - k]
  BY <1>6 DEF StepAt, Depth
<1>8. Depth' = Depth - 1 + Len(p)
  BY <1>2, <1>4 DEF Depth
<1> QED BY <1>4, <1>7, <1>8, KeepsSteps

(* What is on top of the stack.                                              *)
LEMMA TopStep ==
  ASSUME ContextTypes, running # <<>>
  PROVE  /\ Depth \in 1..Depth /\ StepAt(Depth) = Head(running)
         /\ Op(Depth) = Head(running).op /\ Of(Depth) = This /\ StepAt(Depth).n = Length
<1>1. running \in Seq(StepType)
  BY DEF ContextTypes
<1>2. Len(running) \in Nat \ {0} /\ Head(running) = running[Len(running) + 1 - Len(running)]
  BY <1>1, TailFromTop
<1>3. StepAt(Depth) = Head(running)
  BY <1>2 DEF StepAt, Depth
<1> QED BY <1>2, <1>3 DEF Depth, Op, Of, This, Length

-----------------------------------------------------------------------------
(* Steps of a preedit that move no focus.                                    *)
QuietOps == {"preedit", "callback", "start", "draw", "caret", "done"}

(* They may go.                                                              *)
LEMMA QuietDrop ==
  ASSUME ContextTypes, RunInv, NEW m \in Nat, m <= Depth, Keeps(Depth - m), Depth' = Depth - m,
         \A k \in (Depth - m + 1)..Depth : Op(k) \in QuietOps,
         UNCHANGED <<destroying, focused, nextFocus, reentered>>
  PROVE  RunInv' /\ \A k \in 1..Depth' : Op(k)' # "preedit" => Of(k)' \in Contexts
<1> DEFINE d == Depth - m
<1>1. /\ Depth \in Nat /\ d \in Nat /\ d <= Depth /\ Depth' = d
      /\ \A k \in 1..d : k \in 1..Depth /\ StepAt(k)' = StepAt(k) /\ Op(k)' = Op(k) /\ Of(k)' = Of(k)
      /\ \A k \in (d + 1)..Depth : Op(k) \in QuietOps
  BY StepsHaveTypes DEF Keeps
<1>2. OrderInv /\ FreeInv /\ FocusInv /\ EndsInv
  BY DEF RunInv
<1>3. \A k \in 1..d : Op(k) # "preedit" => Of(k) \in Contexts
  BY <1>1 DEF ContextTypes
<1> HIDE DEF d
<1>4. OrderInv'
  <2>1. ASSUME NEW k \in 1..d PROVE Orders(k)'
    <3>1. Orders(k)
      BY <1>1, <1>2 DEF OrderInv
    <3>2. k > 1 => k - 1 \in 1..d
      BY <1>1
    <3> QED BY <1>1, <3>1, <3>2 DEF Orders, Continues
  <2>2. \A j, k \in 1..d : Op(j)' = "leave" /\ Op(k)' = "leave" => j = k
    BY <1>1, <1>2 DEF OrderInv
  <2>3. reentered <=> \E k \in 1..d : Op(k) = "leave"
    <3>1. \A k \in 1..Depth : Op(k) = "leave" => k \in 1..d
      BY <1>1 DEF QuietOps
    <3> QED BY <1>1, <1>2, <3>1 DEF OrderInv
  <2> QED BY <1>1, <2>1, <2>2, <2>3 DEF OrderInv
<1>5. FreeInv'
  <2>1. ASSUME NEW k \in 1..d, Op(k) = "free"
        PROVE  /\ Of(k) \in destroying
               /\ k = d => focused # Of(k)
               /\ k # d => Op(k + 1) = "unset" /\ Of(k + 1) = Of(k)
    <3>1. k \in 1..Depth
      BY <1>1
    <3>2. Of(k) \in destroying /\ (k = Depth => focused # Of(k))
          /\ (k # Depth => Op(k + 1) = "unset" /\ Of(k + 1) = Of(k))
      BY <1>2, <2>1, <3>1 DEF FreeInv
    <3>3. CASE k # d
      <4>1. k # Depth
        BY <1>1, <3>3
      <4> QED BY <3>2, <3>3, <4>1
    <3>4. CASE k = d /\ d = Depth
      BY <3>2, <3>4
    <3>5. CASE k = d /\ d # Depth
      <4>1. k + 1 \in (d + 1)..Depth
        BY <1>1, <3>5
      <4> QED BY <1>1, <3>2, <3>5, <4>1 DEF QuietOps
    <3> QED BY <3>3, <3>4, <3>5
  <2>2. \A k \in 1..d : k # d => k + 1 \in 1..d
    BY <1>1
  <2>3. \A j, k \in 1..d : Op(j) = "free" /\ Op(k) = "free" /\ Of(j) = Of(k) => j = k
    BY <1>1, <1>2 DEF FreeInv
  <2>4. ASSUME NEW k \in 1..d, Op(k)' = "free"
        PROVE  Of(k)' \in destroying' /\ IF k = Depth' THEN focused' # Of(k)'
               ELSE Op(k + 1)' = "unset" /\ Of(k + 1)' = Of(k)'
    BY <1>1, <2>1, <2>2, <2>4
  <2> QED BY <1>1, <2>3, <2>4 DEF FreeInv
<1>6. FocusInv'
  <2> SUFFICES ASSUME nextFocus # NoContext PROVE \E q \in 1..d : Awaits(q)'
    BY <1>1 DEF FocusInv
  <2>1. PICK q \in 1..Depth : Awaits(q)
    BY <1>2 DEF FocusInv
  <2>2. q \in 1..d
    BY <1>1, <2>1 DEF Awaits, QuietOps
  <2>3. \A j \in (q + 1)..d : j \in 1..d /\ j \in (q + 1)..Depth
    BY <1>1, <2>2
  <2>4. Awaits(q)'
    BY <1>1, <2>1, <2>2, <2>3 DEF Awaits
  <2> QED BY <2>2, <2>4
<1>7. EndsInv'
  <2> SUFFICES ASSUME NEW k \in 2..d PROVE Ends(k)'
    BY <1>1 DEF EndsInv
  <2>1. k \in 2..Depth /\ k \in 1..d /\ k - 1 \in 1..d
    BY <1>1
  <2>2. Ends(k)
    BY <1>2, <2>1 DEF EndsInv
  <2> QED BY <1>1, <2>1, <2>2 DEF Ends
<1> QED BY <1>1, <1>3, <1>4, <1>5, <1>6, <1>7 DEF RunInv

(* Or call the client, and come back to the next of them.                    *)
LEMMA QuietCall ==
  ASSUME ContextTypes, RunInv, NEW d \in Nat \ {0}, Depth = d, Depth' = d, Keeps(d - 1),
         Op(d) \in {"start", "draw", "caret", "done"},
         StepAt(d)' = Step("callback", Of(d), StepAt(d).n),
         UNCHANGED <<destroying, focused, nextFocus, reentered>>
  PROVE  RunInv' /\ \A k \in 1..Depth' : Op(k)' # "preedit" => Of(k)' \in Contexts
<1>1. \A k \in 1..(d - 1) : /\ k \in 1..d
                            /\ StepAt(k)' = StepAt(k) /\ Op(k)' = Op(k) /\ Of(k)' = Of(k)
  BY DEF Keeps
<1>2. OrderInv /\ FreeInv /\ FocusInv /\ EndsInv
  BY DEF RunInv
<1>3. \A k \in 1..d : Op(k) # "preedit" => Of(k) \in Contexts
  BY DEF ContextTypes
<1>4. Op(d)' = "callback" /\ Of(d)' = Of(d) /\ StepAt(d)'.n = StepAt(d).n
  BY DEF Op, Of, Step
<1>5. /\ d > 1 /\ d - 1 \in 1..(d - 1) /\ Continues(d)
      /\ Op(d - 1) \in {"draw", "caret", "done", "leave"}
  <2>1. Orders(d)
    BY <1>2 DEF OrderInv
  <2> QED BY <2>1 DEF Orders, NextOp
<1>6. OrderInv'
  <2>1. ASSUME NEW k \in 1..d PROVE Orders(k)'
    <3>1. CASE k = d
      <4>1. Continues(d)'
        BY <1>1, <1>4, <1>5 DEF Continues
      <4> QED BY <1>1, <1>4, <1>5, <3>1, <4>1 DEF Orders
    <3>2. CASE k # d
      <4>1. Orders(k) /\ k \in 1..(d - 1)
        BY <1>2, <3>2 DEF OrderInv
      <4>2. k > 1 => k - 1 \in 1..(d - 1)
        BY <4>1
      <4> QED BY <1>1, <3>2, <4>1, <4>2 DEF Orders, Continues
    <3> QED BY <3>1, <3>2
  <2>2. \A k \in 1..d : Op(k)' = "leave" <=> Op(k) = "leave"
    <3> SUFFICES ASSUME NEW k \in 1..d PROVE Op(k)' = "leave" <=> Op(k) = "leave"
      OBVIOUS
    <3>1. CASE k = d
      BY <1>4, <3>1
    <3>2. CASE k # d
      BY <1>1, <3>2
    <3> QED BY <3>1, <3>2
  <2> QED BY <1>2, <2>1, <2>2 DEF OrderInv
<1>7. FreeInv'
  <2>1. ASSUME NEW k \in 1..d, Op(k)' = "free"
        PROVE  /\ k \in 1..(d - 1) /\ k # d /\ Op(k) = "free" /\ Of(k)' = Of(k)
               /\ Of(k) \in destroying /\ Op(k + 1)' = "unset" /\ Of(k + 1)' = Of(k)
    <3>1. k # d /\ k \in 1..(d - 1)
      BY <1>4, <2>1
    <3>2. Of(k) \in destroying /\ Op(k + 1) = "unset" /\ Of(k + 1) = Of(k)
      BY <1>1, <1>2, <2>1, <3>1 DEF FreeInv
    <3>3. k + 1 # d
      BY <3>2
    <3>4. k + 1 \in 1..(d - 1)
      BY <3>1, <3>3
    <3> QED BY <1>1, <2>1, <3>1, <3>2, <3>4
  <2>2. \A j, k \in 1..d : Op(j)' = "free" /\ Op(k)' = "free" /\ Of(j)' = Of(k)' => j = k
    BY <1>2, <2>1 DEF FreeInv
  <2> QED BY <2>1, <2>2 DEF FreeInv
<1>8. FocusInv'
  <2> SUFFICES ASSUME nextFocus # NoContext PROVE \E q \in 1..d : Awaits(q)'
    BY DEF FocusInv
  <2>1. PICK q \in 1..d : Awaits(q)
    BY <1>2 DEF FocusInv
  <2>2. q \in 1..(d - 1)
    BY <2>1 DEF Awaits
  <2>3. ASSUME NEW j \in (q + 1)..d
        PROVE  Op(j)' # "focus" /\ ~(Op(j)' = "free" /\ Of(j)' = nextFocus)
    <3>1. CASE j = d
      BY <1>4, <3>1
    <3>2. CASE j # d
      <4>1. j \in 1..(d - 1)
        BY <2>2, <3>2
      <4> QED BY <1>1, <2>1, <4>1 DEF Awaits
    <3> QED BY <3>1, <3>2
  <2> QED BY <1>1, <2>1, <2>2, <2>3 DEF Awaits
<1>9. EndsInv'
  <2> SUFFICES ASSUME NEW k \in 2..d PROVE Ends(k)'
    BY DEF EndsInv
  <2>1. CASE k = d
    BY <1>4, <2>1 DEF Ends
  <2>2. CASE k # d
    <3>1. k \in 1..(d - 1) /\ k - 1 \in 1..(d - 1)
      BY <2>2
    <3>2. Ends(k)
      BY <1>2 DEF EndsInv
    <3> QED BY <1>1, <3>1, <3>2 DEF Ends
  <2> QED BY <2>1, <2>2
<1>10. \A k \in 1..d : Op(k)' # "preedit" => Of(k)' \in Contexts
  <2> SUFFICES ASSUME NEW k \in 1..d, Op(k)' # "preedit" PROVE Of(k)' \in Contexts
    OBVIOUS
  <2>1. CASE k = d
    BY <1>3, <1>4, <2>1
  <2>2. CASE k # d
    BY <1>1, <1>3, <2>2
  <2> QED BY <2>1, <2>2
<1> QED BY <1>6, <1>7, <1>8, <1>9, <1>10 DEF RunInv

(* What a call of the client may add.                                        *)
CallOps == {"preedit", "unset", "focus", "free"}

(* A call of the client leaves the stack in order.                           *)
LEMMA CallPushes ==
  ASSUME ContextTypes, RunInv, NEW d \in Nat, Depth = d, d > 0 => Op(d) = "callback",
         NEW e \in Nat, Depth' = e, d <= e, Keeps(d),
         \A k \in (d + 1)..e :
           /\ Op(k)' \in CallOps /\ (Op(k)' = "preedit" => k = e)
           /\ Op(k)' # "preedit" => Of(k)' \in Contexts
           /\ Op(k)' = "free" =>
                /\ k = d + 1 /\ Of(k)' \in destroying' \ destroying
                /\ IF k = e THEN focused # Of(k)'
                   ELSE Op(k + 1)' = "unset" /\ Of(k + 1)' = Of(k)'
           /\ Op(k)' = "preedit" =>
                IF k = d + 1 THEN d = 0
                ELSE /\ StepAt(k)'.n = 0 /\ focused # NoContext
                     /\ Op(k - 1)' \in {"unset", "focus"}
                     /\ Op(k - 1)' = "unset" => Of(k - 1)' = focused
           /\ Op(k)' = "focus" => k = d + 1
           /\ Op(k)' = "unset" => k = d + 1 \/ Op(k - 1)' = "free",
         \/ Op(d + 1)' = "focus" /\ Of(d + 1)' = nextFocus' /\ e = d + 2 /\ Op(e)' = "preedit"
         \/ /\ nextFocus' \in {nextFocus, NoContext}
            /\ \A k \in (d + 1)..e :
                 Op(k)' # "focus" /\ ~(Op(k)' = "free" /\ Of(k)' = nextFocus'),
         destroying \subseteq destroying', focused' = focused, reentered' = reentered
  PROVE  RunInv' /\ \A k \in 1..Depth' : Op(k)' # "preedit" => Of(k)' \in Contexts
<1>1. \A k \in 1..d : StepAt(k)' = StepAt(k) /\ Op(k)' = Op(k) /\ Of(k)' = Of(k)
  BY DEF Keeps
<1>2. OrderInv /\ FreeInv /\ FocusInv /\ EndsInv
  BY DEF RunInv
<1>3. \A k \in 1..d : Op(k) # "preedit" => Of(k) \in Contexts
  BY DEF ContextTypes
<1>4. \A k \in 1..e : k \in 1..d \/ k \in (d + 1)..e
  OBVIOUS
<1>5. \A k \in (d + 1)..e : Op(k)' \in CallOps
  OBVIOUS
<1>6. OrderInv'
  <2>1. ASSUME NEW k \in 1..d PROVE Orders(k)'
    <3>1. Orders(k)
      BY <1>2 DEF OrderInv
    <3>2. k > 1 => k - 1 \in 1..d
      OBVIOUS
    <3>3. Op(k) \notin {"preedit", "start"}
      <4>1. CASE k = d
        BY <4>1
      <4>2. CASE k # d
        BY <3>1, <4>2 DEF Orders
      <4> QED BY <4>1, <4>2
    <3> QED BY <1>1, <3>1, <3>2, <3>3 DEF Orders, Continues
  <2>2. ASSUME NEW k \in (d + 1)..e PROVE Orders(k)' /\ Op(k)' # "leave"
    BY <1>5 DEF Orders, CallOps
  <2>3. \A k \in 1..e : Op(k)' = "leave" => k \in 1..d /\ Op(k) = "leave"
    BY <1>1, <1>4, <2>2
  <2>4. \A k \in 1..d : k \in 1..e
    OBVIOUS
  <2>5. \A k \in 1..e : Orders(k)'
    BY <1>4, <2>1, <2>2
  <2>6. \A j, k \in 1..e : Op(j)' = "leave" /\ Op(k)' = "leave" => j = k
    BY <1>2, <2>3 DEF OrderInv
  <2>7. reentered' <=> \E k \in 1..e : Op(k)' = "leave"
    BY <1>1, <1>2, <2>3, <2>4 DEF OrderInv
  <2> QED BY <2>5, <2>6, <2>7 DEF OrderInv
<1>7. FreeInv'
  <2>1. ASSUME NEW k \in 1..d, Op(k) = "free"
        PROVE  /\ k # e /\ Of(k) \in destroying
               /\ Op(k + 1)' = "unset" /\ Of(k + 1)' = Of(k)
    <3>1. k # d /\ k + 1 \in 1..d
      BY <2>1
    <3> QED BY <1>1, <1>2, <2>1, <3>1 DEF FreeInv
  <2>2. ASSUME NEW k \in (d + 1)..e, Op(k)' = "free"
        PROVE  /\ k = d + 1 /\ Of(k)' \in destroying' /\ Of(k)' \notin destroying
               /\ IF k = e THEN focused # Of(k)'
                  ELSE Op(k + 1)' = "unset" /\ Of(k + 1)' = Of(k)'
    BY <2>2
  <2>3. ASSUME NEW k \in 1..e, Op(k)' = "free"
        PROVE  /\ Of(k)' \in destroying'
               /\ IF k = e THEN focused # Of(k)'
                  ELSE Op(k + 1)' = "unset" /\ Of(k + 1)' = Of(k)'
    <3>1. CASE k \in 1..d
      BY <1>1, <2>1, <2>3, <3>1
    <3>2. CASE k \in (d + 1)..e
      BY <2>2, <2>3, <3>2
    <3> QED BY <1>4, <3>1, <3>2
  <2>4. ASSUME NEW j \in 1..e, NEW k \in 1..e,
               Op(j)' = "free", Op(k)' = "free", Of(j)' = Of(k)'
        PROVE  j = k
    <3>1. CASE j \in 1..d /\ k \in 1..d
      BY <1>1, <1>2, <2>4, <3>1 DEF FreeInv
    <3>2. CASE j \in (d + 1)..e /\ k \in (d + 1)..e
      BY <2>2, <2>4, <3>2
    <3>3. CASE j \in 1..d /\ k \in (d + 1)..e
      BY <1>1, <2>1, <2>2, <2>4, <3>3
    <3>4. CASE j \in (d + 1)..e /\ k \in 1..d
      BY <1>1, <2>1, <2>2, <2>4, <3>4
    <3> QED BY <1>4, <3>1, <3>2, <3>3, <3>4
  <2> QED BY <2>3, <2>4 DEF FreeInv
<1>8. FocusInv'
  <2> SUFFICES ASSUME nextFocus' # NoContext PROVE \E q \in 1..e : Awaits(q)'
    BY DEF FocusInv
  <2>1. CASE Op(d + 1)' = "focus" /\ Of(d + 1)' = nextFocus' /\ e = d + 2 /\ Op(e)' = "preedit"
    <3>1. d + 1 \in 1..e /\ \A j \in (d + 1 + 1)..e : j = e
      BY <2>1
    <3>2. Awaits(d + 1)'
      BY <2>1, <3>1 DEF Awaits
    <3> QED BY <3>1, <3>2
  <2>2. CASE /\ nextFocus' \in {nextFocus, NoContext}
             /\ \A k \in (d + 1)..e :
                  Op(k)' # "focus" /\ ~(Op(k)' = "free" /\ Of(k)' = nextFocus')
    <3>1. PICK q \in 1..d : Awaits(q)
      BY <1>2, <2>2 DEF FocusInv
    <3>2. ASSUME NEW j \in (q + 1)..e
          PROVE  Op(j)' # "focus" /\ ~(Op(j)' = "free" /\ Of(j)' = nextFocus')
      <4>1. CASE j \in (d + 1)..e
        BY <2>2, <4>1
      <4>2. CASE j \in (q + 1)..d
        <5>1. j \in 1..d
          BY <4>2
        <5> QED BY <1>1, <2>2, <3>1, <4>2, <5>1 DEF Awaits
      <4> QED BY <4>1, <4>2
    <3>3. Awaits(q)' /\ q \in 1..e
      BY <1>1, <2>2, <3>1, <3>2 DEF Awaits
    <3> QED BY <3>3
  <2> QED BY <2>1, <2>2
<1>9. EndsInv'
  <2> SUFFICES ASSUME NEW k \in 2..e PROVE Ends(k)'
    BY DEF EndsInv
  <2>1. CASE k \in 1..d
    <3>1. k - 1 \in 1..d /\ k \in 2..d
      BY <2>1
    <3>2. Ends(k)
      BY <1>2, <3>1 DEF EndsInv
    <3> QED BY <1>1, <2>1, <3>1, <3>2 DEF Ends
  <2>2. CASE k = d + 1
    <3>1. k - 1 = d /\ d \in 1..d /\ Op(k)' # "leave" /\ Op(k)' # "preedit"
      BY <1>5, <2>2 DEF CallOps
    <3>2. Op(k - 1)' = "callback"
      BY <1>1, <3>1
    <3> QED BY <3>1, <3>2 DEF Ends
  <2>3. CASE k \in (d + 1)..e /\ k > d + 1
    BY <1>5, <2>3 DEF CallOps, Ends
  <2> QED BY <2>1, <2>2, <2>3
<1>10. \A k \in 1..e : Op(k)' # "preedit" => Of(k)' \in Contexts
  BY <1>1, <1>3, <1>4
<1> QED BY <1>6, <1>7, <1>8, <1>9, <1>10 DEF RunInv

(* Nor does the focus disturb it that a client takes in a callback.          *)
LEMMA FocusMoves ==
  ASSUME ContextTypes, RunInv, Depth > 0 => Op(Depth) = "callback",
         UNCHANGED <<running, destroying, nextFocus, reentered>>
  PROVE  RunInv' /\ \A k \in 1..Depth' : Op(k)' # "preedit" => Of(k)' \in Contexts
<1>1. /\ Depth' = Depth /\ Depth \in Nat
      /\ \A k \in Nat : StepAt(k)' = StepAt(k) /\ Op(k)' = Op(k) /\ Of(k)' = Of(k)
  BY StepsHaveTypes DEF StepAt, Depth, Op, Of
<1>2. OrderInv /\ FreeInv /\ FocusInv /\ EndsInv
  BY DEF RunInv
<1>3. \A k \in 1..Depth : Op(k) # "preedit"
  BY <1>1, <1>2 DEF OrderInv, Orders
<1>4. OrderInv'
  <2>1. ASSUME NEW k \in 1..Depth PROVE Orders(k)'
    <3>1. Orders(k)
      BY <1>2 DEF OrderInv
    <3>2. k \in Nat /\ (k > 1 => k - 1 \in Nat)
      BY <1>1
    <3> QED BY <1>1, <3>1, <3>2 DEF Orders, Continues
  <2>2. \A k \in 1..Depth : Op(k)' = Op(k)
    BY <1>1
  <2> QED BY <1>1, <1>2, <2>1, <2>2 DEF OrderInv
<1>5. FreeInv'
  <2>1. \A k \in 1..Depth : k \in Nat /\ k + 1 \in Nat
    BY <1>1
  <2>2. \A k \in 1..Depth : Op(k) = "free" => k # Depth
    BY <1>1
  <2> QED BY <1>1, <1>2, <2>1, <2>2 DEF FreeInv
<1>6. FocusInv'
  <2> SUFFICES ASSUME nextFocus # NoContext PROVE \E q \in 1..Depth : Awaits(q)'
    BY <1>1 DEF FocusInv
  <2>1. PICK q \in 1..Depth : Awaits(q)
    BY <1>2 DEF FocusInv
  <2>2. q \in Nat /\ \A j \in (q + 1)..Depth : j \in Nat
    BY <1>1
  <2> QED BY <1>1, <2>1, <2>2 DEF Awaits
<1>7. EndsInv'
  <2> SUFFICES ASSUME NEW k \in 2..Depth PROVE Ends(k)'
    BY <1>1 DEF EndsInv
  <2>1. k \in Nat /\ k - 1 \in Nat /\ k \in 1..Depth
    BY <1>1
  <2>2. Ends(k)
    BY <1>2 DEF EndsInv
  <2> QED BY <1>1, <1>3, <2>1, <2>2 DEF Ends
<1>8. \A k \in 1..Depth : Op(k)' # "preedit" => Of(k)' \in Contexts
  BY <1>1 DEF ContextTypes
<1> QED BY <1>1, <1>4, <1>5, <1>6, <1>7, <1>8 DEF RunInv

(* The end of a preedit, of a call that moves the focus, or of a context.    *)
LEMMA StepEnds ==
  ASSUME ContextTypes, RunInv, NEW d \in Nat \ {0}, Depth = d, Depth' = d - 1, Keeps(d - 1),
         Op(d) \in {"leave", "unset", "focus", "free"},
         IF Op(d) = "leave" THEN reentered' = FALSE ELSE reentered' = reentered,
         IF Op(d) = "focus" THEN nextFocus' = NoContext ELSE nextFocus' = nextFocus,
         IF Op(d) = "free" THEN destroying' = destroying \ {Of(d)}
         ELSE destroying' = destroying,
         Op(d) = "unset" => focused' # Of(d)
  PROVE  RunInv' /\ \A k \in 1..Depth' : Op(k)' # "preedit" => Of(k)' \in Contexts
<1>1. \A k \in 1..(d - 1) : /\ k \in 1..d
                            /\ StepAt(k)' = StepAt(k) /\ Op(k)' = Op(k) /\ Of(k)' = Of(k)
  BY DEF Keeps
<1>2. OrderInv /\ FreeInv /\ FocusInv /\ EndsInv
  BY DEF RunInv
<1>3. \A k \in 1..(d - 1) : Op(k) \notin {"preedit", "start"} /\ Of(k) \in Contexts
  <2> SUFFICES ASSUME NEW k \in 1..(d - 1)
               PROVE  Op(k) \notin {"preedit", "start"} /\ Of(k) \in Contexts
    OBVIOUS
  <2>1. k \in 1..d /\ k # d
    OBVIOUS
  <2>2. Op(k) \notin {"preedit", "start"}
    BY <1>2, <2>1 DEF OrderInv, Orders
  <2> QED BY <2>1, <2>2 DEF ContextTypes
<1>4. OrderInv'
  <2>1. ASSUME NEW k \in 1..(d - 1) PROVE Orders(k)'
    <3>1. Orders(k)
      BY <1>1, <1>2 DEF OrderInv
    <3>2. k > 1 => k - 1 \in 1..(d - 1)
      OBVIOUS
    <3> QED BY <1>1, <1>3, <3>1, <3>2 DEF Orders, Continues
  <2>2. \A j, k \in 1..(d - 1) : Op(j)' = "leave" /\ Op(k)' = "leave" => j = k
    BY <1>1, <1>2 DEF OrderInv
  <2>3. reentered' <=> \E k \in 1..(d - 1) : Op(k) = "leave"
    <3>1. CASE Op(d) = "leave"
      <4>1. \A k \in 1..d : Op(k) = "leave" => k = d
        BY <1>2, <3>1 DEF OrderInv
      <4> QED BY <3>1, <4>1
    <3>2. CASE Op(d) # "leave"
      <4>1. \A k \in 1..d : Op(k) = "leave" => k \in 1..(d - 1)
        BY <3>2
      <4> QED BY <1>1, <1>2, <3>2, <4>1 DEF OrderInv
    <3> QED BY <3>1, <3>2
  <2> QED BY <1>1, <2>1, <2>2, <2>3 DEF OrderInv
<1>5. FreeInv'
  <2>1. ASSUME NEW k \in 1..(d - 1), Op(k) = "free"
        PROVE  /\ Of(k) \in destroying' /\ Op(k + 1) = "unset" /\ Of(k + 1) = Of(k)
               /\ k = d - 1 => focused' # Of(k)
    <3>1. Of(k) \in destroying /\ Op(k + 1) = "unset" /\ Of(k + 1) = Of(k)
      BY <1>1, <1>2, <2>1 DEF FreeInv
    <3>2. Op(d) = "free" => Of(d) # Of(k)
      <4>1. d \in 1..d /\ k \in 1..d /\ k # d
        OBVIOUS
      <4> QED BY <1>2, <2>1, <4>1 DEF FreeInv
    <3>3. k = d - 1 => k + 1 = d
      OBVIOUS
    <3> QED BY <3>1, <3>2, <3>3
  <2>2. \A k \in 1..(d - 1) : k # d - 1 => k + 1 \in 1..(d - 1)
    OBVIOUS
  <2>3. \A j, k \in 1..(d - 1) :
          Op(j)' = "free" /\ Op(k)' = "free" /\ Of(j)' = Of(k)' => j = k
    BY <1>1, <1>2 DEF FreeInv
  <2>4. ASSUME NEW k \in 1..(d - 1), Op(k)' = "free"
        PROVE  /\ Of(k)' \in destroying'
               /\ IF k = d - 1 THEN focused' # Of(k)'
                  ELSE Op(k + 1)' = "unset" /\ Of(k + 1)' = Of(k)'
    BY <1>1, <2>1, <2>2, <2>4
  <2> QED BY <2>3, <2>4 DEF FreeInv
<1>6. FocusInv'
  <2> SUFFICES ASSUME nextFocus' # NoContext PROVE \E q \in 1..(d - 1) : Awaits(q)'
    BY DEF FocusInv
  <2>1. PICK q \in 1..d : Awaits(q)
    BY <1>2 DEF FocusInv
  <2>2. q # d
    BY <2>1 DEF Awaits
  <2>3. q \in 1..(d - 1) /\ \A j \in (q + 1)..(d - 1) : j \in 1..(d - 1) /\ j \in (q + 1)..d
    BY <2>2
  <2> QED BY <1>1, <2>1, <2>3 DEF Awaits
<1>7. EndsInv'
  <2> SUFFICES ASSUME NEW k \in 2..(d - 1) PROVE Ends(k)'
    BY DEF EndsInv
  <2>1. k \in 1..(d - 1) /\ k - 1 \in 1..(d - 1) /\ k \in 2..d
    OBVIOUS
  <2>2. Ends(k)
    BY <1>2, <2>1 DEF EndsInv
  <2> QED BY <1>1, <1>3, <2>1, <2>2 DEF Ends
<1>8. \A k \in 1..(d - 1) : Op(k)' # "preedit" => Of(k)' \in Contexts
  BY <1>1, <1>3
<1> QED BY <1>4, <1>5, <1>6, <1>7, <1>8 DEF RunInv

(* A preedit begins, of the context that has the focus.                      *)
LEMMA PreeditBegins ==
  ASSUME ContextTypes, RunInv, NEW d \in Nat \ {0}, Depth = d, Depth' = d + 4, Keeps(d - 1),
         Op(d) = "preedit", ~reentered, reentered', focused \in Contexts,
         \A k \in d..(d + 4) : Of(k)' = focused /\ StepAt(k)'.n = StepAt(d).n,
         Op(d)' = "leave", Op(d + 1)' = "done", Op(d + 2)' = "caret", Op(d + 3)' = "draw",
         Op(d + 4)' = "start",
         UNCHANGED <<destroying, focused, nextFocus>>
  PROVE  RunInv' /\ \A k \in 1..Depth' : Op(k)' # "preedit" => Of(k)' \in Contexts
<1> DEFINE e == d + 4
<1>1. \A k \in 1..(d - 1) : /\ k \in 1..d /\ k # d
                            /\ StepAt(k)' = StepAt(k) /\ Op(k)' = Op(k) /\ Of(k)' = Of(k)
  BY DEF Keeps
<1>2. OrderInv /\ FreeInv /\ FocusInv /\ EndsInv
  BY DEF RunInv
<1>3. \A k \in 1..(d - 1) : Op(k) \notin {"preedit", "start", "leave"} /\ Of(k) \in Contexts
  BY <1>1, <1>2 DEF OrderInv, Orders, ContextTypes
<1>4. \A k \in 1..e : k \in 1..(d - 1) \/ k \in {d, d + 1, d + 2, d + 3, d + 4}
  OBVIOUS
<1>5. OrderInv'
  <2>1. ASSUME NEW k \in 1..(d - 1) PROVE Orders(k)'
    <3>1. Orders(k)
      BY <1>1, <1>2 DEF OrderInv
    <3>2. k > 1 => k - 1 \in 1..(d - 1)
      OBVIOUS
    <3> QED BY <1>1, <1>3, <3>1, <3>2 DEF Orders, Continues
  <2>2. ASSUME NEW k \in {d + 1, d + 2, d + 3, d + 4} PROVE Orders(k)'
    <3>1. k \in d..(d + 4) /\ k - 1 \in d..(d + 4) /\ k > 1
      OBVIOUS
    <3>2. Continues(k)'
      BY <3>1 DEF Continues
    <3>3. Op(k)' \in {"start", "draw", "caret", "done"} /\ Op(k - 1)' = NextOp(Op(k)')
          /\ (Op(k)' = "start" => k = d + 4)
      BY DEF NextOp
    <3> QED BY <3>1, <3>2, <3>3 DEF Orders, NextOp
  <2>3. Orders(d)'
    BY DEF Orders
  <2>4. \A k \in 1..e : Op(k)' = "leave" <=> k = d
    BY <1>1, <1>3, <1>4
  <2>5. \A k \in 1..e : Orders(k)'
    BY <1>4, <2>1, <2>2, <2>3
  <2>6. d \in 1..e
    OBVIOUS
  <2> QED BY <2>4, <2>5, <2>6 DEF OrderInv
<1>6. FreeInv'
  <2>1. ASSUME NEW k \in 1..e, Op(k)' = "free"
        PROVE  /\ k \in 1..(d - 1) /\ Op(k) = "free" /\ Of(k)' = Of(k)
               /\ k # e /\ Of(k) \in destroying /\ Op(k + 1)' = "unset" /\ Of(k + 1)' = Of(k)
    <3>1. k \in 1..(d - 1)
      BY <1>4, <2>1
    <3>2. Of(k) \in destroying /\ Op(k + 1) = "unset" /\ Of(k + 1) = Of(k)
      BY <1>1, <1>2, <2>1, <3>1 DEF FreeInv
    <3>3. k + 1 \in 1..(d - 1)
      BY <3>1, <3>2
    <3> QED BY <1>1, <2>1, <3>1, <3>2, <3>3
  <2>2. \A j, k \in 1..e : Op(j)' = "free" /\ Op(k)' = "free" /\ Of(j)' = Of(k)' => j = k
    BY <1>1, <1>2, <2>1 DEF FreeInv
  <2> QED BY <2>1, <2>2 DEF FreeInv
<1>7. FocusInv'
  <2> SUFFICES ASSUME nextFocus # NoContext PROVE \E q \in 1..e : Awaits(q)'
    BY DEF FocusInv
  <2>1. PICK q \in 1..d : Awaits(q)
    BY <1>2 DEF FocusInv
  <2>2. q \in 1..(d - 1) /\ q \in 1..e
    BY <2>1 DEF Awaits
  <2>3. ASSUME NEW j \in (q + 1)..e
        PROVE  Op(j)' # "focus" /\ ~(Op(j)' = "free" /\ Of(j)' = nextFocus)
    <3>1. CASE j \in 1..(d - 1)
      BY <1>1, <2>1, <3>1 DEF Awaits
    <3>2. CASE j \in {d, d + 1, d + 2, d + 3, d + 4}
      BY <3>2
    <3>3. j \in 1..e
      BY <2>2
    <3> QED BY <1>4, <3>1, <3>2, <3>3
  <2> QED BY <1>1, <2>1, <2>2, <2>3 DEF Awaits
<1>8. EndsInv'
  <2> SUFFICES ASSUME NEW k \in 2..e PROVE Ends(k)'
    BY DEF EndsInv
  <2>1. CASE k \in 1..(d - 1)
    <3>1. k - 1 \in 1..(d - 1) /\ k \in 2..d
      BY <2>1
    <3>2. Ends(k)
      BY <1>2, <3>1 DEF EndsInv
    <3> QED BY <1>1, <1>3, <2>1, <3>1, <3>2 DEF Ends
  <2>2. CASE k = d
    <3>1. k - 1 \in 1..(d - 1) /\ k \in 2..d /\ k \in d..(d + 4)
      BY <2>2
    <3>2. Ends(k)
      BY <1>2, <3>1 DEF EndsInv
    <3> QED BY <1>1, <2>2, <3>1, <3>2 DEF Ends
  <2>3. CASE k \in {d + 1, d + 2, d + 3, d + 4}
    BY <2>3 DEF Ends
  <2>4. k \in 1..e
    OBVIOUS
  <2> QED BY <1>4, <2>1, <2>2, <2>3, <2>4
<1>9. \A k \in 1..e : Op(k)' # "preedit" => Of(k)' \in Contexts
  <2>1. \A k \in {d, d + 1, d + 2, d + 3, d + 4} : k \in d..(d + 4)
    OBVIOUS
  <2> QED BY <1>1, <1>3, <1>4, <2>1
<1> QED BY <1>5, <1>6, <1>7, <1>8, <1>9 DEF RunInv

-----------------------------------------------------------------------------
(* One step of a preedit at a time can go on.                                *)
FrameOps == {"start", "draw", "caret", "done", "leave"}

(* A preedit has its steps in this order.                                    *)
LEMMA FrameShape ==
  ASSUME ContextTypes, OrderInv, NEW k \in 1..Depth
  PROVE  /\ Op(k) = "done" => k > 1 /\ Op(k - 1) = "leave" /\ Of(k - 1) = Of(k)
         /\ Op(k) = "caret" =>
              /\ k > 2 /\ Op(k - 1) = "done" /\ Op(k - 2) = "leave"
              /\ Of(k - 1) = Of(k) /\ Of(k - 2) = Of(k)
         /\ Op(k) = "draw" =>
              /\ k > 3 /\ Op(k - 1) = "caret" /\ Op(k - 2) = "done" /\ Op(k - 3) = "leave"
              /\ Of(k - 1) = Of(k) /\ Of(k - 2) = Of(k) /\ Of(k - 3) = Of(k)
         /\ Op(k) = "start" =>
              /\ k > 4 /\ Op(k - 1) = "draw" /\ Op(k - 2) = "caret" /\ Op(k - 3) = "done"
              /\ Op(k - 4) = "leave"
<1>1. Depth \in Nat /\ \A j \in 1..Depth : Orders(j)
  BY StepsHaveTypes DEF OrderInv
<1>2. ASSUME NEW j \in 1..Depth, Op(j) = "done"
      PROVE  j > 1 /\ Op(j - 1) = "leave" /\ Of(j - 1) = Of(j)
  BY <1>1, <1>2 DEF Orders, NextOp, Continues
<1>3. ASSUME NEW j \in 1..Depth, Op(j) = "caret"
      PROVE  /\ j > 2 /\ Op(j - 1) = "done" /\ Op(j - 2) = "leave"
             /\ Of(j - 1) = Of(j) /\ Of(j - 2) = Of(j)
  <2>1. j > 1 /\ Op(j - 1) = "done" /\ Of(j - 1) = Of(j)
    BY <1>1, <1>3 DEF Orders, NextOp, Continues
  <2>2. j - 1 \in 1..Depth /\ (j - 1) - 1 = j - 2
    BY <1>1, <2>1
  <2> QED BY <1>2, <2>1, <2>2
<1>4. ASSUME NEW j \in 1..Depth, Op(j) = "draw"
      PROVE  /\ j > 3 /\ Op(j - 1) = "caret" /\ Op(j - 2) = "done" /\ Op(j - 3) = "leave"
             /\ Of(j - 1) = Of(j) /\ Of(j - 2) = Of(j) /\ Of(j - 3) = Of(j)
  <2>1. j > 1 /\ Op(j - 1) = "caret" /\ Of(j - 1) = Of(j)
    BY <1>1, <1>4 DEF Orders, NextOp, Continues
  <2>2. j - 1 \in 1..Depth /\ (j - 1) - 1 = j - 2 /\ (j - 1) - 2 = j - 3
    BY <1>1, <2>1
  <2>3. j - 1 > 2 /\ Op(j - 2) = "done" /\ Op(j - 3) = "leave"
        /\ Of(j - 2) = Of(j - 1) /\ Of(j - 3) = Of(j - 1)
    BY <1>3, <2>1, <2>2
  <2> QED BY <2>1, <2>3
<1>5. Op(k) = "start" =>
        /\ k > 4 /\ Op(k - 1) = "draw" /\ Op(k - 2) = "caret" /\ Op(k - 3) = "done"
        /\ Op(k - 4) = "leave"
  <2> SUFFICES ASSUME Op(k) = "start"
               PROVE  /\ k > 4 /\ Op(k - 1) = "draw" /\ Op(k - 2) = "caret"
                      /\ Op(k - 3) = "done" /\ Op(k - 4) = "leave"
    OBVIOUS
  <2>1. k > 1 /\ Op(k - 1) = "draw"
    BY <1>1 DEF Orders, NextOp
  <2>2. k - 1 \in 1..Depth /\ (k - 1) - 1 = k - 2 /\ (k - 1) - 2 = k - 3 /\ (k - 1) - 3 = k - 4
    BY <1>1, <2>1
  <2>3. k - 1 > 3 /\ Op(k - 2) = "caret" /\ Op(k - 3) = "done" /\ Op(k - 4) = "leave"
    BY <1>4, <2>1, <2>2
  <2> QED BY <2>1, <2>3
<1> QED BY <1>2, <1>3, <1>4, <1>5

(* So the step that is reached is the only one.                              *)
LEMMA OneReady ==
  ASSUME ContextTypes, OrderInv, NEW j \in 1..Depth, NEW k \in 1..Depth,
         Op(j) \in FrameOps, Op(k) \in FrameOps, Ready(j), Ready(k)
  PROVE  j = k
<1> DEFINE base(i) == CASE Op(i) = "leave" -> i [] Op(i) = "done" -> i - 1
                        [] Op(i) = "caret" -> i - 2 [] Op(i) = "draw" -> i - 3 [] OTHER -> i - 4
<1>1. Depth \in Nat
  BY StepsHaveTypes
<1>2. ASSUME NEW i \in 1..Depth, Op(i) \in FrameOps
      PROVE  base(i) \in 1..Depth /\ Op(base(i)) = "leave"
  BY <1>1, <1>2, FrameShape DEF FrameOps
<1>3. base(j) = base(k)
  BY <1>2 DEF OrderInv
<1>4. ASSUME NEW i \in 1..Depth, NEW l \in 1..Depth, Op(i) \in FrameOps, Op(l) \in FrameOps,
             base(i) = base(l), i < l
      PROVE  ~Ready(i)
  <2>1. i # Depth
    BY <1>1, <1>4
  <2>2. Op(l) # "leave"
    BY <1>4, FrameShape DEF FrameOps
  <2>3. i + 1 = l \/ Op(i + 1) \in FrameOps
    <3>1. CASE Op(l) = "done"
      BY <1>4, <3>1, FrameShape DEF FrameOps
    <3>2. CASE Op(l) = "caret"
      <4>1. i \in {l - 2, l - 1}
        BY <1>4, <3>2, FrameShape DEF FrameOps
      <4> QED BY <3>2, <4>1, FrameShape DEF FrameOps
    <3>3. CASE Op(l) = "draw"
      <4>1. i \in {l - 3, l - 2, l - 1}
        BY <1>4, <3>3, FrameShape DEF FrameOps
      <4> QED BY <3>3, <4>1, FrameShape DEF FrameOps
    <3>4. CASE Op(l) = "start"
      <4>1. i \in {l - 4, l - 3, l - 2, l - 1}
        BY <1>4, <3>4, FrameShape DEF FrameOps
      <4> QED BY <3>4, <4>1, FrameShape DEF FrameOps
    <3> QED BY <1>4, <2>2, <3>1, <3>2, <3>3, <3>4 DEF FrameOps
  <2>4. Op(i + 1) \in FrameOps
    BY <1>4, <2>3
  <2> QED BY <2>1, <2>4 DEF Ready, FrameOps
<1> HIDE DEF base
<1> QED BY <1>1, <1>3, <1>4

(* Where a preedit has been reached, nothing else has.                       *)
Reached ==
  /\ ContextTypes /\ OrderInv /\ Op(Depth) # "unset"
  /\ \E r \in 1..Depth : Op(r) \in FrameOps /\ Ready(r) /\ CalmStep(r)

(* The other steps of the stack say nothing then.                            *)
LEMMA ReachedIsCalm == Reached => CalmSteps
<1> SUFFICES ASSUME Reached, NEW k \in 1..Depth PROVE CalmStep(k)
  BY DEF CalmSteps
<1>1. PICK r \in 1..Depth : Op(r) \in FrameOps /\ Ready(r) /\ CalmStep(r)
  BY DEF Reached
<1>2. CASE Op(k) \in FrameOps
  <2>1. Ready(k) => k = r
    BY <1>1, <1>2, OneReady DEF Reached
  <2> QED BY <1>1, <2>1 DEF CalmStep
<1>3. CASE Op(k) \notin FrameOps
  BY <1>3 DEF CalmStep, FrameOps, Reached
<1> QED BY <1>2, <1>3

(* After a step of the library, too.                                         *)
LEMMA ReachedNext ==
  ASSUME ContextTypes', OrderInv', NEW r \in 1..Depth', Op(Depth)' # "unset",
         Op(r)' \in FrameOps, Ready(r)', CalmStep(r)'
  PROVE  CalmSteps'
<1>1. Reached'
  BY DEF Reached
<1>2. (Reached => CalmSteps)'
  BY ReachedIsCalm, PTL
<1> QED BY <1>1, <1>2

(* What is below in the stack stays calm.                                    *)
LEMMA CalmKept ==
  ASSUME ContextTypes, CalmStack, NEW m \in Nat, m <= Depth, Keeps(m),
         Depth > 0 => Op(Depth) # "free", UNCHANGED <<focused, alive>>
  PROVE  \A k \in 1..m : CalmAt(k)'
<1> SUFFICES ASSUME NEW k \in 1..m PROVE CalmAt(k)'
  OBVIOUS
<1>1. Depth \in Nat
  BY StepsHaveTypes
<1>2. /\ k \in 1..Depth /\ (k > 1 => k - 1 \in 1..m)
      /\ \A i \in 1..m : Op(i)' = Op(i) /\ Of(i)' = Of(i)
  BY <1>1 DEF Keeps
<1>3. CalmAt(k) /\ ~TopIs("free", Of(k))
  BY <1>2 DEF CalmStack, TopIs
<1> QED BY <1>2, <1>3 DEF CalmAt

(* So is a context whose preedit has been reached.                           *)
LEMMA MidwayPopped ==
  ASSUME ContextTypes, NEW d \in Nat \ {0}, Depth = d, Depth' = d - 1, Keeps(d - 1),
         Op(d) \notin {"caret", "done"}, NEW ic, Midway(ic)
  PROVE  Midway(ic)'
<1>1. PICK k \in 1..d : Op(k) \in {"caret", "done"} /\ Of(k) = ic /\ Ready(k)
  BY DEF Midway
<1>2. k \in 1..(d - 1) /\ Op(k)' = Op(k) /\ Of(k)' = Of(k)
  <2>1. k # d
    BY <1>1
  <2>2. k \in 1..(d - 1)
    BY <2>1
  <2> QED BY <2>2 DEF Keeps
<1>3. Ready(k)'
  <2>1. CASE k = d - 1
    BY <2>1 DEF Ready
  <2>2. CASE k # d - 1
    <3>1. k + 1 \in 1..(d - 1) /\ k # d
      BY <1>2, <2>2
    <3>2. Op(k + 1)' = Op(k + 1)
      BY <3>1 DEF Keeps
    <3> QED BY <1>1, <3>1, <3>2 DEF Ready
  <2> QED BY <2>1, <2>2
<1> QED BY <1>1, <1>2, <1>3 DEF Midway

(* And one below a callback.                                                 *)
LEMMA MidwayBelow ==
  ASSUME ContextTypes, NEW d \in Nat, Depth = d, Depth' \in Nat, d <= Depth', Keeps(d),
         d > 0 => Op(d) = "callback", NEW ic, Midway(ic)
  PROVE  Midway(ic)'
<1>1. PICK k \in 1..d : Op(k) \in {"caret", "done"} /\ Of(k) = ic /\ Ready(k)
  BY DEF Midway
<1>2. k \in 1..d /\ k + 1 \in 1..d /\ k \in 1..Depth' /\ k # d
  <2>1. k # d
    BY <1>1
  <2> QED BY <2>1
<1>3. Op(k)' = Op(k) /\ Of(k)' = Of(k) /\ Op(k + 1)' = Op(k + 1)
  BY <1>2 DEF Keeps
<1>4. Ready(k)'
  BY <1>1, <1>2, <1>3 DEF Ready
<1> QED BY <1>1, <1>2, <1>3, <1>4 DEF Midway

(* A client sees a context as before when it is told nothing.                *)
LEMMA SeenKept ==
  ASSUME NEW ic, Seen(ic), Depth > 0 => Op(Depth) # "free", Midway(ic) => Midway(ic)',
         UNCHANGED <<told, preeditActive, focused, shown, alive, preeditLength>>
  PROVE  Seen(ic)'
<1>1. ~TopIs("free", ic)
  BY DEF TopIs
<1> QED BY <1>1 DEF Seen

-----------------------------------------------------------------------------
(* The actions.  The client has returned.                                    *)
LEMMA ReturnsInv ==
  ASSUME ContextInv, Returns
  PROVE  ContextInv'
<1>1. /\ ContextTypes /\ RunInv /\ OrderInv /\ running # <<>> /\ running' = Tail(running)
      /\ Head(running).op = "callback" /\ program' = program
      /\ UNCHANGED <<contextVars, focusVars, reentered, clientView>>
  BY DEF ContextInv, RunInv, Returns, InCallback, Rest, Unbudgeted
<1>2. PICK d \in Nat \ {0} : Depth = d
  BY <1>1, StepsHaveTypes
<1>3. Keeps(d - 1) /\ Depth' = d - 1 /\ Op(d) = "callback"
  BY <1>1, <1>2, Pops, TopStep
<1>4. RunInv' /\ \A k \in 1..Depth' : Op(k)' # "preedit" => Of(k)' \in Contexts
  <2>1. \A k \in (d - 1 + 1)..d : Op(k) \in QuietOps
    BY <1>3 DEF QuietOps
  <2>2. 1 \in Nat /\ 1 <= d
    OBVIOUS
  <2> QED BY <1>1, <1>2, <1>3, <2>1, <2>2, QuietDrop DEF contextVars, focusVars
<1>5. ContextTypes'
  BY <1>1, <1>3, <1>4 DEF ContextTypes, Keeps, contextVars, focusVars, clientView
<1>6. CalmInv'
  <2> SUFFICES ASSUME program.nested \subseteq {"destroy"}
               PROVE  CalmStack' /\ CalmSteps' /\ CalmView'
    BY <1>1 DEF CalmInv
  <2>1. CalmStack /\ CalmSteps /\ CalmView
    BY DEF ContextInv, CalmInv
  <2>2. CalmStack'
    BY <1>1, <1>2, <1>3, <2>1, CalmKept DEF CalmStack, contextVars, focusVars
  <2>3. d > 1 /\ d - 1 \in 1..(d - 1) /\ Op(d - 1) \in FrameOps
    BY <1>1, <1>2, <1>3 DEF OrderInv, Orders, FrameOps
  <2>4. /\ StepAt(d - 1)' = StepAt(d - 1) /\ Op(d - 1)' = Op(d - 1) /\ Of(d - 1)' = Of(d - 1)
        /\ Ready(d - 1)' /\ Ready(d - 1)
    BY <1>2, <1>3, <2>3 DEF Keeps, Ready
  <2>5. CalmStep(d - 1)'
    BY <1>1, <1>2, <2>1, <2>3, <2>4 DEF CalmSteps, CalmStep, FrameOps, focusVars, clientView
  <2>6. CalmSteps'
    <3>1. Op(Depth)' # "unset"
      BY <1>3, <2>3, <2>4 DEF FrameOps
    <3> QED BY <1>3, <1>4, <1>5, <2>3, <2>4, <2>5, <3>1, ReachedNext DEF RunInv
  <2>7. \A ic \in Contexts : Seen(ic)'
    BY <1>1, <1>2, <1>3, <2>1, SeenKept, MidwayPopped
       DEF CalmView, contextVars, focusVars, clientView
  <2>8. CalmView'
    BY <1>1, <1>3, <2>1, <2>3, <2>4, <2>7 DEF CalmView, FrameOps, contextVars, clientView
  <2> QED BY <2>2, <2>6, <2>8
<1> QED BY <1>4, <1>5, <1>6 DEF ContextInv, RunInv

(* A preedit begins, or there is none to begin.                              *)
LEMMA BeginPreeditInv ==
  ASSUME ContextInv, BeginPreedit
  PROVE  ContextInv'
<1>1. /\ ContextTypes /\ RunInv /\ OrderInv /\ EndsInv /\ running # <<>>
      /\ Head(running).op = "preedit" /\ program' = program
      /\ UNCHANGED <<contextVars, focusVars, clientView>>
      /\ IF reentered \/ focused = NoContext
         THEN running' = Tail(running) /\ reentered' = reentered
         ELSE running' = handlePreeditImpl(focused, Length) \o Tail(running) /\ reentered' = TRUE
  BY DEF ContextInv, RunInv, BeginPreedit, On, Rest, Unbudgeted
<1>2. PICK d \in Nat \ {0} : Depth = d
  BY <1>1, StepsHaveTypes
<1>3. Op(d) = "preedit" /\ d \in 1..d /\ StepAt(d).n = Length /\ Length \in Nat
  BY <1>1, <1>2, TopStep, StepsHaveTypes
<1>4. program.nested \subseteq {"destroy"} => CalmStack /\ CalmSteps /\ CalmView
  BY DEF ContextInv, CalmInv
<1>5. d > 1 => Ends(d)
  BY <1>1, <1>2 DEF EndsInv
<1>6. CASE reentered \/ focused = NoContext
  <2>1. Keeps(d - 1) /\ Depth' = d - 1
    BY <1>1, <1>2, <1>6, Pops
  <2>2. RunInv' /\ \A k \in 1..Depth' : Op(k)' # "preedit" => Of(k)' \in Contexts
    <3>1. \A k \in (d - 1 + 1)..d : Op(k) \in QuietOps
      BY <1>3 DEF QuietOps
    <3>2. 1 \in Nat /\ 1 <= d
      OBVIOUS
    <3> QED BY <1>1, <1>2, <1>6, <2>1, <3>1, <3>2, QuietDrop DEF contextVars, focusVars
  <2>3. ContextTypes'
    BY <1>1, <1>6, <2>1, <2>2 DEF ContextTypes, Keeps, contextVars, focusVars, clientView
  <2>4. CalmInv'
    <3> SUFFICES ASSUME program.nested \subseteq {"destroy"}
                 PROVE  CalmStack' /\ CalmSteps' /\ CalmView'
      BY <1>1 DEF CalmInv
    <3>1. CalmStack /\ CalmSteps /\ CalmView
      BY <1>4
    <3>2. CalmStack'
      BY <1>1, <1>2, <1>3, <2>1, <3>1, CalmKept DEF CalmStack, contextVars, focusVars
    <3>3. ASSUME d > 1 PROVE Op(d - 1) = "unset" /\ d - 1 > 1 /\ Op(d - 2) = "free"
      <4>1. reentered /\ Op(d - 1) \in {"unset", "focus"}
        BY <1>3, <1>5, <1>6, <3>3 DEF Ends
      <4>2. PICK k \in 1..d : Op(k) = "leave"
        BY <1>1, <1>2, <4>1 DEF OrderInv
      <4>3. k # d /\ k # d - 1
        BY <1>3, <4>1, <4>2
      <4>4. d - 1 > 1 /\ d - 1 \in 1..d
        BY <4>3
      <4>5. CalmAt(d - 1) /\ (d - 1) - 1 = d - 2
        BY <1>2, <3>1, <4>4 DEF CalmStack
      <4> QED BY <4>1, <4>4, <4>5 DEF CalmAt
    <3>4. \A k \in 1..(d - 1) : /\ k \in 1..d /\ StepAt(k)' = StepAt(k)
                                /\ Op(k)' = Op(k) /\ Of(k)' = Of(k)
      BY <2>1 DEF Keeps
    <3>5. ASSUME NEW k \in 1..(d - 1) PROVE CalmStep(k)'
      <4>1. CASE k = d - 1
        <5>1. Op(k)' = "unset" /\ k > 1 /\ k - 1 \in 1..(d - 1) /\ k - 1 = d - 2
          BY <3>3, <3>4, <4>1
        <5>2. Op(k - 1)' = "free"
          BY <3>3, <3>4, <5>1
        <5> QED BY <5>1, <5>2 DEF CalmStep
      <4>2. CASE k # d - 1
        <5>1. k + 1 \in 1..(d - 1) /\ CalmStep(k) /\ k # d
          BY <1>2, <3>1, <3>4, <4>2 DEF CalmSteps
        <5>2. Ready(k)' => Ready(k)
          BY <2>1, <3>4, <4>2, <5>1 DEF Ready
        <5> QED BY <1>1, <2>1, <3>4, <4>2, <5>1, <5>2 DEF CalmStep, focusVars, clientView
      <4> QED BY <4>1, <4>2
    <3>6. \A ic \in Contexts : Seen(ic)'
      BY <1>1, <1>2, <1>3, <2>1, <3>1, SeenKept, MidwayPopped
         DEF CalmView, contextVars, focusVars, clientView
    <3>7. ~(Depth' > 0 /\ Op(Depth)' = "focus")
      <4>1. ASSUME d - 1 > 0 PROVE Op(d - 1)' = "unset"
        BY <3>3, <3>4, <4>1
      <4> QED BY <2>1, <4>1
    <3>8. CalmView'
      BY <1>1, <3>1, <3>6, <3>7 DEF CalmView, contextVars, clientView
    <3> QED BY <2>1, <3>2, <3>5, <3>8 DEF CalmSteps
  <2> QED BY <2>2, <2>3, <2>4 DEF ContextInv, RunInv
<1>7. CASE ~reentered /\ focused # NoContext
  <2>1. focused \in Contexts
    BY <1>1, <1>7 DEF ContextTypes
  <2> DEFINE p == handlePreeditImpl(focused, Length)
  <2>2. /\ p \in Seq(StepType) /\ Len(p) = 5
        /\ p[1] = Step("start", focused, Length) /\ p[2] = Step("draw", focused, Length)
        /\ p[3] = Step("caret", focused, Length) /\ p[4] = Step("done", focused, Length)
        /\ p[5] = Step("leave", focused, Length)
    <3>1. \A op \in FrameOps : Step(op, focused, Length) \in StepType
      BY <1>3, <2>1 DEF Step, StepType, StepOps, PreeditOps, FrameOps
    <3> QED BY <3>1 DEF handlePreeditImpl, FrameOps
  <2>3. running' = p \o Tail(running) /\ reentered' = TRUE
    BY <1>1, <1>7
  <2> HIDE DEF p
  <2>4. /\ Keeps(d - 1) /\ Depth' = d + 4
        /\ \A k \in d..(d + 4) : StepAt(k)' = p[d + 5 - k]
    <3>1. /\ Keeps(d - 1) /\ Depth' = d - 1 + 5
          /\ \A k \in d..Depth' : StepAt(k)' = p[Depth' + 1 - k]
      BY <1>1, <1>2, <2>2, <2>3, Replaces
    <3>2. Depth' = d + 4 /\ \A k \in d..(d + 4) : d + 4 + 1 - k = d + 5 - k
      BY <3>1
    <3> QED BY <3>1, <3>2
  <2>5. /\ StepAt(d)' = p[5] /\ StepAt(d + 1)' = p[4] /\ StepAt(d + 2)' = p[3]
        /\ StepAt(d + 3)' = p[2] /\ StepAt(d + 4)' = p[1]
    <3>1. \A i \in 0..4 : d + i \in d..(d + 4) /\ d + 5 - (d + i) = 5 - i
      OBVIOUS
    <3> QED BY <2>4, <3>1
  <2>6. /\ Op(d)' = "leave" /\ Op(d + 1)' = "done" /\ Op(d + 2)' = "caret"
        /\ Op(d + 3)' = "draw" /\ Op(d + 4)' = "start"
        /\ \A k \in d..(d + 4) : Of(k)' = focused /\ StepAt(k)'.n = StepAt(d).n
    <3>1. \A k \in d..(d + 4) : k \in {d, d + 1, d + 2, d + 3, d + 4}
      OBVIOUS
    <3>2. \A op : /\ Step(op, focused, Length).op = op /\ Step(op, focused, Length).ic = focused
                   /\ Step(op, focused, Length).n = StepAt(d).n
      BY <1>3 DEF Step
    <3>3. \A k \in d..(d + 4) : \E op : StepAt(k)' = Step(op, focused, Length)
      BY <2>2, <2>5, <3>1
    <3>4. /\ Op(d)' = "leave" /\ Op(d + 1)' = "done" /\ Op(d + 2)' = "caret"
          /\ Op(d + 3)' = "draw" /\ Op(d + 4)' = "start"
      BY <2>2, <2>5, <3>2 DEF Op
    <3> QED BY <3>2, <3>3, <3>4 DEF Of
  <2>7. RunInv' /\ \A k \in 1..Depth' : Op(k)' # "preedit" => Of(k)' \in Contexts
    BY <1>1, <1>2, <1>3, <1>7, <2>1, <2>3, <2>4, <2>6, PreeditBegins DEF contextVars, focusVars
  <2>8. ContextTypes'
    BY <1>1, <2>3, <2>4, <2>7 DEF ContextTypes, Keeps, contextVars, focusVars, clientView
  <2>9. CalmInv'
    <3> SUFFICES ASSUME program.nested \subseteq {"destroy"}
                 PROVE  CalmStack' /\ CalmSteps' /\ CalmView'
      BY <1>1 DEF CalmInv
    <3>1. CalmStack /\ CalmSteps /\ CalmView
      BY <1>4
    <3>2. ASSUME NEW k \in 1..(d + 4) PROVE CalmAt(k)'
      <4>1. CASE k \in 1..(d - 1)
        <5>1. d - 1 \in Nat /\ d - 1 <= d
          OBVIOUS
        <5> QED BY <1>1, <1>2, <1>3, <2>4, <3>1, <4>1, <5>1, CalmKept DEF contextVars, focusVars
      <4>2. CASE k \in d..(d + 4)
        <5>1. k \in {d, d + 1, d + 2, d + 3, d + 4}
          BY <4>2
        <5>2. Op(k)' \in FrameOps /\ Of(k)' = focused'
          BY <1>1, <2>6, <4>2, <5>1 DEF FrameOps, focusVars
        <5> QED BY <5>2 DEF CalmAt, FrameOps
      <4> QED BY <4>1, <4>2
    <3>3. CalmSteps'
      <4>1. d + 4 \in 1..Depth' /\ Ready(d + 4)' /\ Op(d + 4)' \in FrameOps
        BY <2>4, <2>6 DEF Ready, FrameOps
      <4>2. CalmStep(d + 4)' /\ Op(Depth)' # "unset"
        BY <2>4, <2>6 DEF CalmStep
      <4> QED BY <2>7, <2>8, <4>1, <4>2, ReachedNext DEF RunInv
    <3>4. \A ic \in Contexts : ~Midway(ic)
      <4>1. \A k \in 1..d : Op(k) \notin {"caret", "done"}
        <5> SUFFICES ASSUME NEW k \in 1..d, Op(k) \in {"caret", "done"} PROVE FALSE
          OBVIOUS
        <5>1. \E j \in 1..d : Op(j) = "leave"
          <6>1. CASE Op(k) = "done"
            <7>1. k - 1 \in 1..d /\ Op(k - 1) = "leave"
              BY <1>1, <1>2, <6>1, FrameShape
            <7> QED BY <7>1
          <6>2. CASE Op(k) = "caret"
            <7>1. k - 2 \in 1..d /\ Op(k - 2) = "leave"
              BY <1>1, <1>2, <6>2, FrameShape
            <7> QED BY <7>1
          <6> QED BY <6>1, <6>2
        <5> QED BY <1>1, <1>2, <1>7, <5>1 DEF OrderInv
      <4> QED BY <1>2, <4>1 DEF Midway
    <3>5. \A ic \in Contexts : Seen(ic)'
      BY <1>1, <1>2, <1>3, <3>1, <3>4, SeenKept DEF CalmView, contextVars, focusVars, clientView
    <3>6. CalmView'
      BY <1>1, <2>4, <2>6, <3>1, <3>5 DEF CalmView, contextVars, clientView
    <3> QED BY <2>4, <3>2, <3>3, <3>6 DEF CalmStack
  <2> QED BY <2>7, <2>8, <2>9 DEF ContextInv, RunInv
<1> QED BY <1>6, <1>7

(* A preedit has been handled.                                               *)
LEMMA LeavePreeditInv ==
  ASSUME ContextInv, LeavePreedit
  PROVE  ContextInv'
<1>1. /\ ContextTypes /\ RunInv /\ OrderInv /\ EndsInv /\ running # <<>>
      /\ Head(running).op = "leave" /\ program' = program /\ running' = Tail(running)
      /\ UNCHANGED <<contextVars, focusVars, clientView>> /\ reentered' = FALSE
  BY DEF ContextInv, RunInv, LeavePreedit, On, Rest, Unbudgeted
<1>2. PICK d \in Nat \ {0} : Depth = d
  BY <1>1, StepsHaveTypes
<1>3. Keeps(d - 1) /\ Depth' = d - 1 /\ Op(d) = "leave" /\ d \in 1..d
  BY <1>1, <1>2, Pops, TopStep
<1>4. RunInv' /\ \A k \in 1..Depth' : Op(k)' # "preedit" => Of(k)' \in Contexts
  BY <1>1, <1>2, <1>3, StepEnds DEF contextVars, focusVars
<1>5. ContextTypes'
  BY <1>1, <1>3, <1>4 DEF ContextTypes, Keeps, contextVars, focusVars, clientView
<1>6. CalmInv'
  <2> SUFFICES ASSUME program.nested \subseteq {"destroy"}
               PROVE  CalmStack' /\ CalmSteps' /\ CalmView'
    BY <1>1 DEF CalmInv
  <2>1. CalmStack /\ CalmSteps /\ CalmView
    BY DEF ContextInv, CalmInv
  <2>2. CalmStack'
    BY <1>1, <1>2, <1>3, <2>1, CalmKept DEF CalmStack, contextVars, focusVars
  <2>3. \A k \in 1..(d - 1) : /\ k \in 1..d /\ StepAt(k)' = StepAt(k)
                              /\ Op(k)' = Op(k) /\ Of(k)' = Of(k)
    BY <1>3 DEF Keeps
  <2>4. d > 1 => Ends(d)
    BY <1>1, <1>2 DEF EndsInv
  <2>5. ASSUME d > 1
        PROVE  /\ Op(d - 1) \in {"unset", "focus"} /\ StepAt(d).n = 0
               /\ Op(d - 1) = "unset" => Of(d - 1) = Of(d)
               /\ focused = Of(d) => Of(d) \notin told
    <3>1. CalmStep(d) /\ Ready(d)
      BY <1>2, <1>3, <2>1 DEF CalmSteps, Ready
    <3> QED BY <1>3, <2>4, <2>5, <3>1 DEF Ends, CalmStep
  <2>6. ASSUME NEW k \in 1..(d - 1) PROVE CalmStep(k)'
    <3>1. CASE k = d - 1
      <4>1. d > 1 /\ Op(k)' \in {"unset", "focus"} /\ (Op(k)' = "unset" => Of(k)' = Of(d))
        BY <2>3, <2>5, <3>1
      <4> QED BY <1>1, <2>5, <4>1 DEF CalmStep, focusVars, clientView
    <3>2. CASE k # d - 1
      <4>1. k + 1 \in 1..(d - 1) /\ CalmStep(k) /\ k # d
        BY <1>2, <2>1, <2>3, <3>2 DEF CalmSteps
      <4>2. Ready(k)' => Ready(k)
        BY <1>3, <2>3, <3>2, <4>1 DEF Ready
      <4> QED BY <1>1, <1>3, <2>3, <3>2, <4>1, <4>2 DEF CalmStep, focusVars, clientView
    <3> QED BY <3>1, <3>2
  <2>7. \A ic \in Contexts : Seen(ic)'
    BY <1>1, <1>2, <1>3, <2>1, SeenKept, MidwayPopped
       DEF CalmView, contextVars, focusVars, clientView
  <2>8. d > 1 => told = {}
    <3> SUFFICES ASSUME d > 1, NEW ic \in Contexts, ic \in told PROVE FALSE
      BY <1>1 DEF ContextTypes
    <3>1. ic = focused
      BY <1>2, <1>3, <2>1 DEF CalmView, Seen, TopIs
    <3>2. focused \in {Of(d), NoContext}
      BY <1>2, <1>3, <2>1 DEF CalmStack, CalmAt, PreeditOps
    <3>3. ic # NoContext
      BY ProgramsAssumption
    <3> QED BY <2>5, <3>1, <3>2, <3>3
  <2>9. CalmView'
    BY <1>1, <1>3, <2>1, <2>7, <2>8 DEF CalmView, contextVars, clientView
  <2> QED BY <1>3, <2>2, <2>6, <2>9 DEF CalmSteps
<1> QED BY <1>4, <1>5, <1>6 DEF ContextInv, RunInv

(* A step of a preedit that is handled: the next one is reached, or will be  *)
(* when the client returns.                                                  *)
Goes(d) ==
  /\ Keeps(d - 1) /\ d > 1 /\ d - 1 \in 1..(d - 1)
  /\ Op(d - 1)' = NextOp(Op(d)) /\ Of(d - 1)' = Of(d) /\ StepAt(d - 1)'.n = StepAt(d).n
  /\ Ready(d - 1)' /\ Depth' \in {d - 1, d}
  /\ Op(Depth)' \in {"callback", "draw", "caret", "done", "leave"}
  /\ Depth' = d => Op(d)' = "callback" /\ Of(d)' = Of(d)

(* So it does whether the client is called or not.                           *)
LEMMA GoesOn ==
  ASSUME ContextTypes, RunInv, running # <<>>, NEW d \in Nat \ {0}, Depth = d,
         Op(d) \in {"start", "draw", "caret", "done"},
         running' = Tail(running) \/ Invokes,
         UNCHANGED <<destroying, focusVars, reentered>>
  PROVE  /\ RunInv' /\ \A k \in 1..Depth' : Op(k)' # "preedit" => Of(k)' \in Contexts
         /\ Goes(d)
<1>1. OrderInv /\ d \in 1..d /\ Orders(d)
  BY DEF RunInv, OrderInv
<1>2. /\ d > 1 /\ d - 1 \in 1..(d - 1) /\ Op(d - 1) = NextOp(Op(d)) /\ Continues(d)
      /\ NextOp(Op(d)) \in {"draw", "caret", "done", "leave"}
  BY <1>1 DEF Orders, NextOp
<1>3. CASE running' = Tail(running)
  <2>1. Keeps(d - 1) /\ Depth' = d - 1
    BY <1>3, Pops
  <2>2. RunInv' /\ \A k \in 1..Depth' : Op(k)' # "preedit" => Of(k)' \in Contexts
    <3>1. \A k \in (d - 1 + 1)..d : Op(k) \in QuietOps
      BY DEF QuietOps
    <3>2. 1 \in Nat /\ 1 <= d
      OBVIOUS
    <3> QED BY <2>1, <3>1, <3>2, QuietDrop DEF focusVars
  <2>3. /\ Op(d - 1)' = Op(d - 1) /\ Of(d - 1)' = Of(d - 1) /\ StepAt(d - 1)' = StepAt(d - 1)
    BY <1>2, <2>1 DEF Keeps
  <2>4. Ready(d - 1)' /\ Op(Depth)' = Op(d - 1)'
    BY <2>1 DEF Ready
  <2> QED BY <1>2, <2>1, <2>2, <2>3, <2>4 DEF Goes, Continues
<1>4. CASE Invokes
  <2> DEFINE p == <<Step("callback", This, Length)>>
  <2>1. This = Of(d) /\ Length = StepAt(d).n /\ Of(d) \in Contexts \union {NoContext}
        /\ StepAt(d).n \in Nat
    BY <1>1, TopStep, StepsHaveTypes
  <2>2. p \in Seq(StepType) /\ Len(p) = 1 /\ p[1] = Step("callback", Of(d), StepAt(d).n)
    <3>1. Step("callback", This, Length) \in StepType
      BY <2>1 DEF Step, StepType, StepOps, PreeditOps
    <3> QED BY <2>1, <3>1
  <2>3. running' = p \o Tail(running)
    BY <1>4 DEF Invokes, Rest
  <2> HIDE DEF p
  <2>4. Keeps(d - 1) /\ Depth' = d /\ StepAt(d)' = p[1]
    <3>1. /\ Keeps(d - 1) /\ Depth' = d - 1 + 1
          /\ \A k \in d..Depth' : StepAt(k)' = p[Depth' + 1 - k]
      BY <2>2, <2>3, Replaces
    <3>2. Depth' = d /\ d \in d..d /\ d + 1 - d = 1
      BY <3>1
    <3> QED BY <3>1, <3>2
  <2>5. RunInv' /\ \A k \in 1..Depth' : Op(k)' # "preedit" => Of(k)' \in Contexts
    BY <2>2, <2>4, QuietCall DEF focusVars
  <2>6. /\ Op(d - 1)' = Op(d - 1) /\ Of(d - 1)' = Of(d - 1) /\ StepAt(d - 1)' = StepAt(d - 1)
    BY <1>2, <2>4 DEF Keeps
  <2>7. Op(d)' = "callback" /\ Of(d)' = Of(d)
    BY <2>2, <2>4 DEF Op, Of, Step
  <2>8. Ready(d - 1)' /\ Op(Depth)' = "callback"
    BY <2>4, <2>7 DEF Ready
  <2> QED BY <1>2, <2>4, <2>5, <2>6, <2>7, <2>8 DEF Goes, Continues
<1> QED BY <1>3, <1>4

(* What is told in the course of a preedit is told of its context.           *)
LEMMA CalmGoesOn ==
  ASSUME ContextTypes, OrderInv, CalmStack, NEW d \in Nat \ {0}, Depth = d,
         Op(d) \in {"start", "draw", "caret", "done"}, Goes(d), UNCHANGED <<focused, alive>>
  PROVE  /\ CalmStack'
         /\ \A ic : ~TopIs("free", ic) /\ ~TopIs("free", ic)'
         /\ ~(Depth' > 0 /\ Op(Depth)' = "focus")
         /\ Op(Depth)' # "unset" /\ Op(d - 1)' \in FrameOps /\ d - 1 \in 1..Depth'
         /\ \A ic : Midway(ic) => ic = Of(d) /\ Op(d) \in {"caret", "done"}
<1>1. d \in 1..d /\ d - 1 \in Nat /\ d - 1 <= d
  OBVIOUS
<1>2. \A k \in 1..(d - 1) : CalmAt(k)'
  BY <1>1, CalmKept DEF Goes
<1>3. Depth' = d => CalmAt(d)'
  <2> SUFFICES ASSUME Depth' = d PROVE CalmAt(d)'
    OBVIOUS
  <2>1. Op(d)' = "callback" /\ Of(d)' = Of(d)
    BY DEF Goes
  <2>2. focused \in {Of(d), NoContext} /\ (focused = Of(d) \/ Of(d) \notin alive)
    BY <1>1 DEF CalmStack, CalmAt, TopIs, PreeditOps
  <2> QED BY <2>1, <2>2 DEF CalmAt
<1>4. \A k \in 1..Depth' : k \in 1..(d - 1) \/ (k = d /\ Depth' = d)
  BY DEF Goes
<1>5. CalmStack'
  BY <1>2, <1>3, <1>4 DEF CalmStack
<1>6. \A ic : ~TopIs("free", ic) /\ ~TopIs("free", ic)'
  BY DEF TopIs, Goes
<1>7. ASSUME NEW ic, Midway(ic) PROVE ic = Of(d) /\ Op(d) \in {"caret", "done"}
  <2>1. PICK k \in 1..d : Op(k) \in {"caret", "done"} /\ Of(k) = ic /\ Ready(k)
    BY <1>7 DEF Midway
  <2>2. Ready(d) /\ Op(d) \in FrameOps /\ Op(k) \in FrameOps
    BY <2>1 DEF Ready, FrameOps
  <2>3. k = d
    BY <1>1, <2>1, <2>2, OneReady
  <2> QED BY <2>1, <2>3
<1>8. Op(d - 1)' \in FrameOps /\ d - 1 \in 1..Depth'
  BY DEF Goes, NextOp, FrameOps
<1> QED BY <1>5, <1>6, <1>7, <1>8 DEF Goes

(* The start of a preedit is told once.                                      *)
LEMMA PreeditStartInv ==
  ASSUME ContextInv, PreeditStart
  PROVE  ContextInv'
<1>1. /\ ContextTypes /\ RunInv /\ OrderInv /\ running # <<>> /\ Head(running).op = "start"
      /\ program' = program /\ focused = This
      /\ UNCHANGED <<focusVars, reentered, alive, destroying, preeditLength, shown>>
      /\ running' = Tail(running) \/ Invokes
      /\ IF This \notin preeditActive /\ Length > 0
         THEN /\ preeditActive' = preeditActive \union {This}
              /\ orderly' = (orderly /\ This \notin told) /\ told' = told \union {This}
         ELSE UNCHANGED <<preeditActive, told, orderly>>
  BY DEF ContextInv, RunInv, PreeditStart, Handling, On, bails, Rest, Unbudgeted
<1>2. PICK d \in Nat \ {0} : Depth = d
  BY <1>1, StepsHaveTypes
<1>3. Op(d) = "start" /\ d \in 1..d /\ This = Of(d) /\ Length = StepAt(d).n /\ Of(d) \in Contexts
  BY <1>1, <1>2, TopStep DEF ContextTypes
<1>4. /\ RunInv' /\ \A k \in 1..Depth' : Op(k)' # "preedit" => Of(k)' \in Contexts
      /\ Goes(d)
  BY <1>1, <1>2, <1>3, GoesOn
<1>5. This \in alive /\ This \in Contexts
  BY <1>1, <1>3, ProgramsAssumption DEF ContextTypes
<1>6. ContextTypes'
  <2>1. preeditActive' \subseteq alive /\ told' \subseteq Contexts /\ orderly' \in BOOLEAN
    BY <1>1, <1>5 DEF ContextTypes
  <2> QED BY <1>1, <1>4, <2>1 DEF ContextTypes, Goes, Keeps, focusVars
<1>7. CalmInv'
  <2> SUFFICES ASSUME program.nested \subseteq {"destroy"}
               PROVE  CalmStack' /\ CalmSteps' /\ CalmView'
    BY <1>1 DEF CalmInv
  <2>1. CalmStack /\ CalmSteps /\ CalmView
    BY DEF ContextInv, CalmInv
  <2>2. /\ CalmStack'
        /\ \A ic : ~TopIs("free", ic) /\ ~TopIs("free", ic)'
        /\ ~(Depth' > 0 /\ Op(Depth)' = "focus")
        /\ Op(Depth)' # "unset" /\ Op(d - 1)' \in FrameOps /\ d - 1 \in 1..Depth'
        /\ \A ic : ~Midway(ic)
    BY <1>1, <1>2, <1>3, <1>4, <2>1, CalmGoesOn DEF focusVars
  <2>3. This \in told => This \in preeditActive
    BY <1>5, <2>1, <2>2 DEF CalmView, Seen
  <2>4. /\ preeditActive' \subseteq told' /\ orderly'
        /\ Length > 0 => This \in told'
        /\ told \subseteq told' /\ told' \subseteq told \union {This}
        /\ preeditActive \subseteq preeditActive' /\ (This \in told' => This \in preeditActive')
    BY <1>1, <2>1, <2>3 DEF CalmView
  <2>5. CalmStep(d - 1)'
    BY <1>1, <1>3, <1>4, <2>4 DEF CalmStep, Goes, NextOp
  <2>6. CalmSteps'
    BY <1>4, <1>6, <2>2, <2>5, ReachedNext DEF RunInv, Goes
  <2>7. ASSUME NEW ic \in Contexts PROVE Seen(ic)'
    <3>1. Seen(ic) /\ ~TopIs("free", ic) /\ ~Midway(ic)
      BY <2>1, <2>2 DEF CalmView
    <3> QED BY <1>1, <2>4, <3>1 DEF Seen, focusVars
  <2> QED BY <2>2, <2>4, <2>6, <2>7 DEF CalmView
<1> QED BY <1>4, <1>6, <1>7 DEF ContextInv, RunInv


(* The caret is told to a client that shows the preedit.                     *)
LEMMA PreeditCaretInv ==
  ASSUME ContextInv, PreeditCaret
  PROVE  ContextInv'
<1>1. /\ ContextTypes /\ RunInv /\ OrderInv /\ running # <<>> /\ Head(running).op = "caret"
      /\ program' = program /\ focused = This
      /\ UNCHANGED <<contextVars, focusVars, reentered, told, shown>>
      /\ running' = Tail(running) \/ Invokes
      /\ orderly' = (orderly /\ This \in told)
  BY DEF ContextInv, RunInv, PreeditCaret, Handling, On, bails, Rest, Unbudgeted
<1>2. PICK d \in Nat \ {0} : Depth = d
  BY <1>1, StepsHaveTypes
<1>3. Op(d) = "caret" /\ d \in 1..d /\ This = Of(d) /\ Length = StepAt(d).n /\ Of(d) \in Contexts
  BY <1>1, <1>2, TopStep DEF ContextTypes
<1>4. /\ RunInv' /\ \A k \in 1..Depth' : Op(k)' # "preedit" => Of(k)' \in Contexts
      /\ Goes(d)
  BY <1>1, <1>2, <1>3, GoesOn DEF contextVars
<1>5. ContextTypes'
  <2>1. orderly' \in BOOLEAN
    BY <1>1 DEF ContextTypes
  <2> QED BY <1>1, <1>4, <2>1 DEF ContextTypes, Goes, Keeps, focusVars, contextVars
<1>6. CalmInv'
  <2> SUFFICES ASSUME program.nested \subseteq {"destroy"}
               PROVE  CalmStack' /\ CalmSteps' /\ CalmView'
    BY <1>1 DEF CalmInv
  <2>1. CalmStack /\ CalmSteps /\ CalmView
    BY DEF ContextInv, CalmInv
  <2>2. /\ CalmStack'
        /\ \A ic : ~TopIs("free", ic) /\ ~TopIs("free", ic)'
        /\ ~(Depth' > 0 /\ Op(Depth)' = "focus")
        /\ Op(Depth)' # "unset" /\ Op(d - 1)' \in FrameOps /\ d - 1 \in 1..Depth'
        /\ \A ic : Midway(ic) => ic = This
    BY <1>1, <1>2, <1>3, <1>4, <2>1, CalmGoesOn DEF focusVars, contextVars
  <2>3. This \in told /\ shown[This] = Length
    <3>1. CalmStep(d) /\ Ready(d)
      BY <1>2, <1>3, <2>1 DEF CalmSteps, Ready
    <3> QED BY <1>1, <1>3, <3>1 DEF CalmStep
  <2>4. CalmStep(d - 1)'
    BY <1>1, <1>3, <1>4, <2>3 DEF CalmStep, Goes, NextOp
  <2>5. CalmSteps'
    BY <1>4, <1>5, <2>2, <2>4, ReachedNext DEF RunInv, Goes
  <2>6. \A ic : ic = This => Midway(ic)'
    BY <1>3, <1>4, <2>2 DEF Midway, Goes, NextOp
  <2>7. ASSUME NEW ic \in Contexts PROVE Seen(ic)'
    <3>1. Seen(ic) /\ ~TopIs("free", ic) /\ (Midway(ic) => Midway(ic)')
      BY <2>1, <2>2, <2>6 DEF CalmView
    <3> QED BY <1>1, <3>1 DEF Seen, focusVars, contextVars
  <2> QED BY <1>1, <2>1, <2>2, <2>3, <2>5, <2>7 DEF CalmView, contextVars
<1> QED BY <1>4, <1>5, <1>6 DEF ContextInv, RunInv

(* The end of a preedit is told of one that was started.                     *)
LEMMA PreeditDoneInv ==
  ASSUME ContextInv, PreeditDone
  PROVE  ContextInv'
<1>1. /\ ContextTypes /\ RunInv /\ OrderInv /\ running # <<>> /\ Head(running).op = "done"
      /\ program' = program /\ focused = This
      /\ UNCHANGED <<focusVars, reentered, alive, destroying, shown>>
      /\ running' = Tail(running) \/ Invokes
      /\ preeditLength' = [preeditLength EXCEPT ![This] = Length]
      /\ IF This \in preeditActive /\ Length = 0
         THEN /\ preeditActive' = preeditActive \ {This}
              /\ orderly' = (orderly /\ This \in told) /\ told' = told \ {This}
         ELSE UNCHANGED <<preeditActive, told, orderly>>
  BY DEF ContextInv, RunInv, PreeditDone, endsPreedit, Handling, On, bails, Rest, Unbudgeted
<1>2. PICK d \in Nat \ {0} : Depth = d
  BY <1>1, StepsHaveTypes
<1>3. /\ Op(d) = "done" /\ d \in 1..d /\ This = Of(d) /\ Length = StepAt(d).n
      /\ Of(d) \in Contexts /\ Length \in Nat
  BY <1>1, <1>2, TopStep, StepsHaveTypes DEF ContextTypes
<1>4. /\ RunInv' /\ \A k \in 1..Depth' : Op(k)' # "preedit" => Of(k)' \in Contexts
      /\ Goes(d)
  BY <1>1, <1>2, <1>3, GoesOn
<1>5. /\ preeditLength' \in [Contexts -> Nat] /\ preeditLength'[This] = Length
      /\ \A ic \in Contexts : ic # This => preeditLength'[ic] = preeditLength[ic]
  BY <1>1, <1>3 DEF ContextTypes
<1>6. ContextTypes'
  <2>1. preeditActive' \subseteq alive /\ told' \subseteq Contexts /\ orderly' \in BOOLEAN
    BY <1>1 DEF ContextTypes
  <2> QED BY <1>1, <1>4, <1>5, <2>1 DEF ContextTypes, Goes, Keeps, focusVars
<1>7. CalmInv'
  <2> SUFFICES ASSUME program.nested \subseteq {"destroy"}
               PROVE  CalmStack' /\ CalmSteps' /\ CalmView'
    BY <1>1 DEF CalmInv
  <2>1. CalmStack /\ CalmSteps /\ CalmView
    BY DEF ContextInv, CalmInv
  <2>2. /\ CalmStack'
        /\ \A ic : ~TopIs("free", ic) /\ ~TopIs("free", ic)'
        /\ ~(Depth' > 0 /\ Op(Depth)' = "focus")
        /\ Op(Depth)' # "unset" /\ Op(d - 1)' \in FrameOps /\ d - 1 \in 1..Depth'
        /\ \A ic : Midway(ic) => ic = This
    BY <1>1, <1>2, <1>3, <1>4, <2>1, CalmGoesOn DEF focusVars
  <2>3. shown[This] = Length
    <3>1. CalmStep(d) /\ Ready(d)
      BY <1>2, <1>3, <2>1 DEF CalmSteps, Ready
    <3> QED BY <1>1, <1>3, <3>1 DEF CalmStep
  <2>4. Seen(This) /\ ~TopIs("free", This)
    BY <1>3, <2>1, <2>2 DEF CalmView
  <2>5. /\ preeditActive' \subseteq told' /\ orderly'
        /\ Length = 0 => This \notin told'
        /\ told' \subseteq told /\ told \subseteq told' \union {This}
        /\ This \in told' => told' = told /\ preeditActive' = preeditActive
        /\ preeditActive \subseteq preeditActive' \union {This}
        /\ This \notin told' => shown[This] = 0
    BY <1>1, <2>1, <2>3, <2>4 DEF CalmView, Seen
  <2>6. CalmStep(d - 1)'
    BY <1>1, <1>3, <1>4, <2>5 DEF CalmStep, Goes, NextOp
  <2>7. CalmSteps'
    BY <1>4, <1>6, <2>2, <2>6, ReachedNext DEF RunInv, Goes
  <2>8. ASSUME NEW ic \in Contexts PROVE Seen(ic)'
    <3>1. Seen(ic) /\ ~TopIs("free", ic) /\ (Midway(ic) => ic = This)
      BY <2>1, <2>2 DEF CalmView
    <3>2. CASE ic = This
      BY <1>1, <1>5, <2>3, <2>4, <2>5, <3>2 DEF Seen, focusVars
    <3>3. CASE ic # This
      BY <1>1, <1>5, <2>5, <3>1, <3>3 DEF Seen, focusVars
    <3> QED BY <3>2, <3>3
  <2> QED BY <2>2, <2>5, <2>7, <2>8 DEF CalmView
<1> QED BY <1>4, <1>6, <1>7 DEF ContextInv, RunInv

(* Two steps go at once when there is nothing to draw.                       *)
LEMMA PopsTwo ==
  ASSUME ContextTypes, NEW d \in Nat, Depth = d, d > 1, running' = Tail(Tail(running))
  PROVE  Keeps(d - 2) /\ Depth' = d - 2
<1> DEFINE t == Tail(running)
<1>1. running \in Seq(StepType) /\ running # <<>> /\ Len(running) = d
  BY StepsHaveTypes DEF ContextTypes, Depth
<1>2. /\ t \in Seq(StepType) /\ Len(t) = d - 1
      /\ \A k \in 1..(d - 1) : t[Len(t) + 1 - k] = running[Len(running) + 1 - k]
  BY <1>1, TailFromTop
<1>3. running' = Tail(t)
  OBVIOUS
<1> HIDE DEF t
<1>4. t # <<>>
  BY <1>2, EmptySeq
<1>5. /\ Tail(t) \in Seq(StepType) /\ Len(Tail(t)) = Len(t) - 1
      /\ \A k \in 1..(Len(t) - 1) : Tail(t)[Len(Tail(t)) + 1 - k] = t[Len(t) + 1 - k]
  BY <1>2, <1>4, TailFromTop
<1>6. Len(t) - 1 = d - 2 /\ \A k \in 1..(d - 2) : k \in 1..(d - 1)
  BY <1>2
<1>7. /\ running' \in Seq(StepType) /\ Len(running') = d - 2
      /\ \A k \in 1..(d - 2) : running'[Len(running') + 1 - k] = running[Len(running) + 1 - k]
  BY <1>2, <1>3, <1>5, <1>6
<1>8. \A k \in 1..(d - 2) : StepAt(k)' = StepAt(k)
  BY <1>7 DEF StepAt, Depth
<1> QED BY <1>7, <1>8, KeepsSteps DEF Depth

(* Steps of a preedit are left out, down to one that is then reached.        *)
LEMMA Skipped ==
  ASSUME ContextTypes, RunInv, NEW d \in Nat \ {0}, Depth = d, NEW m \in 1..3, m < d,
         Keeps(d - m), Depth' = d - m, Op(d) \in {"draw", "caret", "done"},
         m <= (CASE Op(d) = "draw" -> 3 [] Op(d) = "caret" -> 2 [] OTHER -> 1),
         UNCHANGED <<contextVars, focusVars, reentered>>
  PROVE  /\ RunInv' /\ \A k \in 1..Depth' : Op(k)' # "preedit" => Of(k)' \in Contexts
         /\ d - m \in 1..Depth' /\ Op(d - m)' \in FrameOps /\ Ready(d - m)'
         /\ Op(d - m)' = Op(d - m) /\ Of(d - m)' = Of(d)
         /\ \A ic : Midway(ic) => ic = Of(d) /\ Op(d) # "draw"
<1>1. OrderInv /\ d \in 1..d
  BY DEF RunInv
<1>2. /\ Op(d) = "done" => Op(d - 1) = "leave" /\ Of(d - 1) = Of(d)
      /\ Op(d) = "caret" => /\ Op(d - 1) = "done" /\ Op(d - 2) = "leave"
                            /\ Of(d - 1) = Of(d) /\ Of(d - 2) = Of(d)
      /\ Op(d) = "draw" =>
           /\ Op(d - 1) = "caret" /\ Op(d - 2) = "done" /\ Op(d - 3) = "leave"
           /\ Of(d - 1) = Of(d) /\ Of(d - 2) = Of(d) /\ Of(d - 3) = Of(d)
  BY <1>1, FrameShape
<1>3. m \in Nat /\ m <= d /\ d - m \in 1..(d - m)
  OBVIOUS
<1>4. Op(d - m)' = Op(d - m) /\ Of(d - m)' = Of(d - m)
  BY <1>3 DEF Keeps
<1>5. Op(d - m) \in {"caret", "done", "leave"} /\ Of(d - m) = Of(d)
  <2>1. m \in {1, 2, 3}
    OBVIOUS
  <2>2. m = 3 => Op(d) = "draw"
    OBVIOUS
  <2>3. m = 2 => Op(d) # "done"
    OBVIOUS
  <2>4. CASE m = 1
    BY <1>2, <2>4
  <2>5. CASE m = 2
    BY <1>2, <2>3, <2>5
  <2>6. CASE m = 3
    BY <1>2, <2>2, <2>6
  <2> QED BY <2>1, <2>4, <2>5, <2>6
<1>6. \A k \in (d - m + 1)..d : Op(k) \in QuietOps
  <2> SUFFICES ASSUME NEW k \in (d - m + 1)..d PROVE Op(k) \in QuietOps
    OBVIOUS
  <2>1. k \in {d, d - 1, d - 2} /\ (k = d - 1 => m > 1) /\ (k = d - 2 => m > 2)
    OBVIOUS
  <2>2. CASE k = d
    BY <2>2 DEF QuietOps
  <2>3. CASE k = d - 1
    BY <1>2, <2>1, <2>3 DEF QuietOps
  <2>4. CASE k = d - 2
    BY <1>2, <2>1, <2>4 DEF QuietOps
  <2> QED BY <2>1, <2>2, <2>3, <2>4
<1>7. RunInv' /\ \A k \in 1..Depth' : Op(k)' # "preedit" => Of(k)' \in Contexts
  BY <1>3, <1>6, QuietDrop DEF contextVars, focusVars
<1>8. ASSUME NEW ic, Midway(ic) PROVE ic = Of(d) /\ Op(d) # "draw"
  <2>1. PICK k \in 1..d : Op(k) \in {"caret", "done"} /\ Of(k) = ic /\ Ready(k)
    BY <1>8 DEF Midway
  <2>2. Ready(d) /\ Op(d) \in FrameOps /\ Op(k) \in FrameOps
    BY <2>1 DEF Ready, FrameOps
  <2>3. k = d
    BY <1>1, <2>1, <2>2, OneReady
  <2> QED BY <2>1, <2>3
<1>9. Ready(d - m)' /\ Op(d - m)' \in FrameOps
  BY <1>4, <1>5 DEF Ready, FrameOps
<1> QED BY <1>3, <1>4, <1>5, <1>7, <1>8, <1>9

(* A drawing replaces what the client shows.                                 *)
LEMMA PreeditDrawInv ==
  ASSUME ContextInv, PreeditDraw
  PROVE  ContextInv'
<1>1. /\ ContextTypes /\ RunInv /\ OrderInv /\ running # <<>> /\ Head(running).op = "draw"
      /\ program' = program /\ focused = This
      /\ UNCHANGED <<contextVars, focusVars, reentered, told>>
      /\ IF This \in preeditActive \/ Length > 0
         THEN /\ orderly' = (orderly /\ This \in told /\ preeditLength[This] = shown[This])
              /\ shown' = [shown EXCEPT ![This] = Length] /\ Invokes
         ELSE running' = Tail(Tail(running)) /\ UNCHANGED <<orderly, shown>>
  BY DEF ContextInv, RunInv, PreeditDraw, Handling, On, bails, Rest, Unbudgeted
<1>2. PICK d \in Nat \ {0} : Depth = d
  BY <1>1, StepsHaveTypes
<1>3. /\ Op(d) = "draw" /\ d \in 1..d /\ This = Of(d) /\ Length = StepAt(d).n
      /\ Of(d) \in Contexts /\ Length \in Nat
  BY <1>1, <1>2, TopStep, StepsHaveTypes DEF ContextTypes
<1>4. This \in alive
  BY <1>1, <1>3, ProgramsAssumption DEF ContextTypes
<1>5. CASE This \in preeditActive \/ Length > 0
  <2>1. /\ RunInv' /\ \A k \in 1..Depth' : Op(k)' # "preedit" => Of(k)' \in Contexts
        /\ Goes(d)
    BY <1>1, <1>2, <1>3, <1>5, GoesOn DEF contextVars
  <2>2. /\ shown' \in [Contexts -> Nat] /\ shown'[This] = Length
        /\ \A ic \in Contexts : ic # This => shown'[ic] = shown[ic]
    BY <1>1, <1>3, <1>5 DEF ContextTypes
  <2>3. ContextTypes'
    <3>1. orderly' \in BOOLEAN
      BY <1>1, <1>5 DEF ContextTypes
    <3> QED BY <1>1, <2>1, <2>2, <3>1 DEF ContextTypes, Goes, Keeps, focusVars, contextVars
  <2>4. CalmInv'
    <3> SUFFICES ASSUME program.nested \subseteq {"destroy"}
                 PROVE  CalmStack' /\ CalmSteps' /\ CalmView'
      BY <1>1 DEF CalmInv
    <3>1. CalmStack /\ CalmSteps /\ CalmView
      BY DEF ContextInv, CalmInv
    <3>2. /\ CalmStack'
          /\ \A ic : ~TopIs("free", ic) /\ ~TopIs("free", ic)'
          /\ ~(Depth' > 0 /\ Op(Depth)' = "focus")
          /\ Op(Depth)' # "unset" /\ Op(d - 1)' \in FrameOps /\ d - 1 \in 1..Depth'
          /\ \A ic : ~Midway(ic)
      BY <1>1, <1>2, <1>3, <2>1, <3>1, CalmGoesOn DEF focusVars, contextVars
    <3>3. This \in told
      <4>1. CalmStep(d) /\ Ready(d)
        BY <1>2, <1>3, <3>1 DEF CalmSteps, Ready
      <4> QED BY <1>1, <1>3, <1>5, <3>1, <4>1 DEF CalmStep, CalmView
    <3>4. orderly'
      BY <1>1, <1>3, <1>4, <1>5, <3>1, <3>2, <3>3 DEF CalmView, Seen
    <3>5. CalmStep(d - 1)' /\ \A ic : ic = This => Midway(ic)'
      BY <1>1, <1>3, <2>1, <2>2, <3>2, <3>3 DEF CalmStep, Goes, NextOp, Midway
    <3>6. CalmSteps'
      BY <2>1, <2>3, <3>2, <3>5, ReachedNext DEF RunInv, Goes
    <3>7. ASSUME NEW ic \in Contexts PROVE Seen(ic)'
      <4>1. Seen(ic) /\ ~TopIs("free", ic) /\ ~Midway(ic)
        BY <3>1, <3>2 DEF CalmView
      <4>2. CASE ic = This
        BY <1>1, <3>3, <3>5, <4>1, <4>2 DEF Seen, focusVars, contextVars
      <4>3. CASE ic # This
        BY <1>1, <2>2, <4>1, <4>3 DEF Seen, focusVars, contextVars
      <4> QED BY <4>2, <4>3
    <3> QED BY <1>1, <3>1, <3>2, <3>4, <3>6, <3>7 DEF CalmView, contextVars
  <2> QED BY <2>1, <2>3, <2>4 DEF ContextInv, RunInv
<1>6. CASE This \notin preeditActive /\ Length = 0
  <2>1. /\ running' = Tail(Tail(running)) /\ UNCHANGED <<orderly, shown>>
    BY <1>1, <1>6
  <2>2. /\ d > 3 /\ Op(d - 1) = "caret" /\ Op(d - 2) = "done"
        /\ Of(d - 1) = Of(d) /\ Of(d - 2) = Of(d)
    BY <1>1, <1>2, <1>3, FrameShape
  <2>3. Keeps(d - 2) /\ Depth' = d - 2
    BY <1>1, <1>2, <2>1, <2>2, PopsTwo
  <2>4. /\ RunInv' /\ \A k \in 1..Depth' : Op(k)' # "preedit" => Of(k)' \in Contexts
        /\ d - 2 \in 1..Depth' /\ Op(d - 2)' \in FrameOps /\ Ready(d - 2)'
        /\ Op(d - 2)' = Op(d - 2) /\ Of(d - 2)' = Of(d)
        /\ \A ic : ~Midway(ic)
    <3>1. 2 \in 1..3 /\ 2 < d
      BY <2>2
    <3> QED BY <1>1, <1>2, <1>3, <2>3, <3>1, Skipped
  <2>5. StepAt(d - 2)'.n = Length
    <3>1. Continues(d) /\ Continues(d - 1)
      <4>1. d - 1 \in 1..d /\ Orders(d) /\ Orders(d - 1)
        BY <1>1, <1>2, <1>3, <2>2 DEF OrderInv
      <4> QED BY <1>3, <2>2, <4>1 DEF Orders
    <3>2. (d - 1) - 1 = d - 2 /\ d - 2 \in 1..(d - 2)
      BY <2>2
    <3>3. StepAt(d - 2).n = StepAt(d).n
      BY <3>1, <3>2 DEF Continues
    <3> QED BY <1>3, <2>3, <3>2, <3>3 DEF Keeps
  <2>6. ContextTypes'
    BY <1>1, <2>1, <2>3, <2>4 DEF ContextTypes, Keeps, focusVars, contextVars
  <2>7. CalmInv'
    <3> SUFFICES ASSUME program.nested \subseteq {"destroy"}
                 PROVE  CalmStack' /\ CalmSteps' /\ CalmView'
      BY <1>1 DEF CalmInv
    <3>1. CalmStack /\ CalmSteps /\ CalmView
      BY DEF ContextInv, CalmInv
    <3>2. CalmStack'
      <4>1. d - 2 \in Nat /\ d - 2 <= d
        BY <2>2
      <4> QED BY <1>1, <1>2, <1>3, <2>3, <3>1, <4>1, CalmKept
             DEF CalmStack, focusVars, contextVars
    <3>3. \A ic : ~TopIs("free", ic)
      BY <1>2, <1>3 DEF TopIs
    <3>4. This \notin told /\ shown[This] = 0
      BY <1>3, <1>4, <1>6, <3>1, <3>3 DEF CalmView, Seen
    <3>5. CalmStep(d - 2)'
      BY <1>1, <1>3, <1>6, <2>1, <2>2, <2>4, <2>5, <3>4 DEF CalmStep
    <3>6. Op(Depth)' \notin {"unset", "focus"}
      BY <2>2, <2>3, <2>4
    <3>7. CalmSteps'
      BY <2>4, <2>6, <3>5, <3>6, ReachedNext DEF RunInv
    <3>8. ASSUME NEW ic \in Contexts PROVE Seen(ic)'
      <4>1. Seen(ic) /\ ~Midway(ic)
        BY <2>4, <3>1 DEF CalmView
      <4> QED BY <1>1, <1>2, <1>3, <2>1, <4>1, SeenKept DEF focusVars, contextVars
    <3> QED BY <1>1, <2>1, <3>1, <3>2, <3>6, <3>7, <3>8 DEF CalmView, contextVars
  <2> QED BY <2>4, <2>6, <2>7 DEF ContextInv, RunInv
<1> QED BY <1>3, <1>5, <1>6

(* The library gives up a preedit whose context has lost the focus.          *)
LEMMA BailInv ==
  ASSUME ContextInv, Bail
  PROVE  ContextInv'
<1>1. /\ ContextTypes /\ RunInv /\ OrderInv
      /\ program' = program /\ UNCHANGED <<contextVars, focusVars, reentered, clientView>>
  BY DEF ContextInv, RunInv, Bail, Unbudgeted
<1>2. PICK m \in 1..3 :
        /\ running # <<>> /\ Head(running).op \in {"draw", "caret", "done"} /\ focused # This
        /\ m = (CASE Head(running).op = "draw" -> 3 [] Head(running).op = "caret" -> 2
                  [] OTHER -> 1)
        /\ running' = SubSeq(running, m + 1, Len(running))
  <2>1. PICK op \in DOMAIN LeftToDo :
          running # <<>> /\ Head(running).op = op /\ focused # This
          /\ running' = SubSeq(running, LeftToDo[op] + 1, Len(running))
    BY DEF Bail, On, bails
  <2>2. op \in {"draw", "caret", "done"}
    BY DEF LeftToDo
  <2>3. LeftToDo[op] = (CASE op = "draw" -> 3 [] op = "caret" -> 2 [] OTHER -> 1)
    BY <2>2 DEF LeftToDo
  <2>4. LeftToDo[op] \in 1..3
    BY <2>2, <2>3
  <2> QED BY <2>1, <2>2, <2>3, <2>4
<1>3. PICK d \in Nat \ {0} : Depth = d
  BY <1>1, <1>2, StepsHaveTypes
<1>4. /\ Op(d) = Head(running).op /\ Op(d) \in {"draw", "caret", "done"} /\ d \in 1..d
      /\ This = Of(d) /\ Of(d) \in Contexts
  BY <1>1, <1>2, <1>3, TopStep DEF ContextTypes
<1>5. m < d /\ Op(d - m) = "leave"
  BY <1>1, <1>2, <1>3, <1>4, FrameShape
<1>6. Keeps(d - m) /\ Depth' = d - m
  <2>1. m \in Nat
    OBVIOUS
  <2> QED BY <1>1, <1>2, <1>3, <1>5, <2>1, Drops
<1>7. /\ RunInv' /\ \A k \in 1..Depth' : Op(k)' # "preedit" => Of(k)' \in Contexts
      /\ d - m \in 1..Depth' /\ Op(d - m)' \in FrameOps /\ Ready(d - m)'
      /\ Op(d - m)' = Op(d - m) /\ Of(d - m)' = Of(d)
      /\ \A ic : Midway(ic) => ic = Of(d)
  BY <1>1, <1>2, <1>3, <1>4, <1>5, <1>6, Skipped
<1>8. ContextTypes'
  BY <1>1, <1>6, <1>7 DEF ContextTypes, Keeps, focusVars, contextVars, clientView
<1>9. CalmInv'
  <2> SUFFICES ASSUME program.nested \subseteq {"destroy"}
               PROVE  CalmStack' /\ CalmSteps' /\ CalmView'
    BY <1>1 DEF CalmInv
  <2>1. CalmStack /\ CalmSteps /\ CalmView
    BY DEF ContextInv, CalmInv
  <2>2. CalmStack'
    <3>1. d - m \in Nat /\ d - m <= d
      BY <1>5
    <3> QED BY <1>1, <1>3, <1>4, <1>6, <2>1, <3>1, CalmKept DEF CalmStack, focusVars, contextVars
  <2>3. Of(d) \notin alive
    <3>1. CalmAt(d) /\ ~TopIs("free", Of(d))
      BY <1>3, <1>4, <2>1 DEF CalmStack, TopIs
    <3> QED BY <1>2, <1>4, <3>1 DEF CalmAt, PreeditOps
  <2>4. CalmStep(d - m)' /\ Op(Depth)' \notin {"unset", "focus"}
    BY <1>1, <1>2, <1>4, <1>5, <1>6, <1>7 DEF CalmStep, focusVars
  <2>5. CalmSteps'
    BY <1>7, <1>8, <2>4, ReachedNext DEF RunInv
  <2>6. ASSUME NEW ic \in Contexts PROVE Seen(ic)'
    <3>1. Seen(ic) /\ ~TopIs("free", ic) /\ (ic \in alive => ~Midway(ic))
      BY <1>3, <1>4, <1>7, <2>1, <2>3 DEF CalmView, TopIs
    <3> QED BY <1>1, <3>1 DEF Seen, focusVars, contextVars, clientView
  <2> QED BY <1>1, <2>1, <2>2, <2>4, <2>5, <2>6 DEF CalmView, contextVars, clientView
<1> QED BY <1>7, <1>8, <1>9 DEF ContextInv, RunInv

(* A context has lost the focus.                                             *)
LEMMA FinishUnsetInv ==
  ASSUME ContextInv, FinishUnset
  PROVE  ContextInv'
<1>1. /\ ContextTypes /\ RunInv /\ FreeInv /\ running # <<>> /\ Head(running).op = "unset"
      /\ program' = program /\ running' = Tail(running)
      /\ UNCHANGED <<alive, destroying, preeditLength, nextFocus, reentered, clientView>>
      /\ IF focused = This
         THEN /\ preeditActive' = preeditActive \ {This}
              /\ focused' = NoContext /\ textActive' = FALSE /\ hostSends' = FALSE
         ELSE UNCHANGED <<preeditActive, focused, textActive, hostSends>>
  BY DEF ContextInv, RunInv, FinishUnset, On, Rest, Unbudgeted
<1>2. PICK d \in Nat \ {0} : Depth = d
  BY <1>1, StepsHaveTypes
<1>3. /\ Keeps(d - 1) /\ Depth' = d - 1 /\ Op(d) = "unset" /\ d \in 1..d /\ This = Of(d)
      /\ This \in Contexts
  BY <1>1, <1>2, Pops, TopStep DEF ContextTypes
<1>4. focused' # This /\ (focused = This => focused' = NoContext)
  BY <1>1, <1>3, ProgramsAssumption
<1>5. RunInv' /\ \A k \in 1..Depth' : Op(k)' # "preedit" => Of(k)' \in Contexts
  BY <1>1, <1>2, <1>3, <1>4, StepEnds
<1>6. ContextTypes'
  <2>1. /\ preeditActive' \subseteq alive /\ focused' \in alive \union {NoContext}
        /\ textActive' = (focused' # NoContext) /\ hostSends' = textActive'
    BY <1>1 DEF ContextTypes
  <2> QED BY <1>1, <1>3, <1>5, <2>1 DEF ContextTypes, Keeps, clientView
<1>7. CalmInv'
  <2> SUFFICES ASSUME program.nested \subseteq {"destroy"}
               PROVE  CalmStack' /\ CalmSteps' /\ CalmView'
    BY <1>1 DEF CalmInv
  <2>1. CalmStack /\ CalmSteps /\ CalmView
    BY DEF ContextInv, CalmInv
  <2>2. \A k \in 1..(d - 1) : /\ k \in 1..d /\ StepAt(k)' = StepAt(k)
                              /\ Op(k)' = Op(k) /\ Of(k)' = Of(k)
    BY <1>3 DEF Keeps
  <2>3. ASSUME d > 1 PROVE d - 1 \in 1..(d - 1) /\ Op(d - 1)' = "free" /\ Of(d - 1)' = This
    <3>1. d - 1 \in 1..(d - 1) /\ d - 1 \in 1..d /\ d - 1 # d /\ (d - 1) + 1 = d
      BY <2>3
    <3>2. Op(d - 1) = "free"
      BY <1>2, <1>3, <2>1, <2>3 DEF CalmStack, CalmAt
    <3>3. Of(d - 1) = Of(d)
      BY <1>1, <1>2, <3>1, <3>2 DEF FreeInv
    <3> QED BY <1>3, <2>2, <3>1, <3>2, <3>3
  <2>4. d > 1 => \A ic : ic = This => TopIs("free", ic)'
    BY <1>3, <2>3 DEF TopIs
  <2>5. \A ic : ~TopIs("free", ic)
    BY <1>2, <1>3 DEF TopIs
  <2>6. ASSUME NEW k \in 1..(d - 1) PROVE CalmAt(k)'
    <3>1. CalmAt(k) /\ (k > 1 => k - 1 \in 1..(d - 1))
      BY <1>2, <2>1, <2>2 DEF CalmStack
    <3>2. d > 1
      OBVIOUS
    <3> QED BY <1>1, <1>4, <2>2, <2>4, <2>5, <3>1, <3>2 DEF CalmAt
  <2>7. ASSUME NEW k \in 1..(d - 1) PROVE CalmStep(k)'
    <3>1. CASE k = d - 1
      BY <2>3, <3>1 DEF CalmStep
    <3>2. CASE k # d - 1
      <4>1. k + 1 \in 1..(d - 1) /\ CalmStep(k) /\ k # d
        BY <1>2, <2>1, <2>2, <3>2 DEF CalmSteps
      <4>2. Ready(k)' => Ready(k)
        BY <1>3, <2>2, <3>2, <4>1 DEF Ready
      <4>3. Op(k)' # "preedit" /\ focused' = Of(k) => focused = Of(k)
        BY <1>1, <1>5, <1>3, <2>2, ProgramsAssumption
      <4> QED BY <1>1, <1>3, <2>2, <3>2, <4>1, <4>2, <4>3 DEF CalmStep, clientView
    <3> QED BY <3>1, <3>2
  <2>8. ASSUME NEW ic \in Contexts PROVE Seen(ic)'
    <3>1. Seen(ic) /\ ~TopIs("free", ic) /\ (Midway(ic) => Midway(ic)')
      BY <1>1, <1>2, <1>3, <2>1, <2>5, MidwayPopped DEF CalmView
    <3>2. focused = This /\ This \in told => d > 1
      <4>1. CalmStep(d) /\ Ready(d)
        BY <1>2, <1>3, <2>1 DEF CalmSteps, Ready
      <4> QED BY <1>2, <1>3, <4>1 DEF CalmStep
    <3>3. ic \in told => /\ ic \in preeditActive' \/ TopIs("free", ic)'
                         /\ ic = focused' \/ TopIs("free", ic)'
      BY <1>1, <2>4, <3>1, <3>2 DEF Seen
    <3> QED BY <1>1, <3>1, <3>3 DEF Seen, clientView
  <2>9. CalmView'
    BY <1>1, <1>3, <2>1, <2>3, <2>8 DEF CalmView, clientView
  <2> QED BY <1>3, <2>6, <2>7, <2>9 DEF CalmStack, CalmSteps
<1> QED BY <1>5, <1>6, <1>7 DEF ContextInv, RunInv

(* A context has got it, if none was chosen since then.                      *)
LEMMA FinishFocusInv ==
  ASSUME ContextInv, FinishFocus
  PROVE  ContextInv'
<1>1. /\ ContextTypes /\ RunInv /\ running # <<>> /\ Head(running).op = "focus"
      /\ program' = program /\ running' = Tail(running) /\ nextFocus' = NoContext
      /\ UNCHANGED <<contextVars, reentered, clientView>>
      /\ IF nextFocus = This THEN focused' = This /\ textActive' = TRUE /\ hostSends' = TRUE
         ELSE UNCHANGED <<focused, textActive, hostSends>>
  BY DEF ContextInv, RunInv, FinishFocus, TakesFocus, On, Rest, Unbudgeted
<1>2. PICK d \in Nat \ {0} : Depth = d
  BY <1>1, StepsHaveTypes
<1>3. /\ Keeps(d - 1) /\ Depth' = d - 1 /\ Op(d) = "focus" /\ d \in 1..d /\ This = Of(d)
      /\ This \in Contexts
  BY <1>1, <1>2, Pops, TopStep DEF ContextTypes
<1>4. RunInv' /\ \A k \in 1..Depth' : Op(k)' # "preedit" => Of(k)' \in Contexts
  BY <1>1, <1>2, <1>3, StepEnds DEF contextVars
<1>5. ContextTypes'
  <2>1. /\ focused' \in alive \union {NoContext} /\ nextFocus' \in alive \union {NoContext}
        /\ textActive' = (focused' # NoContext) /\ hostSends' = textActive'
    BY <1>1, <1>3, ProgramsAssumption DEF ContextTypes
  <2> QED BY <1>1, <1>3, <1>4, <2>1 DEF ContextTypes, Keeps, clientView, contextVars
<1>6. CalmInv'
  <2> SUFFICES ASSUME program.nested \subseteq {"destroy"}
               PROVE  CalmStack' /\ CalmSteps' /\ CalmView'
    BY <1>1 DEF CalmInv
  <2>1. CalmStack /\ CalmSteps /\ CalmView
    BY DEF ContextInv, CalmInv
  <2>2. d = 1 /\ told = {}
    BY <1>2, <1>3, <2>1 DEF CalmStack, CalmAt, CalmView
  <2>3. Depth' = 0
    BY <1>3, <2>2
  <2>4. \A ic : ~Midway(ic)
    <3>1. \A k \in 1..Depth : k = d
      BY <1>2, <2>2
    <3> QED BY <1>3, <3>1 DEF Midway
  <2>5. ASSUME NEW ic \in Contexts PROVE Seen(ic)'
    <3>1. Seen(ic)
      BY <2>1 DEF CalmView
    <3> QED BY <1>1, <2>2, <2>4, <3>1 DEF Seen, contextVars, clientView
  <2>6. CalmView'
    BY <1>1, <2>1, <2>3, <2>5 DEF CalmView, contextVars, clientView
  <2> QED BY <2>3, <2>6 DEF CalmStack, CalmSteps
<1> QED BY <1>4, <1>5, <1>6 DEF ContextInv, RunInv

(* A context is freed.                                                       *)
LEMMA FreeContextInv ==
  ASSUME ContextInv, Free
  PROVE  ContextInv'
<1>1. /\ ContextTypes /\ RunInv /\ OrderInv /\ FreeInv /\ FocusInv /\ EndsInv
      /\ running # <<>> /\ Head(running).op = "free"
      /\ program' = program /\ running' = Tail(running)
      /\ alive' = alive \ {This} /\ destroying' = destroying \ {This}
      /\ preeditActive' = preeditActive \ {This}
      /\ told' = told \ {This} /\ shown' = [shown EXCEPT ![This] = 0]
      /\ UNCHANGED <<preeditLength, focusVars, reentered, orderly>>
  BY DEF ContextInv, RunInv, Free, On, Rest, Unbudgeted
<1>2. PICK d \in Nat \ {0} : Depth = d
  BY <1>1, StepsHaveTypes
<1>3. /\ Keeps(d - 1) /\ Depth' = d - 1 /\ Op(d) = "free" /\ d \in 1..d /\ This = Of(d)
      /\ This \in Contexts
  BY <1>1, <1>2, Pops, TopStep DEF ContextTypes
<1>4. RunInv' /\ \A k \in 1..Depth' : Op(k)' # "preedit" => Of(k)' \in Contexts
  BY <1>1, <1>2, <1>3, StepEnds DEF focusVars
<1>5. focused # This
  BY <1>1, <1>2, <1>3 DEF FreeInv
<1>6. nextFocus # This
  <2> SUFFICES ASSUME nextFocus = This PROVE FALSE
    OBVIOUS
  <2>1. PICK q \in 1..d : Awaits(q)
    BY <1>1, <1>2, <1>3, ProgramsAssumption DEF FocusInv
  <2>2. q # d
    BY <1>3, <2>1 DEF Awaits
  <2>3. d \in (q + 1)..d
    BY <2>2
  <2> QED BY <1>2, <1>3, <2>1, <2>3 DEF Awaits
<1>7. /\ shown' \in [Contexts -> Nat] /\ shown'[This] = 0
      /\ \A ic \in Contexts : ic # This => shown'[ic] = shown[ic]
  BY <1>1, <1>3 DEF ContextTypes
<1>8. ContextTypes'
  <2>1. /\ alive' \subseteq Contexts /\ destroying' \subseteq alive'
        /\ preeditActive' \subseteq alive' /\ told' \subseteq Contexts
        /\ focused \in alive' \union {NoContext} /\ nextFocus \in alive' \union {NoContext}
    BY <1>1, <1>5, <1>6 DEF ContextTypes
  <2> QED BY <1>1, <1>3, <1>4, <1>7, <2>1 DEF ContextTypes, Keeps, focusVars
<1>9. CalmInv'
  <2> SUFFICES ASSUME program.nested \subseteq {"destroy"}
               PROVE  CalmStack' /\ CalmSteps' /\ CalmView'
    BY <1>1 DEF CalmInv
  <2>1. CalmStack /\ CalmSteps /\ CalmView
    BY DEF ContextInv, CalmInv
  <2>2. \A k \in 1..(d - 1) : /\ k \in 1..d /\ StepAt(k)' = StepAt(k)
                              /\ Op(k)' = Op(k) /\ Of(k)' = Of(k)
    BY <1>3 DEF Keeps
  <2>3. d > 1 => d - 1 \in 1..(d - 1) /\ Op(d - 1)' = "callback"
    <3> SUFFICES ASSUME d > 1 PROVE d - 1 \in 1..(d - 1) /\ Op(d - 1)' = "callback"
      OBVIOUS
    <3>1. Ends(d)
      BY <1>1, <1>2 DEF EndsInv
    <3> QED BY <1>3, <2>2, <3>1 DEF Ends
  <2>4. \A ic : TopIs("free", ic) => ic = This
    BY <1>2, <1>3 DEF TopIs
  <2>5. ASSUME NEW k \in 1..(d - 1) PROVE CalmAt(k)'
    <3>1. CalmAt(k) /\ (k > 1 => k - 1 \in 1..(d - 1))
      BY <1>2, <2>1, <2>2 DEF CalmStack
    <3>2. focused' = focused
      BY <1>1 DEF focusVars
    <3> QED BY <1>1, <2>2, <2>4, <3>1, <3>2 DEF CalmAt
  <2>6. ASSUME NEW k \in 1..(d - 1) PROVE CalmStep(k)'
    <3>1. CASE k = d - 1
      BY <2>3, <3>1 DEF CalmStep
    <3>2. CASE k # d - 1
      <4>1. k + 1 \in 1..(d - 1) /\ CalmStep(k) /\ k # d
        BY <1>2, <2>1, <2>2, <3>2 DEF CalmSteps
      <4>2. Ready(k)' => Ready(k)
        BY <1>3, <2>2, <3>2, <4>1 DEF Ready
      <4>3. Op(k)' # "preedit" /\ focused' = Of(k) =>
              /\ focused = Of(k) /\ (Of(k) \in told' <=> Of(k) \in told)
              /\ shown'[Of(k)] = shown[Of(k)]
        BY <1>1, <1>3, <1>4, <1>5, <1>7, <2>2 DEF focusVars
      <4> QED BY <1>3, <2>2, <3>2, <4>1, <4>2, <4>3 DEF CalmStep
    <3> QED BY <3>1, <3>2
  <2>7. ASSUME NEW ic \in Contexts PROVE Seen(ic)'
    <3>1. Seen(ic) /\ (Midway(ic) => Midway(ic)')
      BY <1>1, <1>2, <1>3, <2>1, MidwayPopped DEF CalmView
    <3>2. CASE ic = This
      BY <1>1, <1>7, <3>2 DEF Seen
    <3>3. CASE ic # This
      <4>1. ~TopIs("free", ic)
        BY <2>4, <3>3
      <4> QED BY <1>1, <1>7, <3>1, <3>3, <4>1 DEF Seen, focusVars
    <3> QED BY <3>2, <3>3
  <2>8. CalmView'
    BY <1>1, <1>3, <2>1, <2>3, <2>7 DEF CalmView
  <2> QED BY <1>3, <2>5, <2>6, <2>8 DEF CalmStack, CalmSteps
<1> QED BY <1>4, <1>8, <1>9 DEF ContextInv, RunInv

-----------------------------------------------------------------------------
(* The calls of the client, which come from outside or from a callback.      *)
LEMMA CallersTop ==
  ASSUME ContextTypes, running = <<>> \/ InCallback
  PROVE  Depth \in Nat /\ (Depth > 0 => Op(Depth) = "callback")
<1>1. CASE running = <<>>
  BY <1>1, StepsHaveTypes
<1>2. CASE InCallback
  BY <1>2, StepsHaveTypes, TopStep DEF InCallback
<1> QED BY <1>1, <1>2

(* The parts of a sequence that is put together.                             *)
LEMMA PutTogether ==
  ASSUME NEW S, NEW p \in Seq(S), NEW q \in Seq(S)
  PROVE  /\ p \o q \in Seq(S) /\ Len(p \o q) = Len(p) + Len(q)
         /\ \A i \in 1..Len(p) : (p \o q)[i] = p[i]
         /\ \A i \in 1..Len(q) : (p \o q)[Len(p) + i] = q[i]
<1>1. Len(p) \in Nat /\ Len(q) \in Nat
  BY LenProperties
<1>2. /\ p \o q \in Seq(S) /\ Len(p \o q) = Len(p) + Len(q)
      /\ \A i \in 1..(Len(p) + Len(q)) :
           (p \o q)[i] = IF i <= Len(p) THEN p[i] ELSE q[i - Len(p)]
  BY ConcatProperties
<1>3. ASSUME NEW i \in 1..Len(p) PROVE (p \o q)[i] = p[i]
  <2>1. i \in 1..(Len(p) + Len(q)) /\ i <= Len(p)
    BY <1>1
  <2> QED BY <1>2, <2>1
<1>4. ASSUME NEW i \in 1..Len(q) PROVE (p \o q)[Len(p) + i] = q[i]
  <2>1. /\ Len(p) + i \in 1..(Len(p) + Len(q)) /\ ~(Len(p) + i <= Len(p))
        /\ Len(p) + i - Len(p) = i
    BY <1>1
  <2> QED BY <1>2, <2>1
<1> QED BY <1>2, <1>3, <1>4

(* A preedit that ends, and what follows.                                    *)
LEMMA EndsThen ==
  ASSUME NEW a \in StepType
  PROVE  LET p == inputMethodHandlePreedit(0) \o <<a>>
         IN  /\ p \in Seq(StepType) /\ Len(p) = 2
             /\ p[1] = Step("preedit", NoContext, 0) /\ p[2] = a
<1> DEFINE q == inputMethodHandlePreedit(0)
           r == <<a>>
<1>1. q \in Seq(StepType) /\ Len(q) = 1 /\ q[1] = Step("preedit", NoContext, 0)
  <2>1. Step("preedit", NoContext, 0) \in StepType
    BY DEF Step, StepType, StepOps
  <2> QED BY <2>1 DEF inputMethodHandlePreedit
<1>2. r \in Seq(StepType) /\ Len(r) = 1 /\ r[1] = a
  OBVIOUS
<1> HIDE DEF q, r
<1>3. /\ q \o r \in Seq(StepType) /\ Len(q \o r) = Len(q) + Len(r)
      /\ \A i \in 1..Len(q) : (q \o r)[i] = q[i]
      /\ \A i \in 1..Len(r) : (q \o r)[Len(q) + i] = r[i]
  <2>1. q \in Seq(StepType) /\ r \in Seq(StepType)
    BY <1>1, <1>2
  <2> QED BY ONLY <2>1, PutTogether
<1>4. 1 + 1 = 2 /\ 1 \in 1..1
  OBVIOUS
<1>5. q \o r \in Seq(StepType) /\ Len(q \o r) = 2 /\ (q \o r)[1] = q[1] /\ (q \o r)[2] = r[1]
  BY <1>1, <1>2, <1>3, <1>4
<1> USE DEF q, r
<1> QED BY <1>1, <1>2, <1>5

(* To take the focus from a context.                                         *)
LEMMA UnsetSteps ==
  ASSUME NEW ic \in Contexts
  PROVE  LET p == inputMethodUnsetFocus(ic)
         IN  /\ p \in Seq(StepType) /\ (focused # ic => Len(p) = 0)
             /\ focused = ic => /\ Len(p) = 2 /\ p[1] = Step("preedit", NoContext, 0)
                                /\ p[2] = Step("unset", ic, 0)
<1>1. Step("unset", ic, 0) \in StepType
  BY DEF Step, StepType, StepOps
<1>2. CASE focused = ic
  BY <1>1, <1>2, EndsThen DEF inputMethodUnsetFocus
<1>3. CASE focused # ic
  BY <1>3 DEF inputMethodUnsetFocus
<1> QED BY <1>2, <1>3

(* What a call adds to the stack, of a client whose callbacks leave the      *)
(* focus alone.                                                              *)
LEMMA CalmCalls ==
  ASSUME ContextTypes, CalmStack, CalmSteps, CalmView,
         NEW d \in Nat, Depth = d, d > 0 => Op(d) = "callback",
         NEW e \in Nat, Depth' = e, d <= e, Keeps(d),
         \A k \in (d + 1)..e :
           /\ Op(k)' \in CallOps /\ (Op(k)' = "focus" => k = 1)
           /\ Op(k)' = "unset" /\ k > 1 => Op(k - 1)' = "free"
           /\ k = e => Op(k)' \notin {"unset", "focus"},
         UNCHANGED <<alive, focused, preeditActive, preeditLength, clientView>>
  PROVE  CalmStack' /\ CalmSteps' /\ CalmView'
<1>1. \A k \in 1..d : StepAt(k)' = StepAt(k) /\ Op(k)' = Op(k) /\ Of(k)' = Of(k)
  BY DEF Keeps
<1>2. \A k \in 1..e : k \in 1..d \/ k \in (d + 1)..e
  OBVIOUS
<1>3. \A k \in 1..d : CalmAt(k)'
  BY CalmKept
<1>4. \A k \in (d + 1)..e : CalmAt(k)'
  BY DEF CalmAt, CallOps, PreeditOps
<1>5. ASSUME NEW k \in 1..d PROVE CalmStep(k)'
  <2>1. CASE k = d
    BY <1>1, <2>1 DEF CalmStep
  <2>2. CASE k # d
    <3>1. k + 1 \in 1..d /\ CalmStep(k) /\ k # e
      BY <2>2 DEF CalmSteps
    <3>2. Ready(k)' => Ready(k)
      BY <1>1, <3>1 DEF Ready
    <3> QED BY <1>1, <3>1, <3>2 DEF CalmStep, clientView
  <2> QED BY <2>1, <2>2
<1>6. \A k \in (d + 1)..e : CalmStep(k)'
  BY DEF CalmStep, CallOps
<1>7. \A ic \in Contexts : Seen(ic)'
  BY SeenKept, MidwayBelow DEF CalmView, clientView
<1>8. ~(Depth' > 0 /\ Op(Depth)' = "focus")
  <2>1. CASE e = d
    BY <1>1, <2>1
  <2>2. CASE e # d
    <3>1. e \in (d + 1)..e
      BY <2>2
    <3> QED BY <3>1
  <2> QED BY <2>1, <2>2
<1>9. CalmView'
  BY <1>7, <1>8 DEF CalmView, clientView
<1> QED BY <1>2, <1>3, <1>4, <1>5, <1>6, <1>9 DEF CalmStack, CalmSteps

(* The focus is taken from a context.                                        *)
LEMMA UnfocusPushes ==
  ASSUME ContextInv, running = <<>> \/ InCallback, NEW ic \in Contexts,
         running' = inputMethodUnsetFocus(ic) \o running,
         program.nested \subseteq {"destroy"} => running = <<>>,
         UNCHANGED <<program, contextVars, focusVars, reentered, clientView>>
  PROVE  ContextInv'
<1>1. ContextTypes /\ RunInv
  BY DEF ContextInv, RunInv
<1>2. PICK d \in Nat : Depth = d
  BY <1>1, StepsHaveTypes
<1>3. d > 0 => Op(d) = "callback"
  BY <1>1, <1>2, CallersTop
<1> DEFINE p == inputMethodUnsetFocus(ic)
<1>4. /\ p \in Seq(StepType) /\ (focused # ic => Len(p) = 0)
      /\ focused = ic => /\ Len(p) = 2 /\ p[1] = Step("preedit", NoContext, 0)
                         /\ p[2] = Step("unset", ic, 0)
  BY UnsetSteps
<1>5. running' = p \o running
  OBVIOUS
<1> HIDE DEF p
<1>6. PICK e \in Nat : /\ Depth' = e /\ e = d + Len(p) /\ Keeps(d)
                       /\ \A k \in (d + 1)..e : StepAt(k)' = p[e + 1 - k]
  <2>1. /\ Keeps(d) /\ Depth' = d + Len(p)
        /\ \A k \in (d + 1)..Depth' : StepAt(k)' = p[Depth' + 1 - k]
    BY <1>1, <1>2, <1>4, <1>5, Pushes
  <2>2. Depth' \in Nat
    BY <2>1 DEF Keeps
  <2> QED BY <2>1, <2>2
<1>7. d <= e /\ (focused # ic => e = d) /\ (focused = ic => e = d + 2)
  <2>1. e = d + Len(p)
    BY <1>6
  <2>2. (focused = ic => Len(p) = 2) /\ (focused # ic => Len(p) = 0)
    BY <1>4
  <2>3. focused = ic => e = d + 2
    BY <2>1, <2>2
  <2>4. focused # ic => e = d
    BY <2>1, <2>2
  <2> QED BY <2>3, <2>4
<1>8. focused = ic =>
        /\ Op(d + 1)' = "unset" /\ Of(d + 1)' = ic
        /\ Op(d + 2)' = "preedit" /\ StepAt(d + 2)'.n = 0
  <2> SUFFICES ASSUME focused = ic
               PROVE  /\ Op(d + 1)' = "unset" /\ Of(d + 1)' = ic
                      /\ Op(d + 2)' = "preedit" /\ StepAt(d + 2)'.n = 0
    OBVIOUS
  <2>1. d + 1 \in (d + 1)..e /\ d + 2 \in (d + 1)..e /\ e + 1 - (d + 1) = 2 /\ e + 1 - (d + 2) = 1
    BY <1>7
  <2>2. StepAt(d + 1)' = Step("unset", ic, 0) /\ StepAt(d + 2)' = Step("preedit", NoContext, 0)
    BY <1>4, <1>6, <2>1
  <2> QED BY <2>2 DEF Op, Of, Step
<1>9. \A k \in (d + 1)..e : focused = ic /\ k \in {d + 1, d + 2} /\ (k = e <=> k = d + 2)
  BY <1>7
<1>10. focused = ic => focused # NoContext
  BY ProgramsAssumption
<1>11. RunInv' /\ \A k \in 1..Depth' : Op(k)' # "preedit" => Of(k)' \in Contexts
  <2>1. ASSUME NEW k \in (d + 1)..e
        PROVE  /\ Op(k)' \in CallOps /\ (Op(k)' = "preedit" => k = e)
               /\ Op(k)' # "preedit" => Of(k)' \in Contexts
               /\ Op(k)' \notin {"free", "focus"}
               /\ Op(k)' = "preedit" =>
                    /\ k # d + 1 /\ StepAt(k)'.n = 0 /\ focused # NoContext
                    /\ Op(k - 1)' = "unset" /\ Of(k - 1)' = focused
               /\ Op(k)' = "unset" => k = d + 1
    <3>1. CASE k = d + 1
      BY <1>8, <1>9, <3>1 DEF CallOps
    <3>2. CASE k = d + 2
      <4>1. k - 1 = d + 1
        BY <3>2
      <4> QED BY <1>8, <1>9, <1>10, <3>2, <4>1 DEF CallOps
    <3> QED BY <1>9, <3>1, <3>2
  <2> QED BY <1>1, <1>2, <1>3, <1>6, <1>7, <2>1, CallPushes DEF contextVars, focusVars
<1>12. ContextTypes'
  BY <1>1, <1>6, <1>11 DEF ContextTypes, Keeps, contextVars, focusVars, clientView
<1>13. CalmInv'
  <2> SUFFICES ASSUME program.nested \subseteq {"destroy"}
               PROVE  CalmStack' /\ CalmSteps' /\ CalmView'
    BY DEF CalmInv
  <2>1. CalmStack /\ CalmSteps /\ CalmView
    BY DEF ContextInv, CalmInv
  <2>2. d = 0
    BY <1>1, <1>2, StepsHaveTypes
  <2>3. ASSUME NEW k \in (d + 1)..e
        PROVE  /\ Op(k)' \in CallOps /\ Op(k)' # "focus"
               /\ Op(k)' = "unset" => k = 1
               /\ k = e => Op(k)' # "unset"
    <3>1. CASE k = d + 1
      BY <1>8, <1>9, <2>2, <3>1 DEF CallOps
    <3>2. CASE k = d + 2
      BY <1>8, <1>9, <3>2 DEF CallOps
    <3> QED BY <1>9, <3>1, <3>2
  <2> QED BY <1>1, <1>2, <1>3, <1>6, <1>7, <2>1, <2>3, CalmCalls DEF contextVars, focusVars
<1> QED BY <1>11, <1>12, <1>13 DEF ContextInv, RunInv

(* A call that leaves the stack as it is, of a client that is not in a       *)
(* callback or has one that moves the focus.                                 *)
LEMMA CalmIdle ==
  ASSUME ContextTypes, CalmView, running = <<>>, running' = <<>>,
         UNCHANGED <<destroying, preeditActive, clientView>>,
         \A ic \in Contexts :
           ic \in told => focused # NoContext /\ focused' = focused,
         \A ic \in Contexts : ic \in alive' =>
           IF ic \in alive THEN preeditLength'[ic] = preeditLength[ic]
           ELSE preeditLength'[ic] = 0
  PROVE  CalmStack' /\ CalmSteps' /\ CalmView'
<1>1. Depth = 0 /\ Depth' = 0
  BY EmptySeq DEF Depth
<1>2. \A ic : ~TopIs("free", ic) /\ ~Midway(ic)
  BY <1>1 DEF TopIs, Midway
<1>3. ASSUME NEW ic \in Contexts PROVE Seen(ic)'
  <2>1. Seen(ic) /\ (ic \in told => ic = focused /\ ic \in preeditActive)
    BY <1>2 DEF CalmView, Seen
  <2>2. ic \notin alive => ic \notin told
    BY <2>1 DEF ContextTypes
  <2>3. ic \in alive' => preeditLength'[ic] = shown[ic]
    BY <1>2, <2>1, <2>2 DEF Seen
  <2> QED BY <1>2, <2>1, <2>3 DEF Seen, clientView
<1>4. CalmView'
  BY <1>1, <1>3 DEF CalmView, clientView
<1> QED BY <1>1, <1>4 DEF CalmStack, CalmSteps

(* A context is given the focus.                                             *)
LEMMA XSetICFocusInv ==
  ASSUME ContextInv, NEW ic \in Contexts, XSetICFocus(ic)
  PROVE  ContextInv'
<1>1. /\ ContextTypes /\ RunInv /\ ic \in alive /\ (running = <<>> \/ InCallback)
      /\ program' = program /\ UNCHANGED <<reentered, clientView, contextVars>>
      /\ program.nested \subseteq {"destroy"} => running = <<>>
  BY DEF ContextInv, RunInv, XSetICFocus, MayCall
<1>2. PICK d \in Nat : Depth = d
  BY <1>1, StepsHaveTypes
<1>3. d > 0 => Op(d) = "callback"
  BY <1>1, <1>2, CallersTop
<1>4. CASE focused \in {NoContext, ic}
  <2>1. /\ focused' = ic /\ textActive' = TRUE /\ hostSends' = TRUE
        /\ UNCHANGED <<nextFocus, running>>
    BY <1>4 DEF XSetICFocus, TakesFocus
  <2>2. RunInv' /\ \A k \in 1..Depth' : Op(k)' # "preedit" => Of(k)' \in Contexts
    BY <1>1, <1>2, <1>3, <2>1, FocusMoves DEF contextVars
  <2>3. ContextTypes'
    <3>1. focused' \in alive \union {NoContext} /\ textActive' = (focused' # NoContext)
      BY <1>1, <2>1, ProgramsAssumption
    <3> QED BY <1>1, <2>1, <2>2, <3>1 DEF ContextTypes, contextVars, clientView
  <2>4. CalmInv'
    <3> SUFFICES ASSUME program.nested \subseteq {"destroy"}
                 PROVE  CalmStack' /\ CalmSteps' /\ CalmView'
      BY <1>1 DEF CalmInv
    <3>1. CalmView /\ running = <<>> /\ running' = <<>>
      BY <1>1, <2>1 DEF ContextInv, CalmInv
    <3>2. ASSUME NEW c \in Contexts, c \in told
          PROVE  focused # NoContext /\ focused' = focused
      <4>1. Depth = 0
        BY <3>1, EmptySeq DEF Depth
      <4>2. c = focused
        BY <3>1, <3>2, <4>1 DEF CalmView, Seen, TopIs
      <4> QED BY <1>4, <2>1, <4>2, ProgramsAssumption
    <3> QED BY <1>1, <3>1, <3>2, CalmIdle DEF contextVars
  <2> QED BY <2>2, <2>3, <2>4 DEF ContextInv, RunInv
<1>5. CASE focused \notin {NoContext, ic}
  <2> DEFINE p == inputMethodHandlePreedit(0) \o <<Step("focus", ic, 0)>>
  <2>1. /\ p \in Seq(StepType) /\ Len(p) = 2
        /\ p[1] = Step("preedit", NoContext, 0) /\ p[2] = Step("focus", ic, 0)
    <3>1. Step("focus", ic, 0) \in StepType
      BY DEF Step, StepType, StepOps
    <3> QED BY <3>1, EndsThen
  <2>2. /\ running' = p \o running /\ nextFocus' = ic
        /\ UNCHANGED <<focused, textActive, hostSends>>
    BY <1>5 DEF XSetICFocus
  <2> HIDE DEF p
  <2>3. /\ Keeps(d) /\ Depth' = d + 2
        /\ \A k \in (d + 1)..(d + 2) : StepAt(k)' = p[d + 3 - k]
    <3>1. /\ Keeps(d) /\ Depth' = d + 2
          /\ \A k \in (d + 1)..Depth' : StepAt(k)' = p[Depth' + 1 - k]
      BY <1>1, <1>2, <2>1, <2>2, Pushes
    <3>2. \A k \in (d + 1)..(d + 2) : d + 2 + 1 - k = d + 3 - k
      OBVIOUS
    <3> QED BY <3>1, <3>2
  <2>4. /\ Op(d + 1)' = "focus" /\ Of(d + 1)' = ic
        /\ Op(d + 2)' = "preedit" /\ StepAt(d + 2)'.n = 0
    <3>1. /\ d + 1 \in (d + 1)..(d + 2) /\ d + 2 \in (d + 1)..(d + 2)
          /\ d + 3 - (d + 1) = 2 /\ d + 3 - (d + 2) = 1
      OBVIOUS
    <3>2. StepAt(d + 1)' = Step("focus", ic, 0) /\ StepAt(d + 2)' = Step("preedit", NoContext, 0)
      BY <2>1, <2>3, <3>1
    <3> QED BY <3>2 DEF Op, Of, Step
  <2>5. \A k \in (d + 1)..(d + 2) : k \in {d + 1, d + 2}
    OBVIOUS
  <2>6. RunInv' /\ \A k \in 1..Depth' : Op(k)' # "preedit" => Of(k)' \in Contexts
    <3>1. ASSUME NEW k \in (d + 1)..(d + 2)
          PROVE  /\ Op(k)' \in CallOps /\ (Op(k)' = "preedit" => k = d + 2)
                 /\ Op(k)' # "preedit" => Of(k)' \in Contexts
                 /\ Op(k)' \notin {"free", "unset"}
                 /\ Op(k)' = "preedit" =>
                      /\ k # d + 1 /\ StepAt(k)'.n = 0 /\ focused # NoContext
                      /\ Op(k - 1)' = "focus"
                 /\ Op(k)' = "focus" => k = d + 1
      <4>1. CASE k = d + 1
        BY <2>4, <4>1 DEF CallOps
      <4>2. CASE k = d + 2
        <5>1. k - 1 = d + 1
          BY <4>2
        <5> QED BY <1>5, <2>4, <4>2, <5>1 DEF CallOps
      <4> QED BY <2>5, <4>1, <4>2
    <3> DEFINE e == d + 2
    <3>2. e \in Nat /\ d <= e /\ Depth' = e
      BY <2>3
    <3>3. ASSUME NEW k \in (d + 1)..e
          PROVE  /\ Op(k)' \in CallOps /\ (Op(k)' = "preedit" => k = e)
                 /\ Op(k)' # "preedit" => Of(k)' \in Contexts
                 /\ Op(k)' \notin {"free", "unset"}
                 /\ Op(k)' = "preedit" =>
                      /\ k # d + 1 /\ StepAt(k)'.n = 0 /\ focused # NoContext
                      /\ Op(k - 1)' = "focus"
                 /\ Op(k)' = "focus" => k = d + 1
      BY <3>1
    <3>4. Op(d + 1)' = "focus" /\ Of(d + 1)' = nextFocus' /\ e = d + 2 /\ Op(e)' = "preedit"
      BY <2>2, <2>4
    <3> HIDE DEF e
    <3> QED BY <1>1, <1>2, <1>3, <2>2, <2>3, <3>2, <3>3, <3>4, CallPushes DEF contextVars
  <2>7. ContextTypes'
    BY <1>1, <2>2, <2>3, <2>6 DEF ContextTypes, Keeps, contextVars, clientView
  <2>8. CalmInv'
    <3> SUFFICES ASSUME program.nested \subseteq {"destroy"}
                 PROVE  CalmStack' /\ CalmSteps' /\ CalmView'
      BY <1>1 DEF CalmInv
    <3>1. CalmStack /\ CalmSteps /\ CalmView
      BY DEF ContextInv, CalmInv
    <3>2. d = 0
      BY <1>1, <1>2, StepsHaveTypes
    <3> DEFINE e == d + 2
    <3>3. e \in Nat /\ d <= e /\ Depth' = e
      BY <2>3
    <3>4. ASSUME NEW k \in (d + 1)..e
          PROVE  /\ Op(k)' \in CallOps /\ (Op(k)' = "focus" => k = 1)
                 /\ Op(k)' # "unset" /\ (k = e => Op(k)' # "focus")
      <4>1. CASE k = d + 1
        BY <2>4, <3>2, <4>1 DEF CallOps
      <4>2. CASE k = d + 2
        BY <2>4, <4>2 DEF CallOps
      <4> QED BY <2>5, <4>1, <4>2
    <3> HIDE DEF e
    <3> QED BY <1>1, <1>2, <1>3, <2>2, <2>3, <3>1, <3>3, <3>4, CalmCalls DEF contextVars
  <2> QED BY <2>6, <2>7, <2>8 DEF ContextInv, RunInv
<1> QED BY <1>4, <1>5

(* A context is made, and takes the focus that nobody has.                   *)
LEMMA XCreateICInv ==
  ASSUME ContextInv, NEW ic \in Contexts, XCreateIC(ic)
  PROVE  ContextInv'
<1>1. /\ ContextTypes /\ RunInv /\ ic \notin alive /\ (running = <<>> \/ InCallback)
      /\ program' = program
      /\ UNCHANGED <<reentered, clientView, destroying, preeditActive, nextFocus, running>>
      /\ alive' = alive \union {ic} /\ preeditLength' = [preeditLength EXCEPT ![ic] = 0]
      /\ program.nested \subseteq {"destroy"} => running = <<>>
      /\ IF focused = NoContext THEN focused' = ic /\ textActive' = TRUE /\ hostSends' = TRUE
         ELSE UNCHANGED <<focused, textActive, hostSends>>
  BY DEF ContextInv, RunInv, XCreateIC, MayCall, TakesFocus
<1>2. PICK d \in Nat : Depth = d
  BY <1>1, StepsHaveTypes
<1>3. d > 0 => Op(d) = "callback"
  BY <1>1, <1>2, CallersTop
<1>4. RunInv' /\ \A k \in 1..Depth' : Op(k)' # "preedit" => Of(k)' \in Contexts
  BY <1>1, <1>2, <1>3, FocusMoves
<1>5. /\ preeditLength' \in [Contexts -> Nat] /\ preeditLength'[ic] = 0
      /\ \A c \in Contexts : c # ic => preeditLength'[c] = preeditLength[c]
  BY <1>1 DEF ContextTypes
<1>6. ContextTypes'
  <2>1. /\ alive' \subseteq Contexts /\ destroying \subseteq alive' /\ preeditActive \subseteq alive'
        /\ focused' \in alive' \union {NoContext} /\ nextFocus \in alive' \union {NoContext}
        /\ textActive' = (focused' # NoContext) /\ hostSends' = textActive'
    BY <1>1, ProgramsAssumption DEF ContextTypes
  <2> QED BY <1>1, <1>4, <1>5, <2>1 DEF ContextTypes, clientView
<1>7. CalmInv'
  <2> SUFFICES ASSUME program.nested \subseteq {"destroy"}
               PROVE  CalmStack' /\ CalmSteps' /\ CalmView'
    BY <1>1 DEF CalmInv
  <2>1. CalmView /\ running = <<>> /\ running' = <<>>
    BY <1>1 DEF ContextInv, CalmInv
  <2>2. ASSUME NEW c \in Contexts, c \in told
        PROVE  focused # NoContext /\ focused' = focused
    <3>1. Depth = 0
      BY <2>1, EmptySeq DEF Depth
    <3>2. c = focused
      BY <2>1, <2>2, <3>1 DEF CalmView, Seen, TopIs
    <3> QED BY <1>1, <3>2, ProgramsAssumption
  <2>3. \A c \in Contexts : c \in alive' =>
          IF c \in alive THEN preeditLength'[c] = preeditLength[c] ELSE preeditLength'[c] = 0
    BY <1>1, <1>5
  <2> QED BY <1>1, <2>1, <2>2, <2>3, CalmIdle
<1> QED BY <1>4, <1>6, <1>7 DEF ContextInv, RunInv

(* A context is asked to give it up.                                         *)
LEMMA XUnsetICFocusInv ==
  ASSUME ContextInv, NEW ic \in Contexts, XUnsetICFocus(ic)
  PROVE  ContextInv'
<1>1. /\ running = <<>> \/ InCallback
      /\ running' = inputMethodUnsetFocus(ic) \o running
      /\ program.nested \subseteq {"destroy"} => running = <<>>
      /\ UNCHANGED <<program, contextVars, focusVars, reentered, clientView>>
  BY DEF XUnsetICFocus, MayCall
<1> QED BY <1>1, UnfocusPushes

(* The input method is closed.                                               *)
LEMMA XCloseIMInv ==
  ASSUME ContextInv, XCloseIM
  PROVE  ContextInv'
<1>1. PICK ic \in Contexts : focused = ic
  BY DEF XCloseIM, ContextInv, ContextTypes
<1>2. running = <<>> /\ running' = inputMethodUnsetFocus(ic)
      /\ UNCHANGED <<program, contextVars, focusVars, reentered, clientView>>
  BY <1>1 DEF XCloseIM
<1>3. inputMethodUnsetFocus(ic) \o <<>> = inputMethodUnsetFocus(ic)
  <2> DEFINE p == inputMethodUnsetFocus(ic)
  <2>1. p \in Seq(StepType)
    BY UnsetSteps
  <2> HIDE DEF p
  <2>2. p \o <<>> = p
    BY ONLY <2>1, ConcatEmptySeq
  <2> USE DEF p
  <2> QED BY <2>2
<1> QED BY <1>2, <1>3, UnfocusPushes

(* The host has changed a composition.                                       *)
LEMMA TextEditingInv ==
  ASSUME ContextInv, NEW n \in 0..2, TextEditing(n)
  PROVE  ContextInv'
<1>1. /\ ContextTypes /\ RunInv /\ running = <<>> /\ program' = program
      /\ running' = inputMethodHandlePreedit(n)
      /\ UNCHANGED <<contextVars, focusVars, reentered, clientView>>
  BY DEF ContextInv, RunInv, TextEditing
<1>2. Depth = 0
  BY <1>1, EmptySeq DEF Depth
<1> DEFINE p == inputMethodHandlePreedit(n)
<1>3. p \in Seq(StepType) /\ Len(p) = 1 /\ p[1] = Step("preedit", NoContext, n)
  <2>1. Step("preedit", NoContext, n) \in StepType
    BY DEF Step, StepType, StepOps
  <2> QED BY <2>1 DEF inputMethodHandlePreedit
<1>4. running' = p
  BY <1>1
<1> HIDE DEF p
<1>5. running' = p \o running
  <2>1. p \o <<>> = p
    BY <1>3, ConcatEmptySeq
  <2> QED BY <1>1, <1>4, <2>1
<1>6. Keeps(0) /\ Depth' = 1 /\ StepAt(1)' = Step("preedit", NoContext, n)
  <2>1. /\ Keeps(0) /\ Depth' = 0 + 1
        /\ \A k \in (0 + 1)..Depth' : StepAt(k)' = p[Depth' + 1 - k]
    BY <1>1, <1>2, <1>3, <1>5, Pushes
  <2>2. Depth' = 1 /\ 1 \in (0 + 1)..1 /\ 1 + 1 - 1 = 1
    BY <2>1
  <2> QED BY <1>3, <2>1, <2>2
<1>7. Op(1)' = "preedit" /\ \A k \in (0 + 1)..1 : k = 1
  BY <1>6 DEF Op, Step
<1>8. RunInv' /\ \A k \in 1..Depth' : Op(k)' # "preedit" => Of(k)' \in Contexts
  <2>1. ASSUME NEW k \in (0 + 1)..1
        PROVE  k = 1 /\ Op(k)' = "preedit" /\ Op(k)' \in CallOps
    BY <1>7 DEF CallOps
  <2>2. 0 \in Nat /\ 1 \in Nat /\ 0 <= 1 /\ 0 + 1 = 1
    OBVIOUS
  <2> QED BY <1>1, <1>2, <1>6, <2>1, <2>2, CallPushes DEF contextVars, focusVars
<1>9. ContextTypes'
  BY <1>1, <1>6, <1>8 DEF ContextTypes, Keeps, contextVars, focusVars, clientView
<1>10. CalmInv'
  <2> SUFFICES ASSUME program.nested \subseteq {"destroy"}
               PROVE  CalmStack' /\ CalmSteps' /\ CalmView'
    BY <1>1 DEF CalmInv
  <2>1. CalmStack /\ CalmSteps /\ CalmView
    BY DEF ContextInv, CalmInv
  <2>2. \A k \in (0 + 1)..1 : Op(k)' = "preedit" /\ Op(k)' \in CallOps
    BY <1>7 DEF CallOps
  <2>3. 0 \in Nat /\ 1 \in Nat /\ 0 <= 1
    OBVIOUS
  <2> QED BY <1>1, <1>2, <1>6, <2>1, <2>2, <2>3, CalmCalls DEF contextVars, focusVars
<1> QED BY <1>8, <1>9, <1>10 DEF ContextInv, RunInv

(* The steps that free a context, once it has lost the focus.                *)
LEMMA FreeSteps ==
  ASSUME NEW ic \in Contexts
  PROVE  LET p == inputMethodUnsetFocus(ic) \o <<Step("free", ic, 0)>>
         IN  /\ p \in Seq(StepType)
             /\ focused # ic => Len(p) = 1 /\ p[1] = Step("free", ic, 0)
             /\ focused = ic =>
                  /\ Len(p) = 3 /\ p[1] = Step("preedit", NoContext, 0)
                  /\ p[2] = Step("unset", ic, 0) /\ p[3] = Step("free", ic, 0)
<1> DEFINE q == inputMethodUnsetFocus(ic)
           r == <<Step("free", ic, 0)>>
<1>1. /\ q \in Seq(StepType) /\ (focused # ic => Len(q) = 0)
      /\ focused = ic => /\ Len(q) = 2 /\ q[1] = Step("preedit", NoContext, 0)
                         /\ q[2] = Step("unset", ic, 0)
  BY UnsetSteps
<1>2. r \in Seq(StepType) /\ Len(r) = 1 /\ r[1] = Step("free", ic, 0)
  <2>1. Step("free", ic, 0) \in StepType
    BY DEF Step, StepType, StepOps
  <2> QED BY <2>1
<1> HIDE DEF q, r
<1>3. /\ q \o r \in Seq(StepType) /\ Len(q \o r) = Len(q) + Len(r)
      /\ \A i \in 1..Len(q) : (q \o r)[i] = q[i]
      /\ \A i \in 1..Len(r) : (q \o r)[Len(q) + i] = r[i]
  <2>1. q \in Seq(StepType) /\ r \in Seq(StepType)
    BY <1>1, <1>2
  <2> QED BY ONLY <2>1, PutTogether
<1>4. (q \o r)[Len(q) + 1] = r[1] /\ Len(q \o r) = Len(q) + 1
  <2>1. 1 \in 1..Len(r)
    BY <1>2
  <2> QED BY <1>2, <1>3, <2>1
<1>5. CASE focused = ic
  <2>1. Len(q) = 2 /\ 1 \in 1..2 /\ 2 \in 1..2 /\ 2 + 1 = 3
    BY <1>1, <1>5
  <2>2. Len(q \o r) = 3 /\ (q \o r)[3] = r[1] /\ (q \o r)[1] = q[1] /\ (q \o r)[2] = q[2]
    BY <1>3, <1>4, <2>1
  <2> USE DEF q, r
  <2> QED BY <1>1, <1>2, <1>3, <1>5, <2>2
<1>6. CASE focused # ic
  <2>1. Len(q) = 0 /\ 0 + 1 = 1
    BY <1>1, <1>6
  <2>2. Len(q \o r) = 1 /\ (q \o r)[1] = r[1]
    BY <1>4, <2>1
  <2> USE DEF q, r
  <2> QED BY <1>2, <1>3, <1>6, <2>2
<1> QED BY <1>5, <1>6

(* A context is destroyed: it loses the focus first, if it has it.           *)
LEMMA XDestroyICInv ==
  ASSUME ContextInv, NEW ic \in Contexts, XDestroyIC(ic)
  PROVE  ContextInv'
<1>1. /\ ContextTypes /\ RunInv /\ ic \in alive /\ ic \notin destroying
      /\ running = <<>> \/ InCallback
      /\ program' = program /\ destroying' = destroying \union {ic}
      /\ nextFocus' = IF nextFocus = ic THEN NoContext ELSE nextFocus
      /\ UNCHANGED <<reentered, clientView, alive, preeditActive, preeditLength,
                     focused, textActive, hostSends>>
      /\ running' = inputMethodUnsetFocus(ic) \o <<Step("free", ic, 0)>> \o running
  BY DEF ContextInv, RunInv, XDestroyIC, MayCall, forgetsTarget
<1>2. PICK d \in Nat : Depth = d
  BY <1>1, StepsHaveTypes
<1>3. d > 0 => Op(d) = "callback"
  BY <1>1, <1>2, CallersTop
<1> DEFINE p == inputMethodUnsetFocus(ic) \o <<Step("free", ic, 0)>>
<1>4. /\ p \in Seq(StepType)
      /\ focused # ic => Len(p) = 1 /\ p[1] = Step("free", ic, 0)
      /\ focused = ic =>
           /\ Len(p) = 3 /\ p[1] = Step("preedit", NoContext, 0)
           /\ p[2] = Step("unset", ic, 0) /\ p[3] = Step("free", ic, 0)
  BY FreeSteps
<1>5. running' = p \o running
  BY <1>1
<1> HIDE DEF p
<1>6. PICK e \in Nat : /\ Depth' = e /\ e = d + Len(p) /\ Keeps(d)
                       /\ \A k \in (d + 1)..e : StepAt(k)' = p[e + 1 - k]
  <2>1. /\ Keeps(d) /\ Depth' = d + Len(p)
        /\ \A k \in (d + 1)..Depth' : StepAt(k)' = p[Depth' + 1 - k]
    BY <1>1, <1>2, <1>4, <1>5, Pushes
  <2>2. Depth' \in Nat
    BY <2>1 DEF Keeps
  <2> QED BY <2>1, <2>2
<1>7. (focused # ic => e = d + 1) /\ (focused = ic => e = d + 3)
  <2>1. e = d + Len(p)
    BY <1>6
  <2>2. (focused = ic => Len(p) = 3) /\ (focused # ic => Len(p) = 1)
    BY <1>4
  <2>3. focused = ic => e = d + 3
    BY <2>1, <2>2
  <2>4. focused # ic => e = d + 1
    BY <2>1, <2>2
  <2> QED BY <2>3, <2>4
<1>8. /\ Op(d + 1)' = "free" /\ Of(d + 1)' = ic
      /\ focused = ic => /\ Op(d + 2)' = "unset" /\ Of(d + 2)' = ic
                         /\ Op(d + 3)' = "preedit" /\ StepAt(d + 3)'.n = 0
  <2>1. CASE focused # ic
    <3>1. d + 1 \in (d + 1)..e /\ e + 1 - (d + 1) = 1
      BY <1>7, <2>1
    <3>2. StepAt(d + 1)' = Step("free", ic, 0)
      BY <1>4, <1>6, <2>1, <3>1
    <3> QED BY <2>1, <3>2 DEF Op, Of, Step
  <2>2. CASE focused = ic
    <3>1. /\ d + 1 \in (d + 1)..e /\ d + 2 \in (d + 1)..e /\ d + 3 \in (d + 1)..e
          /\ e + 1 - (d + 1) = 3 /\ e + 1 - (d + 2) = 2 /\ e + 1 - (d + 3) = 1
      BY <1>7, <2>2
    <3>2. /\ StepAt(d + 1)' = Step("free", ic, 0) /\ StepAt(d + 2)' = Step("unset", ic, 0)
          /\ StepAt(d + 3)' = Step("preedit", NoContext, 0)
      BY <1>4, <1>6, <2>2, <3>1
    <3> QED BY <3>2 DEF Op, Of, Step
  <2> QED BY <2>1, <2>2
<1>9. d < e /\ (e = d + 1 \/ (e = d + 3 /\ focused = ic))
      /\ \A k \in (d + 1)..e : k = d + 1 \/ (focused = ic /\ k \in {d + 2, d + 3})
  BY <1>7
<1>10. ic # NoContext /\ (e = d + 1 => focused # ic)
  BY <1>7, ProgramsAssumption
<1>11. ASSUME NEW k \in (d + 1)..e
       PROVE  /\ Op(k)' \in CallOps /\ Op(k)' # "focus"
              /\ Op(k)' = "preedit" =>
                   /\ k = e /\ k # d + 1 /\ StepAt(k)'.n = 0 /\ focused # NoContext
                   /\ Op(k - 1)' = "unset" /\ Of(k - 1)' = focused
              /\ Op(k)' # "preedit" => Of(k)' = ic
              /\ Op(k)' = "free" =>
                   /\ k = d + 1
                   /\ IF k = e THEN focused # Of(k)'
                      ELSE Op(k + 1)' = "unset" /\ Of(k + 1)' = Of(k)'
              /\ Op(k)' = "unset" => Op(k - 1)' = "free" /\ k # e
  <2>1. CASE k = d + 1
    <3>1. k + 1 = d + 2
      BY <2>1
    <3> QED BY <1>8, <1>9, <1>10, <2>1, <3>1 DEF CallOps
  <2>2. CASE focused = ic /\ k = d + 2
    <3>1. k - 1 = d + 1 /\ k # e
      BY <1>7, <2>2
    <3> QED BY <1>8, <2>2, <3>1 DEF CallOps
  <2>3. CASE focused = ic /\ k = d + 3
    <3>1. k - 1 = d + 2 /\ k = e /\ k # d + 1
      BY <1>7, <2>3
    <3> QED BY <1>8, <1>10, <2>3, <3>1 DEF CallOps
  <2> QED BY <1>9, <2>1, <2>2, <2>3
<1>12. RunInv' /\ \A k \in 1..Depth' : Op(k)' # "preedit" => Of(k)' \in Contexts
  <2>1. ASSUME NEW k \in (d + 1)..e
        PROVE  /\ Op(k)' \in CallOps /\ (Op(k)' = "preedit" => k = e)
               /\ Op(k)' # "preedit" => Of(k)' \in Contexts
               /\ Op(k)' = "free" =>
                    /\ k = d + 1 /\ Of(k)' \in destroying' \ destroying
                    /\ IF k = e THEN focused # Of(k)'
                       ELSE Op(k + 1)' = "unset" /\ Of(k + 1)' = Of(k)'
               /\ Op(k)' = "preedit" =>
                    /\ k # d + 1 /\ StepAt(k)'.n = 0 /\ focused # NoContext
                    /\ Op(k - 1)' = "unset" /\ Of(k - 1)' = focused
               /\ Op(k)' # "focus" /\ (Op(k)' = "unset" => Op(k - 1)' = "free")
    BY <1>1, <1>11
  <2>2. /\ nextFocus' \in {nextFocus, NoContext}
        /\ \A k \in (d + 1)..e :
             Op(k)' # "focus" /\ ~(Op(k)' = "free" /\ Of(k)' = nextFocus')
    <3>1. nextFocus' # ic /\ nextFocus' \in {nextFocus, NoContext}
      BY <1>1, <1>10
    <3> QED BY <1>11, <3>1
  <2>3. d <= e /\ destroying \subseteq destroying' /\ focused' = focused /\ reentered' = reentered
    BY <1>1, <1>9
  <2> QED BY <1>1, <1>2, <1>3, <1>6, <2>1, <2>2, <2>3, CallPushes
<1>13. ContextTypes'
  <2>1. destroying' \subseteq alive /\ nextFocus' \in alive \union {NoContext}
    BY <1>1 DEF ContextTypes
  <2> QED BY <1>1, <1>6, <1>12, <2>1 DEF ContextTypes, Keeps, clientView
<1>14. CalmInv'
  <2> SUFFICES ASSUME program.nested \subseteq {"destroy"}
               PROVE  CalmStack' /\ CalmSteps' /\ CalmView'
    BY <1>1 DEF CalmInv
  <2>1. CalmStack /\ CalmSteps /\ CalmView
    BY DEF ContextInv, CalmInv
  <2>2. d <= e
    BY <1>9
  <2>3. ASSUME NEW k \in (d + 1)..e
        PROVE  /\ Op(k)' \in CallOps /\ (Op(k)' = "focus" => k = 1)
               /\ Op(k)' = "unset" /\ k > 1 => Op(k - 1)' = "free"
               /\ k = e => Op(k)' \notin {"unset", "focus"}
    BY <1>11
  <2> QED BY <1>1, <1>2, <1>3, <1>6, <2>1, <2>2, <2>3, CalmCalls
<1> QED BY <1>12, <1>13, <1>14 DEF ContextInv, RunInv

-----------------------------------------------------------------------------
(* It holds at first.                                                        *)
LEMMA ContextInitInv ==
  ASSUME InputContextInit
  PROVE  ContextInv
<1> USE DEF InputContextInit
<1>1. Depth = 0 /\ running \in Seq(StepType)
  BY EmptySeq DEF Depth
<1>2. ContextTypes
  <2>1. preeditLength \in [Contexts -> Nat] /\ shown \in [Contexts -> Nat]
    OBVIOUS
  <2>2. \A k \in 1..Depth : Op(k) # "preedit" => Of(k) \in Contexts
    BY <1>1
  <2> QED BY <1>1, <2>1, <2>2 DEF ContextTypes
<1>3. OrderInv /\ FreeInv /\ FocusInv /\ EndsInv
  BY <1>1 DEF OrderInv, FreeInv, FocusInv, EndsInv
<1>4. CalmInv
  BY <1>1 DEF CalmInv, CalmStack, CalmSteps, CalmView, Seen
<1> QED BY <1>2, <1>3, <1>4 DEF ContextInv

(* And after every step.                                                     *)
LEMMA ContextStepInv ==
  ASSUME ContextInv, InputContextNext
  PROVE  ContextInv'
<1>1. CASE \E ic \in Contexts :
             XSetICFocus(ic) \/ XCreateIC(ic) \/ XUnsetICFocus(ic) \/ XDestroyIC(ic)
  BY <1>1, XSetICFocusInv, XCreateICInv, XUnsetICFocusInv, XDestroyICInv
<1>2. CASE XCloseIM \/ \E n \in 0..2 : TextEditing(n)
  BY <1>2, XCloseIMInv, TextEditingInv
<1>3. CASE BeginPreedit \/ LeavePreedit \/ Bail \/ Returns
  BY <1>3, BeginPreeditInv, LeavePreeditInv, BailInv, ReturnsInv
<1>4. CASE PreeditStart \/ PreeditDraw \/ PreeditCaret \/ PreeditDone
  BY <1>4, PreeditStartInv, PreeditDrawInv, PreeditCaretInv, PreeditDoneInv
<1>5. CASE FinishUnset \/ FinishFocus \/ Free
  BY <1>5, FinishUnsetInv, FinishFocusInv, FreeContextInv
<1> QED BY <1>1, <1>2, <1>3, <1>4, <1>5 DEF InputContextNext

(* What the invariant says of the state the code may be seen in.             *)
LEMMA SoundFromInv ==
  ASSUME ContextInv
  PROVE  ContextsAreSound
<1>1. ContextTypes /\ OrderInv /\ FreeInv /\ FocusInv
  BY DEF ContextInv
<1>2. InputContextTypeOK
  BY <1>1 DEF InputContextTypeOK, ContextTypes
<1>3. PICK d \in Nat : Depth = d /\ (running # <<>> <=> d > 0)
  BY <1>1, StepsHaveTypes
<1>4. running # <<>> => /\ d \in 1..d /\ Op(d) = Head(running).op /\ Of(d) = This
                        /\ Op(d) # "preedit" => This \in Contexts
  BY <1>1, <1>3, TopStep DEF ContextTypes
<1>5. \A op \in {"start", "draw", "caret", "done"} : On(op) /\ ~bails => This \in alive
  BY <1>1, <1>4, ProgramsAssumption DEF On, bails, ContextTypes
<1>6. On("focus") /\ nextFocus = This => This \in alive
  BY <1>1, <1>4, ProgramsAssumption DEF On, ContextTypes
<1>7. On("free") => This \in alive
  BY <1>1, <1>3, <1>4 DEF On, FreeInv, ContextTypes
<1>8. running = <<>> =>
        /\ textActive = (focused # NoContext) /\ hostSends = textActive
        /\ ~reentered /\ nextFocus = NoContext
  BY <1>1, <1>3 DEF ContextTypes, OrderInv, FocusInv
<1>9. PreeditIsBalanced
  <2> SUFFICES ASSUME program.nested \subseteq {"destroy"} PROVE PreeditMakesSense
    BY DEF PreeditIsBalanced
  <2>1. CalmView
    BY DEF ContextInv, CalmInv
  <2>2. running = <<>> => told = preeditActive /\ told \subseteq {focused}
    <3> SUFFICES ASSUME running = <<>> PROVE told = preeditActive /\ told \subseteq {focused}
      OBVIOUS
    <3>1. \A ic : ~TopIs("free", ic)
      BY <1>3 DEF TopIs
    <3> QED BY <1>1, <2>1, <3>1 DEF CalmView, Seen, ContextTypes
  <2> QED BY <2>1, <2>2 DEF PreeditMakesSense, CalmView
<1> QED BY <1>1, <1>2, <1>5, <1>6, <1>7, <1>8, <1>9 DEF ContextsAreSound, ContextTypes

(* The stack of what the library has still to do is in order, whatever the   *)
(* client does in its callbacks: only then can its steps be relied on.       *)
THEOREM ContextInvariant ==
  InputContextInit /\ [][InputContextNext]_inputContextVars => []ContextInv
<1>1. InputContextInit => ContextInv
  BY ContextInitInv
<1>2. ContextInv /\ [InputContextNext]_inputContextVars => ContextInv'
  <2> SUFFICES ASSUME ContextInv, [InputContextNext]_inputContextVars PROVE ContextInv'
    OBVIOUS
  <2>1. CASE InputContextNext
    BY <2>1, ContextStepInv
  <2>2. CASE UNCHANGED inputContextVars
    BY <2>2 DEF inputContextVars, contextVars, focusVars, clientView, ContextInv, ContextTypes,
                OrderInv, Orders, Continues, FreeInv, FocusInv, Awaits, EndsInv, Ends, CalmInv,
                CalmStack, CalmAt, CalmSteps, CalmStep, Ready, CalmView, Seen, Midway, TopIs,
                Depth, StepAt, Op, Of
  <2> QED BY <2>1, <2>2
<1> QED BY <1>1, <1>2, PTL

(* The library goes on with no context that a callback has freed, text is    *)
(* sent while, and only while, a context takes it, and a client whose         *)
(* callbacks leave the focus alone is told of a preedit in order.            *)
THEOREM InputContextsTheorem ==
  InputContextInit /\ [][InputContextNext]_inputContextVars => []ContextsAreSound
<1>1. ContextInv => ContextsAreSound
  BY SoundFromInv
<1> QED BY <1>1, ContextInvariant, PTL

-----------------------------------------------------------------------------
(* TypedText.                                                               *)

(* The types of SDL's queue and of the characters that are remembered.       *)
WireType == [type : Strokes \union {"text", "edit"}, char : Characters, stroke : Nat]
WireTypes ==
  /\ typist \in Typists /\ pressed \in Nat
  /\ wire \in Seq(WireType) /\ owed \in Seq(WireType)
  /\ committedAscii \in Characters \union {NoChar}
  /\ pendingAscii \in Seq(Characters) /\ Len(pendingAscii) < RingSlots

(* The table is in the order of its ids: the one at i is at least as old as  *)
(* the commits behind it are many.                                          *)
CommitType == [id : Nat, text : Nat]
InOrder(table, next) ==
  \A i \in DOMAIN table : table[i].id > 0 /\ table[i].id + (Len(table) + 1 - i) <= next
Distinct(table) == \A i, j \in DOMAIN table : table[i].id = table[j].id => i = j
TableOK(table, next) ==
  /\ table \in Seq(CommitType) /\ next \in Nat \ {0}
  /\ InOrder(table, next) /\ Distinct(table)
Entries(table) == {table[i] : i \in DOMAIN table}

(* The KeyPresses on their way: each of them knows its own commit.           *)
FlightOK ==
  /\ inFlight \subseteq [id : Nat, stroke : Nat]
  /\ \A k \in inFlight : k.id < nextCommitId
  /\ \A k, l \in inFlight : k.id = l.id => k = l
  /\ resetAt \in Nat /\ resetAt < nextCommitId
  /\ misread = {}
MatchInv ==
  \A k \in inFlight, c \in Entries(commits) : c.id = k.id => c.text = k.stroke

(* No commit is lost and none stays for nothing.                             *)
HeldInv ==
  \A k \in inFlight :
    k.id > resetAt /\ k.id + MaxPending >= nextCommitId =>
      \E c \in Entries(commits) : c.id = k.id
AwaitedInv ==
  \A c \in Entries(commits) : c.id \in ignored \/ \E k \in inFlight : k.id = c.id

CommitInv ==
  /\ TableOK(commits, nextCommitId) /\ Len(commits) <= MaxPending
  /\ FlightOK /\ MatchInv /\ HeldInv /\ AwaitedInv
TextInv == WireTypes /\ CommitInv

(* Taking one commit out of the table: which entries are left, and where.    *)
LEMMA RemovedCommit ==
  ASSUME NEW t \in Seq(CommitType), NEW r \in DOMAIN t
  PROVE  LET u == SubSeq(t, 1, r - 1) \o SubSeq(t, r + 1, Len(t))
         IN /\ u \in Seq(CommitType) /\ Len(u) = Len(t) - 1
            /\ \A i \in 1..(Len(t) - 1) : u[i] = IF i < r THEN t[i] ELSE t[i + 1]
<1> DEFINE f == SubSeq(t, 1, r - 1)
           b == SubSeq(t, r + 1, Len(t))
<1>1. Len(t) \in Nat /\ DOMAIN t = 1..Len(t) /\ \A i \in 1..Len(t) : t[i] \in CommitType
  BY ElementOfSeq, LenProperties
<1>2. r \in 1..Len(t)
  BY <1>1
<1>3. f \in Seq(CommitType) /\ Len(f) = r - 1 /\ \A i \in 1..(r - 1) : f[i] = t[i]
  <2>1. \A i \in 1..(r - 1) : t[i] \in CommitType
    BY <1>1, <1>2
  <2>2. 1 \in Int /\ r - 1 \in Int /\ (1 <= r - 1 \/ r - 1 = 0)
    BY <1>1, <1>2
  <2>3. /\ f \in Seq(CommitType)
        /\ Len(f) = IF 1 <= r - 1 THEN (r - 1) - 1 + 1 ELSE 0
        /\ \A i \in 1..((r - 1) - 1 + 1) : f[i] = t[1 + i - 1]
    BY <2>1, <2>2, SubSeqProperties
  <2>4. \A i \in 1..(r - 1) : i \in 1..((r - 1) - 1 + 1) /\ 1 + i - 1 = i
    BY <2>2
  <2> HIDE DEF f
  <2> QED BY <2>2, <2>3, <2>4
<1>4. b \in Seq(CommitType) /\ Len(b) = Len(t) - r /\ \A i \in 1..(Len(t) - r) : b[i] = t[r + i]
  <2>1. \A i \in (r + 1)..Len(t) : t[i] \in CommitType
    BY <1>1, <1>2
  <2>2. r + 1 \in Int /\ Len(t) \in Int /\ r \in Int /\ r <= Len(t)
    BY <1>1, <1>2
  <2>3. /\ b \in Seq(CommitType)
        /\ Len(b) = IF r + 1 <= Len(t) THEN Len(t) - (r + 1) + 1 ELSE 0
        /\ \A i \in 1..(Len(t) - (r + 1) + 1) : b[i] = t[(r + 1) + i - 1]
    BY <2>1, <2>2, SubSeqProperties
  <2>4. \A i \in 1..(Len(t) - r) : i \in 1..(Len(t) - (r + 1) + 1) /\ (r + 1) + i - 1 = r + i
    BY <2>2
  <2> HIDE DEF b
  <2> QED BY <2>2, <2>3, <2>4
<1> HIDE DEF f, b
<1>5. /\ f \o b \in Seq(CommitType) /\ Len(f \o b) = Len(t) - 1
      /\ \A i \in 1..(Len(t) - 1) : (f \o b)[i] = IF i <= r - 1 THEN f[i] ELSE b[i - (r - 1)]
  <2>1. /\ f \o b \in Seq(CommitType) /\ Len(f \o b) = Len(f) + Len(b)
        /\ \A i \in 1..(Len(f) + Len(b)) :
             (f \o b)[i] = IF i <= Len(f) THEN f[i] ELSE b[i - Len(f)]
    BY <1>3, <1>4, ConcatProperties
  <2>2. Len(f) + Len(b) = Len(t) - 1
    BY <1>1, <1>2, <1>3, <1>4
  <2> QED BY <1>3, <2>1, <2>2
<1>6. ASSUME NEW i \in 1..(Len(t) - 1)
      PROVE  (f \o b)[i] = IF i < r THEN t[i] ELSE t[i + 1]
  <2>1. CASE i < r
    <3>1. i <= r - 1 /\ i \in 1..(r - 1)
      BY <1>1, <1>2, <2>1
    <3> QED BY <1>3, <1>5, <2>1, <3>1
  <2>2. CASE ~(i < r)
    <3>1. ~(i <= r - 1) /\ i - (r - 1) \in 1..(Len(t) - r) /\ r + (i - (r - 1)) = i + 1
      BY <1>1, <1>2, <2>2
    <3> QED BY <1>4, <1>5, <2>2, <3>1
  <2> QED BY <2>1, <2>2
<1> QED BY <1>5, <1>6 DEF f, b

(* It leaves the others, in their order.                                     *)
LEMMA TableWithout ==
  ASSUME NEW t, NEW n, TableOK(t, n), NEW r \in DOMAIN t
  PROVE  LET u == SubSeq(t, 1, r - 1) \o SubSeq(t, r + 1, Len(t))
         IN /\ TableOK(u, n) /\ Len(u) <= Len(t)
            /\ Entries(u) = Entries(t) \ {t[r]}
<1> DEFINE u == SubSeq(t, 1, r - 1) \o SubSeq(t, r + 1, Len(t))
           from(i) == IF i < r THEN i ELSE i + 1
<1>1. t \in Seq(CommitType) /\ n \in Nat \ {0} /\ InOrder(t, n) /\ Distinct(t)
  BY DEF TableOK
<1>2. Len(t) \in Nat /\ DOMAIN t = 1..Len(t) /\ \A i \in 1..Len(t) : t[i] \in CommitType
  BY <1>1, ElementOfSeq, LenProperties
<1>3. /\ u \in Seq(CommitType) /\ Len(u) = Len(t) - 1
      /\ \A i \in 1..(Len(t) - 1) : u[i] = IF i < r THEN t[i] ELSE t[i + 1]
  BY <1>1, RemovedCommit
<1>4. DOMAIN u = 1..(Len(t) - 1)
  BY <1>3, LenProperties
<1> HIDE DEF u
<1>5. \A i \in 1..(Len(t) - 1) : u[i] = t[from(i)]
  BY <1>3
<1>6. \A i \in 1..(Len(t) - 1) : from(i) \in 1..Len(t) /\ from(i) # r /\ from(i) <= i + 1
  BY <1>2
<1>7. \A i, j \in 1..(Len(t) - 1) : from(i) = from(j) => i = j
  BY <1>2
<1>8. \A i \in 1..Len(t) : i # r => \E j \in 1..(Len(t) - 1) : from(j) = i
  <2> SUFFICES ASSUME NEW i \in 1..Len(t), i # r
               PROVE  \E j \in 1..(Len(t) - 1) : from(j) = i
    OBVIOUS
  <2>1. CASE i < r
    BY <1>2, <2>1
  <2>2. CASE i > r
    <3>1. i - 1 \in 1..(Len(t) - 1) /\ from(i - 1) = i
      BY <1>2, <2>2
    <3> QED BY <3>1
  <2> QED BY <1>2, <2>1, <2>2
<1> HIDE DEF from
<1>9. Entries(u) = Entries(t) \ {t[r]}
  <2>1. ASSUME NEW c \in Entries(u) PROVE c \in Entries(t) \ {t[r]}
    <3>1. PICK i \in 1..(Len(t) - 1) : c = u[i]
      BY <1>4, <2>1 DEF Entries
    <3>2. c = t[from(i)] /\ from(i) \in 1..Len(t) /\ from(i) # r
      BY <1>5, <1>6, <3>1
    <3>3. t[from(i)] # t[r]
      BY <1>1, <1>2, <3>2 DEF Distinct
    <3> QED BY <1>2, <3>2, <3>3 DEF Entries
  <2>2. ASSUME NEW c \in Entries(t) \ {t[r]} PROVE c \in Entries(u)
    <3>1. PICK i \in 1..Len(t) : c = t[i] /\ i # r
      BY <1>2, <2>2 DEF Entries
    <3>2. PICK j \in 1..(Len(t) - 1) : from(j) = i
      BY <1>8, <3>1
    <3> QED BY <1>4, <1>5, <3>1, <3>2 DEF Entries
  <2> QED BY <2>1, <2>2
<1>10. InOrder(u, n)
  <2> SUFFICES ASSUME NEW i \in 1..(Len(t) - 1)
               PROVE  u[i].id > 0 /\ u[i].id + (Len(u) + 1 - i) <= n
    BY <1>4 DEF InOrder
  <2> DEFINE x == u[i].id
             l == Len(t)
             k == from(i)
  <2>1. k \in 1..l /\ k <= i + 1 /\ x = t[k].id
    BY <1>5, <1>6
  <2>2. x \in Nat
    BY <1>2, <2>1 DEF CommitType
  <2>3. x > 0 /\ x + (l + 1 - k) <= n
    BY <1>1, <1>2, <2>1 DEF InOrder
  <2>4. l \in Nat /\ k \in Int /\ i \in Int /\ n \in Nat /\ Len(u) = l - 1
    BY <1>1, <1>2, <1>3, <2>1
  <2> HIDE DEF x, l, k
  <2>5. x > 0 /\ x + ((l - 1) + 1 - i) <= n
    BY <2>1, <2>2, <2>3, <2>4
  <2> QED BY <2>4, <2>5 DEF x
<1>11. Distinct(u)
  <2> SUFFICES ASSUME NEW i \in 1..(Len(t) - 1), NEW j \in 1..(Len(t) - 1), u[i].id = u[j].id
               PROVE  i = j
    BY <1>4 DEF Distinct
  <2>1. from(i) = from(j)
    BY <1>1, <1>2, <1>5, <1>6 DEF Distinct
  <2> QED BY <1>7, <2>1
<1>12. Len(u) <= Len(t)
  BY <1>2, <1>3
<1> QED BY <1>1, <1>3, <1>9, <1>10, <1>11, <1>12 DEF TableOK, u

(* The oldest goes first.                                                    *)
LEMMA TableTail ==
  ASSUME NEW t, NEW n, TableOK(t, n), t # <<>>
  PROVE  /\ TableOK(Tail(t), n) /\ Len(Tail(t)) = Len(t) - 1
         /\ Entries(Tail(t)) = Entries(t) \ {t[1]}
         /\ 1 \in DOMAIN t
<1> DEFINE u == Tail(t)
<1>1. t \in Seq(CommitType) /\ n \in Nat \ {0} /\ InOrder(t, n) /\ Distinct(t)
  BY DEF TableOK
<1>2. /\ Len(t) \in Nat \ {0} /\ DOMAIN t = 1..Len(t)
      /\ \A i \in 1..Len(t) : t[i] \in CommitType
  BY <1>1, ElementOfSeq, LenProperties, EmptySeq
<1>3. /\ u \in Seq(CommitType) /\ Len(u) = Len(t) - 1
      /\ \A i \in 1..Len(u) : u[i] = t[i + 1]
  BY <1>1, HeadTailProperties
<1>4. DOMAIN u = 1..(Len(t) - 1)
  BY <1>3, LenProperties
<1> HIDE DEF u
<1>5. \A i \in 1..(Len(t) - 1) : u[i] = t[i + 1] /\ i + 1 \in 1..Len(t) /\ i + 1 # 1
  BY <1>2, <1>3
<1>6. \A i \in 1..Len(t) : i # 1 => i - 1 \in 1..(Len(t) - 1) /\ (i - 1) + 1 = i
  BY <1>2
<1>7. 1 \in 1..Len(t)
  BY <1>2
<1>8. Entries(u) = Entries(t) \ {t[1]}
  <2>1. ASSUME NEW c \in Entries(u) PROVE c \in Entries(t) \ {t[1]}
    <3>1. PICK i \in 1..(Len(t) - 1) : c = u[i]
      BY <1>4, <2>1 DEF Entries
    <3>2. t[i + 1] # t[1]
      BY <1>1, <1>2, <1>5, <1>7 DEF Distinct
    <3> QED BY <1>2, <1>5, <3>1, <3>2 DEF Entries
  <2>2. ASSUME NEW c \in Entries(t) \ {t[1]} PROVE c \in Entries(u)
    <3>1. PICK i \in 1..Len(t) : c = t[i] /\ i # 1
      BY <1>2, <2>2 DEF Entries
    <3>2. PICK j \in 1..(Len(t) - 1) : j + 1 = i
      BY <1>6, <3>1
    <3> QED BY <1>4, <1>5, <3>1, <3>2 DEF Entries
  <2> QED BY <2>1, <2>2
<1>9. InOrder(u, n)
  <2> SUFFICES ASSUME NEW i \in 1..(Len(t) - 1)
               PROVE  u[i].id > 0 /\ u[i].id + (Len(u) + 1 - i) <= n
    BY <1>4 DEF InOrder
  <2>1. t[i + 1].id > 0 /\ t[i + 1].id + (Len(t) + 1 - (i + 1)) <= n
    BY <1>1, <1>2, <1>5 DEF InOrder
  <2>2. \A l \in Nat : l + 1 - (i + 1) = (l - 1) + 1 - i
    OBVIOUS
  <2>3. Len(t) + 1 - (i + 1) = Len(u) + 1 - i
    BY <1>2, <1>3, <2>2
  <2> QED BY <1>5, <2>1, <2>3
<1>10. Distinct(u)
  <2> SUFFICES ASSUME NEW i \in 1..(Len(t) - 1), NEW j \in 1..(Len(t) - 1), u[i].id = u[j].id
               PROVE  i = j
    BY <1>4 DEF Distinct
  <2>1. i + 1 = j + 1
    BY <1>1, <1>2, <1>5 DEF Distinct
  <2> QED BY <2>1
<1> QED BY <1>1, <1>2, <1>3, <1>7, <1>8, <1>9, <1>10 DEF TableOK, u

(* A new commit has the highest id of all.                                   *)
LEMMA TableAppend ==
  ASSUME NEW t, NEW n, TableOK(t, n), NEW s \in Nat
  PROVE  LET c == [id |-> n, text |-> s]
             u == Append(t, c)
         IN /\ TableOK(u, n + 1) /\ u # <<>> /\ Len(u) = Len(t) + 1
            /\ Entries(u) = Entries(t) \union {c}
            /\ \A e \in Entries(t) : e.id < n
            /\ u[1].id + Len(t) <= n
            /\ Len(t) > 0 => u[1].id < n
<1> DEFINE c == [id |-> n, text |-> s]
           u == Append(t, c)
<1>1. t \in Seq(CommitType) /\ n \in Nat \ {0} /\ InOrder(t, n) /\ Distinct(t)
  BY DEF TableOK
<1>2. Len(t) \in Nat /\ DOMAIN t = 1..Len(t) /\ \A i \in 1..Len(t) : t[i] \in CommitType
  BY <1>1, ElementOfSeq, LenProperties
<1>3. c \in CommitType /\ c.id = n
  BY <1>1 DEF CommitType
<1> HIDE DEF c
<1>4. /\ u \in Seq(CommitType) /\ u # <<>> /\ Len(u) = Len(t) + 1
      /\ \A i \in 1..Len(t) : u[i] = t[i]
      /\ u[Len(t) + 1] = c
  BY <1>1, <1>3, AppendProperties
<1>5. DOMAIN u = 1..(Len(t) + 1)
  BY <1>4, LenProperties
<1> HIDE DEF u
<1>6. \A i \in 1..(Len(t) + 1) : i \in 1..Len(t) \/ i = Len(t) + 1
  BY <1>2
<1>7. 1..Len(t) \subseteq 1..(Len(t) + 1) /\ Len(t) + 1 \in 1..(Len(t) + 1)
  BY <1>2
<1>8. Entries(u) = Entries(t) \union {c}
  <2>1. ASSUME NEW e \in Entries(u) PROVE e \in Entries(t) \union {c}
    BY <1>2, <1>4, <1>5, <1>6, <2>1 DEF Entries
  <2>2. ASSUME NEW e \in Entries(t) PROVE e \in Entries(u)
    BY <1>2, <1>4, <1>5, <1>7, <2>2 DEF Entries
  <2>3. c \in Entries(u)
    BY <1>4, <1>5, <1>7 DEF Entries
  <2> QED BY <2>1, <2>2, <2>3
<1>9. ASSUME NEW i \in 1..Len(t)
      PROVE  /\ t[i].id \in Nat /\ t[i].id > 0 /\ t[i].id < n
             /\ t[i].id + (Len(t) + 1 - i) <= n
             /\ t[i].id + ((Len(t) + 1) + 1 - i) <= n + 1
  <2>1. t[i].id \in Nat
    BY <1>2 DEF CommitType
  <2>2. t[i].id > 0 /\ t[i].id + (Len(t) + 1 - i) <= n
    BY <1>1, <1>2 DEF InOrder
  <2> QED BY <1>1, <1>2, <2>1, <2>2
<1>10. InOrder(u, n + 1)
  <2> SUFFICES ASSUME NEW i \in 1..(Len(t) + 1)
               PROVE  u[i].id > 0 /\ u[i].id + ((Len(t) + 1) + 1 - i) <= n + 1
    BY <1>4, <1>5 DEF InOrder
  <2>1. CASE i \in 1..Len(t)
    BY <1>4, <1>9, <2>1
  <2>2. CASE i = Len(t) + 1
    BY <1>1, <1>2, <1>3, <1>4, <2>2
  <2> QED BY <1>6, <2>1, <2>2
<1>11. Distinct(u)
  <2> SUFFICES ASSUME NEW i \in 1..(Len(t) + 1), NEW j \in 1..(Len(t) + 1), u[i].id = u[j].id
               PROVE  i = j
    BY <1>5 DEF Distinct
  <2>1. CASE i \in 1..Len(t) /\ j \in 1..Len(t)
    BY <1>1, <1>2, <1>4, <2>1 DEF Distinct
  <2>2. \A k \in 1..Len(t) : u[k].id # n
    <3>1. \A x \in Nat : x < n => x # n
      BY <1>1
    <3>2. \A k \in 1..Len(t) : t[k].id \in Nat /\ t[k].id < n
      BY <1>9
    <3> QED BY <1>4, <3>1, <3>2
  <2>3. u[Len(t) + 1].id = n
    BY <1>3, <1>4
  <2> QED BY <1>6, <2>1, <2>2, <2>3
<1>12. \A e \in Entries(t) : e.id < n
  BY <1>2, <1>9 DEF Entries
<1>13. u[1].id + Len(t) <= n /\ (Len(t) > 0 => u[1].id < n)
  <2>1. CASE Len(t) = 0
    BY <1>1, <1>3, <1>4, <2>1
  <2>2. CASE Len(t) > 0
    <3>1. 1 \in 1..Len(t) /\ Len(t) + 1 - 1 = Len(t)
      BY <1>2, <2>2
    <3> QED BY <1>4, <1>9, <3>1
  <2> QED BY <1>2, <2>1, <2>2
<1>14. n + 1 \in Nat \ {0}
  BY <1>1
<1> QED BY <1>4, <1>8, <1>10, <1>11, <1>12, <1>13, <1>14 DEF TableOK, u, c

(* What is left of SDL's queue are events that were in it.                   *)
LEMMA WireHead ==
  ASSUME wire \in Seq(WireType), wire # <<>>
  PROVE  /\ Tail(wire) \in Seq(WireType)
         /\ Head(wire).char \in Characters /\ Head(wire).stroke \in Nat
<1>1. Head(wire) \in WireType /\ Tail(wire) \in Seq(WireType)
  BY HeadTailProperties
<1> QED BY <1>1 DEF WireType

(* The host stops: what is on its way stays in order.                        *)
LEMMA StopsTextInput ==
  ASSUME wire \in Seq(WireType), SDL_StopTextInput
  PROVE  wire' \in Seq(WireType)
<1>1. CASE UNCHANGED wire
  BY <1>1
<1>2. CASE ~(UNCHANGED wire)
  <2> DEFINE stays == {i \in DOMAIN wire : wire[i].type \notin {"text", "edit"}}
  <2>1. PICK from \in [1..Cardinality(stays) -> stays] :
          wire' = [i \in DOMAIN from |-> wire[from[i]]]
    BY <1>2 DEF SDL_StopTextInput
  <2>2. DOMAIN wire = 1..Len(wire) /\ Len(wire) \in Nat /\ \A i \in 1..Len(wire) : wire[i] \in WireType
    BY LenProperties, ElementOfSeq
  <2>3. stays \in SUBSET (1..Len(wire))
    BY <2>2
  <2> HIDE DEF stays
  <2>4. Cardinality(stays) \in Nat
    <3>1. IsFiniteSet(1..Len(wire))
      BY <2>2, FS_Interval
    <3>2. IsFiniteSet(stays)
      BY <2>3, <3>1, FS_Subset
    <3> QED BY <3>2, FS_CardinalityType
  <2>5. DOMAIN from = 1..Cardinality(stays)
    BY <2>1
  <2>6. \A i \in 1..Cardinality(stays) : wire[from[i]] \in WireType
    BY <2>1, <2>2, <2>3
  <2>7. wire' = [i \in 1..Cardinality(stays) |-> wire[from[i]]]
    BY <2>1, <2>5
  <2> HIDE DEF WireType
  <2> DEFINE m == Cardinality(stays)
             e(i) == wire[from[i]]
  <2>8. wire' = [i \in 1..m |-> e(i)] /\ m \in Nat /\ \A i \in 1..m : e(i) \in WireType
    BY <2>4, <2>6, <2>7
  <2> HIDE DEF m, e
  <2> QED BY ONLY <2>8, IsASeq
<1> QED BY <1>1, <1>2

(* The types are kept by every step.                                         *)
LEMMA WireTypesKept ==
  ASSUME WireTypes, TypedTextNext
  PROVE  WireTypes'
<1>1. ASSUME NEW kind \in Strokes, NEW c \in Characters, Press(kind, c) PROVE WireTypes'
  <2>1. \A type \in Strokes \union {"text", "edit"} : <<Event(type, c)>> \in Seq(WireType)
    BY DEF Event, WireTypes, WireType
  <2> DEFINE key == IF kind = "composed" THEN <<>> ELSE <<Event(kind, c)>>
             text == IF sendsText THEN <<Event("text", c)>> ELSE <<>>
             edit == IF kind = "composed" /\ sendsText THEN <<Event("edit", c)>> ELSE <<>>
  <2>2. key \in Seq(WireType) /\ text \in Seq(WireType) /\ edit \in Seq(WireType)
    BY <2>1, EmptySeq
  <2>3. /\ wire' = wire \o text \o key \/ wire' = wire \o key \o edit
        /\ owed' = owed \/ owed' = owed \o text
        /\ pressed' = pressed + 1 /\ UNCHANGED <<typist, committedAscii, pendingAscii>>
    BY <1>1 DEF Press, dedupVars
  <2> HIDE DEF key, text, edit
  <2>4. wire \in Seq(WireType) /\ owed \in Seq(WireType) /\ pressed \in Nat
    BY DEF WireTypes
  <2>5. /\ (wire \o text) \o key \in Seq(WireType) /\ (wire \o key) \o edit \in Seq(WireType)
        /\ owed \o text \in Seq(WireType)
    <3>1. wire \o text \in Seq(WireType) /\ wire \o key \in Seq(WireType)
      BY <2>2, <2>4, ConcatProperties
    <3> QED BY <2>2, <2>4, <3>1, ConcatProperties
  <2>6. wire' \in Seq(WireType) /\ owed' \in Seq(WireType)
    BY ONLY <2>3, <2>4, <2>5
  <2>7. /\ typist' \in Typists /\ pressed' \in Nat
        /\ committedAscii' \in Characters \union {NoChar}
        /\ pendingAscii' \in Seq(Characters) /\ Len(pendingAscii') < RingSlots
    BY <2>3, <2>4 DEF WireTypes
  <2> QED BY <2>6, <2>7 DEF WireTypes
<1>2. ASSUME SendText PROVE WireTypes'
  <2>1. Head(owed) \in WireType /\ Tail(owed) \in Seq(WireType)
    BY <1>2, HeadTailProperties DEF SendText, WireTypes
  <2>2. Append(wire, Head(owed)) \in Seq(WireType)
    BY <2>1, AppendProperties DEF WireTypes
  <2> QED BY <1>2, <2>1, <2>2 DEF SendText, WireTypes, dedupVars
<1>3. ASSUME NEW type, Converts(type)
      PROVE  /\ wire # <<>> /\ wire' \in Seq(WireType) /\ Char \in Characters
             /\ owed' \in Seq(WireType) /\ typist' \in Typists /\ pressed' \in Nat
  BY <1>3, WireHead DEF Converts, Char, WireTypes
<1>4. ASSUME NEW a \in Seq(Characters), Len(a) < RingSlots
      PROVE  Len(<<>>) < RingSlots /\ <<>> \in Seq(Characters)
  BY TypistsAssumption
<1>5. ASSUME ConvertKey PROVE WireTypes'
  <2>1. Converts("key") \/ Converts("late")
    BY <1>5 DEF ConvertKey
  <2>2. pendingAscii' = pendingAscii
          \/ (pendingAscii' = Append(pendingAscii, Char) /\ Len(pendingAscii) + 1 < RingSlots)
    BY <1>5 DEF ConvertKey, pushPendingAsciiChar
  <2>3. pendingAscii' \in Seq(Characters) /\ Len(pendingAscii') < RingSlots
    <3>1. pendingAscii \in Seq(Characters) /\ Len(pendingAscii) < RingSlots /\ Char \in Characters
      BY <1>3, <2>1 DEF WireTypes
    <3>2. /\ Append(pendingAscii, Char) \in Seq(Characters)
          /\ Len(Append(pendingAscii, Char)) = Len(pendingAscii) + 1
      BY <3>1, AppendProperties
    <3> QED BY <2>2, <3>1, <3>2
  <2>4. committedAscii' = NoChar
    BY <1>5 DEF ConvertKey, forgetCommitted
  <2> QED BY <1>3, <2>1, <2>3, <2>4 DEF WireTypes
<1>6. ASSUME ConvertKeypad PROVE WireTypes'
  BY <1>3, <1>6 DEF ConvertKeypad, dedupVars, WireTypes
<1>7. ASSUME ConvertEdit PROVE WireTypes'
  BY <1>3, <1>4, <1>7 DEF ConvertEdit, clearPendingAsciiRing, forgetCommitted, WireTypes
<1>8. ASSUME convertTextInputEvent PROVE WireTypes'
  <2>1. Converts("text")
    BY <1>8 DEF convertTextInputEvent
  <2>2. \/ UNCHANGED <<pendingAscii, committedAscii>>
        \/ /\ pendingAscii # <<>> /\ pendingAscii' = Tail(pendingAscii)
           /\ committedAscii' = committedAscii
        \/ pendingAscii' = <<>> /\ committedAscii' = Char
    BY <1>8 DEF convertTextInputEvent, matchesPending, clearPendingAsciiRing, dedupVars
  <2>3. pendingAscii # <<>> =>
          Tail(pendingAscii) \in Seq(Characters) /\ Len(Tail(pendingAscii)) < RingSlots
    <3> SUFFICES ASSUME pendingAscii # <<>>
                 PROVE  Tail(pendingAscii) \in Seq(Characters) /\ Len(Tail(pendingAscii)) < RingSlots
      OBVIOUS
    <3>1. pendingAscii \in Seq(Characters) /\ Len(pendingAscii) < RingSlots
      BY DEF WireTypes
    <3>2. /\ Tail(pendingAscii) \in Seq(Characters)
          /\ Len(Tail(pendingAscii)) = Len(pendingAscii) - 1 /\ Len(pendingAscii) \in Nat
      BY <3>1, HeadTailProperties, LenProperties
    <3> QED BY <3>1, <3>2, TypistsAssumption
  <2> QED BY <1>3, <1>4, <2>1, <2>2, <2>3 DEF WireTypes
<1>9. ASSUME Client PROVE WireTypes'
  BY <1>9 DEF Client, hostVars, dedupVars, WireTypes
<1>10. ASSUME MovesFocus, UNCHANGED wire \/ SDL_StopTextInput PROVE WireTypes'
  <2>1. wire' \in Seq(WireType)
    BY <1>10, StopsTextInput DEF WireTypes
  <2> QED BY <1>10, <2>1 DEF MovesFocus, dedupVars, WireTypes
<1>11. CASE \E k \in inFlight :
              \/ \E fits \in BOOLEAN : Xutf8LookupString(k, fits)
              \/ ThrowAway(k) \/ releaseDiscardedImCommit(k)
  BY <1>9, <1>11 DEF Xutf8LookupString, ThrowAway, releaseDiscardedImCommit
<1>12. CASE FocusTaken \/ FocusDropped \/ inputMethodReset \/ XSelectInput \/ XSetICValues
  BY <1>10, <1>12 DEF FocusTaken, FocusDropped, inputMethodReset, XSelectInput, XSetICValues
<1> QED BY <1>1, <1>2, <1>5, <1>6, <1>7, <1>8, <1>11, <1>12 DEF TypedTextNext

(* A commit is added, and the oldest makes room for it if it has to.         *)
LEMMA CommitAdded ==
  ASSUME CommitInv, NEW s \in Nat, inputMethodSetCurrentText(s)
  PROVE  CommitInv'
<1> DEFINE n == nextCommitId
           c == [id |-> n, text |-> s]
           new == [id |-> n, stroke |-> s]
           table == Append(commits, c)
<1>1. TableOK(commits, n) /\ Len(commits) <= MaxPending /\ n \in Nat /\ Len(commits) \in Nat
  BY LenProperties DEF CommitInv, TableOK
<1>2. /\ TableOK(table, n + 1) /\ table # <<>> /\ Len(table) = Len(commits) + 1
      /\ Entries(table) = Entries(commits) \union {c}
      /\ \A e \in Entries(commits) : e.id < n
      /\ table[1].id + Len(commits) <= n
      /\ Len(commits) > 0 => table[1].id < n
  BY <1>1, TableAppend
<1>3. /\ commits' = IF Len(table) > MaxPending THEN Tail(table) ELSE table
      /\ inFlight' = inFlight \union {new}
      /\ nextCommitId' = n + 1
      /\ misread' = misread /\ ignored' = ignored /\ resetAt' = resetAt
  BY DEF inputMethodSetCurrentText, dropOldestCommit
<1>4. c.id = n /\ c.text = s /\ new.id = n /\ new.stroke = s /\ new \in [id : Nat, stroke : Nat]
  BY <1>1
<1> HIDE DEF c, new, table, n
<1>5. MaxPending \in Nat \ {0}
  BY TypistsAssumption
<1>6. \A e \in Entries(commits) : e.id \in Nat
  <2>1. commits \in Seq(CommitType) /\ DOMAIN commits = 1..Len(commits)
    BY <1>1, LenProperties DEF TableOK
  <2>2. \A i \in DOMAIN commits : commits[i] \in CommitType
    BY <2>1, ElementOfSeq
  <2> QED BY <2>2 DEF Entries, CommitType
<1>7. /\ TableOK(commits', n + 1) /\ Len(commits') <= MaxPending
      /\ Entries(commits') \subseteq Entries(commits) \union {c}
      /\ c \in Entries(commits')
      /\ \A e \in Entries(commits) : e.id + MaxPending >= n + 1 => e \in Entries(commits')
  <2>1. CASE Len(table) > MaxPending
    <3>1. commits' = Tail(table)
      BY <1>3, <2>1
    <3>2. /\ TableOK(Tail(table), n + 1) /\ Len(Tail(table)) = Len(table) - 1
          /\ Entries(Tail(table)) = Entries(table) \ {table[1]} /\ 1 \in DOMAIN table
      BY <1>2, TableTail
    <3>3. Len(commits) = MaxPending /\ Len(commits) > 0 /\ Len(table) - 1 <= MaxPending
      BY <1>1, <1>2, <1>5, <2>1
    <3>4. table[1].id < n /\ table[1].id + MaxPending <= n
      BY <1>2, <3>3
    <3>5. table[1] # c
      BY <1>1, <1>4, <3>4
    <3>6. \A e \in Entries(commits) : e.id + MaxPending >= n + 1 => e # table[1]
      BY <1>1, <1>5, <1>6, <3>4
    <3> QED BY <1>2, <3>1, <3>2, <3>3, <3>5, <3>6
  <2>2. CASE ~(Len(table) > MaxPending)
    <3>1. commits' = table
      BY <1>3, <2>2
    <3>2. Len(table) <= MaxPending
      BY <1>1, <1>2, <1>5, <2>2
    <3> QED BY <1>2, <3>1, <3>2
  <2> QED BY <2>1, <2>2
<1>8. /\ inFlight \subseteq [id : Nat, stroke : Nat] /\ \A k \in inFlight : k.id < n
      /\ \A k, l \in inFlight : k.id = l.id => k = l
      /\ resetAt \in Nat /\ resetAt < n /\ misread = {}
  BY DEF CommitInv, FlightOK, n
<1>9. \A k \in inFlight : k.id \in Nat /\ k.id < n + 1 /\ k.id # n
  <2>1. \A x \in Nat : x < n => x < n + 1 /\ x # n
    BY <1>1
  <2>2. \A k \in inFlight : k.id \in Nat
    BY <1>8
  <2> QED BY <1>8, <2>1, <2>2
<1>10. FlightOK'
  <2>1. inFlight' \subseteq [id : Nat, stroke : Nat]
    BY <1>3, <1>4, <1>8
  <2>2. \A k \in inFlight' : k.id < nextCommitId'
    BY <1>1, <1>3, <1>4, <1>9
  <2>3. \A k, l \in inFlight' : k.id = l.id => k = l
    BY <1>3, <1>4, <1>8, <1>9
  <2>4. resetAt' \in Nat /\ resetAt' < nextCommitId' /\ misread' = {}
    BY <1>1, <1>3, <1>8
  <2> QED BY <2>1, <2>2, <2>3, <2>4 DEF FlightOK
<1>11. MatchInv'
  <2> SUFFICES ASSUME NEW k \in inFlight \union {new}, NEW e \in Entries(commits) \union {c},
                      e.id = k.id
               PROVE  e.text = k.stroke
    BY <1>3, <1>7 DEF MatchInv
  <2>1. CASE k \in inFlight /\ e \in Entries(commits)
    BY <2>1 DEF CommitInv, MatchInv
  <2>2. CASE k = new /\ e = c
    BY <1>4, <2>2
  <2>3. ~(k \in inFlight /\ e = c)
    BY <1>4, <1>9
  <2>4. ~(k = new /\ e \in Entries(commits))
    <3>1. \A x \in Nat : x < n => x # n
      BY <1>1
    <3> QED BY <1>2, <1>4, <1>6, <3>1
  <2> QED BY <2>1, <2>2, <2>3, <2>4
<1>12. HeldInv'
  <2> SUFFICES ASSUME NEW k \in inFlight \union {new}, k.id > resetAt,
                      k.id + MaxPending >= n + 1
               PROVE  \E e \in Entries(commits') : e.id = k.id
    BY <1>3 DEF HeldInv
  <2>1. CASE k = new
    BY <1>4, <1>7, <2>1
  <2>2. CASE k \in inFlight
    <3>1. k.id \in Nat
      BY <1>9, <2>2
    <3>2. k.id + MaxPending >= n
      BY <1>1, <1>5, <3>1
    <3>3. PICK e \in Entries(commits) : e.id = k.id
      BY <2>2, <3>2 DEF CommitInv, HeldInv, n
    <3> QED BY <1>7, <3>3
  <2> QED BY <2>1, <2>2
<1>13. AwaitedInv'
  BY <1>3, <1>4, <1>7 DEF CommitInv, AwaitedInv
<1> QED BY <1>3, <1>7, <1>10, <1>11, <1>12, <1>13 DEF CommitInv

(* Exactly the commit of the id leaves the table.                            *)
LEMMA CommitConsumed ==
  ASSUME TableOK(commits, nextCommitId), NEW id, inputMethodConsumePendingText(id)
  PROVE  /\ TableOK(commits', nextCommitId)
         /\ Len(commits) \in Nat /\ Len(commits') \in Nat /\ Len(commits') <= Len(commits)
         /\ Entries(commits') = {e \in Entries(commits) : e.id # id}
<1> DEFINE without(r) == SubSeq(commits, 1, r - 1) \o SubSeq(commits, r + 1, Len(commits))
<1>1. commits \in Seq(CommitType) /\ Len(commits) \in Nat
  BY LenProperties DEF TableOK
<1>2. CASE \E r \in DOMAIN commits : isAt(id, r) /\ commits' = without(r)
  <2>1. PICK r \in DOMAIN commits : commits[r].id = id /\ commits' = without(r)
    BY <1>2 DEF isAt
  <2>2. /\ TableOK(without(r), nextCommitId) /\ Len(without(r)) <= Len(commits)
        /\ Entries(without(r)) = Entries(commits) \ {commits[r]}
    BY TableWithout
  <2> HIDE DEF without
  <2>3. ASSUME NEW e \in Entries(commits) PROVE e.id = id <=> e = commits[r]
    BY <2>1 DEF TableOK, Distinct, Entries
  <2>4. Len(commits') \in Nat
    BY <2>1, <2>2, LenProperties DEF TableOK
  <2> QED BY <1>1, <2>1, <2>2, <2>3, <2>4
<1>3. CASE (\A i \in DOMAIN commits : commits[i].id # id) /\ UNCHANGED commits
  BY <1>1, <1>3 DEF Entries
<1> QED BY <1>2, <1>3 DEF inputMethodConsumePendingText

(* The client has read a KeyPress, or never will: it and its text go.        *)
LEMMA PressTaken ==
  ASSUME CommitInv, NEW k \in inFlight, inFlight' = inFlight \ {k},
         inputMethodConsumePendingText(k.id), misread' = {},
         UNCHANGED <<nextCommitId, ignored, resetAt>>
  PROVE  CommitInv'
<1>1. /\ TableOK(commits', nextCommitId)
      /\ Len(commits) \in Nat /\ Len(commits') \in Nat /\ Len(commits') <= Len(commits)
      /\ Entries(commits') = {e \in Entries(commits) : e.id # k.id}
  BY CommitConsumed DEF CommitInv
<1>2. Len(commits') <= MaxPending
  BY <1>1, TypistsAssumption DEF CommitInv
<1>3. \A l \in inFlight : l.id = k.id => l = k
  BY DEF CommitInv, FlightOK
<1>4. FlightOK'
  BY DEF CommitInv, FlightOK
<1>5. MatchInv'
  BY <1>1 DEF CommitInv, MatchInv
<1>6. HeldInv'
  <2> SUFFICES ASSUME NEW l \in inFlight \ {k}, l.id > resetAt, l.id + MaxPending >= nextCommitId
               PROVE  \E e \in Entries(commits') : e.id = l.id
    BY DEF HeldInv
  <2>1. PICK e \in Entries(commits) : e.id = l.id
    BY DEF CommitInv, HeldInv
  <2> QED BY <1>1, <1>3, <2>1
<1>7. AwaitedInv'
  BY <1>1 DEF CommitInv, AwaitedInv
<1> QED BY <1>1, <1>2, <1>4, <1>5, <1>6, <1>7 DEF CommitInv

(* A lookup returns the text of its own KeyPress, or none.                   *)
LEMMA LookupInv ==
  ASSUME CommitInv, NEW k \in inFlight, NEW fits \in BOOLEAN, Xutf8LookupString(k, fits)
  PROVE  CommitInv'
<1>1. CASE fits
  <2>1. {d \in inputMethodPendingText(k.id) : d.text # k.stroke} = {}
    BY DEF inputMethodPendingText, CommitInv, MatchInv, Entries
  <2>2. misread' = {}
    <3>1. misread' = misread \union
            {k.stroke : c \in {d \in inputMethodPendingText(k.id) : d.text # k.stroke}}
      BY <1>1 DEF Xutf8LookupString
    <3> QED BY <2>1, <3>1 DEF CommitInv, FlightOK
  <2> QED BY <1>1, <2>2, PressTaken DEF Xutf8LookupString
<1>2. CASE ~fits
  <2>1. UNCHANGED commitVars
    BY <1>2 DEF Xutf8LookupString, keepsForRetry, commitVars
  <2> QED BY <2>1 DEF commitVars, CommitInv, FlightOK, MatchInv, HeldInv, AwaitedInv
<1> QED BY <1>1, <1>2

(* A client may throw an event away.                                         *)
LEMMA ThrowAwayInv ==
  ASSUME CommitInv, NEW k \in inFlight, ThrowAway(k)
  PROVE  CommitInv'
<1>1. /\ inFlight' = inFlight \ {k} /\ ignored' = ignored \union {k.id}
      /\ UNCHANGED <<commits, nextCommitId, misread, resetAt>>
  BY DEF ThrowAway
<1>2. FlightOK' /\ MatchInv' /\ HeldInv'
  BY <1>1 DEF CommitInv, FlightOK, MatchInv, HeldInv
<1>3. AwaitedInv'
  BY <1>1 DEF CommitInv, AwaitedInv
<1> QED BY <1>1, <1>2, <1>3 DEF CommitInv

(* Closing the input method empties the table, for all ids there are.        *)
LEMMA ResetInv ==
  ASSUME CommitInv, inputMethodReset
  PROVE  CommitInv'
<1>1. /\ commits' = <<>> /\ resetAt' = nextCommitId - 1
      /\ UNCHANGED <<nextCommitId, inFlight, misread, ignored>>
  BY DEF inputMethodReset
<1>2. nextCommitId \in Nat \ {0}
  BY DEF CommitInv, TableOK
<1>3. Entries(<<>>) = {} /\ TableOK(<<>>, nextCommitId) /\ Len(<<>>) <= MaxPending
  BY <1>2, TypistsAssumption DEF Entries, TableOK, InOrder, Distinct
<1>4. \A k \in inFlight : ~(k.id > nextCommitId - 1)
  BY <1>2 DEF CommitInv, FlightOK
<1>5. nextCommitId - 1 \in Nat /\ nextCommitId - 1 < nextCommitId
  BY <1>2
<1>6. FlightOK'
  BY <1>1, <1>5 DEF CommitInv, FlightOK
<1>7. MatchInv' /\ HeldInv' /\ AwaitedInv'
  BY <1>1, <1>3, <1>4 DEF MatchInv, HeldInv, AwaitedInv
<1> QED BY <1>1, <1>3, <1>6, <1>7 DEF CommitInv

(* The start.                                                                *)
LEMMA TextInitInv == TypedTextInit => TextInv
<1> SUFFICES ASSUME TypedTextInit PROVE TextInv
  OBVIOUS
<1>1. WireTypes
  BY TypistsAssumption DEF TypedTextInit, WireTypes
<1>2. Entries(<<>>) = {} /\ TableOK(<<>>, 1) /\ Len(<<>>) <= MaxPending
  BY TypistsAssumption DEF Entries, TableOK, InOrder, Distinct
<1>3. CommitInv
  BY <1>2 DEF TypedTextInit, CommitInv, FlightOK, MatchInv, HeldInv, AwaitedInv
<1> QED BY <1>1, <1>3 DEF TextInv

(* Every step.                                                               *)
LEMMA TextStepInv ==
  ASSUME TextInv, TypedTextNext
  PROVE  TextInv'
<1>1. WireTypes /\ CommitInv
  BY DEF TextInv
<1>2. WireTypes'
  BY <1>1, WireTypesKept
<1>3. ASSUME UNCHANGED commitVars PROVE CommitInv'
  BY <1>1, <1>3 DEF commitVars, CommitInv, FlightOK, MatchInv, HeldInv, AwaitedInv
<1>4. ASSUME \E kind \in Strokes, c \in Characters : Press(kind, c)
       PROVE  CommitInv'
  BY <1>3, <1>4 DEF Press
<1>5. ASSUME SendText
       PROVE  CommitInv'
  BY <1>3, <1>5 DEF SendText
<1>6. ASSUME ConvertKey \/ ConvertKeypad \/ ConvertEdit
       PROVE  CommitInv'
  BY <1>3, <1>6 DEF ConvertKey, ConvertKeypad, ConvertEdit
<1>7. ASSUME convertTextInputEvent
       PROVE  CommitInv'
  <2>1. UNCHANGED commitVars \/ inputMethodSetCurrentText(Head(wire).stroke)
    BY <1>7 DEF convertTextInputEvent
  <2>2. Head(wire).stroke \in Nat
    BY <1>1, <1>7, WireHead DEF convertTextInputEvent, Converts, WireTypes
  <2> QED BY <1>1, <1>3, <2>1, <2>2, CommitAdded
<1>8. ASSUME NEW k \in inFlight,
             (\E fits \in BOOLEAN : Xutf8LookupString(k, fits)) \/ ThrowAway(k)
               \/ releaseDiscardedImCommit(k)
      PROVE  CommitInv'
  <2>1. ASSUME releaseDiscardedImCommit(k) PROVE CommitInv'
    <3>1. misread' = {}
      BY <1>1, <2>1 DEF releaseDiscardedImCommit, CommitInv, FlightOK
    <3> QED BY <1>1, <2>1, <3>1, PressTaken DEF releaseDiscardedImCommit, releasesText
  <2> QED BY <1>1, <1>8, <2>1, LookupInv, ThrowAwayInv
<1>9. ASSUME inputMethodReset
       PROVE  CommitInv'
  BY <1>1, <1>9, ResetInv
<1>10. ASSUME FocusTaken \/ FocusDropped \/ XSelectInput \/ XSetICValues
       PROVE  CommitInv'
  BY <1>3, <1>10 DEF FocusTaken, FocusDropped, XSelectInput, XSetICValues
<1>11. CommitInv'
  BY <1>4, <1>5, <1>6, <1>7, <1>8, <1>9, <1>10 DEF TypedTextNext
<1> QED BY <1>2, <1>11 DEF TextInv

(* What is waiting to be looked up is in order: the table holds the texts of *)
(* the KeyPresses on their way, oldest first, each of them once.             *)
THEOREM TypedTextInvariant ==
  TypedTextInit /\ [][TypedTextNext]_typedTextVars => []TextInv
<1>1. TextInv /\ [TypedTextNext]_typedTextVars => TextInv'
  <2> SUFFICES ASSUME TextInv, [TypedTextNext]_typedTextVars PROVE TextInv'
    OBVIOUS
  <2>1. CASE TypedTextNext
    BY <2>1, TextStepInv
  <2>2. CASE UNCHANGED typedTextVars
    BY <2>2 DEF typedTextVars, hostVars, dedupVars, commitVars, TextInv, WireTypes, CommitInv,
                FlightOK, MatchInv, HeldInv, AwaitedInv
  <2> QED BY <2>1, <2>2
<1> QED BY <1>1, TextInitInv, PTL

(* A lookup returns the text of its own KeyPress, however many texts wait    *)
(* and in whatever order they are looked up; it returns none only when       *)
(* MaxPending younger texts have come since or the input method was closed;  *)
(* and no text stays in the table for nothing.                               *)
THEOREM CommitsTheorem ==
  TypedTextInit /\ [][TypedTextNext]_typedTextVars => []CommitsAreKept
<1>1. TextInv => CommitsAreKept
  <2> SUFFICES ASSUME TextInv PROVE CommitsAreKept
    OBVIOUS
  <2>1. TypedTextTypeOK
    BY DEF TextInv, WireTypes, CommitInv, TypedTextTypeOK
  <2>2. misread = {}
    BY DEF TextInv, CommitInv, FlightOK
  <2>3. {commits[i].id : i \in DOMAIN commits} = {e.id : e \in Entries(commits)}
    BY DEF Entries
  <2>4. ASSUME NEW k \in inFlight, k.id > resetAt, k.id + MaxPending >= nextCommitId
        PROVE  k.id \in {commits[i].id : i \in DOMAIN commits}
    <3>1. \E e \in Entries(commits) : e.id = k.id
      BY <2>4 DEF TextInv, CommitInv, HeldInv
    <3> QED BY <2>3, <3>1
  <2>5. ASSUME NEW i \in DOMAIN commits
        PROVE  commits[i].id \in {k.id : k \in inFlight} \union ignored
    BY DEF TextInv, CommitInv, AwaitedInv, Entries
  <2> QED BY <2>1, <2>2, <2>4, <2>5 DEF CommitsAreKept
<1> QED BY <1>1, TypedTextInvariant, PTL
=============================================================================
