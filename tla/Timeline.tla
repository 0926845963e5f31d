------------------------------ MODULE Timeline ------------------------------
(***************************************************************************)
(* Waiting for the program to settle after injected input                  *)
(* (src/src/timeline.c 351-449, src/src/replay.c 53-67): any thread counts  *)
(* events in atomic counters that wrap, and the replay thread samples them, *)
(* one counter after the other, at the end of each bucket of time.          *)
(***************************************************************************)
EXTENDS Integers, Sequences, FiniteSets

CONSTANTS Kinds,          \* the watched kinds of event
          Modulus,        \* of a counter (2^32 in the code)
          QuietBuckets, DivergedBuckets, Threshold,
          Timeout,        \* in ticks; a bucket sleeps one tick, or Late more
          Late,
          Anchors,        \* how long ago the last input was
          PerBucket,      \* bound: events of a kind in one bucket
          MaxBuckets      \* bound: buckets in which events happen

ASSUME TimelineAssumption ==
  /\ IsFiniteSet(Kinds) /\ Modulus \in Nat \ {0}
  /\ {QuietBuckets, DivergedBuckets, Timeout} \subseteq Nat \ {0}
  /\ {Threshold, Late, MaxBuckets} \subseteq Nat
  /\ Anchors \subseteq Nat
  /\ PerBucket \in 0..(Modulus - 1)

VARIABLES counter,   \* timelineCounters
          lastSeen,  \* what the waiting thread saw of each
          unread,    \* the kinds its pass over the counters has yet to read
          sampling,  \* is it in such a pass, or asleep?
          events,    \* bucketEvents so far in this pass
          quiet, active,
          clock,     \* ticks since the last input or since the call
          began, deadline,
          result,    \* what timelineWaitConverge returned
          buckets,   \* per bucket, the events during its sleep and during
                     \* the pass over the counters after it (a history)
          during     \* events of each kind since its counter was last read

timelineVars == <<counter, lastSeen, unread, sampling, events, quiet, active,
                  clock, began, deadline, result, buckets, during>>

NoResult == "none"
EmptyBucket == [slept |-> 0, passed |-> 0]

TimelineInit ==
  /\ counter \in [Kinds -> 0..(Modulus - 1)] /\ lastSeen = counter
  /\ unread = {} /\ sampling = FALSE /\ events = 0
  /\ quiet = 0 /\ active = 0
  /\ clock \in Anchors
  /\ began = 0 /\ deadline = 0 /\ result = NoResult
  /\ buckets = <<>> /\ during = [k \in Kinds |-> 0]

(* With no input, or one as long ago as the time-out, the wait is measured  *)
(* from now; otherwise from the last input.                                 *)
replayWaitConvergeAnchorMs == IF clock = 0 \/ clock >= Timeout THEN clock ELSE 0

timelineWaitConverge ==
  /\ deadline = 0
  /\ deadline' = replayWaitConvergeAnchorMs + Timeout
  /\ began' = clock
  /\ buckets' = <<EmptyBucket>>
  /\ lastSeen' = counter
  /\ UNCHANGED <<counter, unread, sampling, events, quiet, active, clock,
                 result, during>>

Waiting == deadline # 0 /\ result = NoResult

timelineEmit(k) ==
  /\ Waiting /\ during[k] < PerBucket /\ Len(buckets) <= MaxBuckets
  /\ counter' = [counter EXCEPT ![k] = (@ + 1) % Modulus]
  /\ during' = [during EXCEPT ![k] = @ + 1]
  /\ LET n == Len(buckets)
     IN  buckets' = IF sampling THEN [buckets EXCEPT ![n].passed = @ + 1]
                                ELSE [buckets EXCEPT ![n].slept = @ + 1]
  /\ UNCHANGED <<lastSeen, unread, sampling, events, quiet, active, clock,
                 began, deadline, result>>

(* nanosleep returns, at the end of the bucket or late.                     *)
Wakes ==
  /\ Waiting /\ ~sampling
  /\ \E late \in 0..Late : clock' = clock + 1 + late
  /\ sampling' = TRUE /\ unread' = Kinds /\ events' = 0
  /\ UNCHANGED <<counter, lastSeen, quiet, active, began, deadline, result,
                 buckets, during>>

delta(k) == (counter[k] - lastSeen[k]) % Modulus

ReadCounter(k) ==
  /\ k \in unread /\ unread' = unread \ {k}
  /\ events' = events + delta(k)
  /\ lastSeen' = [lastSeen EXCEPT ![k] = counter[k]]
  /\ during' = [during EXCEPT ![k] = 0]
  /\ UNCHANGED <<counter, sampling, quiet, active, clock, began, deadline,
                 result, buckets>>

resetActive == 0

oneMore == QuietBuckets + 1
quietEnough == QuietBuckets

inTime == clock < deadline

(* Another bucket is slept only before the deadline.                        *)
NextBucket ==
  /\ sampling' = FALSE
  /\ IF inTime
       THEN result' = NoResult /\ buckets' = Append(buckets, EmptyBucket)
       ELSE result' = "timeout" /\ UNCHANGED buckets

CloseBucket ==
  /\ sampling /\ unread = {} /\ Waiting
  /\ \/ /\ events > Threshold
        /\ active' = active + 1 /\ quiet' = 0
        /\ IF active' >= DivergedBuckets
             THEN result' = "diverged" /\ UNCHANGED <<sampling, buckets>>
             ELSE NextBucket
     \/ /\ events = 0
        /\ active' = resetActive /\ quiet' = quiet + 1
        /\ IF quiet' >= quietEnough
             THEN result' = "settled" /\ UNCHANGED <<sampling, buckets>>
             ELSE NextBucket
     \/ /\ events \in 1..Threshold
        /\ active' = resetActive /\ quiet' = 0
        /\ NextBucket
  /\ UNCHANGED <<counter, lastSeen, unread, events, clock, began, deadline,
                 during>>

TimelineNext ==
  \/ timelineWaitConverge
  \/ Wakes
  \/ CloseBucket
  \/ \E k \in Kinds : timelineEmit(k) \/ ReadCounter(k)

TimelineSpec == TimelineInit /\ [][TimelineNext]_timelineVars

-----------------------------------------------------------------------------
LastBuckets(n) == (Len(buckets) - n + 1)..Len(buckets)

(* "Settled" is never said of a program that is not: no event happened      *)
(* while the last QuietBuckets buckets slept, whatever the counters' values *)
(* and wherever they wrapped (timeline.c:369).                              *)
SettledIsQuiet ==
  result = "settled" =>
    /\ Len(buckets) >= QuietBuckets
    /\ \A i \in LastBuckets(QuietBuckets) : buckets[i].slept = 0

(* "Diverged" is never said of a program that pauses: each of the last      *)
(* DivergedBuckets buckets had more events than the threshold, counting     *)
(* those during the passes at its two ends (timeline.c:427).                *)
PassBefore(i) == IF i = 1 THEN 0 ELSE buckets[i - 1].passed
DivergedIsBusy ==
  result = "diverged" =>
    /\ Len(buckets) >= DivergedBuckets
    /\ \A i \in LastBuckets(DivergedBuckets) :
         PassBefore(i) + buckets[i].slept + buckets[i].passed > Threshold

(* The idle case (timeline.c:387): a program in which nothing happens is    *)
(* settled, if the time left when the wait began was enough to sleep the    *)
(* quiet buckets.  After an input just short of Timeout ago it is not.      *)
IdleSettles ==
  result = "timeout" /\ (\A i \in 1..Len(buckets) : buckets[i] = EmptyBucket)
    => deadline - began <= (QuietBuckets - 1) * (1 + Late)

(* What the wait returns is true of the buckets it has sampled.             *)
VerdictIsTrue == SettledIsQuiet /\ DivergedIsBusy /\ IdleSettles
=============================================================================
