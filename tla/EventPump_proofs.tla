-------------------------- MODULE EventPump_proofs --------------------------
(***************************************************************************)
(* Proofs about the wake pipe for any capacity, any number of threads and   *)
(* any number of events: no event is taken twice or made up, and a client   *)
(* with one thread finds display->qlen exact whenever it is in control.     *)
(* And about the round trips of the replay thread that the pump answers,    *)
(* for any channels, threads, number of requests and of failed pushes.      *)
(***************************************************************************)
EXTENDS EventPump, Snapshot, FiniteSetTheorems, SequenceTheorems, TLAPS

Stages == {"client", "quiet", "poll", "pump", "pumpInsert", "pumpRead", "pumpClear",
           "popped", "putBack", "look", "relook", "read", "convert", "append",
           "compare", "idleCheck", "reset"}

ControlOK ==
  /\ client \in Clients
  /\ stage \in Stages /\ goal \in {"none", "first", "flush", "last", "next"}
  /\ want \in Nat
  /\ pc \in [Others -> {"idle", "push", "filtered", "check", "count", "set", "rewrite"}]
  /\ seen \in [Others -> Nat]
  /\ timer # "idle" => client.timer

(* READ_EVENT_IN_PIPEs are owed only while they are made; taken events are   *)
(* held only while they are read and converted, by XNextEvent one at a time. *)
ReadInv ==
  /\ IF stage = "read" THEN reads > 0 ELSE reads = 0
  /\ stage \notin {"read", "convert", "append"} => batch = 0
  /\ goal = "next" => batch <= 1

(* Every event in a queue, taken or about to be inserted was spent once.    *)
InFlight == {p \in Others : pc[p] \in {"push", "filtered"}}
HostInput == IF stage = "pumpInsert" THEN 1 ELSE 0
FlowInv == sdl + putBack + batch + HostInput + Cardinality(InFlight) <= used

(* A client's only thread is between a queue's change and the counter's in   *)
(* four of its steps; in all others they agree, up to the reads it owes.    *)
AloneInv ==
  client.threads = {} =>
    /\ \A p \in Others : pc[p] = "idle"
    /\ CASE stage \in {"popped", "pumpInsert"} -> qlen = putBack + sdl + 1
         [] stage \in {"putBack", "append"} -> qlen + 1 = putBack + sdl
         [] OTHER -> qlen = putBack + sdl + reads
    /\ stage = "compare" => want = putBack + sdl
    /\ stage = "idleCheck" => want = putBack /\ sdl = 0
    /\ stage # "reset"
    /\ ~client.timer => bytes <= qlen

PumpInv == TypeOK /\ ControlOK /\ ReadInv /\ FlowInv /\ AloneInv

(* What the constants say of a client.                                      *)
LEMMA ClientFacts ==
  ASSUME client \in Clients
  PROVE  client.threads \subseteq Others /\ client.maxEvents \in Nat
BY PumpAssumption DEF Others

(* Counting the threads that have an event in hand.                         *)
LEMMA FlightFacts ==
  ASSUME NEW S, S \subseteq Others
  PROVE  /\ Cardinality(S) \in Nat
         /\ \A p : /\ p \notin S => Cardinality(S \union {p}) = Cardinality(S) + 1
                   /\ p \in S => Cardinality(S \ {p}) = Cardinality(S) - 1
<1>1. IsFiniteSet(S)
  BY PumpAssumption, FS_Subset DEF Others
<1>2. ASSUME NEW p, p \notin S PROVE Cardinality(S \union {p}) = Cardinality(S) + 1
  BY <1>1, <1>2, FS_AddElement
<1>3. ASSUME NEW p, p \in S PROVE Cardinality(S \ {p}) = Cardinality(S) - 1
  BY <1>1, <1>3, FS_RemoveElement
<1> QED BY <1>1, <1>2, <1>3, FS_CardinalityType

(* The invariant holds at the start.                                        *)
LEMMA PumpInitInv == Init => PumpInv
<1> SUFFICES ASSUME Init PROVE PumpInv
  OBVIOUS
<1>1. client \in Clients /\ client.maxEvents \in Nat
  BY ClientFacts DEF Init
<1>2. TypeOK
  <2>1. 0 \in 0..client.maxEvents /\ 0 \in 0..PipeCapacity
    BY <1>1, PipeAssumption
  <2>2. bytes \in 0..PipeCapacity /\ qlen \in Nat /\ pumpWakePending \in BOOLEAN
    BY <2>1 DEF Init, PipeInit
  <2>3. /\ sdl \in 0..client.maxEvents /\ putBack \in 0..client.maxEvents
        /\ reads \in 0..client.maxEvents /\ batch \in 0..client.maxEvents
        /\ used \in 0..client.maxEvents /\ reads <= batch
    BY <2>1 DEF Init
  <2> QED BY <2>2, <2>3 DEF TypeOK
<1>3. ControlOK
  BY <1>1 DEF Init, ControlOK, Stages
<1>4. InFlight = {} /\ Cardinality({}) = 0
  BY FS_EmptySet DEF Init, InFlight
<1>5. FlowInv
  BY <1>4 DEF Init, FlowInv, HostInput
<1>6. ReadInv /\ AloneInv
  BY DEF Init, PipeInit, ReadInv, AloneInv
<1> QED BY <1>2, <1>3, <1>5, <1>6 DEF PumpInv

(* The steps of the other threads and of the timer.                         *)
LEMMA ThreadInv ==
  ASSUME PumpInv, UNCHANGED client, NEW p \in Others,
         BeginPush(p) \/ LoneWake(p) \/ ThreadStep(p)
  PROVE  PumpInv'
<1>1. /\ TypeOK /\ ControlOK /\ ReadInv /\ FlowInv /\ AloneInv
      /\ client.threads \subseteq Others /\ client.maxEvents \in Nat
  BY ClientFacts DEF PumpInv, ControlOK
<1>2. InFlight \subseteq Others /\ Cardinality(InFlight) \in Nat
  BY FlightFacts DEF InFlight
<1>3. client.threads # {}
  BY <1>1 DEF AloneInv, BeginPush, LoneWake, ThreadStep, Filter, Insert, CheckGrowth,
          WakeCount, WakeSetLength, WakeRewrite
<1>4. AloneInv' /\ UNCHANGED <<reads, stage, batch, goal, want, timer>> /\ ReadInv'
  BY <1>1, <1>3 DEF AloneInv, ReadInv, BeginPush, LoneWake, ThreadStep, Filter, Insert,
          CheckGrowth, WakeCount, WakeSetLength, WakeRewrite, mainVars
<1>5. CASE BeginPush(p)
  <2>1. InFlight' = InFlight \union {p} /\ p \notin InFlight
    BY <1>1, <1>5 DEF BeginPush, InFlight, ControlOK
  <2>2. Cardinality(InFlight') = Cardinality(InFlight) + 1
    BY <1>2, <2>1, FlightFacts
  <2>3. TypeOK' /\ FlowInv'
    BY <1>1, <1>2, <1>4, <1>5, <2>2
    DEF BeginPush, TypeOK, FlowInv, HostInput, pipeVars, mainVars
  <2>4. ControlOK'
    BY <1>1, <1>4, <1>5 DEF BeginPush, ControlOK, TypeOK
  <2> QED BY <1>4, <2>3, <2>4 DEF PumpInv
<1>6. CASE Insert(p)
  <2>1. InFlight' = InFlight \ {p} /\ p \in InFlight
    BY <1>1, <1>6 DEF Insert, InFlight, ControlOK
  <2>2. Cardinality(InFlight') = Cardinality(InFlight) - 1
    BY <1>2, <2>1, FlightFacts
  <2>3. Cardinality(InFlight') \in Nat
    BY <1>2, <2>1, FlightFacts
  <2>4. TypeOK' /\ FlowInv'
    BY <1>1, <1>2, <1>4, <1>6, <2>2, <2>3
    DEF Insert, TypeOK, FlowInv, HostInput, pipeVars, mainVars
  <2>5. ControlOK'
    BY <1>1, <1>4, <1>6 DEF Insert, ControlOK
  <2> QED BY <1>4, <2>4, <2>5 DEF PumpInv
<1>7. CASE LoneWake(p) \/ Filter(p) \/ CheckGrowth(p) \/ WakeCount(p)
           \/ WakeSetLength(p) \/ WakeRewrite(p)
  <2>1. InFlight' = InFlight
    BY <1>1, <1>7 DEF InFlight, ControlOK, LoneWake, Filter, CheckGrowth, WakeCount,
           WakeSetLength, WakeRewrite, threadVars
  <2>2. /\ UNCHANGED <<sdl, putBack>> /\ used' \in {used, used + 1}
        /\ used' <= client.maxEvents
    BY <1>1, <1>7 DEF TypeOK, LoneWake, Filter, CheckGrowth, WakeCount, WakeSetLength,
           WakeRewrite
  <2>3. FlowInv'
    BY <1>1, <1>2, <1>4, <2>1, <2>2 DEF FlowInv, HostInput, TypeOK
  <2>4. ControlOK'
    BY <1>1, <1>4, <1>7 DEF ControlOK, TypeOK, LoneWake, Filter, CheckGrowth, WakeCount,
           WakeSetLength, WakeRewrite
  <2>5. bytes' \in 0..PipeCapacity /\ qlen' \in Nat /\ pumpWakePending' \in BOOLEAN
    BY <1>1, <1>7, PipeAssumption
    DEF TypeOK, ControlOK, LoneWake, Filter, CheckGrowth, WakeCount, WakeSetLength,
        WakeRewrite, pipeVars, ENQUEUE_EVENT_IN_PIPE, AtMost, setDisplayEventQueueLength,
        rewritePipe
  <2>6. TypeOK'
    BY <1>1, <1>4, <2>2, <2>5 DEF TypeOK
  <2> QED BY <1>4, <2>3, <2>4, <2>6 DEF PumpInv
<1> QED BY <1>5, <1>6, <1>7 DEF ThreadStep

(* The timer's own steps touch only its wake byte.                          *)
LEMMA TimerInv ==
  ASSUME PumpInv, UNCHANGED client, TimerClaim \/ TimerWrite \/ UNCHANGED vars
  PROVE  PumpInv'
<1>1. /\ UNCHANGED <<client, sdl, putBack, stage, goal, reads, batch, want, pc, seen,
                     used, qlen>>
      /\ TypeOK /\ ControlOK /\ ReadInv /\ FlowInv /\ AloneInv
  BY DEF PumpInv, TimerClaim, TimerWrite, timerClaim, timerWrite, vars, pipeVars,
         mainVars, threadVars
<1>2. /\ bytes' \in 0..PipeCapacity /\ pumpWakePending' \in BOOLEAN
      /\ timer' # "idle" => client.timer
      /\ ~client.timer => bytes' = bytes
  <2>1. bytes \in 0..PipeCapacity /\ pumpWakePending \in BOOLEAN /\ PipeCapacity \in Nat
    BY <1>1, PipeAssumption DEF TypeOK
  <2>2. timer # "idle" => client.timer
    BY <1>1 DEF ControlOK
  <2>3. CASE TimerClaim
    BY <2>1, <2>3 DEF TimerClaim, timerClaim
  <2>4. CASE TimerWrite
    <3>1. client.timer /\ timer' = "idle"
      BY <2>2, <2>4 DEF TimerWrite
    <3>2. CASE bytes < PipeCapacity
      <4>1. bytes' = bytes + 1 /\ pumpWakePending' = pumpWakePending
        BY <2>4, <3>2 DEF TimerWrite, timerWrite
      <4> QED BY <2>1, <3>1, <3>2, <4>1
    <3>3. CASE ~(bytes < PipeCapacity)
      <4>1. bytes' = bytes /\ pumpWakePending' = FALSE
        BY <2>4, <3>3 DEF TimerWrite, timerWrite
      <4> QED BY <2>1, <3>1, <4>1
    <3> QED BY <3>2, <3>3
  <2>5. CASE UNCHANGED vars
    BY <2>1, <2>2, <2>5 DEF vars, pipeVars
  <2> QED BY <2>3, <2>4, <2>5
<1>4. TypeOK' /\ ControlOK' /\ ReadInv' /\ FlowInv'
  BY <1>1, <1>2 DEF TypeOK, ControlOK, ReadInv, FlowInv, HostInput, InFlight
<1>5. AloneInv'
  BY <1>1, <1>2 DEF AloneInv
<1> QED BY <1>4, <1>5 DEF PumpInv

(* What each operation of the pipe leaves in it.                            *)
LEMMA PipeFacts ==
  ASSUME bytes \in 0..PipeCapacity, qlen \in Nat, pumpWakePending \in BOOLEAN
  PROVE  /\ ENQUEUE_EVENT_IN_PIPE =>
              /\ bytes' \in 0..PipeCapacity /\ qlen' = qlen + 1
              /\ pumpWakePending' \in BOOLEAN /\ bytes' <= bytes + 1
         /\ READ_EVENTS_IN_PIPE(1) =>
              /\ bytes' \in 0..PipeCapacity /\ qlen' = (IF qlen > 0 THEN qlen - 1 ELSE 0)
              /\ pumpWakePending' \in BOOLEAN
              /\ bytes' = IF bytes > 0 THEN bytes - 1 ELSE 0
         /\ \A n \in Nat : resetEventWakeups(n) =>
              /\ bytes' \in 0..PipeCapacity /\ qlen' = n
              /\ pumpWakePending' \in BOOLEAN /\ bytes' <= n
         /\ consumeRead \/ consumeClear =>
              /\ bytes' \in 0..PipeCapacity /\ qlen' = qlen
              /\ pumpWakePending' \in BOOLEAN /\ bytes' <= bytes
<1>0. PipeCapacity \in Nat
  BY PipeAssumption
<1>1. ASSUME ENQUEUE_EVENT_IN_PIPE
      PROVE  /\ bytes' \in 0..PipeCapacity /\ qlen' = qlen + 1
             /\ pumpWakePending' \in BOOLEAN /\ bytes' <= bytes + 1
  BY <1>0, <1>1 DEF ENQUEUE_EVENT_IN_PIPE, AtMost
<1>2. ASSUME READ_EVENTS_IN_PIPE(1)
      PROVE  /\ bytes' \in 0..PipeCapacity /\ qlen' = (IF qlen > 0 THEN qlen - 1 ELSE 0)
             /\ pumpWakePending' \in BOOLEAN
             /\ bytes' = IF bytes > 0 THEN bytes - 1 ELSE 0
  BY <1>0, <1>2 DEF READ_EVENTS_IN_PIPE, Less
<1>3. ASSUME NEW n \in Nat, resetEventWakeups(n)
      PROVE  /\ bytes' \in 0..PipeCapacity /\ qlen' = n
             /\ pumpWakePending' \in BOOLEAN /\ bytes' <= n
  <2>1. bytes' = AtMost(n, PipeCapacity) /\ qlen' = n /\ pumpWakePending' = FALSE
    BY <1>3 DEF resetEventWakeups
  <2>2. AtMost(n, PipeCapacity) \in 0..PipeCapacity /\ AtMost(n, PipeCapacity) <= n
    BY <1>0 DEF AtMost
  <2> QED BY <2>1, <2>2
<1>4. ASSUME consumeRead \/ consumeClear
      PROVE  /\ bytes' \in 0..PipeCapacity /\ qlen' = qlen
             /\ pumpWakePending' \in BOOLEAN /\ bytes' <= bytes
  <2>1. Less(bytes, 1) \in 0..PipeCapacity /\ Less(bytes, 1) <= bytes
    BY <1>0 DEF Less
  <2>2. bytes' \in {Less(bytes, 1), bytes} /\ qlen' = qlen
    BY <1>4 DEF consumeRead, consumeClear
  <2>3. pumpWakePending' \in BOOLEAN
    BY <1>4 DEF consumeRead, consumeClear
  <2> QED BY <1>0, <2>1, <2>2, <2>3
<1> QED BY <1>1, <1>2, <1>3, <1>4

(* Sums of three, which the flow of events needs as facts of their own.     *)
LEMMA NatSum ==
  ASSUME NEW a \in Nat, NEW b \in Nat, NEW c \in Nat
  PROVE  a + b + c \in Nat
OBVIOUS

(* The inequality that carries FlowInv over a step.                         *)
LEMMA FlowArithmetic ==
  ASSUME NEW sum \in Nat, NEW sumN \in Nat, NEW h \in Nat, NEW hN \in Nat, NEW c \in Nat,
         NEW u \in Nat, NEW uN \in Nat, NEW max \in Nat,
         sum + h + c <= u, uN <= max, sumN + hN + u <= sum + h + uN
  PROVE  sumN + hN + c <= uN /\ sumN <= max
OBVIOUS

(* A step of the main thread, from what it leaves in the pipe, the queues   *)
(* and its own state.                                                       *)
LEMMA MainMoveInv ==
  ASSUME PumpInv, UNCHANGED <<client, pc, seen, timer>>,
         bytes' \in 0..PipeCapacity, qlen' \in Nat, pumpWakePending' \in BOOLEAN,
         sdl' \in Nat, putBack' \in Nat, reads' \in Nat, batch' \in Nat,
         reads' <= batch', used' \in 0..client.maxEvents,
         stage' \in Stages, goal' \in {"none", "first", "flush", "last", "next"},
         want' \in Nat, ReadInv',
         sdl' + putBack' + batch' + HostInput' + used
           <= sdl + putBack + batch + HostInput + used',
         AloneInv'
  PROVE  PumpInv'
<1>1. /\ TypeOK /\ ControlOK /\ FlowInv /\ client.maxEvents \in Nat
      /\ InFlight' = InFlight /\ Cardinality(InFlight) \in Nat
  BY ClientFacts, FlightFacts DEF PumpInv, ControlOK, InFlight
<1>2. HostInput \in Nat /\ HostInput' \in Nat
  BY DEF HostInput
<1>3. /\ sdl' + putBack' + batch' + HostInput' + Cardinality(InFlight') <= used'
      /\ sdl' + putBack' + batch' <= client.maxEvents
  <2>1. /\ sdl + putBack + batch \in Nat /\ used \in Nat
        /\ sdl + putBack + batch + HostInput + Cardinality(InFlight) <= used
    BY <1>1 DEF FlowInv, TypeOK
  <2>2. used' \in Nat /\ used' <= client.maxEvents
    BY <1>1
  <2>3. sdl' + putBack' + batch' \in Nat
    BY NatSum
  <2>4. /\ sdl' + putBack' + batch' + HostInput' + Cardinality(InFlight) <= used'
        /\ sdl' + putBack' + batch' <= client.maxEvents
    BY <1>1, <1>2, <2>1, <2>2, <2>3, FlowArithmetic
  <2> QED BY <1>1, <2>4
<1>4. TypeOK'
  BY <1>1, <1>3 DEF TypeOK
<1>5. ControlOK'
  BY <1>1 DEF ControlOK
<1> QED BY <1>3, <1>4, <1>5 DEF PumpInv, FlowInv
(* The ranges that the invariant gives.                                     *)
LEMMA PumpRanges ==
  ASSUME PumpInv
  PROVE  /\ bytes \in 0..PipeCapacity /\ qlen \in Nat /\ pumpWakePending \in BOOLEAN
         /\ sdl \in Nat /\ putBack \in Nat /\ reads \in Nat /\ batch \in Nat
         /\ reads <= batch /\ used \in 0..client.maxEvents /\ used \in Nat
         /\ stage \in Stages /\ want \in Nat
         /\ goal \in {"none", "first", "flush", "last", "next"}
         /\ client \in Clients /\ client.maxEvents \in Nat
BY ClientFacts DEF PumpInv, TypeOK, ControlOK

(* Steps that leave the pipe and the two queues as they are.                *)
LEMMA QuietStepInv ==
  ASSUME PumpInv, UNCHANGED client,
         \/ CallPending \/ Poll \/ PollReturns \/ CallNextEvent \/ PumpCheck
         \/ TakeNothing \/ ConvertSwallows \/ Recount \/ Agree \/ Differ
  PROVE  PumpInv'
<1>1. /\ UNCHANGED <<bytes, qlen, pumpWakePending, sdl, putBack, pc, seen, timer, used, reads>>
      /\ batch' = batch \/ (batch > 0 /\ batch' = batch - 1)
      /\ stage # "pumpInsert" /\ stage' # "pumpInsert" /\ stage # "read" /\ stage' # "read"
  <2>1. UNCHANGED <<bytes, qlen, pumpWakePending, sdl, putBack, pc, seen, timer, used, reads>>
    BY DEF CallPending, Poll, PollReturns, CallNextEvent, PumpCheck, TakeNothing, ConvertSwallows,
       Recount, Agree, Differ, EndDrain, Goto, QueuesSame, OthersSame, pipeVars, threadVars
  <2>2. batch' = batch \/ (batch > 0 /\ batch' = batch - 1)
    BY DEF CallPending, Poll, PollReturns, CallNextEvent, PumpCheck, TakeNothing, ConvertSwallows,
       Recount, Agree, Differ, EndDrain, Goto, QueuesSame, OthersSame, pipeVars, threadVars
  <2>3. stage # "pumpInsert" /\ stage' # "pumpInsert" /\ stage # "read" /\ stage' # "read"
    BY DEF CallPending, Poll, PollReturns, CallNextEvent, PumpCheck, TakeNothing, ConvertSwallows,
       Recount, Agree, Differ, EndDrain, Goto, QueuesSame, OthersSame, pipeVars, threadVars
  <2> QED BY <2>1, <2>2, <2>3
<1>2. ReadInv /\ AloneInv
  BY DEF PumpInv
<1>3. reads = 0 /\ reads' = 0
  BY <1>1, <1>2 DEF ReadInv
<1>4. ReadInv'
  <2>1. CASE ConvertSwallows
    BY <1>1, <1>2, <1>3, <2>1, PumpRanges DEF ConvertSwallows, ReadInv
  <2>2. CASE TakeNothing \/ Recount
    BY <1>1, <1>2, <1>3, <2>2, PumpRanges DEF TakeNothing, Recount, ReadInv
  <2>3. CASE Agree \/ Differ
    BY <1>1, <1>2, <1>3, <2>3, PumpRanges DEF Agree, Differ, EndDrain, Goto, ReadInv
  <2>4. CASE CallPending \/ Poll \/ PollReturns \/ CallNextEvent \/ PumpCheck
    BY <1>1, <1>2, <1>3, <2>4, PumpRanges
    DEF CallPending, Poll, PollReturns, CallNextEvent, PumpCheck, Goto, ReadInv
  <2> QED BY <2>1, <2>2, <2>3, <2>4
<1>5. stage' \in Stages /\ goal' \in {"none", "first", "flush", "last", "next"}
  BY PumpRanges DEF CallPending, Poll, PollReturns, CallNextEvent, PumpCheck, TakeNothing,
     ConvertSwallows, Recount, Agree, Differ, EndDrain, Goto, Stages
<1>6. want' \in Nat /\ (want' = want \/ want' = putBack \/ want' = putBack + sdl)
  BY PumpRanges DEF CallPending, Poll, PollReturns, CallNextEvent, PumpCheck, TakeNothing,
     ConvertSwallows, Recount, Agree, Differ, EndDrain, Goto
<1>7. batch' \in Nat
  BY <1>1, PumpRanges
<1>8. ASSUME client.threads = {}
      PROVE  /\ stage \notin {"popped", "putBack", "append", "reset"}
             /\ stage' \notin {"popped", "putBack", "append", "reset"}
             /\ stage' = "compare" => want' = putBack + sdl
             /\ stage' = "idleCheck" => want' = putBack /\ sdl = 0
  <2>1. /\ stage = "compare" => want = putBack + sdl /\ qlen = putBack + sdl
        /\ stage = "idleCheck" => want = putBack /\ qlen = putBack /\ sdl = 0
        /\ stage # "reset"
    BY <1>2, <1>8, <1>3, PumpRanges DEF AloneInv
  <2>2. ~Differ
    BY <2>1, PumpRanges DEF Differ
  <2>3. CASE TakeNothing
    <3>1. sdl = 0
      BY <2>3, PumpRanges DEF TakeNothing, sdlHasEvent
    <3>2. stage \in {"look", "relook"} /\ stage' \in {"client", "pump", "idleCheck"}
      BY <2>3 DEF TakeNothing
    <3>3. stage' = "idleCheck" => want' = putBack
      BY <2>3 DEF TakeNothing
    <3> QED BY <3>1, <3>2, <3>3
  <2>4. CASE Recount
    BY <2>4 DEF Recount
  <2>5. CASE Agree
    BY <2>5 DEF Agree, EndDrain
  <2>6. CASE CallPending \/ Poll \/ PollReturns \/ CallNextEvent \/ PumpCheck \/ ConvertSwallows
    BY <2>6 DEF CallPending, Poll, PollReturns, CallNextEvent, PumpCheck, ConvertSwallows, Goto
  <2> QED BY <2>2, <2>3, <2>4, <2>5, <2>6
<1>9. AloneInv'
  BY <1>1, <1>2, <1>8 DEF AloneInv
<1>10. HostInput = 0 /\ HostInput' = 0
  BY <1>1 DEF HostInput
<1>11. sdl' + putBack' + batch' + HostInput' + used <= sdl + putBack + batch + HostInput + used'
  BY <1>1, <1>10, PumpRanges
<1> QED BY <1>1, <1>5, <1>6, <1>7, <1>9, <1>3, <1>11, <1>4, MainMoveInv, PumpRanges
(* The invariant of a client with one thread, stage by stage.               *)
LEMMA AloneFacts ==
  ASSUME PumpInv, client.threads = {}
  PROVE  /\ stage \in {"popped", "pumpInsert"} => qlen = putBack + sdl + 1
         /\ stage \in {"putBack", "append"} => qlen + 1 = putBack + sdl
         /\ stage \notin {"popped", "pumpInsert", "putBack", "append"}
              => qlen = putBack + sdl + reads
         /\ ~client.timer => bytes <= qlen
BY DEF PumpInv, AloneInv

(* What a step of the main thread owes to AloneInv.                         *)
LEMMA AloneIntro ==
  ASSUME PumpInv, UNCHANGED <<client, pc>>,
         stage' \notin {"compare", "idleCheck", "reset"},
         client.threads = {} =>
           /\ stage' \in {"popped", "pumpInsert"} => qlen' = putBack' + sdl' + 1
           /\ stage' \in {"putBack", "append"} => qlen' + 1 = putBack' + sdl'
           /\ stage' \notin {"popped", "pumpInsert", "putBack", "append"}
                => qlen' = putBack' + sdl' + reads'
           /\ ~client.timer => bytes' <= qlen'
  PROVE  AloneInv'
BY DEF PumpInv, AloneInv

(* One lemma per step that changes the pipe or a queue.                     *)
LEMMA PopPutBackInv ==
  ASSUME PumpInv, UNCHANGED client, PopPutBack
  PROVE  PumpInv'
<1>1. UNCHANGED <<pc, seen, timer, sdl, reads, batch, want, used, bytes, qlen, pumpWakePending>>
  BY DEF PopPutBack, QueuesSame, OthersSame, threadVars, pipeVars, Goto
<1>2. /\ stage = "client" /\ stage' = "popped" /\ goal' = "none"
      /\ putBack > 0 /\ putBack' = putBack - 1
  BY DEF PopPutBack, Goto
<1>3. /\ bytes' \in 0..PipeCapacity /\ pumpWakePending' \in BOOLEAN /\ qlen' \in Nat
      /\ qlen' = qlen /\ bytes' = bytes
  BY <1>1, PumpRanges
<1>4. ReadInv
  BY DEF PumpInv
<1>5. ReadInv' /\ reads' \in Nat /\ batch' \in Nat /\ reads' <= batch'
  BY <1>1, <1>2, <1>4, PumpRanges DEF ReadInv
<1>6. HostInput = 0 /\ HostInput' = 0
  BY <1>2 DEF HostInput
<1>7. stage' \in Stages /\ goal' \in {"none", "first", "flush", "last", "next"} /\ want' \in Nat
  BY <1>1, <1>2, PumpRanges DEF Stages
<1>8. /\ sdl' \in Nat /\ putBack' \in Nat /\ used' \in 0..client.maxEvents
      /\ sdl' + putBack' + batch' + HostInput' + used
           <= sdl + putBack + batch + HostInput + used'
  BY <1>1, <1>2, <1>6, PumpRanges
<1>9. AloneInv'
  BY <1>1, <1>2, <1>3, <1>4, AloneFacts, AloneIntro, PumpRanges DEF ReadInv
<1> QED BY <1>1, <1>3, <1>5, <1>7, <1>8, <1>9, MainMoveInv

(* The byte of an event popped from the head of the queue.                  *)
LEMMA PopReadInv ==
  ASSUME PumpInv, UNCHANGED client, PopRead
  PROVE  PumpInv'
<1>1. UNCHANGED <<pc, seen, timer, sdl, putBack, reads, batch, want, goal, used>>
  BY DEF PopRead, QueuesSame, OthersSame, threadVars, pipeVars, Goto
<1>2. /\ stage = "popped" /\ stage' = "client"
      /\ READ_EVENTS_IN_PIPE(1)
  BY DEF PopRead, Goto
<1>3. /\ bytes' \in 0..PipeCapacity /\ pumpWakePending' \in BOOLEAN /\ qlen' \in Nat
      /\ qlen' = (IF qlen > 0 THEN qlen - 1 ELSE 0)
      /\ bytes' = IF bytes > 0 THEN bytes - 1 ELSE 0
  BY <1>2, PipeFacts, PumpRanges
<1>4. ReadInv
  BY DEF PumpInv
<1>5. ReadInv' /\ reads' \in Nat /\ batch' \in Nat /\ reads' <= batch'
  BY <1>1, <1>2, <1>4, PumpRanges DEF ReadInv
<1>6. HostInput = 0 /\ HostInput' = 0
  BY <1>2 DEF HostInput
<1>7. stage' \in Stages /\ goal' \in {"none", "first", "flush", "last", "next"} /\ want' \in Nat
  BY <1>1, <1>2, PumpRanges DEF Stages
<1>8. /\ sdl' \in Nat /\ putBack' \in Nat /\ used' \in 0..client.maxEvents
      /\ sdl' + putBack' + batch' + HostInput' + used
           <= sdl + putBack + batch + HostInput + used'
  BY <1>1, <1>2, <1>6, PumpRanges
<1>9. AloneInv'
  BY <1>1, <1>2, <1>3, <1>4, AloneFacts, AloneIntro, PumpRanges DEF ReadInv
<1> QED BY <1>1, <1>3, <1>5, <1>7, <1>8, <1>9, MainMoveInv

(* XPutBackEvent: the event, before its byte.                               *)
LEMMA XPutBackEventInv ==
  ASSUME PumpInv, UNCHANGED client, XPutBackEvent
  PROVE  PumpInv'
<1>1. UNCHANGED <<pc, seen, timer, sdl, reads, batch, want, goal, bytes, qlen, pumpWakePending>>
  BY DEF XPutBackEvent, QueuesSame, OthersSame, threadVars, pipeVars, Goto
<1>2. /\ stage = "client" /\ stage' = "putBack"
      /\ used < client.maxEvents /\ used' = used + 1 /\ putBack' = putBack + 1
  BY DEF XPutBackEvent, Goto
<1>3. /\ bytes' \in 0..PipeCapacity /\ pumpWakePending' \in BOOLEAN /\ qlen' \in Nat
      /\ qlen' = qlen /\ bytes' = bytes
  BY <1>1, PumpRanges
<1>4. ReadInv
  BY DEF PumpInv
<1>5. ReadInv' /\ reads' \in Nat /\ batch' \in Nat /\ reads' <= batch'
  BY <1>1, <1>2, <1>4, PumpRanges DEF ReadInv
<1>6. HostInput = 0 /\ HostInput' = 0
  BY <1>2 DEF HostInput
<1>7. stage' \in Stages /\ goal' \in {"none", "first", "flush", "last", "next"} /\ want' \in Nat
  BY <1>1, <1>2, PumpRanges DEF Stages
<1>8. /\ sdl' \in Nat /\ putBack' \in Nat /\ used' \in 0..client.maxEvents
      /\ sdl' + putBack' + batch' + HostInput' + used
           <= sdl + putBack + batch + HostInput + used'
  BY <1>1, <1>2, <1>6, PumpRanges
<1>9. AloneInv'
  BY <1>1, <1>2, <1>3, <1>4, AloneFacts, AloneIntro, PumpRanges DEF ReadInv
<1> QED BY <1>1, <1>3, <1>5, <1>7, <1>8, <1>9, MainMoveInv

(* The byte of an event put back.                                           *)
LEMMA PutBackByteInv ==
  ASSUME PumpInv, UNCHANGED client, PutBackByte
  PROVE  PumpInv'
<1>1. UNCHANGED <<pc, seen, timer, sdl, putBack, reads, batch, want, goal, used>>
  BY DEF PutBackByte, QueuesSame, OthersSame, threadVars, pipeVars, Goto
<1>2. /\ stage = "putBack" /\ stage' = "client"
      /\ ENQUEUE_EVENT_IN_PIPE
  BY DEF PutBackByte, Goto
<1>3. /\ bytes' \in 0..PipeCapacity /\ pumpWakePending' \in BOOLEAN /\ qlen' \in Nat
      /\ qlen' = qlen + 1 /\ bytes' <= bytes + 1
  BY <1>2, PipeFacts, PumpRanges
<1>4. ReadInv
  BY DEF PumpInv
<1>5. ReadInv' /\ reads' \in Nat /\ batch' \in Nat /\ reads' <= batch'
  BY <1>1, <1>2, <1>4, PumpRanges DEF ReadInv
<1>6. HostInput = 0 /\ HostInput' = 0
  BY <1>2 DEF HostInput
<1>7. stage' \in Stages /\ goal' \in {"none", "first", "flush", "last", "next"} /\ want' \in Nat
  BY <1>1, <1>2, PumpRanges DEF Stages
<1>8. /\ sdl' \in Nat /\ putBack' \in Nat /\ used' \in 0..client.maxEvents
      /\ sdl' + putBack' + batch' + HostInput' + used
           <= sdl + putBack + batch + HostInput + used'
  BY <1>1, <1>2, <1>6, PumpRanges
<1>9. AloneInv'
  BY <1>1, <1>2, <1>3, <1>4, AloneFacts, AloneIntro, PumpRanges DEF ReadInv
<1> QED BY <1>1, <1>3, <1>5, <1>7, <1>8, <1>9, MainMoveInv

(* Input that the host hands to the pump.                                   *)
LEMMA PumpInputInv ==
  ASSUME PumpInv, UNCHANGED client, PumpInput
  PROVE  PumpInv'
<1>1. UNCHANGED <<pc, seen, timer, sdl, putBack, reads, batch, want, goal>>
  BY DEF PumpInput, QueuesSame, OthersSame, threadVars, pipeVars, Goto
<1>2. /\ stage = "pump" /\ stage' = "pumpInsert"
      /\ used < client.maxEvents /\ used' = used + 1
      /\ ENQUEUE_EVENT_IN_PIPE
  BY DEF PumpInput, Goto
<1>3. /\ bytes' \in 0..PipeCapacity /\ pumpWakePending' \in BOOLEAN /\ qlen' \in Nat
      /\ qlen' = qlen + 1 /\ bytes' <= bytes + 1
  BY <1>2, PipeFacts, PumpRanges
<1>4. ReadInv
  BY DEF PumpInv
<1>5. ReadInv' /\ reads' \in Nat /\ batch' \in Nat /\ reads' <= batch'
  BY <1>1, <1>2, <1>4, PumpRanges DEF ReadInv
<1>6. HostInput = 0 /\ HostInput' = 1
  BY <1>2 DEF HostInput
<1>7. stage' \in Stages /\ goal' \in {"none", "first", "flush", "last", "next"} /\ want' \in Nat
  BY <1>1, <1>2, PumpRanges DEF Stages
<1>8. /\ sdl' \in Nat /\ putBack' \in Nat /\ used' \in 0..client.maxEvents
      /\ sdl' + putBack' + batch' + HostInput' + used
           <= sdl + putBack + batch + HostInput + used'
  BY <1>1, <1>2, <1>6, PumpRanges
<1>9. AloneInv'
  BY <1>1, <1>2, <1>3, <1>4, AloneFacts, AloneIntro, PumpRanges DEF ReadInv
<1> QED BY <1>1, <1>3, <1>5, <1>7, <1>8, <1>9, MainMoveInv

(* The pump inserts what it made of that input.                             *)
LEMMA PumpInsertInv ==
  ASSUME PumpInv, UNCHANGED client, PumpInsert
  PROVE  PumpInv'
<1>1. UNCHANGED <<pc, seen, timer, putBack, reads, batch, want, goal, used, bytes, qlen, pumpWakePending>>
  BY DEF PumpInsert, QueuesSame, OthersSame, threadVars, pipeVars, Goto
<1>2. /\ stage = "pumpInsert" /\ stage' = "pump"
      /\ sdl' = sdl + 1
  BY DEF PumpInsert, Goto
<1>3. /\ bytes' \in 0..PipeCapacity /\ pumpWakePending' \in BOOLEAN /\ qlen' \in Nat
      /\ qlen' = qlen /\ bytes' = bytes
  BY <1>1, PumpRanges
<1>4. ReadInv
  BY DEF PumpInv
<1>5. ReadInv' /\ reads' \in Nat /\ batch' \in Nat /\ reads' <= batch'
  BY <1>1, <1>2, <1>4, PumpRanges DEF ReadInv
<1>6. HostInput = 1 /\ HostInput' = 0
  BY <1>2 DEF HostInput
<1>7. stage' \in Stages /\ goal' \in {"none", "first", "flush", "last", "next"} /\ want' \in Nat
  BY <1>1, <1>2, PumpRanges DEF Stages
<1>8. /\ sdl' \in Nat /\ putBack' \in Nat /\ used' \in 0..client.maxEvents
      /\ sdl' + putBack' + batch' + HostInput' + used
           <= sdl + putBack + batch + HostInput + used'
  BY <1>1, <1>2, <1>6, PumpRanges
<1>9. AloneInv'
  BY <1>1, <1>2, <1>3, <1>4, AloneFacts, AloneIntro, PumpRanges DEF ReadInv
<1> QED BY <1>1, <1>3, <1>5, <1>7, <1>8, <1>9, MainMoveInv

(* The pump consumes wake bytes: its read.                                  *)
LEMMA PumpReadInv ==
  ASSUME PumpInv, UNCHANGED client, PumpRead
  PROVE  PumpInv'
<1>1. UNCHANGED <<pc, seen, timer, sdl, putBack, reads, batch, want, goal, used>>
  BY DEF PumpRead, QueuesSame, OthersSame, threadVars, pipeVars, Goto
<1>2. /\ stage = "pumpRead" /\ stage' \in {"pumpClear", "relook", "look"}
      /\ consumeRead \/ consumeClear
  BY DEF PumpRead, Goto
<1>3. /\ bytes' \in 0..PipeCapacity /\ pumpWakePending' \in BOOLEAN /\ qlen' \in Nat
      /\ qlen' = qlen /\ bytes' <= bytes
  BY <1>2, PipeFacts, PumpRanges
<1>4. ReadInv
  BY DEF PumpInv
<1>5. ReadInv' /\ reads' \in Nat /\ batch' \in Nat /\ reads' <= batch'
  BY <1>1, <1>2, <1>4, PumpRanges DEF ReadInv
<1>6. HostInput = 0 /\ HostInput' = 0
  BY <1>2 DEF HostInput
<1>7. stage' \in Stages /\ goal' \in {"none", "first", "flush", "last", "next"} /\ want' \in Nat
  BY <1>1, <1>2, PumpRanges DEF Stages
<1>8. /\ sdl' \in Nat /\ putBack' \in Nat /\ used' \in 0..client.maxEvents
      /\ sdl' + putBack' + batch' + HostInput' + used
           <= sdl + putBack + batch + HostInput + used'
  BY <1>1, <1>2, <1>6, PumpRanges
<1>9. AloneInv'
  BY <1>1, <1>2, <1>3, <1>4, AloneFacts, AloneIntro, PumpRanges DEF ReadInv
<1> QED BY <1>1, <1>3, <1>5, <1>7, <1>8, <1>9, MainMoveInv

(* And the flag it clears after the read.                                   *)
LEMMA PumpClearInv ==
  ASSUME PumpInv, UNCHANGED client, PumpClear
  PROVE  PumpInv'
<1>1. UNCHANGED <<pc, seen, timer, sdl, putBack, reads, batch, want, goal, used>>
  BY DEF PumpClear, QueuesSame, OthersSame, threadVars, pipeVars, Goto
<1>2. /\ stage = "pumpClear" /\ stage' \in {"relook", "look"}
      /\ consumeRead \/ consumeClear
  BY DEF PumpClear, Goto
<1>3. /\ bytes' \in 0..PipeCapacity /\ pumpWakePending' \in BOOLEAN /\ qlen' \in Nat
      /\ qlen' = qlen /\ bytes' <= bytes
  BY <1>2, PipeFacts, PumpRanges
<1>4. ReadInv
  BY DEF PumpInv
<1>5. ReadInv' /\ reads' \in Nat /\ batch' \in Nat /\ reads' <= batch'
  BY <1>1, <1>2, <1>4, PumpRanges DEF ReadInv
<1>6. HostInput = 0 /\ HostInput' = 0
  BY <1>2 DEF HostInput
<1>7. stage' \in Stages /\ goal' \in {"none", "first", "flush", "last", "next"} /\ want' \in Nat
  BY <1>1, <1>2, PumpRanges DEF Stages
<1>8. /\ sdl' \in Nat /\ putBack' \in Nat /\ used' \in 0..client.maxEvents
      /\ sdl' + putBack' + batch' + HostInput' + used
           <= sdl + putBack + batch + HostInput + used'
  BY <1>1, <1>2, <1>6, PumpRanges
<1>9. AloneInv'
  BY <1>1, <1>2, <1>3, <1>4, AloneFacts, AloneIntro, PumpRanges DEF ReadInv
<1> QED BY <1>1, <1>3, <1>5, <1>7, <1>8, <1>9, MainMoveInv

(* A taken event becomes an X event that is put back.                       *)
LEMMA ConvertAppendsInv ==
  ASSUME PumpInv, UNCHANGED client, ConvertAppends
  PROVE  PumpInv'
<1>1. UNCHANGED <<pc, seen, timer, sdl, reads, want, goal, used, bytes, qlen, pumpWakePending>>
  BY DEF ConvertAppends, QueuesSame, OthersSame, threadVars, pipeVars, Goto
<1>2. /\ stage = "convert" /\ stage' = "append"
      /\ batch > 0 /\ batch' = batch - 1 /\ putBack' = putBack + 1
  BY DEF ConvertAppends, Goto
<1>3. /\ bytes' \in 0..PipeCapacity /\ pumpWakePending' \in BOOLEAN /\ qlen' \in Nat
      /\ qlen' = qlen /\ bytes' = bytes
  BY <1>1, PumpRanges
<1>4. ReadInv
  BY DEF PumpInv
<1>5. ReadInv' /\ reads' \in Nat /\ batch' \in Nat /\ reads' <= batch'
  BY <1>1, <1>2, <1>4, PumpRanges DEF ReadInv
<1>6. HostInput = 0 /\ HostInput' = 0
  BY <1>2 DEF HostInput
<1>7. stage' \in Stages /\ goal' \in {"none", "first", "flush", "last", "next"} /\ want' \in Nat
  BY <1>1, <1>2, PumpRanges DEF Stages
<1>8. /\ sdl' \in Nat /\ putBack' \in Nat /\ used' \in 0..client.maxEvents
      /\ sdl' + putBack' + batch' + HostInput' + used
           <= sdl + putBack + batch + HostInput + used'
  BY <1>1, <1>2, <1>6, PumpRanges
<1>9. AloneInv'
  BY <1>1, <1>2, <1>3, <1>4, AloneFacts, AloneIntro, PumpRanges DEF ReadInv
<1> QED BY <1>1, <1>3, <1>5, <1>7, <1>8, <1>9, MainMoveInv

(* The byte of an event that a conversion appended.                         *)
LEMMA AppendByteInv ==
  ASSUME PumpInv, UNCHANGED client, AppendByte
  PROVE  PumpInv'
<1>1. UNCHANGED <<pc, seen, timer, sdl, putBack, reads, batch, want, goal, used>>
  BY DEF AppendByte, QueuesSame, OthersSame, threadVars, pipeVars, Goto
<1>2. /\ stage = "append" /\ stage' = "convert"
      /\ ENQUEUE_EVENT_IN_PIPE
  BY DEF AppendByte, Goto
<1>3. /\ bytes' \in 0..PipeCapacity /\ pumpWakePending' \in BOOLEAN /\ qlen' \in Nat
      /\ qlen' = qlen + 1 /\ bytes' <= bytes + 1
  BY <1>2, PipeFacts, PumpRanges
<1>4. ReadInv
  BY DEF PumpInv
<1>5. ReadInv' /\ reads' \in Nat /\ batch' \in Nat /\ reads' <= batch'
  BY <1>1, <1>2, <1>4, PumpRanges DEF ReadInv
<1>6. HostInput = 0 /\ HostInput' = 0
  BY <1>2 DEF HostInput
<1>7. stage' \in Stages /\ goal' \in {"none", "first", "flush", "last", "next"} /\ want' \in Nat
  BY <1>1, <1>2, PumpRanges DEF Stages
<1>8. /\ sdl' \in Nat /\ putBack' \in Nat /\ used' \in 0..client.maxEvents
      /\ sdl' + putBack' + batch' + HostInput' + used
           <= sdl + putBack + batch + HostInput + used'
  BY <1>1, <1>2, <1>6, PumpRanges
<1>9. AloneInv'
  BY <1>1, <1>2, <1>3, <1>4, AloneFacts, AloneIntro, PumpRanges DEF ReadInv
<1> QED BY <1>1, <1>3, <1>5, <1>7, <1>8, <1>9, MainMoveInv

(* The bytes owed for the events taken are read, one by one.                *)
LEMMA ReadByteInv ==
  ASSUME PumpInv, UNCHANGED client, ReadByte
  PROVE  PumpInv'
<1>1. UNCHANGED <<pc, seen, timer, sdl, putBack, batch, want, goal, used>>
  BY DEF ReadByte, QueuesSame, OthersSame, threadVars, pipeVars, Goto
<1>2. /\ stage = "read" /\ stage' = (IF reads = 1 THEN "convert" ELSE "read")
      /\ reads' = reads - 1
      /\ READ_EVENTS_IN_PIPE(1)
  BY DEF ReadByte, Goto
<1>3. /\ bytes' \in 0..PipeCapacity /\ pumpWakePending' \in BOOLEAN /\ qlen' \in Nat
      /\ qlen' = (IF qlen > 0 THEN qlen - 1 ELSE 0)
      /\ bytes' = IF bytes > 0 THEN bytes - 1 ELSE 0
  BY <1>2, PipeFacts, PumpRanges
<1>4. ReadInv
  BY DEF PumpInv
<1>5. ReadInv' /\ reads' \in Nat /\ batch' \in Nat /\ reads' <= batch'
  BY <1>1, <1>2, <1>4, PumpRanges DEF ReadInv
<1>6. HostInput = 0 /\ HostInput' = 0
  BY <1>2 DEF HostInput
<1>7. stage' \in Stages /\ goal' \in {"none", "first", "flush", "last", "next"} /\ want' \in Nat
  BY <1>1, <1>2, PumpRanges DEF Stages
<1>8. /\ sdl' \in Nat /\ putBack' \in Nat /\ used' \in 0..client.maxEvents
      /\ sdl' + putBack' + batch' + HostInput' + used
           <= sdl + putBack + batch + HostInput + used'
  BY <1>1, <1>2, <1>6, PumpRanges
<1>9. AloneInv'
  BY <1>1, <1>2, <1>3, <1>4, AloneFacts, AloneIntro, PumpRanges DEF ReadInv
<1> QED BY <1>1, <1>3, <1>5, <1>7, <1>8, <1>9, MainMoveInv

(* XNextEvent takes one event, XPending and its kind a batch.               *)
LEMMA TakeInv ==
  ASSUME PumpInv, UNCHANGED client, Take
  PROVE  PumpInv'
<1>1. /\ UNCHANGED <<pc, seen, timer, putBack, want, goal, used, bytes, qlen, pumpWakePending>>
      /\ stage \in {"look", "relook"} /\ stage' = "read" /\ sdl > 0
  BY DEF Take, OthersSame, threadVars, pipeVars, sdlHasEvent
<1>2. PICK n \in Nat : /\ n > 0 /\ n <= sdl /\ sdl' = sdl - n /\ reads' = n /\ batch' = n
                       /\ goal = "next" => n = 1
  <2>1. CASE goal = "next"
    BY <1>1, <2>1, PumpRanges DEF Take
  <2>2. CASE goal # "next"
    BY <1>1, <2>2, PumpRanges DEF Take
  <2> QED BY <2>1, <2>2
<1>3. /\ sdl \in Nat /\ putBack \in Nat /\ used \in Nat /\ used \in 0..client.maxEvents
      /\ goal \in {"none", "first", "flush", "last", "next"} /\ want \in Nat
  BY PumpRanges
<1>4. sdl' = sdl - n /\ reads' = n /\ batch' = n /\ n > 0 /\ n <= sdl
  BY <1>2
<1>5. ReadInv /\ batch = 0
  BY <1>1 DEF PumpInv, ReadInv
<1>6. reads = 0 /\ ReadInv'
  BY <1>1, <1>2, <1>4, <1>5 DEF ReadInv
<1>7. HostInput = 0 /\ HostInput' = 0
  BY <1>1 DEF HostInput
<1>8. stage' \in Stages
  BY <1>1 DEF Stages
<1>9. sdl' \in Nat /\ reads' \in Nat /\ batch' \in Nat /\ reads' <= batch'
  <2>1. sdl - n \in Nat
    BY <1>3, <1>4
  <2> QED BY <1>4, <2>1
<1>10. sdl' + putBack' + batch' + HostInput' + used <= sdl + putBack + batch + HostInput + used'
  BY <1>1, <1>3, <1>5, <1>7, <1>9, <1>4
<1>11. AloneInv'
  BY <1>1, <1>6, <1>4, AloneFacts, AloneIntro, PumpRanges
<1> QED BY <1>1, <1>6, <1>8, <1>9, <1>10, <1>11, MainMoveInv, PumpRanges

(* A client's only thread never needs the reset: its counter agrees.        *)
LEMMA ResetInv ==
  ASSUME PumpInv, UNCHANGED client, Reset
  PROVE  PumpInv'
<1>1. /\ UNCHANGED <<pc, seen, timer, sdl, putBack, reads, batch, want, used>>
      /\ stage = "reset" /\ stage' \in {"look", "quiet", "client"}
      /\ goal' \in {"none", "last"} /\ resetEventWakeups(want)
  BY DEF Reset, EndDrain, QueuesSame, OthersSame, threadVars
<1>2. /\ bytes' \in 0..PipeCapacity /\ qlen' \in Nat /\ pumpWakePending' \in BOOLEAN
  BY <1>1, PipeFacts, PumpRanges
<1>3. ReadInv /\ AloneInv
  BY DEF PumpInv
<1>4. ReadInv' /\ HostInput = 0 /\ HostInput' = 0
  BY <1>1, <1>3 DEF ReadInv, HostInput
<1>5. AloneInv'
  BY <1>1, <1>3 DEF AloneInv
<1>6. stage' \in Stages
  BY <1>1 DEF Stages
<1>7. sdl' + putBack' + batch' + HostInput' + used <= sdl + putBack + batch + HostInput + used'
  BY <1>1, <1>4, PumpRanges
<1> QED BY <1>1, <1>2, <1>4, <1>5, <1>6, <1>7, MainMoveInv, PumpRanges

-----------------------------------------------------------------------------

(* Every step preserves the invariant.                                      *)
LEMMA PumpNextInv ==
  ASSUME PumpInv, [Next]_vars
  PROVE  PumpInv'
<1>1. CASE UNCHANGED vars
  BY <1>1, TimerInv DEF vars
<1>2. CASE Next
  <2>1. UNCHANGED client
    BY <1>2 DEF Next
  <2>2. CASE TimerClaim \/ TimerWrite
    BY <2>1, <2>2, TimerInv
  <2>3. CASE \E p \in Others : BeginPush(p) \/ LoneWake(p) \/ ThreadStep(p)
    BY <2>1, <2>3, ThreadInv
  <2>4. CASE XPutBackEvent \/ PumpInput
    BY <2>1, <2>4, XPutBackEventInv, PumpInputInv
  <2>5. CASE MainStep
    <3>1. CASE \/ CallPending \/ Poll \/ PollReturns \/ CallNextEvent \/ PumpCheck
               \/ TakeNothing \/ ConvertSwallows \/ Recount \/ Agree \/ Differ
      BY <2>1, <3>1, QuietStepInv
    <3>2. CASE PopPutBack \/ PopRead \/ PutBackByte \/ PumpInsert \/ PumpRead \/ PumpClear
      BY <2>1, <3>2, PopPutBackInv, PopReadInv, PutBackByteInv, PumpInsertInv, PumpReadInv,
         PumpClearInv
    <3>3. CASE Take \/ ReadByte \/ ConvertAppends \/ AppendByte
      BY <2>1, <3>3, TakeInv, ReadByteInv, ConvertAppendsInv, AppendByteInv
    <3>4. CASE Reset
      BY <2>1, <3>4, ResetInv
    <3> QED BY <2>5, <3>1, <3>2, <3>3, <3>4 DEF MainStep
  <2> QED BY <1>2, <2>2, <2>3, <2>4, <2>5 DEF Next
<1> QED BY <1>1, <1>2

(* Every event is in one place at a time, spent once: the queues, the batch *)
(* being converted and the pushes between filter and insertion never add up *)
(* to more events than clients, threads and the host made.                  *)
THEOREM PumpInvariant == Spec => []PumpInv
<1>1. PumpInv /\ [Next]_vars => PumpInv'
  BY PumpNextInv
<1> QED BY PumpInitInv, <1>1, PTL DEF Spec

(* A client with one thread finds display->qlen equal to what its two queues*)
(* hold whenever it is in control, and without the timer no stray byte that *)
(* would keep poll(ConnectionNumber) returning (resetEventWakeups).         *)
THEOREM PumpAccountingExact == Spec => []AccountingExact
<1>1. PumpInv => AccountingExact
  <2> SUFFICES ASSUME PumpInv PROVE AccountingExact
    OBVIOUS
  <2>1. TypeOK /\ ReadInv
    BY DEF PumpInv
  <2>2. ASSUME stage \in {"client", "quiet", "poll"}, client.threads = {}
        PROVE  qlen = putBack + sdl /\ (~client.timer => bytes <= qlen)
    BY <2>1, <2>2, AloneFacts, PumpRanges DEF ReadInv
  <2> QED BY <2>1, <2>2 DEF AccountingExact
<1> QED BY PumpInvariant, <1>1, PTL

-----------------------------------------------------------------------------
(* The round trips.                                                         *)

(* The replay thread owns or awaits an envelope.                            *)
Asking == script \in {"push", "rollback", "wait"}
Calling(r) == script \in {"push", "rollback"} /\ request.req = r
Queued(r) == \E i \in 1..Len(queue) : queue[i].req = r
Handled(r) == \E t \in Threads : handler[t].env.req = r

RequestInv ==
  /\ IF Asking THEN /\ request \in Envelopes
                    /\ request.gen = gen[request.chan]
                    /\ answer[request.req] = Pending
               ELSE request = NoEnvelope
  /\ asleep => script = "wait"
  /\ \A t \in Threads :
       IF handler[t].at = "idle" THEN handler[t].env = NoEnvelope
                                 ELSE handler[t].env \in Envelopes

(* A generation handed out again after a failed push may make an older      *)
(* envelope current, never one beside a request that waits: among the       *)
(* envelopes under way the one with the request's generation is its own.    *)
Young(e) == /\ e.gen <= gen[e.chan]
            /\ Asking /\ e.chan = request.chan /\ e.gen = request.gen
                 => e.req = request.req
GenerationInv ==
  /\ \A i \in 1..Len(queue) : Young(queue[i])
  /\ \A t \in Threads : handler[t].at # "idle" => Young(handler[t].env)

AnswerInv ==
  /\ AnswersOwnRequest
  /\ Asking /\ done[request.chan] => result[request.chan].req = request.req

OwnerInv ==
  /\ \A i, j \in 1..Len(queue) : queue[i].req = queue[j].req => i = j
  /\ \A t, u \in Threads :
       handler[t].at # "idle" /\ handler[t].env.req = handler[u].env.req => t = u
  /\ \A r \in Requests :
       /\ freed[r] <= 1
       /\ Queued(r) => ~Handled(r) /\ ~Calling(r) /\ freed[r] = 0
       /\ Handled(r) => ~Calling(r) /\ freed[r] = 0
       /\ Calling(r) => freed[r] = 0
       /\ main # "quit" => Queued(r) \/ Handled(r) \/ Calling(r) \/ freed[r] = 1

SnapshotInv ==
  /\ SnapshotTypeOK /\ NoPushAfterQuit
  /\ RequestInv /\ GenerationInv /\ AnswerInv /\ OwnerInv

-----------------------------------------------------------------------------
(* The envelope of nobody is the envelope of no request.                    *)
LEMMA NoEnvelopeFacts ==
  /\ NoEnvelope.req = 0 /\ NoEnvelope.gen = 0
  /\ NoEnvelope \notin Envelopes
  BY DEF NoEnvelope, Envelope, Envelopes, Requests

(* The invariant holds at the start.                                        *)
LEMMA SnapshotInitInv == SnapshotInit => SnapshotInv
<1> SUFFICES ASSUME SnapshotInit PROVE SnapshotInv
  OBVIOUS
<1> USE SnapshotAssumption, NoEnvelopeFacts DEF SnapshotInit, Asking, Requests
<1>1. SnapshotTypeOK
  <2>1. /\ queue \in Seq(Envelopes) /\ answer \in Seq(Answers)
        /\ freed \in Seq(Nat) /\ Len(answer) = 0 /\ Len(freed) = 0
    OBVIOUS
  <2>2. NoResult \in Answers
    BY DEF Answers, NoResult, Done
  <2>3. /\ handlers \subseteq Threads
        /\ handler \in [Threads -> [at : {"idle", "test", "work", "signal"},
                                    env : Envelopes \union {NoEnvelope}]]
    OBVIOUS
  <2>4. gen \in [Channels -> Nat] /\ \A c \in Channels : gen[c] <= Len(answer)
    BY <2>1
  <2>5. /\ done \in [Channels -> BOOLEAN] /\ registered \in [Channels -> BOOLEAN]
        /\ result \in [Channels -> Answers] /\ asleep \in BOOLEAN
    BY <2>2
  <2>6. /\ request \in Envelopes \union {NoEnvelope}
        /\ Len(answer) <= MaxRequests /\ Len(freed) = Len(answer)
        /\ failures \in 0..MaxFailures
    BY <2>1
  <2>7. /\ script \in {"unborn", "line", "converge", "push", "rollback", "wait",
                       "ended"}
        /\ main \in {"running", "joining", "quit"}
    OBVIOUS
  <2> QED BY <2>1, <2>3, <2>4, <2>5, <2>6, <2>7 DEF SnapshotTypeOK
<1>2. NoPushAfterQuit /\ RequestInv /\ GenerationInv
  BY DEF NoPushAfterQuit, RequestInv, GenerationInv
<1>3. AnswerInv /\ OwnerInv
  BY DEF AnswerInv, AnswersOwnRequest, NoMissedAnswer, OwnerInv
<1> QED BY <1>1, <1>2, <1>3 DEF SnapshotInv

-----------------------------------------------------------------------------
(* Steps that only move the replay thread or the main thread on.            *)
QuietStep ==
  \/ replayStartIfRequested \/ ScriptEnds \/ BeginConverge \/ EndConverge
  \/ PushFails \/ Sleep \/ replayStop

(* The steps that touch neither requests nor envelopes.                     *)
LEMMA ScriptStepInv ==
  ASSUME SnapshotInv, QuietStep
  PROVE  SnapshotInv'
<1>0. /\ SnapshotTypeOK /\ NoPushAfterQuit /\ RequestInv /\ GenerationInv
      /\ AnswerInv /\ OwnerInv
  BY DEF SnapshotInv
<1>1. /\ UNCHANGED <<gen, done, result, registered, queue, request, handler,
                     handlers, answer, freed>>
      /\ main # "quit" /\ main' # "quit" /\ Asking' = Asking
      /\ script' \in {"push", "rollback"} <=> script \in {"push", "rollback"}
      /\ asleep' => script' = "wait" /\ ~done[request.chan]
      /\ failures' \in 0..MaxFailures /\ asleep' \in BOOLEAN
      /\ script' \in {"unborn", "line", "converge", "push", "rollback", "wait",
                       "ended"}
      /\ main' \in {"running", "joining", "quit"}
  <2> USE SnapshotAssumption, <1>0
      DEF SnapshotTypeOK, NoPushAfterQuit, RequestInv, AnswerInv,
          AnswersOwnRequest, NoMissedAnswer, Asking, WorkerOnly, channelVars
  <2>1. CASE replayStartIfRequested BY <2>1 DEF replayStartIfRequested
  <2>2. CASE ScriptEnds BY <2>2 DEF ScriptEnds
  <2>3. CASE BeginConverge BY <2>3 DEF BeginConverge, Stopping
  <2>4. CASE EndConverge BY <2>4 DEF EndConverge
  <2>5. CASE PushFails BY <2>5 DEF PushFails
  <2>6. CASE Sleep BY <2>6 DEF Sleep
  <2>7. CASE replayStop BY <2>7 DEF replayStop
  <2> QED BY <2>1, <2>2, <2>3, <2>4, <2>5, <2>6, <2>7 DEF QuietStep
<1>2. Requests' = Requests /\ Envelopes' = Envelopes
  BY <1>1 DEF Requests, Envelopes
<1>3. SnapshotTypeOK'
  BY <1>0, <1>1, <1>2 DEF SnapshotTypeOK
<1>4. RequestInv'
  BY <1>0, <1>1, <1>2 DEF RequestInv
<1>5. GenerationInv'
  BY <1>0, <1>1 DEF GenerationInv, Young
<1>6. AnswerInv'
  BY <1>0, <1>1, <1>2 DEF AnswerInv, AnswersOwnRequest, NoMissedAnswer
<1>7. OwnerInv'
  <2>1. \A r \in Requests : /\ Queued(r)' = Queued(r) /\ Handled(r)' = Handled(r)
                            /\ Calling(r)' = Calling(r)
    BY <1>1 DEF Queued, Handled, Calling
  <2> QED BY <1>0, <1>1, <1>2, <2>1 DEF OwnerInv
<1> QED BY <1>1, <1>3, <1>4, <1>5, <1>6, <1>7 DEF SnapshotInv, NoPushAfterQuit

(* SDL_Quit drops the queue; nobody asks any more.                          *)
LEMMA JoinedInv ==
  ASSUME SnapshotInv, Joined
  PROVE  SnapshotInv'
<1>0. /\ SnapshotTypeOK /\ RequestInv /\ GenerationInv /\ AnswerInv /\ OwnerInv
  BY DEF SnapshotInv
<1>1. /\ UNCHANGED <<gen, done, result, registered, script, request, asleep,
                     handler, handlers, answer, freed, failures>>
      /\ main' = "quit" /\ script \in {"unborn", "ended"}
      /\ queue' = <<>> /\ queue' \in Seq(Envelopes) /\ Len(queue') = 0
  BY DEF Joined, channelVars
<1>2. Requests' = Requests /\ Envelopes' = Envelopes /\ Asking' = Asking
  BY <1>1 DEF Requests, Envelopes, Asking
<1>3. SnapshotTypeOK'
  BY <1>0, <1>1, <1>2 DEF SnapshotTypeOK
<1>4. NoPushAfterQuit'
  BY <1>1 DEF NoPushAfterQuit
<1>5. RequestInv' /\ GenerationInv'
  BY <1>0, <1>1, <1>2 DEF RequestInv, GenerationInv, Young
<1>6. AnswerInv'
  BY <1>0, <1>1, <1>2 DEF AnswerInv, AnswersOwnRequest, NoMissedAnswer
<1>7. OwnerInv'
  <2>1. \A r \in Requests : /\ ~Queued(r)' /\ Handled(r)' = Handled(r)
                            /\ Calling(r)' = Calling(r)
    BY <1>1 DEF Queued, Handled, Calling
  <2> QED BY <1>0, <1>1, <1>2, <2>1 DEF OwnerInv
<1> QED BY <1>3, <1>4, <1>5, <1>6, <1>7 DEF SnapshotInv

-----------------------------------------------------------------------------
(* A request begins.  Its envelope is newer than all that are under way.    *)
LEMMA NewRequest ==
  ASSUME SnapshotTypeOK, NEW a \in Answers, NEW n \in Nat,
         answer' = Append(answer, a), freed' = Append(freed, n)
  PROVE  /\ answer' \in Seq(Answers) /\ freed' \in Seq(Nat)
         /\ Len(answer') = Len(answer) + 1 /\ Len(freed') = Len(answer')
         /\ Requests' = Requests \union {Len(answer')}
         /\ Len(answer') \notin Requests /\ Len(answer') \in Nat \ {0}
         /\ Envelopes \subseteq Envelopes'
         /\ \A r \in Requests : answer'[r] = answer[r] /\ freed'[r] = freed[r]
         /\ answer'[Len(answer')] = a /\ freed'[Len(answer')] = n
<1>1. answer \in Seq(Answers) /\ freed \in Seq(Nat) /\ Len(freed) = Len(answer)
  BY DEF SnapshotTypeOK
<1>2. /\ answer' \in Seq(Answers) /\ Len(answer') = Len(answer) + 1
      /\ \A r \in 1..Len(answer) : answer'[r] = answer[r]
      /\ answer'[Len(answer) + 1] = a
  BY <1>1
<1>3. /\ freed' \in Seq(Nat) /\ Len(freed') = Len(freed) + 1
      /\ \A r \in 1..Len(freed) : freed'[r] = freed[r]
      /\ freed'[Len(freed) + 1] = n
  BY <1>1
<1>4. Len(answer) \in Nat
  BY <1>1
<1>5. /\ Requests' = Requests \union {Len(answer')}
      /\ Len(answer') \notin Requests /\ Len(answer') \in Nat \ {0}
  BY <1>2, <1>4 DEF Requests
<1>6. Envelopes \subseteq Envelopes'
  BY <1>5 DEF Envelopes
<1> QED BY <1>1, <1>2, <1>3, <1>5, <1>6 DEF Requests

(* A script makes a request: a new generation, a new envelope.              *)
LEMMA PrepareInv ==
  ASSUME SnapshotInv, NEW c \in Channels, Prepare(c)
  PROVE  SnapshotInv'
<1> SUFFICES ASSUME NEW n, n = Len(answer') PROVE SnapshotInv'
  OBVIOUS
<1> USE SnapshotAssumption, NoEnvelopeFacts DEF Prepare, WorkerOnly
<1>0. /\ SnapshotTypeOK /\ RequestInv /\ GenerationInv /\ AnswerInv /\ OwnerInv
      /\ ~Asking /\ Asking' /\ main = "running" /\ main' = "running"
  BY DEF SnapshotInv, Asking, Stopping
<1>1. /\ answer' \in Seq(Answers) /\ freed' \in Seq(Nat)
      /\ n = Len(answer) + 1 /\ Len(freed') = n
      /\ Requests' = Requests \union {n} /\ n \notin Requests /\ n \in Nat \ {0}
      /\ Envelopes \subseteq Envelopes'
      /\ \A r \in Requests : answer'[r] = answer[r] /\ freed'[r] = freed[r]
      /\ answer'[n] = Pending /\ freed'[n] = 0
  <2>1. Pending \in Answers
    BY DEF Pending, Answers
  <2> QED BY <1>0, <2>1, NewRequest
<1>2. /\ gen' = [gen EXCEPT ![c] = @ + 1] /\ gen \in [Channels -> Nat]
      /\ done' = [done EXCEPT ![c] = FALSE]
      /\ result' = [result EXCEPT ![c] = NoResult]
      /\ registered' = [registered EXCEPT ![c] = TRUE]
  BY <1>0 DEF prepareRoundTrip, SnapshotTypeOK
<1>3. /\ request'.chan = c /\ request'.gen = gen[c] + 1 /\ request'.req = n
      /\ request' \in Envelopes'
  BY <1>1, <1>2 DEF Envelope, Envelopes
<1>4. UNCHANGED <<queue, handler, asleep>> /\ ~asleep
  BY <1>0 DEF RequestInv, Asking
<1>5. \A i \in 1..Len(queue) : queue[i] \in Envelopes
  BY <1>0, ElementOfSeq DEF SnapshotTypeOK
<1>6. \A t \in Threads : \/ handler[t].at = "idle" /\ handler[t].env = NoEnvelope
                         \/ handler[t].at # "idle" /\ handler[t].env \in Envelopes
  BY <1>0 DEF RequestInv
<1>7. SnapshotTypeOK'
  <2>1. gen' \in [Channels -> Nat] /\ \A d \in Channels : gen'[d] <= Len(answer')
    BY <1>0, <1>1, <1>2 DEF SnapshotTypeOK
  <2>2. /\ done' \in [Channels -> BOOLEAN] /\ registered' \in [Channels -> BOOLEAN]
        /\ asleep' \in BOOLEAN
    BY <1>0, <1>2, <1>4 DEF SnapshotTypeOK
  <2>3. result' \in [Channels -> Answers]
    <3>1. NoResult \in Answers
      BY DEF NoResult, Done, Answers
    <3> QED BY <1>0, <1>2, <3>1 DEF SnapshotTypeOK
  <2>4. queue' \in Seq(Envelopes')
    BY <1>0, <1>1, <1>4, SeqMonotonic DEF SnapshotTypeOK
  <2>5. handler' \in [Threads -> [at : {"idle", "test", "work", "signal"},
                                 env : Envelopes' \union {NoEnvelope}]]
    BY <1>0, <1>1, <1>4 DEF SnapshotTypeOK
  <2>6. Len(answer') <= MaxRequests
    BY <1>0, <1>1 DEF SnapshotTypeOK
  <2> QED
    BY <1>0, <1>1, <1>3, <2>1, <2>2, <2>3, <2>4, <2>5, <2>6 DEF SnapshotTypeOK
<1>8. NoPushAfterQuit'
  BY <1>0 DEF NoPushAfterQuit
<1>9. RequestInv'
  <2>1. request'.gen = gen'[request'.chan] /\ answer'[request'.req] = Pending
    BY <1>1, <1>2, <1>3
  <2>2. \A t \in Threads : IF handler'[t].at = "idle"
                             THEN handler'[t].env = NoEnvelope
                             ELSE handler'[t].env \in Envelopes'
    BY <1>1, <1>4, <1>6
  <2> QED BY <1>0, <1>3, <1>4, <2>1, <2>2 DEF RequestInv
<1>10. GenerationInv'
  <2>1. ASSUME NEW e \in Envelopes, Young(e) PROVE Young(e)'
    BY <1>2, <1>3, <2>1 DEF Young, Envelopes
  <2> QED BY <1>0, <1>4, <1>5, <1>6, <2>1 DEF GenerationInv
<1>11. AnswerInv'
  <2>1. ~done'[request'.chan] /\ ~asleep'
    BY <1>0, <1>2, <1>3, <1>4 DEF SnapshotTypeOK
  <2>2. \A r \in Requests' : answer'[r].req > 0 => answer'[r].req = r
    <3>1. ~(answer'[n].req > 0)
      BY <1>1 DEF Pending
    <3> QED BY <1>0, <1>1, <3>1 DEF AnswerInv, AnswersOwnRequest
  <2> QED BY <2>1, <2>2 DEF AnswerInv, AnswersOwnRequest, NoMissedAnswer
<1>12. OwnerInv'
  <2>1. \A r \in Requests : Queued(r)' = Queued(r) /\ Handled(r)' = Handled(r)
    BY <1>4 DEF Queued, Handled
  <2>2. ~Queued(n)' /\ ~Handled(n)'
    <3>1. \A e \in Envelopes \union {NoEnvelope} : e.req # n
      BY <1>1 DEF Envelopes
    <3>2. \A i \in 1..Len(queue') : queue'[i].req # n
      BY <1>4, <1>5, <3>1
    <3>3. \A t \in Threads : handler'[t].env.req # n
      BY <1>4, <1>6, <3>1
    <3> QED BY <3>2, <3>3 DEF Queued, Handled
  <2>3. \A r \in Requests' : Calling(r)' <=> r = n
    BY <1>3 DEF Calling
  <2>4. \A r \in Requests : ~Calling(r)
    BY <1>0 DEF Calling, Asking
  <2>5. /\ \A i, j \in 1..Len(queue') : queue'[i].req = queue'[j].req => i = j
        /\ \A t, u \in Threads :
             handler'[t].at # "idle" /\ handler'[t].env.req = handler'[u].env.req
               => t = u
    BY <1>0, <1>4 DEF OwnerInv
  <2>6. ASSUME NEW r \in Requests'
        PROVE  /\ freed'[r] <= 1
               /\ Queued(r)' => ~Handled(r)' /\ ~Calling(r)' /\ freed'[r] = 0
               /\ Handled(r)' => ~Calling(r)' /\ freed'[r] = 0
               /\ Calling(r)' => freed'[r] = 0
               /\ Queued(r)' \/ Handled(r)' \/ Calling(r)' \/ freed'[r] = 1
    <3>1. CASE r = n
      BY <1>1, <2>2, <2>3, <3>1
    <3>2. CASE r \in Requests
      BY <1>0, <1>1, <2>1, <2>3, <2>4, <3>2 DEF OwnerInv
    <3> QED BY <1>1, <3>1, <3>2
  <2> QED BY <2>5, <2>6 DEF OwnerInv
<1> QED BY <1>7, <1>8, <1>9, <1>10, <1>11, <1>12 DEF SnapshotInv

(* A request without an event type has no envelope.                         *)
LEMMA RegisterFailsInv ==
  ASSUME SnapshotInv, NEW c \in Channels, RegisterFails(c)
  PROVE  SnapshotInv'
<1> SUFFICES ASSUME NEW n, n = Len(answer') PROVE SnapshotInv'
  OBVIOUS
<1>0. /\ SnapshotTypeOK /\ NoPushAfterQuit /\ RequestInv /\ GenerationInv
      /\ AnswerInv /\ OwnerInv /\ ~Asking
      /\ UNCHANGED <<gen, done, result, registered, queue, script, request,
                     asleep, handler, main, handlers>>
      /\ failures' \in 0..MaxFailures /\ Len(answer) < MaxRequests
      /\ main # "quit"
  BY SnapshotAssumption
  DEF SnapshotInv, SnapshotTypeOK, RegisterFails, WorkerOnly, channelVars, Asking,
      Stopping
<1>1. /\ answer' \in Seq(Answers) /\ freed' \in Seq(Nat)
      /\ n = Len(answer) + 1 /\ Len(freed') = n
      /\ Requests' = Requests \union {n} /\ n \notin Requests /\ n \in Nat \ {0}
      /\ Envelopes \subseteq Envelopes'
      /\ \A r \in Requests : answer'[r] = answer[r] /\ freed'[r] = freed[r]
      /\ answer'[n] = NotSent /\ freed'[n] = 1
  <2>1. NotSent \in Answers
    BY DEF NotSent, Answers
  <2> QED BY <1>0, <2>1, NewRequest DEF RegisterFails
<1>2. \A i \in 1..Len(queue) : queue[i] \in Envelopes
  BY <1>0, ElementOfSeq DEF SnapshotTypeOK
<1>3. \A t \in Threads : \/ handler[t].at = "idle" /\ handler[t].env = NoEnvelope
                         \/ handler[t].at # "idle" /\ handler[t].env \in Envelopes
  BY <1>0 DEF RequestInv
<1>4. SnapshotTypeOK'
  <2>1. \A d \in Channels : gen[d] <= n
    BY <1>0, <1>1 DEF SnapshotTypeOK
  <2>2. queue' \in Seq(Envelopes')
    BY <1>0, <1>1, SeqMonotonic DEF SnapshotTypeOK
  <2>3. handler' \in [Threads -> [at : {"idle", "test", "work", "signal"},
                                 env : Envelopes' \union {NoEnvelope}]]
    BY <1>0, <1>1 DEF SnapshotTypeOK
  <2>4. request' = NoEnvelope
    BY <1>0 DEF RequestInv
  <2>5. Len(answer) \in Nat /\ n <= MaxRequests
    BY <1>0, <1>1, SnapshotAssumption DEF SnapshotTypeOK
  <2> QED BY <1>0, <1>1, <2>1, <2>2, <2>3, <2>4, <2>5 DEF SnapshotTypeOK
<1>5. NoPushAfterQuit'
  BY <1>0 DEF NoPushAfterQuit
<1>6. RequestInv'
  <2>1. ~Asking' /\ request' = NoEnvelope /\ asleep' = asleep /\ script' = script
    BY <1>0 DEF RequestInv, Asking
  <2>2. \A t \in Threads : IF handler'[t].at = "idle"
                             THEN handler'[t].env = NoEnvelope
                             ELSE handler'[t].env \in Envelopes'
    BY <1>0, <1>1, <1>3
  <2> QED BY <1>0, <2>1, <2>2 DEF RequestInv
<1>7. GenerationInv'
  BY <1>0 DEF GenerationInv, Young, Asking
<1>8. AnswerInv'
  <2>1. ~(answer'[n].req > 0)
    BY <1>1 DEF NotSent
  <2> QED BY <1>0, <1>1, <2>1
          DEF AnswerInv, AnswersOwnRequest, NoMissedAnswer, Asking
<1>9. OwnerInv'
  <2>1. \A r \in Requests : /\ Queued(r)' = Queued(r) /\ Handled(r)' = Handled(r)
                            /\ Calling(r)' = Calling(r)
    BY <1>0 DEF Queued, Handled, Calling
  <2>2. ~Queued(n)' /\ ~Handled(n)' /\ ~Calling(n)'
    <3>1. \A e \in Envelopes \union {NoEnvelope} : e.req # n
      BY <1>1, NoEnvelopeFacts DEF Envelopes
    <3>2. \A i \in 1..Len(queue') : queue'[i].req # n
      BY <1>0, <1>2, <3>1
    <3>3. \A t \in Threads : handler'[t].env.req # n
      BY <1>0, <1>3, <3>1
    <3>4. ~Calling(n)'
      BY <1>0 DEF Calling, Asking
    <3> QED BY <3>2, <3>3, <3>4 DEF Queued, Handled
  <2>3. /\ \A i, j \in 1..Len(queue') : queue'[i].req = queue'[j].req => i = j
        /\ \A t, u \in Threads :
             handler'[t].at # "idle" /\ handler'[t].env.req = handler'[u].env.req
               => t = u
    BY <1>0 DEF OwnerInv
  <2>4. ASSUME NEW r \in Requests'
        PROVE  /\ freed'[r] <= 1
               /\ Queued(r)' => ~Handled(r)' /\ ~Calling(r)' /\ freed'[r] = 0
               /\ Handled(r)' => ~Calling(r)' /\ freed'[r] = 0
               /\ Calling(r)' => freed'[r] = 0
               /\ Queued(r)' \/ Handled(r)' \/ Calling(r)' \/ freed'[r] = 1
    <3>1. CASE r = n
      BY <1>1, <2>2, <3>1
    <3>2. CASE r \in Requests
      BY <1>0, <1>1, <2>1, <3>2 DEF OwnerInv
    <3> QED BY <1>1, <3>1, <3>2
  <2> QED BY <2>3, <2>4 DEF OwnerInv
<1> QED BY <1>4, <1>5, <1>6, <1>7, <1>8, <1>9 DEF SnapshotInv

-----------------------------------------------------------------------------
(* The envelope goes from the caller to the queue.                          *)
LEMMA PushInv ==
  ASSUME SnapshotInv, Push
  PROVE  SnapshotInv'
<1>0. /\ SnapshotTypeOK /\ NoPushAfterQuit /\ RequestInv /\ GenerationInv
      /\ AnswerInv /\ OwnerInv /\ Asking /\ Asking' /\ main # "quit"
      /\ UNCHANGED <<gen, done, result, registered, request, asleep, handler,
                     main, handlers, answer, freed, failures>>
      /\ script = "push" /\ script' = "wait" /\ ~asleep
  BY DEF SnapshotInv, RequestInv, NoPushAfterQuit, Push, WorkerOnly, channelVars,
         Asking
<1>1. Requests' = Requests /\ Envelopes' = Envelopes
  BY <1>0 DEF Requests, Envelopes
<1>2. /\ request \in Envelopes /\ request.req \in Requests
      /\ request.gen = gen[request.chan] /\ answer[request.req] = Pending
  BY <1>0 DEF RequestInv, Envelopes
<1>3. /\ queue \in Seq(Envelopes) /\ Len(queue) \in Nat
      /\ queue' \in Seq(Envelopes) /\ Len(queue') = Len(queue) + 1
      /\ \A i \in 1..Len(queue) : queue'[i] = queue[i]
      /\ queue'[Len(queue')] = request
  <2>1. queue \in Seq(Envelopes) /\ queue' = Append(queue, request)
    BY <1>0 DEF SnapshotTypeOK, Push
  <2> QED BY <1>2, <2>1
<1>4. \A i \in 1..Len(queue') : i \in 1..Len(queue) \/ i = Len(queue')
  BY <1>3
<1>5. SnapshotTypeOK'
  BY <1>0, <1>1, <1>3 DEF SnapshotTypeOK
<1>6. RequestInv'
  BY <1>0, <1>1, <1>2 DEF RequestInv
<1>7. GenerationInv'
  <2>1. \A e \in Envelopes : Young(e)' = Young(e)
    BY <1>0 DEF Young
  <2>2. Young(request)
    BY <1>2 DEF Young, Envelopes, SnapshotTypeOK
  <2>3. \A i \in 1..Len(queue) : queue[i] \in Envelopes /\ Young(queue[i])
    BY <1>0, <1>3, ElementOfSeq DEF GenerationInv
  <2>4. \A i \in 1..Len(queue') : queue'[i] \in Envelopes /\ Young(queue'[i])
    BY <1>2, <1>3, <1>4, <2>2, <2>3
  <2>5. \A t \in Threads : handler[t].at # "idle"
            => handler[t].env \in Envelopes /\ Young(handler[t].env)
    BY <1>0 DEF GenerationInv, RequestInv
  <2> QED BY <1>0, <2>1, <2>4, <2>5 DEF GenerationInv, Young
<1>8. AnswerInv'
  BY <1>0, <1>1 DEF AnswerInv, AnswersOwnRequest, NoMissedAnswer
<1>9. OwnerInv'
  <2>1. Calling(request.req) /\ \A r \in Requests : Calling(r) <=> r = request.req
    BY <1>0 DEF Calling
  <2>2. \A i \in 1..Len(queue) : queue[i].req # request.req
    BY <1>0, <1>2, <2>1 DEF OwnerInv, Queued
  <2>3. \A r \in Requests : /\ ~Calling(r)' /\ Handled(r)' = Handled(r)
                            /\ Queued(r)' <=> Queued(r) \/ r = request.req
    BY <1>0, <1>3, <1>4 DEF Calling, Handled, Queued
  <2>4. \A i, j \in 1..Len(queue') : queue'[i].req = queue'[j].req => i = j
    BY <1>0, <1>3, <1>4, <2>2 DEF OwnerInv
  <2>5. ASSUME NEW r \in Requests
        PROVE  /\ freed'[r] <= 1
               /\ Queued(r)' => ~Handled(r)' /\ ~Calling(r)' /\ freed'[r] = 0
               /\ Handled(r)' => ~Calling(r)' /\ freed'[r] = 0
               /\ Queued(r)' \/ Handled(r)' \/ Calling(r)' \/ freed'[r] = 1
    BY <1>0, <1>2, <2>1, <2>3 DEF OwnerInv
  <2> QED BY <1>0, <1>1, <2>3, <2>4, <2>5 DEF OwnerInv
<1> QED BY <1>0, <1>5, <1>6, <1>7, <1>8, <1>9 DEF SnapshotInv, NoPushAfterQuit

-----------------------------------------------------------------------------
(* A call returns a of its own request, or of none.                         *)
LEMMA ReturnsFacts ==
  ASSUME SnapshotInv, Asking, NEW a \in Answers, Returns(a),
         a.req > 0 => a.req = request.req
  PROVE  /\ request \in Envelopes /\ request.req \in Requests
         /\ request.gen = gen[request.chan]
         /\ answer' \in Seq(Answers) /\ Len(answer') = Len(answer)
         /\ Requests' = Requests /\ Envelopes' = Envelopes
         /\ script' = "line" /\ asleep' = FALSE /\ request' = NoEnvelope /\ ~Asking'
         /\ \A r \in Requests : answer'[r].req > 0 => answer'[r].req = r
<1>1. /\ request \in Envelopes /\ request.req \in Requests
      /\ request.gen = gen[request.chan] /\ answer \in Seq(Answers)
  BY DEF SnapshotInv, RequestInv, Envelopes, SnapshotTypeOK
<1>2. answer' = [answer EXCEPT ![request.req] = a]
  BY DEF Returns
<1>3. /\ answer' \in Seq(Answers) /\ Len(answer') = Len(answer)
      /\ \A r \in 1..Len(answer) :
           answer'[r] = IF r = request.req THEN a ELSE answer[r]
  BY <1>1, <1>2, ExceptSeq DEF Requests
<1>4. Requests' = Requests /\ Envelopes' = Envelopes
  BY <1>3 DEF Requests, Envelopes
<1>5. \A r \in Requests : answer'[r].req > 0 => answer'[r].req = r
  BY <1>3 DEF SnapshotInv, AnswerInv, AnswersOwnRequest, Requests
<1> QED BY <1>1, <1>3, <1>4, <1>5 DEF Returns, Asking

(* A request returns with an answer, its own if any.                        *)
LEMMA ReturnInv ==
  ASSUME SnapshotInv, NEW a \in Answers, Returns(a), script = "wait",
         a.req > 0 => a.req = request.req,
         UNCHANGED <<channelVars, queue, freed, failures>>, WorkerOnly
  PROVE  SnapshotInv'
<1>0. /\ SnapshotTypeOK /\ NoPushAfterQuit /\ RequestInv /\ GenerationInv
      /\ AnswerInv /\ OwnerInv /\ Asking
      /\ UNCHANGED <<gen, done, result, registered, queue, handler, main,
                     handlers, freed, failures>>
  BY DEF SnapshotInv, WorkerOnly, channelVars, Asking
<1>1. /\ answer' \in Seq(Answers) /\ Len(answer') = Len(answer)
      /\ Requests' = Requests /\ Envelopes' = Envelopes
      /\ script' = "line" /\ asleep' = FALSE /\ request' = NoEnvelope /\ ~Asking'
      /\ \A r \in Requests : answer'[r].req > 0 => answer'[r].req = r
  BY <1>0, ReturnsFacts
<1>2. SnapshotTypeOK'
  BY <1>0, <1>1 DEF SnapshotTypeOK
<1>3. NoPushAfterQuit'
  BY <1>0 DEF NoPushAfterQuit
<1>4. RequestInv'
  BY <1>0, <1>1 DEF RequestInv
<1>5. GenerationInv'
  BY <1>0, <1>1 DEF GenerationInv, Young
<1>6. AnswerInv'
  BY <1>1 DEF AnswerInv, AnswersOwnRequest, NoMissedAnswer
<1>7. OwnerInv'
  <2>1. \A r \in Requests : /\ Queued(r)' = Queued(r) /\ Handled(r)' = Handled(r)
                            /\ ~Calling(r)' /\ ~Calling(r)
    BY <1>0, <1>1 DEF Queued, Handled, Calling
  <2> QED BY <1>0, <1>1, <2>1 DEF OwnerInv
<1> QED BY <1>2, <1>3, <1>4, <1>5, <1>6, <1>7 DEF SnapshotInv

(* The two ways in which a wait ends.                                       *)
LEMMA WaitReturnsInv ==
  ASSUME SnapshotInv, WaitEnds \/ TimesOut
  PROVE  SnapshotInv'
<1>1. /\ script = "wait" /\ Asking
      /\ UNCHANGED <<channelVars, queue, freed, failures>> /\ WorkerOnly
  BY DEF WaitEnds, TimesOut, Asking
<1>2. done[request.chan] => /\ result[request.chan] \in Answers
                            /\ result[request.chan].req = request.req
  BY <1>1 DEF SnapshotInv, SnapshotTypeOK, RequestInv, AnswerInv, Envelopes
<1>3. TimedOut \in Answers /\ TimedOut.req = 0
  BY DEF TimedOut, Answers
<1>4. CASE WaitEnds
  BY <1>1, <1>2, <1>4, ReturnInv DEF WaitEnds
<1>5. CASE TimesOut
  <2>1. lateAnswer(request.chan) \in Answers
    BY <1>2, <1>3 DEF lateAnswer
  <2>2. lateAnswer(request.chan).req > 0 => lateAnswer(request.chan).req = request.req
    BY <1>2, <1>3 DEF lateAnswer
  <2> QED BY <1>1, <1>5, <2>1, <2>2, ReturnInv DEF TimesOut
<1> QED BY <1>4, <1>5

(* A push that failed: the call frees its envelope and gives its generation *)
(* back.  No envelope under way has it.                                     *)
LEMMA RollbackInv ==
  ASSUME SnapshotInv, Rollback
  PROVE  SnapshotInv'
<1>0. /\ SnapshotTypeOK /\ NoPushAfterQuit /\ RequestInv /\ GenerationInv
      /\ AnswerInv /\ OwnerInv /\ Asking /\ main # "quit"
      /\ UNCHANGED <<done, result, registered, queue, handler, main, handlers,
                     failures>>
      /\ freed' = [freed EXCEPT ![request.req] = @ + 1]
      /\ script = "rollback"
  BY DEF SnapshotInv, NoPushAfterQuit, Rollback, WorkerOnly, Asking, Free
<1>1. /\ request \in Envelopes /\ request.req \in Requests
      /\ request.gen = gen[request.chan]
      /\ answer' \in Seq(Answers) /\ Len(answer') = Len(answer)
      /\ Requests' = Requests /\ Envelopes' = Envelopes
      /\ script' = "line" /\ asleep' = FALSE /\ request' = NoEnvelope /\ ~Asking'
      /\ \A r \in Requests : answer'[r].req > 0 => answer'[r].req = r
  <2>1. NotSent \in Answers /\ ~(NotSent.req > 0)
    BY DEF NotSent, Answers
  <2> QED BY <1>0, <2>1, ReturnsFacts DEF Rollback
<1>2. /\ request.chan \in Channels /\ request.gen \in Nat \ {0}
      /\ gen \in [Channels -> Nat] /\ gen' = [gen EXCEPT ![request.chan] = @ - 1]
  BY <1>0, <1>1 DEF Envelopes, SnapshotTypeOK, Rollback
<1>3. /\ freed \in Seq(Nat) /\ freed' \in Seq(Nat) /\ Len(freed') = Len(answer')
      /\ \A r \in Requests : freed'[r] = IF r = request.req THEN freed[r] + 1
                                                          ELSE freed[r]
  <2>1. freed \in Seq(Nat) /\ Len(freed) = Len(answer)
    BY <1>0 DEF SnapshotTypeOK
  <2>2. freed[request.req] + 1 \in Nat
    BY <1>1, <2>1, ElementOfSeq DEF Requests
  <2> QED BY <1>0, <1>1, <2>1, <2>2, ExceptSeq DEF Requests
<1>4. \A i \in 1..Len(queue) : queue[i] \in Envelopes
  BY <1>0, ElementOfSeq DEF SnapshotTypeOK
<1>5. Calling(request.req)
  BY <1>0 DEF Calling
<1>6. SnapshotTypeOK'
  <2>1. gen' \in [Channels -> Nat]
    BY <1>1, <1>2
  <2>2. \A c \in Channels : gen'[c] <= Len(answer')
    BY <1>0, <1>1, <1>2 DEF SnapshotTypeOK
  <2> QED BY <1>0, <1>1, <1>3, <2>1, <2>2 DEF SnapshotTypeOK
<1>7. NoPushAfterQuit'
  BY <1>0 DEF NoPushAfterQuit
<1>8. RequestInv'
  BY <1>0, <1>1 DEF RequestInv
<1>9. GenerationInv'
  <2>1. ASSUME NEW e \in Envelopes, Young(e), e.req # request.req
        PROVE  Young(e)'
    BY <1>0, <1>1, <1>2, <2>1 DEF Young, Envelopes
  <2>2. \A i \in 1..Len(queue) : queue[i].req # request.req /\ Young(queue[i])
    BY <1>0, <1>1, <1>5 DEF OwnerInv, Queued, GenerationInv
  <2>3. \A t \in Threads : handler[t].at # "idle" =>
          /\ handler[t].env \in Envelopes /\ handler[t].env.req # request.req
          /\ Young(handler[t].env)
    BY <1>0, <1>1, <1>5 DEF OwnerInv, Handled, GenerationInv, RequestInv
  <2> QED BY <1>0, <1>4, <2>1, <2>2, <2>3 DEF GenerationInv
<1>10. AnswerInv'
  BY <1>1 DEF AnswerInv, AnswersOwnRequest, NoMissedAnswer
<1>11. OwnerInv'
  <2>1. \A r \in Requests : /\ Queued(r)' = Queued(r) /\ Handled(r)' = Handled(r)
                            /\ ~Calling(r)' /\ (Calling(r) <=> r = request.req)
    BY <1>0, <1>1 DEF Queued, Handled, Calling
  <2> QED BY <1>0, <1>1, <1>3, <2>1 DEF OwnerInv
<1> QED BY <1>6, <1>7, <1>8, <1>9, <1>10, <1>11 DEF SnapshotInv

-----------------------------------------------------------------------------
(* The envelope goes from the queue to a thread that converts events.       *)
LEMMA TakesInv ==
  ASSUME SnapshotInv, NEW t \in Threads, Takes(t)
  PROVE  SnapshotInv'
<1> SUFFICES ASSUME NEW e, e = Head(queue) PROVE SnapshotInv'
  OBVIOUS
<1>0. /\ SnapshotTypeOK /\ NoPushAfterQuit /\ RequestInv /\ GenerationInv
      /\ AnswerInv /\ OwnerInv /\ main # "quit" /\ Asking' = Asking
      /\ UNCHANGED <<gen, done, result, registered, script, request, asleep,
                     main, handlers, answer, freed, failures>>
      /\ handler[t].at = "idle"
  BY DEF SnapshotInv, NoPushAfterQuit, Takes, HandlerOnly, Handles, Asking
<1>1. Requests' = Requests /\ Envelopes' = Envelopes
  BY <1>0 DEF Requests, Envelopes
<1>2. /\ e \in Envelopes /\ e = queue[1] /\ Len(queue) \in Nat \ {0}
      /\ queue' \in Seq(Envelopes) /\ Len(queue') = Len(queue) - 1
      /\ \A i \in 1..Len(queue') : queue'[i] = queue[i + 1]
      /\ \A i \in 1..Len(queue) : queue[i] \in Envelopes
  <2>1. queue \in Seq(Envelopes) /\ queue # <<>> /\ queue' = Tail(queue)
    BY <1>0 DEF SnapshotTypeOK, Takes
  <2>2. Len(queue) \in Nat \ {0}
    BY <2>1, EmptySeq
  <2> QED BY <2>1, <2>2, HeadTailProperties, ElementOfSeq
<1>3. /\ handler' = [handler EXCEPT ![t] = [at |-> "test", env |-> e]]
      /\ \A u \in Threads : handler'[u] = IF u = t THEN [at |-> "test", env |-> e]
                                                  ELSE handler[u]
  BY <1>0 DEF Takes, SnapshotTypeOK
<1>4. handler[t].env = NoEnvelope
  BY <1>0 DEF RequestInv
<1>5. SnapshotTypeOK'
  <2>1. handler' \in [Threads -> [at : {"idle", "test", "work", "signal"},
                                 env : Envelopes \union {NoEnvelope}]]
    BY <1>0, <1>2, <1>3 DEF SnapshotTypeOK
  <2> QED BY <1>0, <1>1, <1>2, <2>1 DEF SnapshotTypeOK
<1>6. NoPushAfterQuit'
  BY <1>0 DEF NoPushAfterQuit
<1>7. RequestInv'
  <2>1. \A u \in Threads : IF handler'[u].at = "idle"
                             THEN handler'[u].env = NoEnvelope
                             ELSE handler'[u].env \in Envelopes'
    BY <1>0, <1>1, <1>2, <1>3 DEF RequestInv
  <2> QED BY <1>0, <1>1, <2>1 DEF RequestInv
<1>8. GenerationInv'
  <2>1. \A i \in 1..Len(queue) : Young(queue[i])
    BY <1>0 DEF GenerationInv
  <2>2. \A u \in Threads : handler'[u].at # "idle" => Young(handler'[u].env)
    BY <1>0, <1>2, <1>3, <2>1 DEF GenerationInv
  <2>3. \A i \in 1..Len(queue') : Young(queue'[i])
    BY <1>2, <2>1
  <2> QED BY <1>0, <2>2, <2>3 DEF GenerationInv, Young
<1>9. AnswerInv'
  BY <1>0, <1>1 DEF AnswerInv, AnswersOwnRequest, NoMissedAnswer
<1>10. OwnerInv'
  <2>1. Queued(e.req) /\ e.req \in Requests
    BY <1>2 DEF Queued, Envelopes
  <2>2. /\ \A u \in Threads : handler[u].env.req # e.req
        /\ \A i \in 1..Len(queue') : queue'[i].req # e.req
    <3>1. \A u \in Threads : handler[u].env.req # e.req
      BY <1>0, <2>1 DEF OwnerInv, Handled
    <3>2. ASSUME NEW i \in 1..Len(queue') PROVE queue'[i].req # e.req
      BY <1>0, <1>2, <3>2 DEF OwnerInv
    <3> QED BY <3>1, <3>2
  <2>3. \A r \in Requests : Queued(r)' <=> Queued(r) /\ r # e.req
    <3>1. ASSUME NEW r \in Requests, NEW i \in 1..Len(queue), queue[i].req = r,
                 r # e.req
          PROVE  \E j \in 1..Len(queue') : queue'[j].req = r
      <4>1. i # 1 /\ i - 1 \in 1..Len(queue')
        BY <1>2, <3>1
      <4>2. queue'[i - 1] = queue[i]
        BY <1>2, <4>1
      <4> QED BY <3>1, <4>1, <4>2
    <3>2. ASSUME NEW i \in 1..Len(queue')
          PROVE  i + 1 \in 1..Len(queue) /\ queue[i + 1].req = queue'[i].req
      BY <1>2, <3>2
    <3>3. \A r \in Requests : Queued(r) /\ r # e.req => Queued(r)'
      BY <3>1 DEF Queued
    <3>4. ASSUME NEW r \in Requests, Queued(r)' PROVE Queued(r) /\ r # e.req
      <4>1. PICK i \in 1..Len(queue') : queue'[i].req = r
        BY <3>4 DEF Queued
      <4>2. r # e.req
        BY <2>2, <4>1
      <4>3. i + 1 \in 1..Len(queue) /\ queue[i + 1].req = r
        BY <3>2, <4>1
      <4> QED BY <4>2, <4>3 DEF Queued
    <3> QED BY <3>3, <3>4
  <2>4. \A r \in Requests : /\ Calling(r)' = Calling(r)
                            /\ Handled(r)' <=> Handled(r) \/ r = e.req
    <3>1. \A r \in Requests : handler[t].env.req # r
      BY <1>4, NoEnvelopeFacts DEF Requests
    <3>2. \A r \in Requests : Handled(r)' <=> Handled(r) \/ r = e.req
      BY <1>3, <3>1 DEF Handled
    <3> QED BY <1>0, <3>2 DEF Calling
  <2>5. \A i, j \in 1..Len(queue') : queue'[i].req = queue'[j].req => i = j
    BY <1>0, <1>2 DEF OwnerInv
  <2>6. \A u, v \in Threads :
          handler'[u].at # "idle" /\ handler'[u].env.req = handler'[v].env.req
            => u = v
    BY <1>0, <1>3, <2>2 DEF OwnerInv
  <2>7. ASSUME NEW r \in Requests
        PROVE  /\ freed'[r] <= 1
               /\ Queued(r)' => ~Handled(r)' /\ ~Calling(r)' /\ freed'[r] = 0
               /\ Handled(r)' => ~Calling(r)' /\ freed'[r] = 0
               /\ Calling(r)' => freed'[r] = 0
               /\ Queued(r)' \/ Handled(r)' \/ Calling(r)' \/ freed'[r] = 1
    BY <1>0, <2>1, <2>3, <2>4 DEF OwnerInv
  <2> QED BY <1>1, <2>5, <2>6, <2>7 DEF OwnerInv
<1> QED BY <1>5, <1>6, <1>7, <1>8, <1>9, <1>10 DEF SnapshotInv

(* What it has begun to do it goes on with.                                 *)
LEMMA WorksOnInv ==
  ASSUME SnapshotInv, NEW t \in Threads, Accept(t) \/ Work(t)
  PROVE  SnapshotInv'
<1>0. /\ SnapshotTypeOK /\ NoPushAfterQuit /\ RequestInv /\ GenerationInv
      /\ AnswerInv /\ OwnerInv /\ Asking' = Asking
      /\ UNCHANGED <<gen, done, result, registered, queue, script, request,
                     asleep, main, handlers, answer, freed, failures>>
      /\ handler[t].at # "idle"
  BY DEF SnapshotInv, Accept, Work, HandlerOnly, Handles, Asking
<1>1. Requests' = Requests /\ Envelopes' = Envelopes
  BY <1>0 DEF Requests, Envelopes
<1>2. PICK at \in {"work", "signal"} : handler' = [handler EXCEPT ![t].at = at]
  BY DEF Accept, Work
<1>3. /\ handler' \in [Threads -> [at : {"idle", "test", "work", "signal"},
                                   env : Envelopes \union {NoEnvelope}]]
      /\ \A u \in Threads : handler'[u].env = handler[u].env
      /\ \A u \in Threads : handler'[u].at = "idle" => handler[u].at = "idle"
      /\ \A u \in Threads : handler[u].at = "idle" => handler'[u].at = "idle"
  BY <1>0, <1>2 DEF SnapshotTypeOK
<1>4. SnapshotTypeOK'
  BY <1>0, <1>1, <1>3 DEF SnapshotTypeOK
<1>5. NoPushAfterQuit' /\ AnswerInv'
  BY <1>0, <1>1 DEF NoPushAfterQuit, AnswerInv, AnswersOwnRequest, NoMissedAnswer
<1>6. RequestInv'
  BY <1>0, <1>1, <1>3 DEF RequestInv
<1>7. GenerationInv'
  BY <1>0, <1>3 DEF GenerationInv, Young
<1>8. OwnerInv'
  <2>1. \A r \in Requests : Queued(r)' = Queued(r) /\ Calling(r)' = Calling(r)
    BY <1>0 DEF Queued, Calling
  <2>2. \A r \in Requests : Handled(r)' <=> Handled(r)
    BY <1>3 DEF Handled
  <2> QED BY <1>0, <1>1, <1>3, <2>1, <2>2 DEF OwnerInv
<1> QED BY <1>4, <1>5, <1>6, <1>7, <1>8 DEF SnapshotInv

(* What a handler frees was its own.                                        *)
LEMMA FinishFacts ==
  ASSUME SnapshotInv, NEW t \in Threads, handler[t].at # "idle", Finish(t),
         UNCHANGED <<queue, script, request, main, answer>>
  PROVE  /\ handler[t].env \in Envelopes /\ Young(handler[t].env)
         /\ Requests' = Requests /\ Envelopes' = Envelopes
         /\ handler' \in [Threads -> [at : {"idle", "test", "work", "signal"},
                                      env : Envelopes \union {NoEnvelope}]]
         /\ \A u \in Threads : IF u = t THEN /\ handler'[u].at = "idle"
                                             /\ handler'[u].env = NoEnvelope
                                        ELSE handler'[u] = handler[u]
         /\ freed' \in Seq(Nat) /\ Len(freed') = Len(answer')
         /\ OwnerInv'
<1>0. /\ SnapshotTypeOK /\ RequestInv /\ GenerationInv /\ OwnerInv
  BY DEF SnapshotInv
<1>1. Requests' = Requests /\ Envelopes' = Envelopes
  BY DEF Requests, Envelopes
<1> SUFFICES ASSUME NEW n, n = handler[t].env.req
             PROVE  /\ handler[t].env \in Envelopes /\ Young(handler[t].env)
                    /\ handler' \in [Threads -> [at : {"idle", "test", "work", "signal"},
                                                 env : Envelopes \union {NoEnvelope}]]
                    /\ \A u \in Threads :
                         IF u = t THEN /\ handler'[u].at = "idle"
                                       /\ handler'[u].env = NoEnvelope
                                  ELSE handler'[u] = handler[u]
                    /\ freed' \in Seq(Nat) /\ Len(freed') = Len(answer')
                    /\ OwnerInv'
  BY <1>1
<1>2. handler[t].env \in Envelopes /\ n \in Requests /\ Young(handler[t].env)
  BY <1>0 DEF RequestInv, GenerationInv, Envelopes
<1>3. /\ handler' = [handler EXCEPT ![t] = [at |-> "idle", env |-> NoEnvelope]]
      /\ freed' = [freed EXCEPT ![n] = @ + 1]
  BY DEF Finish, Free
<1>4. /\ freed' \in Seq(Nat) /\ Len(freed') = Len(answer')
      /\ \A r \in Requests : freed'[r] = IF r = n THEN freed[r] + 1 ELSE freed[r]
  <2>1. freed \in Seq(Nat) /\ Len(freed) = Len(answer)
    BY <1>0 DEF SnapshotTypeOK
  <2>2. freed[n] + 1 \in Nat
    BY <1>2, <2>1, ElementOfSeq DEF Requests
  <2> QED BY <1>2, <1>3, <2>1, <2>2, ExceptSeq DEF Requests
<1>5. /\ handler' \in [Threads -> [at : {"idle", "test", "work", "signal"},
                                   env : Envelopes \union {NoEnvelope}]]
      /\ \A u \in Threads : IF u = t THEN /\ handler'[u].at = "idle"
                                          /\ handler'[u].env = NoEnvelope
                                     ELSE handler'[u] = handler[u]
  BY <1>0, <1>3 DEF SnapshotTypeOK
<1>6. OwnerInv'
  <2>1. Handled(n)
    BY DEF Handled
  <2>2. \A r \in Requests : handler'[t].env.req # r
    BY <1>5, NoEnvelopeFacts DEF Requests
  <2>3. \A u \in Threads : u # t => handler[u].env.req # n
    BY <1>0 DEF OwnerInv
  <2>4. \A r \in Requests : Handled(r)' <=> Handled(r) /\ r # n
    BY <1>5, <2>2, <2>3 DEF Handled
  <2>5. \A r \in Requests : Queued(r)' = Queued(r) /\ Calling(r)' = Calling(r)
    BY DEF Queued, Calling
  <2>6. \A u, v \in Threads :
          handler'[u].at # "idle" /\ handler'[u].env.req = handler'[v].env.req
            => u = v
    <3>1. ASSUME NEW u \in Threads, NEW v \in Threads, handler'[u].at # "idle",
                 handler'[u].env.req = handler'[v].env.req
          PROVE  u = v
      <4>1. u # t /\ handler'[u] = handler[u] /\ handler[u].env.req \in Requests
        BY <1>0, <1>5, <3>1 DEF RequestInv, Envelopes
      <4>2. v # t /\ handler'[v] = handler[v]
        BY <1>5, <2>2, <3>1, <4>1
      <4> QED BY <1>0, <3>1, <4>1, <4>2 DEF OwnerInv
    <3> QED BY <3>1
  <2>7. \A i, j \in 1..Len(queue') : queue'[i].req = queue'[j].req => i = j
    BY <1>0 DEF OwnerInv
  <2>8. ASSUME NEW r \in Requests
        PROVE  /\ freed'[r] <= 1
               /\ Queued(r)' => ~Handled(r)' /\ ~Calling(r)' /\ freed'[r] = 0
               /\ Handled(r)' => ~Calling(r)' /\ freed'[r] = 0
               /\ Calling(r)' => freed'[r] = 0
               /\ main' # "quit" =>
                    Queued(r)' \/ Handled(r)' \/ Calling(r)' \/ freed'[r] = 1
    BY <1>0, <1>2, <1>4, <2>1, <2>4, <2>5 DEF OwnerInv
  <2> QED BY <1>1, <2>6, <2>7, <2>8 DEF OwnerInv
<1> QED BY <1>2, <1>4, <1>5, <1>6

(* A handler frees an envelope of an earlier request.                       *)
LEMMA DropStaleInv ==
  ASSUME SnapshotInv, NEW t \in Threads, DropStale(t)
  PROVE  SnapshotInv'
<1>0. /\ SnapshotTypeOK /\ NoPushAfterQuit /\ RequestInv /\ GenerationInv
      /\ AnswerInv /\ Asking' = Asking /\ handler[t].at # "idle" /\ Finish(t)
      /\ UNCHANGED <<gen, done, result, registered, queue, script, request,
                     asleep, main, handlers, answer, failures>>
  BY DEF SnapshotInv, DropStale, HandlerOnly, Handles, Asking
<1>1. /\ Requests' = Requests /\ Envelopes' = Envelopes
      /\ handler' \in [Threads -> [at : {"idle", "test", "work", "signal"},
                                   env : Envelopes \union {NoEnvelope}]]
      /\ \A u \in Threads : IF u = t THEN /\ handler'[u].at = "idle"
                                          /\ handler'[u].env = NoEnvelope
                                     ELSE handler'[u] = handler[u]
      /\ freed' \in Seq(Nat) /\ Len(freed') = Len(answer') /\ OwnerInv'
  BY <1>0, FinishFacts
<1>2. SnapshotTypeOK'
  BY <1>0, <1>1 DEF SnapshotTypeOK
<1>3. NoPushAfterQuit' /\ AnswerInv'
  BY <1>0, <1>1 DEF NoPushAfterQuit, AnswerInv, AnswersOwnRequest, NoMissedAnswer
<1>4. RequestInv'
  BY <1>0, <1>1 DEF RequestInv
<1>5. GenerationInv'
  BY <1>0, <1>1 DEF GenerationInv, Young
<1> QED BY <1>1, <1>2, <1>3, <1>4, <1>5 DEF SnapshotInv

(* The envelope of a handler that may answer is young and not stale: it is   *)
(* the one of the request that waits on its channel, if one does.           *)
LEMMA SignalInv ==
  ASSUME SnapshotInv, NEW t \in Threads, signalSnapshotResult(t)
  PROVE  SnapshotInv'
<1> SUFFICES ASSUME NEW e, e = handler[t].env PROVE SnapshotInv'
  OBVIOUS
<1>0. /\ SnapshotTypeOK /\ NoPushAfterQuit /\ RequestInv /\ GenerationInv
      /\ AnswerInv /\ Asking' = Asking /\ handler[t].at # "idle" /\ Finish(t)
      /\ UNCHANGED <<gen, registered, queue, script, request, main, handlers,
                     answer, failures>>
  BY DEF SnapshotInv, signalSnapshotResult, HandlerOnly, Handles, Asking
<1>1. /\ Requests' = Requests /\ Envelopes' = Envelopes
      /\ handler' \in [Threads -> [at : {"idle", "test", "work", "signal"},
                                   env : Envelopes \union {NoEnvelope}]]
      /\ \A u \in Threads : IF u = t THEN /\ handler'[u].at = "idle"
                                          /\ handler'[u].env = NoEnvelope
                                     ELSE handler'[u] = handler[u]
      /\ freed' \in Seq(Nat) /\ Len(freed') = Len(answer') /\ OwnerInv'
      /\ e \in Envelopes /\ Young(e)
  BY <1>0, FinishFacts
<1>2. e.chan \in Channels /\ e.req \in Int
  BY <1>1 DEF Envelopes, Requests
<1>3. \/ UNCHANGED <<result, done, asleep>>
      \/ /\ e.gen = gen[e.chan]
         /\ \E ok \in BOOLEAN : result' = [result EXCEPT ![e.chan] = Done(e.req, ok)]
         /\ done' = [done EXCEPT ![e.chan] = TRUE]
         /\ asleep' = (asleep /\ request.chan # e.chan)
  BY DEF signalSnapshotResult, mayAnswer, Stale
<1>4. /\ done' \in [Channels -> BOOLEAN] /\ result' \in [Channels -> Answers]
      /\ asleep' \in BOOLEAN
  <2>1. CASE UNCHANGED <<result, done, asleep>>
    BY <1>0, <2>1 DEF SnapshotTypeOK
  <2>2. CASE /\ e.gen = gen[e.chan]
             /\ \E ok \in BOOLEAN : result' = [result EXCEPT ![e.chan] = Done(e.req, ok)]
             /\ done' = [done EXCEPT ![e.chan] = TRUE]
             /\ asleep' = (asleep /\ request.chan # e.chan)
    <3>1. \A ok \in BOOLEAN : Done(e.req, ok) \in Answers
      BY <1>2 DEF Done, Answers
    <3>2. result' \in [Channels -> Answers]
      BY ZenonT(60), <1>0, <2>2, <3>1 DEF SnapshotTypeOK
    <3>3. done' \in [Channels -> BOOLEAN] /\ asleep' \in BOOLEAN
      BY <1>0, <2>2 DEF SnapshotTypeOK
    <3> QED BY <3>2, <3>3
  <2> QED BY <1>3, <2>1, <2>2
<1>5. SnapshotTypeOK'
  BY <1>0, <1>1, <1>4 DEF SnapshotTypeOK
<1>6. NoPushAfterQuit'
  BY <1>0 DEF NoPushAfterQuit
<1>7. RequestInv'
  <2>1. asleep' => asleep
    BY <1>3
  <2> QED BY <1>0, <1>1, <2>1 DEF RequestInv
<1>8. GenerationInv'
  BY <1>0, <1>1 DEF GenerationInv, Young
<1>9. AnswerInv'
  <2>1. asleep' => ~done'[request.chan]
    <3>1. asleep => request.chan \in Channels
      BY <1>0 DEF RequestInv, Asking, Envelopes
    <3> QED BY <1>0, <1>2, <1>3, <3>1
            DEF SnapshotTypeOK, AnswerInv, AnswersOwnRequest, NoMissedAnswer
  <2>2. ASSUME Asking, done'[request.chan]
        PROVE  result'[request.chan].req = request.req
    <3>1. request \in Envelopes /\ request.gen = gen[request.chan]
      BY <1>0, <2>2 DEF RequestInv
    <3>2. CASE UNCHANGED <<result, done, asleep>>
      BY <1>0, <2>2, <3>2 DEF AnswerInv
    <3>3. CASE /\ e.gen = gen[e.chan]
               /\ \E ok \in BOOLEAN :
                    result' = [result EXCEPT ![e.chan] = Done(e.req, ok)]
               /\ done' = [done EXCEPT ![e.chan] = TRUE]
      <4>1. CASE e.chan = request.chan
        <5>1. e.req = request.req
          BY <1>1, <2>2, <3>1, <3>3, <4>1 DEF Young
        <5> QED BY <1>0, <1>2, <3>3, <4>1, <5>1 DEF SnapshotTypeOK, Done
      <4>2. CASE e.chan # request.chan
        <5>1. /\ done'[request.chan] = done[request.chan]
              /\ result'[request.chan] = result[request.chan]
          BY <1>0, <3>1, <3>3, <4>2 DEF SnapshotTypeOK, Envelopes
        <5> QED BY <1>0, <2>2, <5>1 DEF AnswerInv
      <4> QED BY <4>1, <4>2
    <3> QED BY <1>3, <3>2, <3>3
  <2> QED BY <1>0, <1>1, <2>1, <2>2 DEF AnswerInv, AnswersOwnRequest, NoMissedAnswer
<1> QED BY <1>1, <1>5, <1>6, <1>7, <1>8, <1>9 DEF SnapshotInv

-----------------------------------------------------------------------------

(* Every step preserves the invariant.                                      *)
LEMMA SnapshotStepInv ==
  ASSUME SnapshotInv, [SnapshotNext]_snapshotVars
  PROVE  SnapshotInv'
<1>1. CASE QuietStep \/ Joined BY <1>1, ScriptStepInv, JoinedInv
<1>2. CASE \E c \in Channels : Prepare(c) \/ RegisterFails(c)
  BY <1>2, PrepareInv, RegisterFailsInv
<1>3. CASE Push \/ Rollback \/ WaitEnds \/ TimesOut
  BY <1>3, PushInv, RollbackInv, WaitReturnsInv
<1>4. CASE \E t \in Threads : HandlerStep(t)
  BY <1>4, TakesInv, WorksOnInv, DropStaleInv, SignalInv DEF HandlerStep
<1>5. CASE UNCHANGED snapshotVars
  BY SMTT(30), <1>5 DEF snapshotVars, channelVars, SnapshotInv, SnapshotTypeOK, NoPushAfterQuit,
      RequestInv, GenerationInv, AnswerInv, OwnerInv, Asking, Calling, Queued,
      Handled, Young, AnswersOwnRequest, NoMissedAnswer, Requests, Envelopes
<1> QED BY <1>1, <1>2, <1>3, <1>4, <1>5 DEF SnapshotNext, WorkerStep, QuietStep

(* The replay thread's round trips keep their inductive invariant, whatever *)
(* is pushed, handled, late, stale or rolled back (src/src/snapshot.c).     *)
THEOREM SnapshotInvariant == SnapshotSpec => []SnapshotInv
BY SnapshotInitInv, SnapshotStepInv, PTL DEF SnapshotSpec

-----------------------------------------------------------------------------
(* A call never returns another request's result, and the replay thread     *)
(* does not sleep beside an answer (snapshot.c: "so it does not satisfy a   *)
(* fresh waiter with the stale result").                                    *)
THEOREM SnapshotAnswersOwnRequest == SnapshotSpec => []AnswersOwnRequest
<1>1. SnapshotInv => AnswersOwnRequest
  BY DEF SnapshotInv, AnswerInv
<1> QED BY <1>1, SnapshotInvariant, PTL

(* The places of a request's envelope are one, and before SDL_Quit one is    *)
(* there.                                                                   *)
LEMMA OnePlace ==
  ASSUME SnapshotInv, NEW r \in Requests
  PROVE  /\ \A p, q \in Places(r) : p = q
         /\ main # "quit" => Places(r) # {}
<1>1. /\ OwnerInv /\ freed \in Seq(Nat) /\ r \in 1..Len(freed)
      /\ \A t \in Threads : handler[t].at = "idle" => handler[t].env.req # r
  BY NoEnvelopeFacts DEF SnapshotInv, SnapshotTypeOK, RequestInv, Requests
<1>2. freed[r] \in Nat /\ freed[r] <= 1
  BY <1>1, ElementOfSeq DEF OwnerInv
<1>3. ASSUME NEW p \in Places(r)
      PROVE  \/ \E i \in 1..Len(queue) : p = <<"queue", i>> /\ queue[i].req = r
             \/ \E t \in Threads : p = <<"handler", t>> /\ handler[t].env.req = r
             \/ p = <<"freed", 1>> /\ freed[r] = 1
             \/ p = <<"caller", script>> /\ Calling(r)
  BY <1>2, <1>3 DEF Places, Calling
<1>4. ASSUME NEW p \in Places(r), NEW q \in Places(r)
      PROVE  p = q
  <2>1. CASE Queued(r)
    <3>1. ~Handled(r) /\ ~Calling(r) /\ freed[r] = 0
      BY <1>1, <2>1 DEF OwnerInv
    <3>2. \E i \in 1..Len(queue) : p = <<"queue", i>> /\ queue[i].req = r
      BY <1>3, <3>1 DEF Handled
    <3>3. \E i \in 1..Len(queue) : q = <<"queue", i>> /\ queue[i].req = r
      BY <1>3, <3>1 DEF Handled
    <3> QED BY <1>1, <3>2, <3>3 DEF OwnerInv
  <2>2. CASE Handled(r)
    <3>1. ~Queued(r) /\ ~Calling(r) /\ freed[r] = 0
      BY <1>1, <2>2 DEF OwnerInv
    <3>2. \E t \in Threads : p = <<"handler", t>> /\ handler[t].env.req = r
      BY <1>3, <3>1 DEF Queued
    <3>3. \E t \in Threads : q = <<"handler", t>> /\ handler[t].env.req = r
      BY <1>3, <3>1 DEF Queued
    <3> QED BY <1>1, <3>2, <3>3 DEF OwnerInv
  <2>3. CASE ~Queued(r) /\ ~Handled(r)
    <3>1. \/ p = <<"freed", 1>> /\ freed[r] = 1
          \/ p = <<"caller", script>> /\ Calling(r)
      BY <1>3, <2>3 DEF Queued, Handled
    <3>2. \/ q = <<"freed", 1>> /\ freed[r] = 1
          \/ q = <<"caller", script>> /\ Calling(r)
      BY <1>3, <2>3 DEF Queued, Handled
    <3> QED BY <1>1, <3>1, <3>2 DEF OwnerInv
  <2> QED BY <2>1, <2>2, <2>3
<1>5. ASSUME main # "quit" PROVE Places(r) # {}
  <2>1. Queued(r) \/ Handled(r) \/ Calling(r) \/ freed[r] = 1
    BY <1>1, <1>5 DEF OwnerInv
  <2>2. CASE Queued(r)
    <3>1. PICK i \in 1..Len(queue) : queue[i].req = r
      BY <2>2 DEF Queued
    <3> QED BY <3>1 DEF Places
  <2>3. CASE Handled(r)
    <3>1. PICK t \in Threads : handler[t].env.req = r
      BY <2>3 DEF Handled
    <3> QED BY <3>1 DEF Places
  <2>4. CASE Calling(r) BY <2>4 DEF Calling, Places
  <2>5. CASE freed[r] = 1
    <3>1. <<"freed", 1>> \in Places(r)
      BY <2>5 DEF Places
    <3> QED BY <3>1
  <2> QED BY <2>1, <2>2, <2>3, <2>4, <2>5
<1> QED BY <1>4, <1>5

(* Nobody loses an envelope, shares it or frees it twice (snapshot.c:       *)
(* "freed in the handler, including the stale-event path").                 *)
THEOREM SnapshotEnvelopeOwnedOnce == SnapshotSpec => []EnvelopeOwnedOnce
<1>1. SnapshotInv => EnvelopeOwnedOnce
  BY OnePlace DEF SnapshotInv, EnvelopeOwnedOnce
<1> QED BY <1>1, SnapshotInvariant, PTL

(* A deadline never wins over an answer that has been given (snapshot.c:    *)
(* the flag is looked at once more after the wait).                         *)
THEOREM SnapshotGivenAnswerReturned == SnapshotSpec => GivenAnswerReturned
<1> DEFINE Given == \A r \in Requests :
      (answer[r] = Pending /\ answer'[r] # Pending /\ done[request.chan])
        => answer'[r] = result[request.chan] \/ answer'[r] = NotSent
<1>1. ASSUME SnapshotInv, SnapshotNext, NEW r \in Requests,
             answer[r] = Pending, answer'[r] # Pending, done[request.chan]
      PROVE  answer'[r] = result[request.chan] \/ answer'[r] = NotSent
  <2>0. answer \in Seq(Answers) /\ freed \in Seq(Nat) /\ Len(freed) = Len(answer)
    BY <1>1 DEF SnapshotInv, SnapshotTypeOK
  <2>1. CASE QuietStep \/ Joined \/ Push \/ \E t \in Threads : HandlerStep(t)
    <3>1. answer' = answer
      BY <2>1 DEF QuietStep, replayStartIfRequested, ScriptEnds, BeginConverge,
           EndConverge, PushFails, Sleep, replayStop, Joined, Push, HandlerStep,
           Takes, DropStale, Accept, Work, signalSnapshotResult, HandlerOnly
    <3> QED BY <1>1, <3>1
  <2>2. CASE \E c \in Channels : Prepare(c) \/ RegisterFails(c)
    <3>1. \E a : answer' = Append(answer, a)
      BY <2>2 DEF Prepare, RegisterFails
    <3>2. answer'[r] = answer[r]
      BY <2>0, <3>1, <2>2 DEF Requests
    <3> QED BY <1>1, <3>2
  <2>3. CASE Rollback
    BY <1>1, <2>0, <2>3 DEF Rollback, Returns, Requests
  <2>4. CASE WaitEnds \/ TimesOut
    <3>1. answer' = [answer EXCEPT ![request.req] = result[request.chan]]
      BY <1>1, <2>4 DEF WaitEnds, TimesOut, Returns, lateAnswer
    <3> QED BY <1>1, <2>0, <3>1 DEF Requests
  <2> QED BY <1>1, <2>1, <2>2, <2>3, <2>4 DEF SnapshotNext, WorkerStep, QuietStep
<1>2. SnapshotInv /\ [SnapshotNext]_snapshotVars => [Given]_snapshotVars
  BY <1>1
<1> QED BY <1>2, SnapshotInvariant, PTL DEF SnapshotSpec, GivenAnswerReturned
=============================================================================
