------------------------------ MODULE Snapshot ------------------------------
(***************************************************************************)
(* The synchronous round trips of the replay thread (src/src/snapshot.c,    *)
(* src/src/state-snapshot.c, src/src/replay.c): it stamps an envelope with  *)
(* a generation, pushes it as an SDL event and waits on a condition         *)
(* variable, with a deadline, for a thread that converts events to do the   *)
(* work.  snapshot, resize and focus-at share one generation, one result    *)
(* and one condition variable; state-snapshot has its own: two channels.    *)
(* XCloseDisplay on the last display stops and joins the replay thread.     *)
(* Each critical section of a channel's mutex is one step.                  *)
(***************************************************************************)
EXTENDS Integers, Sequences

CONSTANTS Channels,     \* "snapshot" and "state"
          Threads,      \* that may convert events
          Main,         \* the one that also closes the display
          Handlers,     \* the sets of threads to explore
          MaxRequests,  \* bound: lines of the script that make a request
          MaxFailures   \* bound: calls of SDL_PushEvent that fail

ASSUME SnapshotAssumption ==
  /\ Main \in Threads /\ Handlers \subseteq SUBSET Threads
  /\ MaxRequests \in Nat /\ MaxFailures \in Nat

VARIABLES gen, done, result,  \* per channel: snapshotGeneration, ...
          registered,         \* per channel: its event type is registered
          queue,              \* envelopes in SDL's queue
          script,             \* where the replay thread is
          request,            \* the envelope it is waiting for
          asleep,             \* it sleeps in pthread_cond_timedwait
          handler,            \* per thread: where it is, and its envelope
          main,               \* "running", "joining" in replayStop, "quit"
          handlers,           \* the threads that convert events, for good
          answer,             \* per request: what the call returned
          freed,              \* per request: times its envelope was freed
          failures

channelVars == <<gen, done, result, registered>>
snapshotVars == <<channelVars, queue, script, request, asleep, handler, main,
          handlers, answer, freed, failures>>

Requests == 1..Len(answer)

(* req is the number of the request, for the properties only.               *)
Envelope(c, g, r) == [chan |-> c, gen |-> g, req |-> r]
NoEnvelope == Envelope(CHOOSE c \in Channels : TRUE, 0, 0)

(* A result names the request its handler worked for.                       *)
Done(r, ok) == [req |-> r, ok |-> ok]
NoResult == Done(0, TRUE)
TimedOut == [req |-> 0, ok |-> FALSE]   \* -4
NotSent == [req |-> -1, ok |-> FALSE]   \* -2
Pending == [req |-> -2, ok |-> FALSE]   \* the call has not returned

SnapshotInit ==
  /\ gen = [c \in Channels |-> 0]
  /\ done = [c \in Channels |-> FALSE]
  /\ result = [c \in Channels |-> NoResult]
  /\ registered = [c \in Channels |-> FALSE]
  /\ queue = <<>>
  /\ script = "unborn" /\ request = NoEnvelope /\ asleep = FALSE
  /\ handler = [t \in Threads |-> [at |-> "idle", env |-> NoEnvelope]]
  /\ main = "running"
  /\ handlers \in Handlers
  /\ answer = <<>> /\ freed = <<>>
  /\ failures = 0

-----------------------------------------------------------------------------
(* The replay thread.                                                       *)
WorkerOnly ==
  UNCHANGED <<handler, main, handlers>>

replayStartIfRequested ==
  /\ script = "unborn" /\ main = "running"
  /\ script' = "line"
  /\ UNCHANGED <<channelVars, queue, request, asleep, answer, freed, failures>>
  /\ WorkerOnly

(* fgets, then the stop flag: the script ends at its end or at the flag.     *)
Stopping == main # "running"

ScriptEnds ==
  /\ script = "line"
  /\ script' = "ended"
  /\ UNCHANGED <<channelVars, queue, request, asleep, answer, freed, failures>>
  /\ WorkerOnly

(* wait-converge sleeps until its own deadline, whatever the flag says.     *)
BeginConverge ==
  /\ script = "line" /\ ~Stopping
  /\ script' = "converge"
  /\ UNCHANGED <<channelVars, queue, request, asleep, answer, freed, failures>>
  /\ WorkerOnly

EndConverge ==
  /\ script = "converge"
  /\ script' = "line"
  /\ UNCHANGED <<channelVars, queue, request, asleep, answer, freed, failures>>
  /\ WorkerOnly

(* prepareSnapshotRoundTrip: register the event type, arm done and result,  *)
(* advance the generation.                                                  *)
prepareRoundTrip(c) ==
  /\ registered' = [registered EXCEPT ![c] = TRUE]
  /\ done' = [done EXCEPT ![c] = FALSE]
  /\ result' = [result EXCEPT ![c] = NoResult]
  /\ gen' = [gen EXCEPT ![c] = @ + 1]

Prepare(c) ==
  /\ script = "line" /\ ~Stopping
  /\ Len(answer) < MaxRequests
  /\ prepareRoundTrip(c)
  /\ answer' = Append(answer, Pending)
  /\ freed' = Append(freed, 0)
  /\ request' = Envelope(c, gen'[c], Len(answer'))
  /\ script' = "push"
  /\ UNCHANGED <<queue, asleep, failures>>
  /\ WorkerOnly

(* The call returns, and frees its envelope when nobody else has it.        *)
Returns(a) ==
  /\ answer' = [answer EXCEPT ![request.req] = a]
  /\ script' = "line" /\ request' = NoEnvelope /\ asleep' = FALSE

Free(r) == freed' = [freed EXCEPT ![r] = @ + 1]

RegisterFails(c) ==
  /\ script = "line" /\ ~Stopping
  /\ ~registered[c]
  /\ Len(answer) < MaxRequests /\ failures < MaxFailures
  /\ failures' = failures + 1
  /\ answer' = Append(answer, NotSent)
  /\ freed' = Append(freed, 1)
  /\ UNCHANGED <<channelVars, queue, script, request, asleep>>
  /\ WorkerOnly

Push ==
  /\ script = "push"
  /\ queue' = Append(queue, request)
  /\ script' = "wait"
  /\ UNCHANGED <<channelVars, request, asleep, answer, freed, failures>>
  /\ WorkerOnly

PushFails ==
  /\ script = "push" /\ failures < MaxFailures
  /\ failures' = failures + 1
  /\ script' = "rollback"
  /\ UNCHANGED <<channelVars, queue, request, asleep, answer, freed>>
  /\ WorkerOnly

(* rollbackSnapshotGeneration: only one's own generation.                   *)
Rollback ==
  /\ script = "rollback"
  /\ gen' = [gen EXCEPT ![request.chan] = IF @ = request.gen THEN @ - 1 ELSE @]
  /\ Returns(NotSent)
  /\ Free(request.req)
  /\ UNCHANGED <<done, result, registered, queue, failures>>
  /\ WorkerOnly

(* waitSnapshotResult: the loop around pthread_cond_timedwait.              *)
Sleep ==
  /\ script = "wait" /\ ~asleep
  /\ ~done[request.chan]
  /\ asleep' = TRUE
  /\ UNCHANGED <<channelVars, queue, script, request, answer, freed, failures>>
  /\ WorkerOnly

WaitEnds ==
  /\ script = "wait" /\ ~asleep
  /\ done[request.chan]
  /\ Returns(result[request.chan])
  /\ UNCHANGED <<channelVars, queue, freed, failures>>
  /\ WorkerOnly

(* The deadline passes.  The flag is looked at once more.                   *)
lateIsTimeout(c) == TimedOut

lateAnswer(c) == IF done[c] THEN result[c] ELSE TimedOut

NoDeadline == script = "wait" /\ FALSE /\ UNCHANGED snapshotVars

TimesOut ==
  /\ script = "wait"
  /\ Returns(lateAnswer(request.chan))
  /\ UNCHANGED <<channelVars, queue, freed, failures>>
  /\ WorkerOnly

WorkerStep ==
  \/ EndConverge \/ Push \/ Rollback \/ Sleep \/ WaitEnds

-----------------------------------------------------------------------------
(* A thread that converts events.  The main thread does not while it joins.  *)
Handles(t, stage) == t \in handlers /\ handler[t].at = stage

Converts(t) == t # Main \/ main = "running"

HandlerOnly ==
  UNCHANGED <<registered, script, request, main, handlers, answer, failures>>

Takes(t) ==
  /\ Handles(t, "idle") /\ Converts(t) /\ queue # <<>>
  /\ handler' = [handler EXCEPT ![t] = [at |-> "test", env |-> Head(queue)]]
  /\ queue' = Tail(queue)
  /\ UNCHANGED <<gen, done, result, asleep, freed>>
  /\ HandlerOnly

Finish(t) ==
  /\ handler' = [handler EXCEPT ![t] = [at |-> "idle", env |-> NoEnvelope]]
  /\ Free(handler[t].env.req)

Stale(e) == e.gen # gen[e.chan]

DropLeaks(t) ==
  /\ Handles(t, "test")
  /\ Stale(handler[t].env)
  /\ handler' = [handler EXCEPT ![t] = [at |-> "idle", env |-> NoEnvelope]]
  /\ UNCHANGED <<gen, done, result, queue, asleep, freed>>
  /\ HandlerOnly

DropStale(t) ==
  /\ Handles(t, "test")
  /\ Stale(handler[t].env)
  /\ Finish(t)
  /\ UNCHANGED <<gen, done, result, queue, asleep>>
  /\ HandlerOnly

(* The work is done outside the mutex.                                      *)
Accept(t) ==
  /\ Handles(t, "test")
  /\ ~Stale(handler[t].env)
  /\ handler' = [handler EXCEPT ![t].at = "work"]
  /\ UNCHANGED <<gen, done, result, queue, asleep, freed>>
  /\ HandlerOnly

Work(t) ==
  /\ Handles(t, "work")
  /\ handler' = [handler EXCEPT ![t].at = "signal"]
  /\ UNCHANGED <<gen, done, result, queue, asleep, freed>>
  /\ HandlerOnly

(* signalSnapshotResult looks at the generation again.                      *)
answersAny(e) == e.req > 0

mayAnswer(e) == ~Stale(e)

signalSnapshotResult(t) ==
  /\ Handles(t, "signal")
  /\ LET e == handler[t].env
     IN  IF mayAnswer(e)
           THEN /\ \E ok \in BOOLEAN :
                     result' = [result EXCEPT ![e.chan] = Done(e.req, ok)]
                /\ done' = [done EXCEPT ![e.chan] = TRUE]
                /\ asleep' = (asleep /\ request.chan # e.chan)
           ELSE UNCHANGED <<result, done, asleep>>
  /\ Finish(t)
  /\ UNCHANGED <<gen, queue>>
  /\ HandlerOnly

HandlerStep(t) ==
  Takes(t) \/ DropStale(t) \/ Accept(t) \/ Work(t) \/ signalSnapshotResult(t)

-----------------------------------------------------------------------------
(* XCloseDisplay on the last display: replayStop sets the flag and joins    *)
(* the replay thread; SDL_Quit empties the queue.                           *)
replayStop ==
  /\ main = "running" /\ handler[Main].at = "idle"
  /\ main' = "joining"
  /\ UNCHANGED <<channelVars, queue, script, request, asleep, handler,
                 handlers, answer, freed, failures>>

Joined ==
  /\ main = "joining"
  /\ script \in {"unborn", "ended"}
  /\ main' = "quit"
  /\ queue' = <<>>
  /\ UNCHANGED <<channelVars, script, request, asleep, handler,
                 handlers, answer, freed, failures>>

SnapshotNext ==
  \/ replayStartIfRequested \/ ScriptEnds \/ BeginConverge
  \/ \E c \in Channels : Prepare(c) \/ RegisterFails(c)
  \/ PushFails \/ TimesOut \/ WorkerStep
  \/ \E t \in Threads : HandlerStep(t)
  \/ replayStop \/ Joined

(* Threads run, a deadline passes, a script has an end.                     *)
SnapshotFairness ==
  /\ WF_snapshotVars(WorkerStep) /\ WF_snapshotVars(TimesOut)
  /\ WF_snapshotVars(Stopping /\ ScriptEnds) /\ WF_snapshotVars(Joined)
  /\ \A t \in Threads : WF_snapshotVars(HandlerStep(t))

SnapshotSpec == SnapshotInit /\ [][SnapshotNext]_snapshotVars

-----------------------------------------------------------------------------
(* Types.                                                                   *)
Envelopes == [chan : Channels, gen : Nat \ {0}, req : Requests]
Answers == [req : Int, ok : BOOLEAN]

SnapshotTypeOK ==
  /\ gen \in [Channels -> Nat] /\ \A c \in Channels : gen[c] <= Len(answer)
  /\ done \in [Channels -> BOOLEAN] /\ registered \in [Channels -> BOOLEAN]
  /\ result \in [Channels -> Answers]
  /\ queue \in Seq(Envelopes)
  /\ request \in Envelopes \union {NoEnvelope} /\ asleep \in BOOLEAN
  /\ script \in {"unborn", "line", "converge", "push", "rollback", "wait",
                 "ended"}
  /\ handler \in [Threads -> [at : {"idle", "test", "work", "signal"},
                              env : Envelopes \union {NoEnvelope}]]
  /\ main \in {"running", "joining", "quit"} /\ handlers \subseteq Threads
  /\ answer \in Seq(Answers) /\ Len(answer) <= MaxRequests
  /\ freed \in Seq(Nat) /\ Len(freed) = Len(answer)
  /\ failures \in 0..MaxFailures

(* A call returns the result of its own request, or says that there is      *)
(* none, in spite of stranded events, late handlers and generations that a  *)
(* failed push hands out again ("so it does not satisfy a fresh waiter with *)
(* the stale result").  And the replay thread does not sleep beside an      *)
(* answer, whenever it came.                                                *)
NoMissedAnswer == asleep => ~done[request.chan]
AnswersOwnRequest ==
  /\ NoMissedAnswer
  /\ \A r \in Requests : answer[r].req > 0 => answer[r].req = r

(* A deadline that passes does not win over an answer that has been given:  *)
(* the call returns the answer ("Block up to 120s for the main thread to    *)
(* finish the round-trip").                                                 *)
GivenAnswerReturned ==
  [][\A r \in Requests :
       (answer[r] = Pending /\ answer'[r] # Pending /\ done[request.chan])
         => answer'[r] = result[request.chan] \/ answer'[r] = NotSent]_snapshotVars

(* Every envelope is at any time in exactly one place or has been freed,    *)
(* once, until SDL_Quit drops the queue ("freed in the handler, including   *)
(* the stale-event path so timed-out requests do not leak").  And nothing is *)
(* pushed into SDL once it is quit ("no pushed event survives SDL_Quit").    *)
NoPushAfterQuit ==
  main = "quit" => script \in {"unborn", "ended"} /\ queue = <<>>
Places(r) ==
  {<<"queue", i>> : i \in {j \in 1..Len(queue) : queue[j].req = r}}
    \union {<<"handler", t>> : t \in {u \in Threads : handler[u].env.req = r}}
    \union {<<"freed", n>> : n \in 1..freed[r]}
    \union {<<"caller", s>> : s \in {x \in {"push", "rollback"} :
                                       script = x /\ request.req = r}}

EnvelopeOwnedOnce ==
  /\ SnapshotTypeOK /\ NoPushAfterQuit
  /\ \A r \in Requests : /\ \A p, q \in Places(r) : p = q
                         /\ main # "quit" => Places(r) # {}

(* A thread that the main thread joins does not itself wait for the main    *)
(* thread ("so the join completes within ~50ms of the flag being set").     *)
JoinIsPrompt ==
  ~ /\ main = "joining" /\ handlers = {Main}
    /\ script = "wait" /\ ~done[request.chan]

(* XCloseDisplay gets past the join, although the main thread that answers  *)
(* the replay thread is the one that waits for it.                          *)
StopReturns == (main = "joining") ~> (main = "quit")
=============================================================================
