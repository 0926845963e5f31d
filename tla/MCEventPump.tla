---------------------------- MODULE MCEventPump ----------------------------
(* The threads around the wake pipe, and the replay thread with those that   *)
(* answer it.  The replay thread works while a client that has nothing to do *)
(* sleeps; what else that client might do is in the other behaviours.        *)
EXTENDS EventPump, Snapshot
CONSTANTS s1, r1, main_, t2
OneSender == {s1}
OneWaker == {r1}
TwoThreads == {main_, t2}
AloneOrBoth == {{main_}, {main_, t2}}
BothChannels == {"snapshot", "state"}
Client(threads, timerRuns, blocks, events) ==
  [threads |-> threads, timer |-> timerRuns, blocking |-> blocks,
   maxEvents |-> events]
(* A polling client without and with the timer, one that blocks while two    *)
(* other threads push and wake, and the one with nothing to do.              *)
Resting == Client({}, FALSE, FALSE, 0)
FourClients ==
  {Client({}, FALSE, FALSE, 7), Client({}, TRUE, FALSE, 4),
   Client({s1, r1}, TRUE, TRUE, 3), Resting}
(* A polling client and a thread that sends.                                *)
PollingWithSender == {Client({s1}, FALSE, FALSE, 3)}

bothVars == <<vars, snapshotVars>>
BothInit ==
  /\ Init /\ SnapshotInit
  /\ client # Resting => handlers = {Main}
BothNext ==
  \/ Next /\ UNCHANGED snapshotVars
  \/ client = Resting /\ Asleep /\ SnapshotNext /\ UNCHANGED vars
BothSpec == BothInit /\ [][BothNext]_bothVars
FairBothSpec == BothSpec /\ Fairness /\ SnapshotFairness
=============================================================================
