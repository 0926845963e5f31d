--------------------------- MODULE MCEventQueue ---------------------------
EXTENDS EventQueue
CONSTANTS main, t2, none, a, b
TwoThreads == {main, t2}
TwoWindows == {a, b}
Client(threads, calls_, kinds, events, maxCalls) ==
  [threads |-> threads, calls |-> calls_, kinds |-> kinds,
   maxEvents |-> events, maxCalls |-> maxCalls]
(* One thread that makes every call; one whose motions convert to crossings; *)
(* two threads that take from the queues and nest routed destroys.           *)
ThreeClients ==
  {Client({main}, {"next", "check", "putBack"}, {"plain", "swallow"}, 4, 4),
   Client({main}, {"next"}, {"plain", "crossing"}, 4, 4),
   Client({main, t2}, {"next", "check"},
          {"plain", "swallow", "crossing", "destroy"}, 3, 2)}
(* One thread whose drains convert crossings.                                *)
CrossingClient == {Client({main}, {}, {"plain", "crossing"}, 3, 2)}
=============================================================================
