----------------------- MODULE XcbConnection_proofs -----------------------
(***************************************************************************)
(* Proofs about the XCB connection, for any number of threads and records.  *)
(*                                                                          *)
(* ConnectionInv is the inductive invariant of the records and the threads  *)
(* on them, CookieInv that of the answers, which rests on it: a record that *)
(* is built or freed is none the client has cookies for.  Each way a step   *)
(* can go has a lemma, and the lemmas of ConnectionInv are laid out alike:  *)
(* <1>2 and after, the record and the thread; <1>3, the functions the step       *)
(* changes; <1>4, what else it changes and its guards; <1>5, the same field *)
(* by field; <1>6, the display's record; then the invariant's parts.        *)
(***************************************************************************)
EXTENDS XcbConnection, FiniteSetTheorems, TLAPS

(* Where a thread is.                                                      *)
TakeLabels == {"queued", "next", "woken", "leave"}
CallbackLabels == {"closing", "awaitUsers", "closed", "endClosed"}
Labels == {"idle", "setup", "teardown"} \union TakeLabels \union CallbackLabels
            \union Disconnecting
RecordType == [live : BOOLEAN, display : BOOLEAN, ownsDisplay : BOOLEAN,
               closing : BOOLEAN, eventUsers : Nat, closeCallbacks : Nat,
               errors : Nat]

(* The types of what the client and the threads share.                      *)
Types ==
  /\ session \in Sessions /\ open \in BOOLEAN /\ openings \in Nat /\ queued \in Nat
  /\ connections \subseteq Records /\ handles \subseteq connections
  /\ record \in [Records -> RecordType]
  /\ gcs \in [Records -> Nat]
  /\ step \in [Users -> [at : Labels, on : Records \union {NoRecord}]]
  /\ sleepers \subseteq Users

(* A thread in a call is on a record, and the record is not freed.          *)
OnInv ==
  \A u \in Users :
    IF step[u].at \in {"idle", "teardown"} THEN Using(u) = NoRecord
    ELSE Using(u) \in Records /\ record[Using(u)].live

(* A record counts the threads that take events on it, and those in a close *)
(* callback; one that is free counts none.                                  *)
Takers(c) == {u \in Users : step[u].at \in TakeLabels /\ Using(u) = c}
Callers(c) == {u \in Users : step[u].at \in CallbackLabels /\ Using(u) = c}
CountInv ==
  \A c \in Records :
    /\ record[c].eventUsers = Cardinality(Takers(c))
    /\ record[c].closeCallbacks = Cardinality(Callers(c))

(* The list has one record of a display at a time, and one that is closing  *)
(* has a thread on it that will take the display out of it.                 *)
ListInv ==
  /\ \A c \in connections : record[c].live
  /\ \A c, d \in connectionForDisplay : c = d
  /\ \A c \in connectionForDisplay :
       /\ open
       /\ record[c].closing =>
            \E u \in Users : /\ Using(u) = c
                             /\ step[u].at \in {"awaitUsers", "awaitLast", "unlist"}

(* Who takes events is on the display's record.                             *)
TakeInv == \A u \in Users : step[u].at \in TakeLabels => Using(u) \in connectionForDisplay

(* A record being built is known to one thread, while the others may only   *)
(* take events.                                                             *)
SetupInv ==
  \A u \in Users : step[u].at = "setup" =>
    /\ open /\ ~session.owned
    /\ Using(u) \notin connections /\ record[Using(u)].display /\ ~record[Using(u)].closing
    /\ \A v \in Users \ {u} : /\ step[v].at \in TakingEvent \union {"setup"}
                              /\ Using(v) # Using(u)

(* One thread closes the display; beside it others disconnect.              *)
CallbackInv ==
  \A u \in Users : step[u].at \in CallbackLabels \union {"teardown"} =>
    /\ ~session.owned
    /\ \A v \in Users \ {u} : step[v].at \in TakingEvent \union Disconnecting
    /\ IF step[u].at \in {"closing", "awaitUsers"}
       THEN connectionForDisplay \subseteq {Using(u)}
       ELSE connectionForDisplay = {}
    /\ step[u].at = "awaitUsers" => record[Using(u)].closing

(* Disconnecting, a thread has the record to itself: it has left the client's *)
(* hands, then the event users, the list and the callbacks.                 *)
DisconnectInv ==
  \A u \in Users : step[u].at \in Disconnecting =>
    /\ Using(u) \notin handles /\ record[Using(u)].closing
    /\ \A v \in Users \ {u} : step[v].at \in Disconnecting => Using(v) # Using(u)
    /\ step[u].at \notin {"awaitLast", "unlist"} => Using(u) \notin connections
    /\ step[u].at # "awaitLast" => record[Using(u)].eventUsers = 0
    /\ step[u].at \in {"release", "releaseOwned", "closeOwned", "free"} =>
         record[Using(u)].closeCallbacks = 0 /\ ~record[Using(u)].display

(* A connection that opened its display is the only record there is, until  *)
(* the one that disconnects closes and frees it.                            *)
OwnedInv ==
  IF session.owned
  THEN /\ \A c, d \in Records : record[c].live /\ record[d].live => c = d
       /\ \A c \in Records : record[c].live =>
            \/ open /\ record[c].ownsDisplay
            \/ \E u \in Users : /\ Using(u) = c
                                /\ \/ open /\ step[u].at \in {"releaseOwned", "closeOwned"}
                                   \/ step[u].at = "free"
       /\ \A u \in Users :
            step[u].at \notin CallbackLabels \union {"teardown", "setup", "release"}
  ELSE /\ \A c \in Records : ~record[c].ownsDisplay
       /\ \A u \in Users : step[u].at \notin {"releaseOwned", "closeOwned"}

(* A thread sleeps only while its condition is false.                       *)
SleepInv ==
  \A u \in sleepers :
    /\ step[u].at \in {"awaitUsers", "awaitLast", "awaitCallbacks"}
    /\ IF step[u].at = "awaitCallbacks" THEN record[Using(u)].closeCallbacks > 0
       ELSE record[Using(u)].eventUsers > 0

(* Where the two may not overlap, one thread closes or disconnects.         *)
OneCloserInv ==
  ~session.together =>
    \A u, v \in Users :
      (step[u].at \notin TakingEvent \union {"setup"}
         /\ step[v].at \notin TakingEvent \union {"setup"}) => u = v

(* GCs are those of the display's record, or of one that is on its way to   *)
(* take them away.                                                          *)
GcInv ==
  ~session.together =>
    \A c \in Records : gcs[c] # 0 =>
      /\ open /\ gcs[c] = openings
      /\ \/ c \in connectionForDisplay
         \/ \E u \in Users :
              /\ Using(u) = c
              /\ step[u].at \in {"closed", "awaitCallbacks", "release", "releaseOwned"}

(* A cookie's answer is under its key while the display is open, and the    *)
(* table is empty afterwards.                                               *)
FindsOwn(k) ==
  IF record[k.on].display
  THEN /\ KeyOf(k.kind, k.of) \in DOMAIN pending[k.on]
       /\ pending[k.on][KeyOf(k.kind, k.of)] = k.of
  ELSE DOMAIN pending[k.on] = {}

(* The cookies a client has are on connections in its hands, each for one   *)
(* of the last Narrow requests of its connection.                           *)
Recent(k) == k.of > 0 /\ k.of <= last[k.on] /\ last[k.on] < k.of + Narrow
CookieInv ==
  /\ last \in [Records -> Nat]
  /\ pending = [c \in Records |-> pending[c]]
  /\ cookies \subseteq [kind : {"checked", "replying"}, on : Records, of : Nat]
  /\ \A k \in cookies : k.on \in handles /\ Recent(k) /\ FindsOwn(k)
  /\ \A k, l \in cookies : k.on = l.on /\ k.of = l.of => k = l

ConnectionInv ==
  /\ Types /\ OnInv /\ CountInv /\ ListInv /\ TakeInv /\ SetupInv /\ CallbackInv
  /\ DisconnectInv /\ OwnedInv /\ SleepInv /\ OneCloserInv /\ GcInv

-----------------------------------------------------------------------------

(* Sets of threads are finite: counting them.                               *)
LEMMA UserSets ==
  ASSUME NEW S, S \subseteq Users
  PROVE  /\ Cardinality(S) \in Nat
         /\ Cardinality(S) = 0 <=> S = {}
         /\ \A u : /\ u \notin S => Cardinality(S \union {u}) = Cardinality(S) + 1
                   /\ u \in S => Cardinality(S \ {u}) = Cardinality(S) - 1
<1>1. IsFiniteSet(S)
  BY SessionsAssumption, FS_Subset
<1>2. ASSUME NEW u, u \notin S PROVE Cardinality(S \union {u}) = Cardinality(S) + 1
  BY <1>1, <1>2, FS_AddElement
<1>3. ASSUME NEW u, u \in S PROVE Cardinality(S \ {u}) = Cardinality(S) - 1
  BY <1>1, <1>3, FS_RemoveElement
<1> QED BY <1>1, <1>2, <1>3, FS_CardinalityType, FS_EmptySet

(* What the steps make of a record is a record.                             *)
LEMMA WrapperFacts ==
  /\ Freed \in RecordType
  /\ \A owns \in BOOLEAN : Wrapper(owns) \in RecordType
  /\ \A r \in RecordType :
       /\ [r EXCEPT !.closing = TRUE] \in RecordType
       /\ [r EXCEPT !.display = FALSE, !.ownsDisplay = FALSE] \in RecordType
       /\ [r EXCEPT !.display = FALSE, !.ownsDisplay = FALSE, !.errors = 0] \in RecordType
       /\ [r EXCEPT !.closing = TRUE, !.display = FALSE, !.ownsDisplay = FALSE,
                    !.errors = 0] \in RecordType
BY DEF Freed, Wrapper, RecordType

(* What the invariant says of types, field by field.                        *)
FlatTypes ==
  /\ connections \subseteq Records /\ handles \subseteq connections /\ sleepers \subseteq Users
  /\ connectionForDisplay \subseteq connections
  /\ \A u \in Users :
       /\ step[u].at \in Labels
       /\ IF step[u].at \in {"idle", "teardown"} THEN step[u].on = NoRecord
          ELSE step[u].on \in Records
  /\ \A c \in Records :
       /\ record[c].live \in BOOLEAN /\ record[c].display \in BOOLEAN
       /\ record[c].ownsDisplay \in BOOLEAN /\ record[c].closing \in BOOLEAN
       /\ record[c].eventUsers \in Nat /\ record[c].closeCallbacks \in Nat
       /\ gcs[c] \in Nat

(* Which the invariant implies.                                             *)
LEMMA TypesFlat == ConnectionInv => FlatTypes
BY DEF ConnectionInv, Types, FlatTypes, RecordType, connectionForDisplay, OnInv, Using

(* A record that counts nobody is one that nobody is on.                    *)
LEMMA NobodyCounted ==
  ASSUME ConnectionInv, NEW c \in Records
  PROVE  /\ record[c].eventUsers = 0 <=> Takers(c) = {}
         /\ record[c].closeCallbacks = 0 <=> Callers(c) = {}
<1>1. Takers(c) \subseteq Users /\ Callers(c) \subseteq Users
  BY DEF Takers, Callers
<1>2. /\ record[c].eventUsers = Cardinality(Takers(c))
      /\ record[c].closeCallbacks = Cardinality(Callers(c))
  BY DEF ConnectionInv, CountInv
<1> QED BY <1>1, <1>2, UserSets

(* A call that takes an event, or an error, that waits. *)
LEMMA TakeQueuedErrorInv ==
  ASSUME ConnectionInv, NEW u \in Users, NEW c \in handles, TakeQueuedError(u, c)
  PROVE  ConnectionInv'
<1>1. /\ Types /\ OnInv /\ CountInv /\ ListInv /\ TakeInv /\ SetupInv
      /\ CallbackInv /\ DisconnectInv /\ OwnedInv /\ SleepInv /\ OneCloserInv /\ GcInv
      /\ NoRecord \notin Records /\ FlatTypes
  BY SessionsAssumption, TypesFlat DEF ConnectionInv
<1>3. /\ record' = [record EXCEPT ![c].errors = @ - 1]
      /\ record[c].errors > 0
  BY <1>1 DEF TakeQueuedError, Types, fixed, displayVars, listVars, Calling, Doing,
     Continues, CallEnds, Using
<1>4. /\ UNCHANGED <<session, open, openings, queued, connections, handles, gcs, sleepers, step>>
      /\ c \in Records
  BY <1>1 DEF TakeQueuedError, Types, fixed, displayVars, listVars, Calling, Doing,
     Continues, CallEnds, Using
<1>5. /\ \A d \in Records :
           /\ record'[d].live = record[d].live /\ record'[d].display = record[d].display
           /\ record'[d].ownsDisplay = record[d].ownsDisplay /\ record'[d].closing = record[d].closing
           /\ record'[d].eventUsers = record[d].eventUsers /\ record'[d].closeCallbacks = record[d].closeCallbacks
  BY <1>1, <1>3, <1>4 DEF Types, RecordType, Freed, Wrapper, AtRest
<1>6. connectionForDisplay' = connectionForDisplay
  BY <1>1, <1>4, <1>5 DEF connectionForDisplay, FlatTypes
<1> USE DEF FlatTypes, Using, TakingEvent, TakeLabels, CallbackLabels, Disconnecting
<1>7. Types'
  BY <1>1, <1>3, <1>4 DEF Types, RecordType, Labels, AtRest
<1>8. OnInv'
  BY <1>1, <1>4, <1>5, <1>6 DEF OnInv
<1>9. CountInv'
  <2>1. \A d \in Records : /\ Takers(d)' = Takers(d)
                           /\ Callers(d)' = Callers(d)
    BY <1>1, <1>4, <1>5, <1>6 DEF Takers, Callers, OnInv
  <2> QED BY <1>1, <1>4, <1>5, <1>6, <2>1 DEF CountInv
<1>10. ListInv'
  BY <1>1, <1>4, <1>5, <1>6 DEF ListInv
<1>11. TakeInv'
  BY <1>1, <1>4, <1>5, <1>6 DEF TakeInv
<1>12. SetupInv'
  BY <1>1, <1>4, <1>5, <1>6 DEF SetupInv, OnInv
<1>13. CallbackInv'
  BY <1>1, <1>4, <1>5, <1>6 DEF CallbackInv
<1>14. DisconnectInv'
  BY <1>1, <1>4, <1>5, <1>6 DEF DisconnectInv
<1>15. OwnedInv'
  BY <1>1, <1>4, <1>5, <1>6 DEF OwnedInv
<1>16. SleepInv'
  BY <1>1, <1>4, <1>5, <1>6 DEF SleepInv
<1>17. OneCloserInv'
  BY <1>1, <1>4, <1>5, <1>6 DEF OneCloserInv
<1>18. GcInv'
  BY <1>1, <1>4, <1>5, <1>6 DEF GcInv
<1> QED BY <1>7, <1>8, <1>9, <1>10, <1>11, <1>12, <1>13, <1>14, <1>15, <1>16, <1>17,
   <1>18 DEF ConnectionInv

(* A call that takes an event enters, counted.                              *)
LEMMA BeginTakeInv ==
  ASSUME ConnectionInv, NEW u \in Users, NEW c \in handles, BeginTake(u, c)
  PROVE  ConnectionInv'
<1>1. /\ Types /\ OnInv /\ CountInv /\ ListInv /\ TakeInv /\ SetupInv
      /\ CallbackInv /\ DisconnectInv /\ OwnedInv /\ SleepInv /\ OneCloserInv /\ GcInv
      /\ NoRecord \notin Records /\ FlatTypes
  BY SessionsAssumption, TypesFlat DEF ConnectionInv
<1>2. PICK l \in {"queued", "next"} : step' = [step EXCEPT ![u] = [at |-> l, on |-> c]]
  BY DEF BeginTake
<1>3. /\ record' = [record EXCEPT ![c].eventUsers = @ + 1]
      /\ step' = [step EXCEPT ![u] = [at |-> l, on |-> c]]
  BY <1>1, <1>2 DEF BeginTake, RequestReady, ListInv, connectionForDisplay, Types, Takers,
     TakeLabels, fixed, displayVars, listVars, Calling, Doing, Continues, CallEnds, Using
<1>4. /\ UNCHANGED <<session, open, openings, queued, connections, handles, gcs, sleepers>>
      /\ step[u].at = "idle" /\ c \in connectionForDisplay /\ ~record[c].closing
      /\ c \in connections /\ record[c].live /\ l # "idle"
      /\ c \in Records /\ u \notin Takers(c)
  BY <1>1, <1>2 DEF BeginTake, RequestReady, ListInv, connectionForDisplay, Types, Takers,
     TakeLabels, fixed, displayVars, listVars, Calling, Doing, Continues, CallEnds, Using
<1>5. /\ \A v \in Users : /\ step'[v].at = (IF v = u THEN l ELSE step[v].at)
                      /\ step'[v].on = (IF v = u THEN c ELSE step[v].on)
      /\ \A d \in Records :
           /\ record'[d].eventUsers = (IF d = c THEN record[d].eventUsers + 1 ELSE record[d].eventUsers)
           /\ record'[d].live = record[d].live /\ record'[d].display = record[d].display
           /\ record'[d].ownsDisplay = record[d].ownsDisplay /\ record'[d].closing = record[d].closing
           /\ record'[d].closeCallbacks = record[d].closeCallbacks
  BY <1>1, <1>2, <1>3, <1>4 DEF Types, RecordType, Freed, Wrapper, AtRest
<1>6. connectionForDisplay' = connectionForDisplay
  BY <1>1, <1>4, <1>5 DEF connectionForDisplay, FlatTypes
<1> USE DEF FlatTypes, Using, TakingEvent, TakeLabels, CallbackLabels, Disconnecting
<1>7. Types'
  BY <1>1, <1>2, <1>3, <1>4 DEF Types, RecordType, Labels, AtRest
<1>8. OnInv'
  BY <1>1, <1>4, <1>5, <1>6 DEF OnInv
<1>9. CountInv'
  <2>1. \A d \in Records : /\ Takers(d)' = (IF d = c THEN Takers(d) \union {u} ELSE Takers(d))
                           /\ Callers(d)' = Callers(d)
    BY <1>1, <1>4, <1>5, <1>6 DEF Takers, Callers, OnInv
  <2>2. Takers(c) \subseteq Users /\ Callers(c) \subseteq Users
    BY DEF Takers, Callers
  <2>3. Cardinality(Takers(c)') = Cardinality(Takers(c)) + 1
    BY <1>1, <1>4, <1>5, <1>6, <2>1, <2>2, UserSets
  <2> QED BY <1>1, <1>4, <1>5, <1>6, <2>1, <2>3 DEF CountInv
<1>10. ListInv'
  BY <1>1, <1>4, <1>5, <1>6 DEF ListInv
<1>11. TakeInv'
  BY <1>1, <1>4, <1>5, <1>6 DEF TakeInv
<1>12. SetupInv'
  BY <1>1, <1>4, <1>5, <1>6 DEF SetupInv, OnInv
<1>13. CallbackInv'
  BY <1>1, <1>4, <1>5, <1>6 DEF CallbackInv
<1>14. DisconnectInv'
  BY <1>1, <1>4, <1>5, <1>6 DEF DisconnectInv
<1>15. OwnedInv'
  BY <1>1, <1>4, <1>5, <1>6 DEF OwnedInv
<1>16. SleepInv'
  BY <1>1, <1>4, <1>5, <1>6 DEF SleepInv
<1>17. OneCloserInv'
  BY <1>1, <1>4, <1>5, <1>6 DEF OneCloserInv
<1>18. GcInv'
  BY <1>1, <1>4, <1>5, <1>6 DEF GcInv
<1> QED BY <1>7, <1>8, <1>9, <1>10, <1>11, <1>12, <1>13, <1>14, <1>15, <1>16, <1>17,
   <1>18 DEF ConnectionInv

(* Its steps in XEventsQueued and XNextEvent.                               *)
LEMMA TakeMoveInv ==
  ASSUME ConnectionInv, NEW u \in Users, EventsQueued(u) \/ NextEvent(u) \/ Woken(u)
  PROVE  ConnectionInv'
<1>1. /\ Types /\ OnInv /\ CountInv /\ ListInv /\ TakeInv /\ SetupInv
      /\ CallbackInv /\ DisconnectInv /\ OwnedInv /\ SleepInv /\ OneCloserInv /\ GcInv
      /\ NoRecord \notin Records /\ FlatTypes
  BY SessionsAssumption, TypesFlat DEF ConnectionInv
<1>2. PICK l \in TakeLabels, c \in Records : /\ step' = [step EXCEPT ![u].at = l] /\ c = step[u].on
                                             /\ record[c].live
  BY <1>1 DEF EventsQueued, NextEvent, Woken, Continues, OnInv, Using, TakeLabels, Doing
<1>3. /\ c = step[u].on /\ step' = [step EXCEPT ![u].at = l]
      /\ record' = record \/ (record' = [record EXCEPT ![c].errors = @ - 1] /\ record[c].errors > 0)
  BY <1>1, <1>2 DEF EventsQueued, NextEvent, Woken, Types, TakeLabels, fixed, displayVars,
     listVars, Calling, Doing, Continues, CallEnds, Using
<1>4. /\ UNCHANGED <<session, open, openings, connections, handles, gcs, sleepers>>
      /\ step[u].at \in {"queued", "next", "woken"}
      /\ queued' \in Nat
  BY <1>1, <1>2 DEF EventsQueued, NextEvent, Woken, Types, TakeLabels, fixed, displayVars,
     listVars, Calling, Doing, Continues, CallEnds, Using
<1>5. /\ \A v \in Users : /\ step'[v].at = (IF v = u THEN l ELSE step[v].at)
                      /\ step'[v].on = step[v].on
      /\ \A d \in Records :
           /\ record'[d].live = record[d].live /\ record'[d].display = record[d].display
           /\ record'[d].ownsDisplay = record[d].ownsDisplay /\ record'[d].closing = record[d].closing
           /\ record'[d].eventUsers = record[d].eventUsers /\ record'[d].closeCallbacks = record[d].closeCallbacks
  BY <1>1, <1>2, <1>3, <1>4 DEF Types, RecordType, Freed, Wrapper, AtRest
<1>6. connectionForDisplay' = connectionForDisplay
  BY <1>1, <1>4, <1>5 DEF connectionForDisplay, FlatTypes
<1> USE DEF FlatTypes, Using, TakingEvent, TakeLabels, CallbackLabels, Disconnecting
<1>7. Types'
  <2>1. step' \in [Users -> [at : Labels, on : Records \union {NoRecord}]]
    BY <1>1, <1>2 DEF Types, Labels
  <2>2. record' \in [Records -> RecordType]
    <3>1. record \in [Records -> RecordType] /\ c \in Records
      BY <1>1, <1>2 DEF Types
    <3> HIDE DEF FlatTypes
    <3> QED BY <1>3, <3>1 DEF RecordType
  <2> QED BY <1>1, <1>4, <2>1, <2>2 DEF Types
<1>8. OnInv'
  BY <1>1, <1>4, <1>5, <1>6 DEF OnInv
<1>9. CountInv'
  <2>1. \A d \in Records : /\ Takers(d)' = Takers(d)
                           /\ Callers(d)' = Callers(d)
    BY <1>1, <1>4, <1>5, <1>6 DEF Takers, Callers, OnInv
  <2> QED BY <1>1, <1>4, <1>5, <1>6, <2>1 DEF CountInv
<1>10. ListInv'
  BY <1>1, <1>4, <1>5, <1>6 DEF ListInv
<1>11. TakeInv'
  BY <1>1, <1>4, <1>5, <1>6 DEF TakeInv
<1>12. SetupInv'
  BY <1>1, <1>4, <1>5, <1>6 DEF SetupInv, OnInv
<1>13. CallbackInv'
  BY <1>1, <1>4, <1>5, <1>6 DEF CallbackInv
<1>14. DisconnectInv'
  BY <1>1, <1>4, <1>5, <1>6 DEF DisconnectInv
<1>15. OwnedInv'
  BY <1>1, <1>4, <1>5, <1>6 DEF OwnedInv
<1>16. SleepInv'
  BY <1>1, <1>4, <1>5, <1>6 DEF SleepInv
<1>17. OneCloserInv'
  BY <1>1, <1>4, <1>5, <1>6 DEF OneCloserInv
<1>18. GcInv'
  BY <1>1, <1>4, <1>5, <1>6 DEF GcInv
<1> QED BY <1>7, <1>8, <1>9, <1>10, <1>11, <1>12, <1>13, <1>14, <1>15, <1>16, <1>17,
   <1>18 DEF ConnectionInv

(* It leaves, and wakes whoever waits for that.                             *)
LEMMA LeaveTakeInv ==
  ASSUME ConnectionInv, NEW u \in Users, LeaveTake(u)
  PROVE  ConnectionInv'
<1>1. /\ Types /\ OnInv /\ CountInv /\ ListInv /\ TakeInv /\ SetupInv
      /\ CallbackInv /\ DisconnectInv /\ OwnedInv /\ SleepInv /\ OneCloserInv /\ GcInv
      /\ NoRecord \notin Records /\ FlatTypes
  BY SessionsAssumption, TypesFlat DEF ConnectionInv
<1>2. PICK c \in Records : c = step[u].on /\ record[c].live
  BY <1>1 DEF LeaveTake, Doing, OnInv, Using
<1>21. /\ u \in Takers(c) /\ record[c].eventUsers = Cardinality(Takers(c)) /\ Takers(c) \subseteq Users
  BY <1>1, <1>2 DEF LeaveTake, Doing, Takers, TakeLabels, CountInv, Using
<1>22. record[c].eventUsers > 0 /\ record[c].eventUsers \in Nat /\ c = step[u].on /\ record[c].live
  BY <1>2, <1>21, UserSets
<1>3. /\ step' = [step EXCEPT ![u] = AtRest]
      /\ record' = [record EXCEPT ![c].eventUsers = @ - 1]
  BY <1>1, <1>2, <1>21, <1>22
     DEF LeaveTake, Broadcast, StillAsleep, fixed, displayVars, listVars, Calling, Doing,
     Continues, CallEnds, Using
<1>4. /\ UNCHANGED <<session, open, openings, queued, connections, handles, gcs>>
      /\ step[u].at = "leave"
      /\ sleepers' = {v \in sleepers : step[v].on # c}
  BY <1>1, <1>2, <1>21, <1>22
     DEF LeaveTake, Broadcast, StillAsleep, fixed, displayVars, listVars, Calling, Doing,
     Continues, CallEnds, Using
<1>5. /\ \A v \in Users : /\ step'[v].at = (IF v = u THEN "idle" ELSE step[v].at)
                      /\ step'[v].on = (IF v = u THEN NoRecord ELSE step[v].on)
      /\ \A d \in Records :
           /\ record'[d].eventUsers = (IF d = c THEN record[d].eventUsers - 1 ELSE record[d].eventUsers)
           /\ record'[d].live = record[d].live /\ record'[d].display = record[d].display
           /\ record'[d].ownsDisplay = record[d].ownsDisplay /\ record'[d].closing = record[d].closing
           /\ record'[d].closeCallbacks = record[d].closeCallbacks
  BY <1>1, <1>2, <1>3, <1>4, <1>21, <1>22 DEF Types, RecordType, Freed, Wrapper, AtRest
<1>6. connectionForDisplay' = connectionForDisplay
  BY <1>1, <1>4, <1>21, <1>22, <1>5 DEF connectionForDisplay, FlatTypes
<1> USE DEF FlatTypes, Using, TakingEvent, TakeLabels, CallbackLabels, Disconnecting
<1>7. Types'
  <2>1. step' \in [Users -> [at : Labels, on : Records \union {NoRecord}]]
    BY <1>1, <1>3 DEF Types, Labels, AtRest
  <2>2. record' \in [Records -> RecordType]
    <3>1. record \in [Records -> RecordType] /\ c \in Records
      BY <1>1, <1>2 DEF Types
    <3>2. record[c].eventUsers - 1 \in Nat
      BY <1>22
    <3> HIDE DEF FlatTypes
    <3> QED BY <1>3, <3>1, <3>2 DEF RecordType
  <2> QED BY <1>1, <1>4, <2>1, <2>2 DEF Types
<1>8. OnInv'
  BY <1>1, <1>4, <1>21, <1>22, <1>5, <1>6 DEF OnInv
<1>9. CountInv'
  <2>1. \A d \in Records : /\ Takers(d)' = (IF d = c THEN Takers(d) \ {u} ELSE Takers(d))
                           /\ Callers(d)' = Callers(d)
    BY <1>1, <1>4, <1>21, <1>22, <1>5, <1>6 DEF Takers, Callers, OnInv
  <2>2. Takers(c) \subseteq Users /\ Callers(c) \subseteq Users
    BY DEF Takers, Callers
  <2>3. Cardinality(Takers(c)') = Cardinality(Takers(c)) - 1
    BY <1>1, <1>4, <1>21, <1>22, <1>5, <1>6, <2>1, <2>2, UserSets
  <2> QED BY <1>1, <1>4, <1>21, <1>22, <1>5, <1>6, <2>1, <2>3 DEF CountInv
<1>10. ListInv'
  BY <1>1, <1>4, <1>21, <1>22, <1>5, <1>6 DEF ListInv
<1>11. TakeInv'
  BY <1>1, <1>4, <1>21, <1>22, <1>5, <1>6 DEF TakeInv
<1>12. SetupInv'
  BY <1>1, <1>4, <1>21, <1>22, <1>5, <1>6 DEF SetupInv, OnInv
<1>13. CallbackInv'
  BY <1>1, <1>4, <1>21, <1>22, <1>5, <1>6 DEF CallbackInv
<1>14. DisconnectInv'
  BY <1>1, <1>4, <1>21, <1>22, <1>5, <1>6 DEF DisconnectInv
<1>15. OwnedInv'
  BY <1>1, <1>4, <1>21, <1>22, <1>5, <1>6 DEF OwnedInv
<1>16. SleepInv'
  BY <1>1, <1>4, <1>21, <1>22, <1>5, <1>6 DEF SleepInv
<1>17. OneCloserInv'
  BY <1>1, <1>4, <1>21, <1>22, <1>5, <1>6 DEF OneCloserInv
<1>18. GcInv'
  BY <1>1, <1>4, <1>21, <1>22, <1>5, <1>6 DEF GcInv
<1> QED BY <1>7, <1>8, <1>9, <1>10, <1>11, <1>12, <1>13, <1>14, <1>15, <1>16, <1>17,
   <1>18 DEF ConnectionInv

(* An error is stored, and wakes whoever waits on the record.               *)
LEMMA FailingRequestInv ==
  ASSUME ConnectionInv, NEW u \in Users, NEW c \in handles, FailingRequest(u, c)
  PROVE  ConnectionInv'
<1>1. /\ Types /\ OnInv /\ CountInv /\ ListInv /\ TakeInv /\ SetupInv
      /\ CallbackInv /\ DisconnectInv /\ OwnedInv /\ SleepInv /\ OneCloserInv /\ GcInv
      /\ NoRecord \notin Records /\ FlatTypes
  BY SessionsAssumption, TypesFlat DEF ConnectionInv
<1>3. /\ record' = [record EXCEPT ![c].errors = @ + 1]
  BY <1>1 DEF FailingRequest, Broadcast, StillAsleep, Types, fixed, displayVars, listVars,
     Calling, Doing, Continues, CallEnds, Using
<1>4. /\ UNCHANGED <<session, open, openings, queued, connections, handles, gcs, step>>
      /\ c \in Records
      /\ sleepers' = {v \in sleepers : step[v].on # c}
  BY <1>1 DEF FailingRequest, Broadcast, StillAsleep, Types, fixed, displayVars, listVars,
     Calling, Doing, Continues, CallEnds, Using
<1>5. /\ \A d \in Records :
           /\ record'[d].live = record[d].live /\ record'[d].display = record[d].display
           /\ record'[d].ownsDisplay = record[d].ownsDisplay /\ record'[d].closing = record[d].closing
           /\ record'[d].eventUsers = record[d].eventUsers /\ record'[d].closeCallbacks = record[d].closeCallbacks
  BY <1>1, <1>3, <1>4 DEF Types, RecordType, Freed, Wrapper, AtRest
<1>6. connectionForDisplay' = connectionForDisplay
  BY <1>1, <1>4, <1>5 DEF connectionForDisplay, FlatTypes
<1> USE DEF FlatTypes, Using, TakingEvent, TakeLabels, CallbackLabels, Disconnecting
<1>7. Types'
  BY <1>1, <1>3, <1>4 DEF Types, RecordType, Labels, AtRest
<1>8. OnInv'
  BY <1>1, <1>4, <1>5, <1>6 DEF OnInv
<1>9. CountInv'
  <2>1. \A d \in Records : /\ Takers(d)' = Takers(d)
                           /\ Callers(d)' = Callers(d)
    BY <1>1, <1>4, <1>5, <1>6 DEF Takers, Callers, OnInv
  <2> QED BY <1>1, <1>4, <1>5, <1>6, <2>1 DEF CountInv
<1>10. ListInv'
  BY <1>1, <1>4, <1>5, <1>6 DEF ListInv
<1>11. TakeInv'
  BY <1>1, <1>4, <1>5, <1>6 DEF TakeInv
<1>12. SetupInv'
  BY <1>1, <1>4, <1>5, <1>6 DEF SetupInv, OnInv
<1>13. CallbackInv'
  BY <1>1, <1>4, <1>5, <1>6 DEF CallbackInv
<1>14. DisconnectInv'
  BY <1>1, <1>4, <1>5, <1>6 DEF DisconnectInv
<1>15. OwnedInv'
  BY <1>1, <1>4, <1>5, <1>6 DEF OwnedInv
<1>16. SleepInv'
  BY <1>1, <1>4, <1>5, <1>6 DEF SleepInv
<1>17. OneCloserInv'
  BY <1>1, <1>4, <1>5, <1>6 DEF OneCloserInv
<1>18. GcInv'
  BY <1>1, <1>4, <1>5, <1>6 DEF GcInv
<1> QED BY <1>7, <1>8, <1>9, <1>10, <1>11, <1>12, <1>13, <1>14, <1>15, <1>16, <1>17,
   <1>18 DEF ConnectionInv

(* A GC is made for a record.                                               *)
LEMMA CreateGcInv ==
  ASSUME ConnectionInv, NEW u \in Users, NEW c \in handles, CreateGc(u, c)
  PROVE  ConnectionInv'
<1>1. /\ Types /\ OnInv /\ CountInv /\ ListInv /\ TakeInv /\ SetupInv
      /\ CallbackInv /\ DisconnectInv /\ OwnedInv /\ SleepInv /\ OneCloserInv /\ GcInv
      /\ NoRecord \notin Records /\ FlatTypes
  BY SessionsAssumption, TypesFlat DEF ConnectionInv
<1>4. /\ UNCHANGED <<session, open, openings, queued, connections, handles, step, record, sleepers>>
      /\ gcs' = [gcs EXCEPT ![c] = openings]
      /\ c \in connectionForDisplay /\ c \in Records
  BY <1>1 DEF CreateGc, RequestReady, connectionForDisplay, Types, fixed, displayVars,
     listVars, Calling, Doing, Continues, CallEnds, Using
<1>6. connectionForDisplay' = connectionForDisplay
  BY <1>1, <1>4 DEF connectionForDisplay, FlatTypes
<1> USE DEF FlatTypes, Using, TakingEvent, TakeLabels, CallbackLabels, Disconnecting
<1>7. Types'
  BY <1>1, <1>4 DEF Types, RecordType, Labels, AtRest
<1>8. OnInv'
  BY <1>1, <1>4, <1>6 DEF OnInv
<1>9. CountInv'
  <2>1. \A d : Takers(d)' = Takers(d) /\ Callers(d)' = Callers(d)
    BY <1>4 DEF Takers, Callers
  <2> QED BY <1>1, <1>4, <2>1 DEF CountInv
<1>10. ListInv'
  BY <1>1, <1>4, <1>6 DEF ListInv
<1>11. TakeInv'
  BY <1>1, <1>4, <1>6 DEF TakeInv
<1>12. SetupInv'
  BY <1>1, <1>4, <1>6 DEF SetupInv, OnInv
<1>13. CallbackInv'
  BY <1>1, <1>4, <1>6 DEF CallbackInv
<1>14. DisconnectInv'
  BY <1>1, <1>4, <1>6 DEF DisconnectInv
<1>15. OwnedInv'
  BY <1>1, <1>4, <1>6 DEF OwnedInv
<1>16. SleepInv'
  BY <1>1, <1>4, <1>6 DEF SleepInv
<1>17. OneCloserInv'
  BY <1>1, <1>4, <1>6 DEF OneCloserInv
<1>18. GcInv'
  BY <1>1, <1>4, <1>6 DEF GcInv, ListInv, Types
<1> QED BY <1>7, <1>8, <1>9, <1>10, <1>11, <1>12, <1>13, <1>14, <1>15, <1>16, <1>17,
   <1>18 DEF ConnectionInv

(* Steps that touch only the events and the answers. *)
LEMMA SameInv ==
  ASSUME ConnectionInv, UNCHANGED <<session, open, openings, listVars, step, record, gcs, sleepers>>, queued' \in Nat
  PROVE  ConnectionInv'
<1>1. /\ Types /\ OnInv /\ CountInv /\ ListInv /\ TakeInv /\ SetupInv
      /\ CallbackInv /\ DisconnectInv /\ OwnedInv /\ SleepInv /\ OneCloserInv /\ GcInv
      /\ NoRecord \notin Records /\ FlatTypes
  BY SessionsAssumption, TypesFlat DEF ConnectionInv
<1>4. /\ UNCHANGED <<session, open, openings, connections, handles, step, record, gcs, sleepers>>
  BY <1>1 DEF listVars
<1>6. connectionForDisplay' = connectionForDisplay
  BY <1>1, <1>4 DEF connectionForDisplay, FlatTypes
<1> USE DEF FlatTypes, Using, TakingEvent, TakeLabels, CallbackLabels, Disconnecting
<1>7. Types'
  BY <1>1, <1>4 DEF Types, RecordType, Labels, AtRest
<1>8. OnInv'
  BY <1>1, <1>4, <1>6 DEF OnInv
<1>9. CountInv'
  <2>1. \A d : Takers(d)' = Takers(d) /\ Callers(d)' = Callers(d)
    BY <1>4 DEF Takers, Callers
  <2> QED BY <1>1, <1>4, <2>1 DEF CountInv
<1>10. ListInv'
  BY <1>1, <1>4, <1>6 DEF ListInv
<1>11. TakeInv'
  BY <1>1, <1>4, <1>6 DEF TakeInv
<1>12. SetupInv'
  BY <1>1, <1>4, <1>6 DEF SetupInv, OnInv
<1>13. CallbackInv'
  BY <1>1, <1>4, <1>6 DEF CallbackInv
<1>14. DisconnectInv'
  BY <1>1, <1>4, <1>6 DEF DisconnectInv
<1>15. OwnedInv'
  BY <1>1, <1>4, <1>6 DEF OwnedInv
<1>16. SleepInv'
  BY <1>1, <1>4, <1>6 DEF SleepInv
<1>17. OneCloserInv'
  BY <1>1, <1>4, <1>6 DEF OneCloserInv
<1>18. GcInv'
  BY <1>1, <1>4, <1>6 DEF GcInv
<1> QED BY <1>7, <1>8, <1>9, <1>10, <1>11, <1>12, <1>13, <1>14, <1>15, <1>16, <1>17,
   <1>18 DEF ConnectionInv

(* Opening a display, and binding a record to it. *)
LEMMA OpenDisplayInv ==
  ASSUME ConnectionInv, OpenDisplay
  PROVE  ConnectionInv'
<1>1. /\ Types /\ OnInv /\ CountInv /\ ListInv /\ TakeInv /\ SetupInv
      /\ CallbackInv /\ DisconnectInv /\ OwnedInv /\ SleepInv /\ OneCloserInv /\ GcInv
      /\ NoRecord \notin Records /\ FlatTypes
  BY SessionsAssumption, TypesFlat DEF ConnectionInv
<1>4. /\ UNCHANGED <<session, connections, handles, step, record, gcs, sleepers>>
      /\ open' = TRUE /\ openings' = openings + 1 /\ queued' = 0 /\ ~open /\ ~session.owned
  BY <1>1 DEF OpenDisplay, Opens, Types, fixed, displayVars, listVars, Calling, Doing,
     Continues, CallEnds, Using
<1>6. connectionForDisplay' = connectionForDisplay
  BY <1>1, <1>4 DEF connectionForDisplay, FlatTypes
<1> USE DEF FlatTypes, Using, TakingEvent, TakeLabels, CallbackLabels, Disconnecting
<1>7. Types'
  BY <1>1, <1>4 DEF Types, RecordType, Labels, AtRest
<1>8. OnInv'
  BY <1>1, <1>4, <1>6 DEF OnInv
<1>9. CountInv'
  <2>1. \A d : Takers(d)' = Takers(d) /\ Callers(d)' = Callers(d)
    BY <1>4 DEF Takers, Callers
  <2> QED BY <1>1, <1>4, <2>1 DEF CountInv
<1>10. ListInv'
  BY <1>1, <1>4, <1>6 DEF ListInv
<1>11. TakeInv'
  BY <1>1, <1>4, <1>6 DEF TakeInv
<1>12. SetupInv'
  BY <1>1, <1>4, <1>6 DEF SetupInv, OnInv
<1>13. CallbackInv'
  BY <1>1, <1>4, <1>6 DEF CallbackInv
<1>14. DisconnectInv'
  BY <1>1, <1>4, <1>6 DEF DisconnectInv
<1>15. OwnedInv'
  BY <1>1, <1>4, <1>6 DEF OwnedInv
<1>16. SleepInv'
  BY <1>1, <1>4, <1>6 DEF SleepInv
<1>17. OneCloserInv'
  BY <1>1, <1>4, <1>6 DEF OneCloserInv
<1>18. GcInv'
  BY <1>1, <1>4, <1>6 DEF GcInv
<1> QED BY <1>7, <1>8, <1>9, <1>10, <1>11, <1>12, <1>13, <1>14, <1>15, <1>16, <1>17,
   <1>18 DEF ConnectionInv

(* xcb_connect opens the display it owns, with its record.                  *)
LEMMA ConnectInv ==
  ASSUME ConnectionInv, Connect
  PROVE  ConnectionInv'
<1>1. /\ Types /\ OnInv /\ CountInv /\ ListInv /\ TakeInv /\ SetupInv
      /\ CallbackInv /\ DisconnectInv /\ OwnedInv /\ SleepInv /\ OneCloserInv /\ GcInv
      /\ NoRecord \notin Records /\ FlatTypes
  BY SessionsAssumption, TypesFlat DEF ConnectionInv
<1>2. PICK c \in Records : /\ ~record[c].live
                           /\ record' = [record EXCEPT ![c] = Wrapper(TRUE)]
                           /\ connections' = connections \union {c}
                           /\ handles' = handles \union {c}
  BY DEF Connect, FreeRecords, allocConnection
<1>3. /\ record' = [record EXCEPT ![c] = Wrapper(TRUE)]
  BY <1>1, <1>2 DEF Connect, Opens, Undisturbed, Closing, TakingEvent, TakeLabels,
     OwnedInv, fixed, displayVars, listVars, Calling, Doing, Continues, CallEnds, Using
<1>4. /\ UNCHANGED <<session, step, gcs, sleepers>>
      /\ open' = TRUE /\ openings' = openings + 1 /\ queued' = 0 /\ ~open /\ session.owned
      /\ \A v \in Users : step[v].at \in {"idle", "setup"} \union TakeLabels
      /\ c \in Records /\ \A d \in Records : ~record[d].live
      /\ connections' = connections \union {c} /\ handles' = handles \union {c}
  BY <1>1, <1>2 DEF Connect, Opens, Undisturbed, Closing, TakingEvent, TakeLabels,
     OwnedInv, fixed, displayVars, listVars, Calling, Doing, Continues, CallEnds, Using
<1>5. /\ record'[c].live /\ record'[c].display /\ record'[c].ownsDisplay /\ ~record'[c].closing
      /\ record'[c].eventUsers = 0 /\ record'[c].closeCallbacks = 0
      /\ \A d \in Records : d # c =>
           /\ record'[d].live = record[d].live /\ record'[d].display = record[d].display
           /\ record'[d].ownsDisplay = record[d].ownsDisplay /\ record'[d].closing = record[d].closing
           /\ record'[d].eventUsers = record[d].eventUsers /\ record'[d].closeCallbacks = record[d].closeCallbacks
  BY <1>1, <1>2, <1>3, <1>4 DEF Types, RecordType, Freed, Wrapper, AtRest
<1>6. connectionForDisplay' = connectionForDisplay \union {c}
  BY <1>1, <1>4, <1>5 DEF connectionForDisplay, FlatTypes
<1> USE DEF FlatTypes, Using, TakingEvent, TakeLabels, CallbackLabels, Disconnecting
<1>7. Types'
  <2>1. record' \in [Records -> RecordType]
    BY ZenonT(60), <1>1, <1>2, <1>3, <1>4, WrapperFacts DEF Types
  <2>2. step' \in [Users -> [at : Labels, on : Records \union {NoRecord}]]
    BY <1>1, <1>2, <1>3, <1>4 DEF Types, Labels, AtRest
  <2> QED BY <1>1, <1>4, <2>1, <2>2 DEF Types
<1>8. OnInv'
  BY <1>1, <1>4, <1>5, <1>6 DEF OnInv
<1>9. CountInv'
  <2>1. \A d \in Records : /\ Takers(d)' = Takers(d)
                           /\ Callers(d)' = Callers(d)
    BY <1>1, <1>4, <1>5, <1>6 DEF Takers, Callers, OnInv
  <2>2. Takers(c) = {} /\ Callers(c) = {}
    BY <1>1, <1>4, <1>5, <1>6 DEF OnInv, Takers, Callers
  <2>3. ASSUME NEW d \in Records
        PROVE  /\ record'[d].eventUsers = Cardinality(Takers(d)')
               /\ record'[d].closeCallbacks = Cardinality(Callers(d)')
    <3>1. CASE d = c
      BY <1>5, <2>1, <2>2, <3>1, FS_EmptySet
    <3>2. CASE d # c
      BY <1>1, <1>5, <2>1, <3>2 DEF CountInv
    <3> QED BY <3>1, <3>2
  <2> QED BY <2>3 DEF CountInv
<1>10. ListInv'
  BY <1>1, <1>4, <1>5, <1>6 DEF ListInv
<1>11. TakeInv'
  BY <1>1, <1>4, <1>5, <1>6 DEF TakeInv
<1>12. SetupInv'
  BY <1>1, <1>4, <1>5, <1>6 DEF SetupInv, OnInv
<1>13. CallbackInv'
  BY <1>1, <1>4, <1>5, <1>6 DEF CallbackInv
<1>14. DisconnectInv'
  BY <1>1, <1>4, <1>5, <1>6 DEF DisconnectInv
<1>15. OwnedInv'
  BY <1>1, <1>4, <1>5, <1>6 DEF OwnedInv
<1>16. SleepInv'
  BY <1>1, <1>4, <1>5, <1>6 DEF SleepInv
<1>17. OneCloserInv'
  BY <1>1, <1>4, <1>5, <1>6 DEF OneCloserInv
<1>18. GcInv'
  BY <1>1, <1>4, <1>5, <1>6 DEF GcInv
<1> QED BY <1>7, <1>8, <1>9, <1>10, <1>11, <1>12, <1>13, <1>14, <1>15, <1>16, <1>17,
   <1>18 DEF ConnectionInv

(* The display has a record already.                                        *)
LEMMA BindAgainInv ==
  ASSUME ConnectionInv, NEW u \in Users, Bind(u), connectionForDisplay # {}
  PROVE  ConnectionInv'
<1>1. /\ Types /\ OnInv /\ CountInv /\ ListInv /\ TakeInv /\ SetupInv
      /\ CallbackInv /\ DisconnectInv /\ OwnedInv /\ SleepInv /\ OneCloserInv /\ GcInv
      /\ NoRecord \notin Records /\ FlatTypes
  BY SessionsAssumption, TypesFlat DEF ConnectionInv
<1>4. /\ UNCHANGED <<session, open, openings, queued, connections, step, record, gcs, sleepers>>
      /\ handles' = handles \union connectionForDisplay
      /\ \A v \in Users : step[v].at \in {"idle", "setup"} \union TakeLabels
      /\ connectionForDisplay \subseteq connections
  BY <1>1 DEF Bind, Undisturbed, Closing, TakingEvent, TakeLabels, connectionForDisplay,
     fixed, displayVars, listVars, Calling, Doing, Continues, CallEnds, Using
<1>6. connectionForDisplay' = connectionForDisplay
  BY <1>1, <1>4 DEF connectionForDisplay, FlatTypes
<1> USE DEF FlatTypes, Using, TakingEvent, TakeLabels, CallbackLabels, Disconnecting
<1>7. Types'
  BY <1>1, <1>4 DEF Types, RecordType, Labels, AtRest
<1>8. OnInv'
  BY <1>1, <1>4, <1>6 DEF OnInv
<1>9. CountInv'
  <2>1. \A d : Takers(d)' = Takers(d) /\ Callers(d)' = Callers(d)
    BY <1>4 DEF Takers, Callers
  <2> QED BY <1>1, <1>4, <2>1 DEF CountInv
<1>10. ListInv'
  BY <1>1, <1>4, <1>6 DEF ListInv
<1>11. TakeInv'
  BY <1>1, <1>4, <1>6 DEF TakeInv
<1>12. SetupInv'
  BY <1>1, <1>4, <1>6 DEF SetupInv, OnInv
<1>13. CallbackInv'
  BY <1>1, <1>4, <1>6 DEF CallbackInv
<1>14. DisconnectInv'
  BY <1>1, <1>4, <1>6 DEF DisconnectInv
<1>15. OwnedInv'
  BY <1>1, <1>4, <1>6 DEF OwnedInv
<1>16. SleepInv'
  BY <1>1, <1>4, <1>6 DEF SleepInv
<1>17. OneCloserInv'
  BY <1>1, <1>4, <1>6 DEF OneCloserInv
<1>18. GcInv'
  BY <1>1, <1>4, <1>6 DEF GcInv
<1> QED BY <1>7, <1>8, <1>9, <1>10, <1>11, <1>12, <1>13, <1>14, <1>15, <1>16, <1>17,
   <1>18 DEF ConnectionInv

(* A record is built, with nothing held.                                    *)
LEMMA BindNewInv ==
  ASSUME ConnectionInv, NEW u \in Users, Bind(u), connectionForDisplay = {}
  PROVE  ConnectionInv'
<1>1. /\ Types /\ OnInv /\ CountInv /\ ListInv /\ TakeInv /\ SetupInv
      /\ CallbackInv /\ DisconnectInv /\ OwnedInv /\ SleepInv /\ OneCloserInv /\ GcInv
      /\ NoRecord \notin Records /\ FlatTypes
  BY SessionsAssumption, TypesFlat DEF ConnectionInv
<1>2. PICK c \in Records : /\ ~record[c].live
                           /\ record' = [record EXCEPT ![c] = Wrapper(FALSE)]
                           /\ step' = [step EXCEPT ![u] = [at |-> "setup", on |-> c]]
  BY DEF Bind, FreeRecords, allocConnection
<1>3. /\ record' = [record EXCEPT ![c] = Wrapper(FALSE)]
      /\ step' = [step EXCEPT ![u] = [at |-> "setup", on |-> c]]
  BY <1>1, <1>2 DEF Bind, ListInv, Undisturbed, Closing, TakingEvent, TakeLabels, fixed,
     displayVars, listVars, Calling, Doing, Continues, CallEnds, Using
<1>4. /\ UNCHANGED <<session, open, openings, queued, connections, handles, gcs, sleepers>>
      /\ open /\ ~session.owned /\ step[u].at = "idle" /\ c \in Records /\ ~record[c].live
      /\ c \notin connections
      /\ \A v \in Users : step[v].at \in {"idle", "setup"} \union TakeLabels
  BY <1>1, <1>2 DEF Bind, ListInv, Undisturbed, Closing, TakingEvent, TakeLabels, fixed,
     displayVars, listVars, Calling, Doing, Continues, CallEnds, Using
<1>5. /\ \A v \in Users : /\ step'[v].at = (IF v = u THEN "setup" ELSE step[v].at)
                      /\ step'[v].on = (IF v = u THEN c ELSE step[v].on)
      /\ record'[c].live /\ record'[c].display /\ ~record'[c].ownsDisplay /\ ~record'[c].closing
      /\ record'[c].eventUsers = 0 /\ record'[c].closeCallbacks = 0
      /\ \A d \in Records : d # c =>
           /\ record'[d].live = record[d].live /\ record'[d].display = record[d].display
           /\ record'[d].ownsDisplay = record[d].ownsDisplay /\ record'[d].closing = record[d].closing
           /\ record'[d].eventUsers = record[d].eventUsers /\ record'[d].closeCallbacks = record[d].closeCallbacks
  BY <1>1, <1>2, <1>3, <1>4 DEF Types, RecordType, Freed, Wrapper, AtRest
<1>6. connectionForDisplay' = connectionForDisplay
  BY <1>1, <1>4, <1>5 DEF connectionForDisplay, FlatTypes
<1> USE DEF FlatTypes, Using, TakingEvent, TakeLabels, CallbackLabels, Disconnecting
<1>7. Types'
  <2>1. record' \in [Records -> RecordType]
    BY <1>1, <1>2, <1>3, <1>4, WrapperFacts DEF Types
  <2>2. step' \in [Users -> [at : Labels, on : Records \union {NoRecord}]]
    BY <1>1, <1>2, <1>3, <1>4 DEF Types, Labels, AtRest
  <2> QED BY <1>1, <1>4, <2>1, <2>2 DEF Types
<1>8. OnInv'
  BY <1>1, <1>4, <1>5, <1>6 DEF OnInv
<1>9. CountInv'
  <2>1. \A d \in Records : /\ Takers(d)' = Takers(d)
                           /\ Callers(d)' = Callers(d)
    BY <1>1, <1>4, <1>5, <1>6 DEF Takers, Callers, OnInv
  <2>2. Takers(c) = {} /\ Callers(c) = {}
    BY <1>1, <1>4, <1>5, <1>6 DEF OnInv, Takers, Callers
  <2>3. ASSUME NEW d \in Records
        PROVE  /\ record'[d].eventUsers = Cardinality(Takers(d)')
               /\ record'[d].closeCallbacks = Cardinality(Callers(d)')
    <3>1. CASE d = c
      BY <1>5, <2>1, <2>2, <3>1, FS_EmptySet
    <3>2. CASE d # c
      BY <1>1, <1>5, <2>1, <3>2 DEF CountInv
    <3> QED BY <3>1, <3>2
  <2> QED BY <2>3 DEF CountInv
<1>10. ListInv'
  BY <1>1, <1>4, <1>5, <1>6 DEF ListInv
<1>11. TakeInv'
  BY <1>1, <1>4, <1>5, <1>6 DEF TakeInv
<1>12. SetupInv'
  BY <1>1, <1>4, <1>5, <1>6 DEF SetupInv, OnInv
<1>13. CallbackInv'
  BY <1>1, <1>4, <1>5, <1>6 DEF CallbackInv
<1>14. DisconnectInv'
  BY <1>1, <1>4, <1>5, <1>6 DEF DisconnectInv
<1>15. OwnedInv'
  BY <1>1, <1>4, <1>5, <1>6 DEF OwnedInv
<1>16. SleepInv'
  BY <1>1, <1>4, <1>5, <1>6 DEF SleepInv
<1>17. OneCloserInv'
  BY <1>1, <1>4, <1>5, <1>6 DEF OneCloserInv
<1>18. GcInv'
  BY <1>1, <1>4, <1>5, <1>6 DEF GcInv
<1> QED BY <1>7, <1>8, <1>9, <1>10, <1>11, <1>12, <1>13, <1>14, <1>15, <1>16, <1>17,
   <1>18 DEF ConnectionInv

(* The record built is the first.                                           *)
LEMMA RegisterNewInv ==
  ASSUME ConnectionInv, NEW u \in Users, registerConnectionForDisplay(u), connectionForDisplay = {}
  PROVE  ConnectionInv'
<1>1. /\ Types /\ OnInv /\ CountInv /\ ListInv /\ TakeInv /\ SetupInv
      /\ CallbackInv /\ DisconnectInv /\ OwnedInv /\ SleepInv /\ OneCloserInv /\ GcInv
      /\ NoRecord \notin Records /\ FlatTypes
  BY SessionsAssumption, TypesFlat DEF ConnectionInv
<1>2. PICK c \in Records : c = step[u].on /\ record[c].live
  BY <1>1 DEF OnInv, Using, registerConnectionForDisplay, Doing
<1>3. /\ step' = [step EXCEPT ![u] = AtRest]
  BY <1>1, <1>2 DEF registerConnectionForDisplay, fixed, displayVars, listVars, Calling,
     Doing, Continues, CallEnds, Using
<1>4. /\ UNCHANGED <<session, open, openings, queued, record, gcs, sleepers>>
      /\ step[u].at = "setup"
      /\ connections' = connections \union {c} /\ handles' = handles \union {c}
  BY <1>1, <1>2 DEF registerConnectionForDisplay, fixed, displayVars, listVars, Calling,
     Doing, Continues, CallEnds, Using
<1>5. /\ \A v \in Users : /\ step'[v].at = (IF v = u THEN "idle" ELSE step[v].at)
                      /\ step'[v].on = (IF v = u THEN NoRecord ELSE step[v].on)
  BY <1>1, <1>2, <1>3, <1>4 DEF Types, RecordType, Freed, Wrapper, AtRest
<1>6. connectionForDisplay' = {c}
  BY <1>1, <1>2, <1>4, <1>5 DEF connectionForDisplay, FlatTypes, SetupInv, Using
<1> USE DEF FlatTypes, Using, TakingEvent, TakeLabels, CallbackLabels, Disconnecting
<1>7. Types'
  BY <1>1, <1>2, <1>3, <1>4 DEF Types, RecordType, Labels, AtRest
<1>8. OnInv'
  BY <1>1, <1>2, <1>4, <1>5, <1>6 DEF OnInv
<1>9. CountInv'
  <2>1. \A d \in Records : /\ Takers(d)' = Takers(d)
                           /\ Callers(d)' = Callers(d)
    BY <1>1, <1>2, <1>4, <1>5, <1>6 DEF Takers, Callers, OnInv
  <2> QED BY <1>1, <1>2, <1>4, <1>5, <1>6, <2>1 DEF CountInv
<1>10. ListInv'
  BY <1>1, <1>2, <1>4, <1>5, <1>6 DEF ListInv, SetupInv
<1>11. TakeInv'
  BY <1>1, <1>2, <1>4, <1>5, <1>6 DEF TakeInv
<1>12. SetupInv'
  BY <1>1, <1>2, <1>4, <1>5, <1>6 DEF SetupInv, OnInv
<1>13. CallbackInv'
  BY <1>1, <1>2, <1>4, <1>5, <1>6 DEF CallbackInv
<1>14. DisconnectInv'
  BY <1>1, <1>2, <1>4, <1>5, <1>6 DEF DisconnectInv, SetupInv
<1>15. OwnedInv'
  BY <1>1, <1>2, <1>4, <1>5, <1>6 DEF OwnedInv
<1>16. SleepInv'
  BY <1>1, <1>2, <1>4, <1>5, <1>6 DEF SleepInv
<1>17. OneCloserInv'
  BY <1>1, <1>2, <1>4, <1>5, <1>6 DEF OneCloserInv
<1>18. GcInv'
  BY <1>1, <1>2, <1>4, <1>5, <1>6 DEF GcInv
<1> QED BY <1>7, <1>8, <1>9, <1>10, <1>11, <1>12, <1>13, <1>14, <1>15, <1>16, <1>17,
   <1>18 DEF ConnectionInv

(* Another was registered meanwhile, and the one built is freed.            *)
LEMMA RegisterFoundInv ==
  ASSUME ConnectionInv, NEW u \in Users, registerConnectionForDisplay(u), connectionForDisplay # {}
  PROVE  ConnectionInv'
<1>1. /\ Types /\ OnInv /\ CountInv /\ ListInv /\ TakeInv /\ SetupInv
      /\ CallbackInv /\ DisconnectInv /\ OwnedInv /\ SleepInv /\ OneCloserInv /\ GcInv
      /\ NoRecord \notin Records /\ FlatTypes
  BY SessionsAssumption, TypesFlat DEF ConnectionInv
<1>2. PICK c \in Records : c = step[u].on /\ record[c].live
  BY <1>1 DEF OnInv, Using, registerConnectionForDisplay, Doing
<1>3. /\ step' = [step EXCEPT ![u] = AtRest]
      /\ record' = [record EXCEPT ![c] = Freed]
  BY <1>1, <1>2 DEF registerConnectionForDisplay, SetupInv, connectionForDisplay, fixed,
     displayVars, listVars, Calling, Doing, Continues, CallEnds, Using
<1>4. /\ UNCHANGED <<session, open, openings, queued, connections, gcs, sleepers>>
      /\ step[u].at = "setup"
      /\ handles' = handles \union connectionForDisplay
      /\ c \notin connections /\ connectionForDisplay \subseteq connections
  BY <1>1, <1>2 DEF registerConnectionForDisplay, SetupInv, connectionForDisplay, fixed,
     displayVars, listVars, Calling, Doing, Continues, CallEnds, Using
<1>5. /\ \A v \in Users : /\ step'[v].at = (IF v = u THEN "idle" ELSE step[v].at)
                      /\ step'[v].on = (IF v = u THEN NoRecord ELSE step[v].on)
      /\ ~record'[c].live /\ ~record'[c].display /\ ~record'[c].ownsDisplay /\ ~record'[c].closing
      /\ record'[c].eventUsers = 0 /\ record'[c].closeCallbacks = 0
      /\ \A d \in Records : d # c =>
           /\ record'[d].live = record[d].live /\ record'[d].display = record[d].display
           /\ record'[d].ownsDisplay = record[d].ownsDisplay /\ record'[d].closing = record[d].closing
           /\ record'[d].eventUsers = record[d].eventUsers /\ record'[d].closeCallbacks = record[d].closeCallbacks
  BY <1>1, <1>2, <1>3, <1>4 DEF Types, RecordType, Freed, Wrapper, AtRest
<1>6. connectionForDisplay' = connectionForDisplay
  BY <1>1, <1>2, <1>4, <1>5 DEF connectionForDisplay, FlatTypes
<1> USE DEF FlatTypes, Using, TakingEvent, TakeLabels, CallbackLabels, Disconnecting
<1>7. Types'
  <2>1. record' \in [Records -> RecordType]
    BY <1>1, <1>2, <1>3, <1>4, WrapperFacts DEF Types
  <2>2. step' \in [Users -> [at : Labels, on : Records \union {NoRecord}]]
    BY <1>1, <1>2, <1>3, <1>4 DEF Types, Labels, AtRest
  <2> QED BY <1>1, <1>4, <2>1, <2>2 DEF Types
<1>8. OnInv'
  BY <1>1, <1>2, <1>4, <1>5, <1>6 DEF OnInv, SetupInv
<1>9. CountInv'
  <2>1. \A d \in Records : /\ Takers(d)' = Takers(d)
                           /\ Callers(d)' = Callers(d)
    BY <1>1, <1>2, <1>4, <1>5, <1>6 DEF Takers, Callers, OnInv
  <2>2. Takers(c) = {} /\ Callers(c) = {}
    BY <1>1, <1>2, <1>4, <1>5, <1>6 DEF OnInv, Takers, Callers, SetupInv, TakingEvent
  <2>3. ASSUME NEW d \in Records
        PROVE  /\ record'[d].eventUsers = Cardinality(Takers(d)')
               /\ record'[d].closeCallbacks = Cardinality(Callers(d)')
    <3>1. CASE d = c
      BY <1>5, <2>1, <2>2, <3>1, FS_EmptySet
    <3>2. CASE d # c
      BY <1>1, <1>5, <2>1, <3>2 DEF CountInv
    <3> QED BY <3>1, <3>2
  <2> QED BY <2>3 DEF CountInv
<1>10. ListInv'
  BY <1>1, <1>2, <1>4, <1>5, <1>6 DEF ListInv
<1>11. TakeInv'
  BY <1>1, <1>2, <1>4, <1>5, <1>6 DEF TakeInv
<1>12. SetupInv'
  BY <1>1, <1>2, <1>4, <1>5, <1>6 DEF SetupInv, OnInv
<1>13. CallbackInv'
  BY <1>1, <1>2, <1>4, <1>5, <1>6 DEF CallbackInv
<1>14. DisconnectInv'
  BY <1>1, <1>2, <1>4, <1>5, <1>6 DEF DisconnectInv, SetupInv
<1>15. OwnedInv'
  BY <1>1, <1>2, <1>4, <1>5, <1>6 DEF OwnedInv
<1>16. SleepInv'
  BY <1>1, <1>2, <1>4, <1>5, <1>6 DEF SleepInv, SetupInv
<1>17. OneCloserInv'
  BY <1>1, <1>2, <1>4, <1>5, <1>6 DEF OneCloserInv
<1>18. GcInv'
  BY <1>1, <1>2, <1>4, <1>5, <1>6 DEF GcInv
<1> QED BY <1>7, <1>8, <1>9, <1>10, <1>11, <1>12, <1>13, <1>14, <1>15, <1>16, <1>17,
   <1>18 DEF ConnectionInv

(* Closing a display. *)
LEMMA CloseBareInv ==
  ASSUME ConnectionInv, NEW u \in Users, CloseDisplay(u), connectionForDisplay = {}
  PROVE  ConnectionInv'
<1>1. /\ Types /\ OnInv /\ CountInv /\ ListInv /\ TakeInv /\ SetupInv
      /\ CallbackInv /\ DisconnectInv /\ OwnedInv /\ SleepInv /\ OneCloserInv /\ GcInv
      /\ NoRecord \notin Records /\ FlatTypes
  BY SessionsAssumption, TypesFlat DEF ConnectionInv
<1>3. /\ step' = [step EXCEPT ![u].at = "teardown"]
  BY <1>1 DEF CloseDisplay, Closing, TakingEvent, Disconnecting, BindingNone, fixed,
     displayVars, listVars, Calling, Doing, Continues, CallEnds, Using
<1>4. /\ UNCHANGED <<session, open, openings, queued, connections, handles, record, gcs, sleepers>>
      /\ step[u].at = "idle" /\ open /\ ~session.owned
      /\ \A v \in Users : step[v].at \in TakingEvent \union Disconnecting
      /\ session.together \/ \A v \in Users : step[v].at \in TakingEvent
  BY <1>1 DEF CloseDisplay, Closing, TakingEvent, Disconnecting, BindingNone, fixed,
     displayVars, listVars, Calling, Doing, Continues, CallEnds, Using
<1>5. /\ \A v \in Users : /\ step'[v].at = (IF v = u THEN "teardown" ELSE step[v].at)
                      /\ step'[v].on = step[v].on
  BY <1>1, <1>3, <1>4 DEF Types, RecordType, Freed, Wrapper, AtRest
<1>6. connectionForDisplay' = connectionForDisplay
  BY <1>1, <1>4, <1>5 DEF connectionForDisplay, FlatTypes
<1> USE DEF FlatTypes, Using, TakingEvent, TakeLabels, CallbackLabels, Disconnecting
<1>7. Types'
  BY <1>1, <1>3, <1>4 DEF Types, RecordType, Labels, AtRest
<1>8. OnInv'
  BY <1>1, <1>4, <1>5, <1>6 DEF OnInv
<1>9. CountInv'
  <2>1. \A d \in Records : /\ Takers(d)' = Takers(d)
                           /\ Callers(d)' = Callers(d)
    BY <1>1, <1>4, <1>5, <1>6 DEF Takers, Callers, OnInv
  <2> QED BY <1>1, <1>4, <1>5, <1>6, <2>1 DEF CountInv
<1>10. ListInv'
  BY <1>1, <1>4, <1>5, <1>6 DEF ListInv
<1>11. TakeInv'
  BY <1>1, <1>4, <1>5, <1>6 DEF TakeInv
<1>12. SetupInv'
  BY <1>1, <1>4, <1>5, <1>6 DEF SetupInv, OnInv
<1>13. CallbackInv'
  BY <1>1, <1>4, <1>5, <1>6 DEF CallbackInv
<1>14. DisconnectInv'
  BY <1>1, <1>4, <1>5, <1>6 DEF DisconnectInv
<1>15. OwnedInv'
  BY <1>1, <1>4, <1>5, <1>6 DEF OwnedInv
<1>16. SleepInv'
  BY <1>1, <1>4, <1>5, <1>6 DEF SleepInv
<1>17. OneCloserInv'
  BY <1>1, <1>4, <1>5, <1>6 DEF OneCloserInv
<1>18. GcInv'
  BY <1>1, <1>4, <1>5, <1>6 DEF GcInv
<1> QED BY <1>7, <1>8, <1>9, <1>10, <1>11, <1>12, <1>13, <1>14, <1>15, <1>16, <1>17,
   <1>18 DEF ConnectionInv

(* Closing a display that has a record, counted.                            *)
LEMMA CloseAttachInv ==
  ASSUME ConnectionInv, NEW u \in Users, CloseDisplay(u), connectionForDisplay # {}
  PROVE  ConnectionInv'
<1>1. /\ Types /\ OnInv /\ CountInv /\ ListInv /\ TakeInv /\ SetupInv
      /\ CallbackInv /\ DisconnectInv /\ OwnedInv /\ SleepInv /\ OneCloserInv /\ GcInv
      /\ NoRecord \notin Records /\ FlatTypes
  BY SessionsAssumption, TypesFlat DEF ConnectionInv
<1>2. PICK c \in connectionForDisplay :
        /\ record' = [record EXCEPT ![c].closeCallbacks = @ + 1]
        /\ step' = [step EXCEPT ![u] = [at |-> "closing", on |-> c]]
  BY DEF CloseDisplay
<1>3. /\ record' = [record EXCEPT ![c].closeCallbacks = @ + 1]
      /\ step' = [step EXCEPT ![u] = [at |-> "closing", on |-> c]]
  BY <1>1, <1>2 DEF CloseDisplay, ListInv, connectionForDisplay, FlatTypes, Callers,
     CallbackLabels, Closing, TakingEvent, Disconnecting, BindingNone, fixed, displayVars,
     listVars, Calling, Doing, Continues, CallEnds, Using
<1>4. /\ UNCHANGED <<session, open, openings, queued, connections, handles, gcs, sleepers>>
      /\ step[u].at = "idle" /\ open /\ ~session.owned
      /\ \A v \in Users : step[v].at \in TakingEvent \union Disconnecting
      /\ session.together \/ \A v \in Users : step[v].at \in TakingEvent
      /\ c \in Records /\ record[c].live /\ connectionForDisplay = {c} /\ u \notin Callers(c)
  BY <1>1, <1>2 DEF CloseDisplay, ListInv, connectionForDisplay, FlatTypes, Callers,
     CallbackLabels, Closing, TakingEvent, Disconnecting, BindingNone, fixed, displayVars,
     listVars, Calling, Doing, Continues, CallEnds, Using
<1>5. /\ \A v \in Users : /\ step'[v].at = (IF v = u THEN "closing" ELSE step[v].at)
                      /\ step'[v].on = (IF v = u THEN c ELSE step[v].on)
      /\ \A d \in Records :
           /\ record'[d].closeCallbacks = (IF d = c THEN record[d].closeCallbacks + 1 ELSE record[d].closeCallbacks)
           /\ record'[d].live = record[d].live /\ record'[d].display = record[d].display
           /\ record'[d].ownsDisplay = record[d].ownsDisplay /\ record'[d].closing = record[d].closing
           /\ record'[d].eventUsers = record[d].eventUsers
  BY <1>1, <1>2, <1>3, <1>4 DEF Types, RecordType, Freed, Wrapper, AtRest
<1>6. connectionForDisplay' = connectionForDisplay
  BY <1>1, <1>4, <1>5 DEF connectionForDisplay, FlatTypes
<1> USE DEF FlatTypes, Using, TakingEvent, TakeLabels, CallbackLabels, Disconnecting
<1>7. Types'
  BY <1>1, <1>2, <1>3, <1>4 DEF Types, RecordType, Labels, AtRest
<1>8. OnInv'
  BY <1>1, <1>4, <1>5, <1>6 DEF OnInv
<1>9. CountInv'
  <2>1. \A d \in Records : /\ Takers(d)' = Takers(d)
                           /\ Callers(d)' = (IF d = c THEN Callers(d) \union {u} ELSE Callers(d))
    BY <1>1, <1>4, <1>5, <1>6 DEF Takers, Callers, OnInv
  <2>2. Takers(c) \subseteq Users /\ Callers(c) \subseteq Users
    BY DEF Takers, Callers
  <2>3. Cardinality(Callers(c)') = Cardinality(Callers(c)) + 1
    BY <1>1, <1>4, <1>5, <1>6, <2>1, <2>2, UserSets
  <2> QED BY <1>1, <1>4, <1>5, <1>6, <2>1, <2>3 DEF CountInv
<1>10. ListInv'
  BY <1>1, <1>4, <1>5, <1>6 DEF ListInv
<1>11. TakeInv'
  BY <1>1, <1>4, <1>5, <1>6 DEF TakeInv
<1>12. SetupInv'
  BY <1>1, <1>4, <1>5, <1>6 DEF SetupInv, OnInv
<1>13. CallbackInv'
  BY <1>1, <1>4, <1>5, <1>6 DEF CallbackInv
<1>14. DisconnectInv'
  BY <1>1, <1>4, <1>5, <1>6 DEF DisconnectInv
<1>15. OwnedInv'
  BY <1>1, <1>4, <1>5, <1>6 DEF OwnedInv
<1>16. SleepInv'
  BY <1>1, <1>4, <1>5, <1>6 DEF SleepInv
<1>17. OneCloserInv'
  BY <1>1, <1>4, <1>5, <1>6 DEF OneCloserInv
<1>18. GcInv'
  BY <1>1, <1>4, <1>5, <1>6 DEF GcInv
<1> QED BY <1>7, <1>8, <1>9, <1>10, <1>11, <1>12, <1>13, <1>14, <1>15, <1>16, <1>17,
   <1>18 DEF ConnectionInv

(* displayClosed, which BeginClosed and AwaitUsers run. *)
LEMMA BeginClosedSleepsInv ==
  ASSUME ConnectionInv, NEW u \in Users, BeginClosed(u), record[Using(u)].eventUsers > 0
  PROVE  ConnectionInv'
<1>1. /\ Types /\ OnInv /\ CountInv /\ ListInv /\ TakeInv /\ SetupInv
      /\ CallbackInv /\ DisconnectInv /\ OwnedInv /\ SleepInv /\ OneCloserInv /\ GcInv
      /\ NoRecord \notin Records /\ FlatTypes
  BY SessionsAssumption, TypesFlat DEF ConnectionInv
<1>2. PICK c \in Records : c = step[u].on /\ record[c].live
  BY <1>1 DEF OnInv, Using, BeginClosed, Doing
<1>21. /\ record' = Refuses(c) /\ Sleeps(u, "awaitUsers") /\ step[u].at = "closing"
       /\ UNCHANGED <<fixed, listVars, gcs, called, last, cookies>>
  <2>1. displayClosed(u, Refuses(c)) /\ step[u].at = "closing"
    BY <1>2 DEF BeginClosed, Doing, Using
  <2>2. Refuses(c)[c].eventUsers > 0
    BY <1>1, <1>2 DEF Refuses, Types, RecordType, Using
  <2> QED BY <1>2, <2>1, <2>2 DEF displayClosed, Using
<1>3. /\ record' = [record EXCEPT ![c] = [record[c] EXCEPT !.closing = TRUE]]
      /\ step' = [step EXCEPT ![u].at = "awaitUsers"]
  BY <1>1, <1>2, <1>21 DEF Refuses, Sleeps, Continues, Types
<1>4. /\ UNCHANGED <<session, open, openings, queued, connections, handles, gcs>>
      /\ step[u].at = "closing" /\ c = step[u].on /\ record[c].live
      /\ record[c].eventUsers > 0 /\ c \in Records
      /\ sleepers' = sleepers \union {u}
  BY <1>1, <1>2, <1>21 DEF Sleeps, fixed, displayVars, listVars, Using, FlatTypes
<1>5. /\ \A v \in Users : /\ step'[v].at = (IF v = u THEN "awaitUsers" ELSE step[v].at)
                      /\ step'[v].on = step[v].on
      /\ record'[c].closing
      /\ \A d \in Records : d # c =>
           /\ record'[d].closing = record[d].closing
      /\ \A d \in Records : 
           /\ record'[d].live = record[d].live /\ record'[d].display = record[d].display
           /\ record'[d].ownsDisplay = record[d].ownsDisplay /\ record'[d].eventUsers = record[d].eventUsers
           /\ record'[d].closeCallbacks = record[d].closeCallbacks
  BY <1>1, <1>2, <1>3, <1>4 DEF Types, RecordType, Freed, Wrapper, AtRest
<1>6. connectionForDisplay' = connectionForDisplay
  BY <1>1, <1>2, <1>4, <1>5 DEF connectionForDisplay, FlatTypes
<1> USE DEF FlatTypes, Using, TakingEvent, TakeLabels, CallbackLabels, Disconnecting
<1>7. Types'
  <2>1. record' \in [Records -> RecordType]
    BY <1>1, <1>2, <1>3, <1>4, WrapperFacts DEF Types
  <2>2. step' \in [Users -> [at : Labels, on : Records \union {NoRecord}]]
    BY <1>1, <1>2, <1>3, <1>4 DEF Types, Labels, AtRest
  <2> QED BY <1>1, <1>4, <2>1, <2>2 DEF Types
<1>8. OnInv'
  BY <1>1, <1>2, <1>4, <1>5, <1>6 DEF OnInv
<1>9. CountInv'
  <2>1. \A d \in Records : /\ Takers(d)' = Takers(d)
                           /\ Callers(d)' = Callers(d)
    BY <1>1, <1>2, <1>4, <1>5, <1>6 DEF Takers, Callers, OnInv
  <2> QED BY <1>1, <1>2, <1>4, <1>5, <1>6, <2>1 DEF CountInv
<1>10. ListInv'
  BY <1>1, <1>2, <1>4, <1>5, <1>6 DEF ListInv
<1>11. TakeInv'
  BY <1>1, <1>2, <1>4, <1>5, <1>6 DEF TakeInv
<1>12. SetupInv'
  BY <1>1, <1>2, <1>4, <1>5, <1>6 DEF SetupInv, OnInv
<1>13. CallbackInv'
  BY <1>1, <1>2, <1>4, <1>5, <1>6 DEF CallbackInv
<1>14. DisconnectInv'
  BY <1>1, <1>2, <1>4, <1>5, <1>6 DEF DisconnectInv
<1>15. OwnedInv'
  BY <1>1, <1>2, <1>4, <1>5, <1>6 DEF OwnedInv
<1>16. SleepInv'
  BY <1>1, <1>2, <1>4, <1>5, <1>6 DEF SleepInv
<1>17. OneCloserInv'
  BY <1>1, <1>2, <1>4, <1>5, <1>6 DEF OneCloserInv
<1>18. GcInv'
  BY <1>1, <1>2, <1>4, <1>5, <1>6 DEF GcInv
<1> QED BY <1>7, <1>8, <1>9, <1>10, <1>11, <1>12, <1>13, <1>14, <1>15, <1>16, <1>17,
   <1>18 DEF ConnectionInv

(* Nobody takes events: the record lets the display go.                     *)
LEMMA BeginClosedClearsInv ==
  ASSUME ConnectionInv, NEW u \in Users, BeginClosed(u), ~(record[Using(u)].eventUsers > 0)
  PROVE  ConnectionInv'
<1>1. /\ Types /\ OnInv /\ CountInv /\ ListInv /\ TakeInv /\ SetupInv
      /\ CallbackInv /\ DisconnectInv /\ OwnedInv /\ SleepInv /\ OneCloserInv /\ GcInv
      /\ NoRecord \notin Records /\ FlatTypes
  BY SessionsAssumption, TypesFlat DEF ConnectionInv
<1>2. PICK c \in Records : c = step[u].on /\ record[c].live
  BY <1>1 DEF OnInv, Using, BeginClosed, Doing
<1>20. record[c].eventUsers = 0
  BY <1>1, <1>2 DEF BeginClosed, FlatTypes, Using
<1>21. Takers(c) = {}
  BY <1>2, <1>20, NobodyCounted
<1>22. PICK noted : noted = Refuses(c)
  OBVIOUS
<1>23. /\ noted \in [Records -> RecordType]
       /\ noted[c].live /\ noted[c].closing
       /\ \A d \in Records : d # c => noted[d].closing = record[d].closing
       /\ \A d \in Records :
            /\ noted[d].live = record[d].live /\ noted[d].display = record[d].display
            /\ noted[d].ownsDisplay = record[d].ownsDisplay
            /\ noted[d].eventUsers = record[d].eventUsers
            /\ noted[d].closeCallbacks = record[d].closeCallbacks
  <2>1. noted = [record EXCEPT ![c] = [record[c] EXCEPT !.closing = TRUE]]
    BY <1>1, <1>2, <1>22 DEF Types, Refuses
  <2>2. noted \in [Records -> RecordType]
    BY <1>1, <1>2, <2>1, WrapperFacts DEF Types
  <2> QED BY <1>1, <1>2, <2>1, <2>2 DEF Types, RecordType
<1>24. displayClosed(u, noted) /\ c = step[u].on /\ step[u].at = "closing"
  BY <1>2, <1>22 DEF BeginClosed, Using, Doing
<1>25. ~(noted[c].eventUsers > 0) /\ noted \in [Records -> RecordType]
  BY <1>1, <1>2, <1>23, <1>20 DEF FlatTypes
<1>3. /\ record' = [noted EXCEPT ![c] = [noted[c] EXCEPT !.display = FALSE, !.ownsDisplay = FALSE,
                                                    !.errors = 0]]
      /\ step' = [step EXCEPT ![u].at = "closed"]
  BY <1>2, <1>24, <1>25 DEF displayClosed, Using, Continues
<1>4. /\ UNCHANGED <<session, open, openings, queued, connections, handles, gcs, sleepers>>
      /\ step[u].at = "closing" /\ c = step[u].on /\ record[c].live /\ record[c].eventUsers = 0
      /\ u \notin sleepers /\ c \in Records
      /\ connectionForDisplay \subseteq {c}
  <2>1. displayClosed(u, noted) /\ u \notin sleepers /\ ~(noted[c].eventUsers > 0)
    BY <1>1, <1>24, <1>25 DEF SleepInv
  <2>2. UNCHANGED <<session, open, openings, queued, connections, handles, gcs, sleepers>>
    BY <1>2, <1>24, <1>25, <2>1 DEF displayClosed, BeginClosed, fixed, displayVars, listVars, Using
  <2> QED BY <1>1, <1>2, <1>20, <1>24, <2>1, <2>2
    DEF displayClosed, BeginClosed, CallbackInv, CallbackLabels, FlatTypes, Using
<1>5. /\ \A v \in Users : /\ step'[v].at = (IF v = u THEN "closed" ELSE step[v].at)
                      /\ step'[v].on = step[v].on
      /\ ~record'[c].display /\ ~record'[c].ownsDisplay /\ record'[c].closing
      /\ \A d \in Records : d # c =>
           /\ record'[d].display = record[d].display /\ record'[d].ownsDisplay = record[d].ownsDisplay
           /\ record'[d].closing = record[d].closing
      /\ \A d \in Records : 
           /\ record'[d].live = record[d].live /\ record'[d].eventUsers = record[d].eventUsers
           /\ record'[d].closeCallbacks = record[d].closeCallbacks
  BY <1>1, <1>2, <1>3, <1>4, <1>21, <1>24, <1>25, <1>23
     DEF Types, RecordType, Freed, Wrapper, AtRest
<1>6. connectionForDisplay' = {}
  BY <1>1, <1>2, <1>4, <1>21, <1>5 DEF connectionForDisplay, FlatTypes
<1> USE DEF FlatTypes, Using, TakingEvent, TakeLabels, CallbackLabels, Disconnecting
<1>7. Types'
  <2>1. record' \in [Records -> RecordType]
    BY <1>1, <1>2, <1>3, <1>4, <1>21, <1>24, <1>25, WrapperFacts DEF Types
  <2>2. step' \in [Users -> [at : Labels, on : Records \union {NoRecord}]]
    BY <1>1, <1>2, <1>3, <1>4, <1>21 DEF Types, Labels, AtRest
  <2> QED BY <1>1, <1>4, <1>21, <2>1, <2>2 DEF Types
<1>8. OnInv'
  BY <1>1, <1>2, <1>4, <1>21, <1>5, <1>6 DEF OnInv
<1>9. CountInv'
  <2>1. \A d \in Records : /\ Takers(d)' = Takers(d)
                           /\ Callers(d)' = Callers(d)
    BY <1>1, <1>2, <1>4, <1>21, <1>5, <1>6 DEF Takers, Callers, OnInv
  <2> QED BY <1>1, <1>2, <1>4, <1>21, <1>5, <1>6, <2>1 DEF CountInv
<1>10. ListInv'
  BY <1>1, <1>2, <1>4, <1>21, <1>5, <1>6 DEF ListInv
<1>11. TakeInv'
  BY <1>1, <1>2, <1>4, <1>21, <1>5, <1>6 DEF TakeInv, Takers
<1>12. SetupInv'
  BY <1>1, <1>2, <1>4, <1>21, <1>5, <1>6 DEF SetupInv, OnInv
<1>13. CallbackInv'
  BY <1>1, <1>2, <1>4, <1>21, <1>5, <1>6 DEF CallbackInv
<1>14. DisconnectInv'
  BY <1>1, <1>2, <1>4, <1>21, <1>5, <1>6 DEF DisconnectInv
<1>15. OwnedInv'
  BY <1>1, <1>2, <1>4, <1>21, <1>5, <1>6 DEF OwnedInv
<1>16. SleepInv'
  BY <1>1, <1>2, <1>4, <1>21, <1>5, <1>6 DEF SleepInv
<1>17. OneCloserInv'
  BY <1>1, <1>2, <1>4, <1>21, <1>5, <1>6 DEF OneCloserInv
<1>18. GcInv'
  BY <1>1, <1>2, <1>4, <1>21, <1>5, <1>6 DEF GcInv
<1> QED BY <1>7, <1>8, <1>9, <1>10, <1>11, <1>12, <1>13, <1>14, <1>15, <1>16, <1>17,
   <1>18 DEF ConnectionInv

(* Woken too early.                                                         *)
LEMMA AwaitUsersSleepsInv ==
  ASSUME ConnectionInv, NEW u \in Users, AwaitUsers(u), record[Using(u)].eventUsers > 0
  PROVE  ConnectionInv'
<1>1. /\ Types /\ OnInv /\ CountInv /\ ListInv /\ TakeInv /\ SetupInv
      /\ CallbackInv /\ DisconnectInv /\ OwnedInv /\ SleepInv /\ OneCloserInv /\ GcInv
      /\ NoRecord \notin Records /\ FlatTypes
  BY SessionsAssumption, TypesFlat DEF ConnectionInv
<1>2. PICK c \in Records : c = step[u].on /\ record[c].live
  BY <1>1 DEF OnInv, Using, AwaitUsers, Doing
<1>3. /\ step' = [step EXCEPT ![u].at = "awaitUsers"]
  BY <1>1, <1>2 DEF AwaitUsers, displayClosed, Refuses, Awake, Sleeps, fixed, displayVars,
     listVars, Calling, Doing, Continues, CallEnds, Using
<1>4. /\ UNCHANGED <<session, open, openings, queued, connections, handles, gcs, record>>
      /\ step[u].at = "awaitUsers" /\ c = step[u].on /\ record[c].live
      /\ record[c].eventUsers > 0 /\ c \in Records
      /\ sleepers' = sleepers \union {u}
  BY <1>1, <1>2 DEF AwaitUsers, displayClosed, Refuses, Awake, Sleeps, fixed, displayVars,
     listVars, Calling, Doing, Continues, CallEnds, Using
<1>5. /\ \A v \in Users : /\ step'[v].at = (IF v = u THEN "awaitUsers" ELSE step[v].at)
                      /\ step'[v].on = step[v].on
  BY <1>1, <1>2, <1>3, <1>4 DEF Types, RecordType, Freed, Wrapper, AtRest
<1>6. connectionForDisplay' = connectionForDisplay
  BY <1>1, <1>2, <1>4, <1>5 DEF connectionForDisplay, FlatTypes
<1> USE DEF FlatTypes, Using, TakingEvent, TakeLabels, CallbackLabels, Disconnecting
<1>7. Types'
  BY <1>1, <1>2, <1>3, <1>4 DEF Types, RecordType, Labels, AtRest
<1>8. OnInv'
  BY <1>1, <1>2, <1>4, <1>5, <1>6 DEF OnInv
<1>9. CountInv'
  <2>1. \A d \in Records : /\ Takers(d)' = Takers(d)
                           /\ Callers(d)' = Callers(d)
    BY <1>1, <1>2, <1>4, <1>5, <1>6 DEF Takers, Callers, OnInv
  <2> QED BY <1>1, <1>2, <1>4, <1>5, <1>6, <2>1 DEF CountInv
<1>10. ListInv'
  BY <1>1, <1>2, <1>4, <1>5, <1>6 DEF ListInv
<1>11. TakeInv'
  BY <1>1, <1>2, <1>4, <1>5, <1>6 DEF TakeInv
<1>12. SetupInv'
  BY <1>1, <1>2, <1>4, <1>5, <1>6 DEF SetupInv, OnInv
<1>13. CallbackInv'
  BY <1>1, <1>2, <1>4, <1>5, <1>6 DEF CallbackInv
<1>14. DisconnectInv'
  BY <1>1, <1>2, <1>4, <1>5, <1>6 DEF DisconnectInv
<1>15. OwnedInv'
  BY <1>1, <1>2, <1>4, <1>5, <1>6 DEF OwnedInv
<1>16. SleepInv'
  BY <1>1, <1>2, <1>4, <1>5, <1>6 DEF SleepInv
<1>17. OneCloserInv'
  BY <1>1, <1>2, <1>4, <1>5, <1>6 DEF OneCloserInv
<1>18. GcInv'
  BY <1>1, <1>2, <1>4, <1>5, <1>6 DEF GcInv
<1> QED BY <1>7, <1>8, <1>9, <1>10, <1>11, <1>12, <1>13, <1>14, <1>15, <1>16, <1>17,
   <1>18 DEF ConnectionInv

(* Woken when nobody takes events any more.                                 *)
LEMMA AwaitUsersClearsInv ==
  ASSUME ConnectionInv, NEW u \in Users, AwaitUsers(u), ~(record[Using(u)].eventUsers > 0)
  PROVE  ConnectionInv'
<1>1. /\ Types /\ OnInv /\ CountInv /\ ListInv /\ TakeInv /\ SetupInv
      /\ CallbackInv /\ DisconnectInv /\ OwnedInv /\ SleepInv /\ OneCloserInv /\ GcInv
      /\ NoRecord \notin Records /\ FlatTypes
  BY SessionsAssumption, TypesFlat DEF ConnectionInv
<1>2. PICK c \in Records : c = step[u].on /\ record[c].live
  BY <1>1 DEF OnInv, Using, AwaitUsers, Doing
<1>20. record[c].eventUsers = 0
  BY <1>1, <1>2 DEF AwaitUsers, FlatTypes, Using
<1>21. Takers(c) = {}
  BY <1>2, <1>20, NobodyCounted
<1>22. /\ displayClosed(u, record) /\ step[u].at = "awaitUsers" /\ u \notin sleepers
       /\ ~(record[c].eventUsers > 0)
  BY <1>20, <1>2 DEF AwaitUsers, Awake, Doing, Using
<1>3. /\ record' = [record EXCEPT ![c] = [record[c] EXCEPT !.display = FALSE,
                                                      !.ownsDisplay = FALSE, !.errors = 0]]
      /\ step' = [step EXCEPT ![u].at = "closed"]
  BY <1>1, <1>2, <1>22 DEF displayClosed, Continues, Using, Types
<1>4. /\ UNCHANGED <<session, open, openings, queued, connections, handles, gcs, sleepers>>
      /\ step[u].at = "awaitUsers" /\ c = step[u].on /\ record[c].live /\ record[c].eventUsers = 0
      /\ u \notin sleepers /\ c \in Records
      /\ connectionForDisplay \subseteq {c}
  <2>1. UNCHANGED <<session, open, openings, queued, connections, handles, gcs, sleepers>>
    BY <1>2, <1>22 DEF displayClosed, fixed, displayVars, listVars, Using
  <2> QED BY <1>1, <1>2, <1>20, <1>22, <2>1 DEF CallbackInv, CallbackLabels, FlatTypes, Using
<1>5. /\ \A v \in Users : /\ step'[v].at = (IF v = u THEN "closed" ELSE step[v].at)
                      /\ step'[v].on = step[v].on
      /\ ~record'[c].display /\ ~record'[c].ownsDisplay
      /\ \A d \in Records : d # c =>
           /\ record'[d].display = record[d].display /\ record'[d].ownsDisplay = record[d].ownsDisplay
      /\ \A d \in Records : 
           /\ record'[d].live = record[d].live /\ record'[d].closing = record[d].closing
           /\ record'[d].eventUsers = record[d].eventUsers /\ record'[d].closeCallbacks = record[d].closeCallbacks
  BY <1>1, <1>2, <1>3, <1>4, <1>21 DEF Types, RecordType, Freed, Wrapper, AtRest
<1>6. connectionForDisplay' = {}
  BY <1>1, <1>2, <1>4, <1>21, <1>5 DEF connectionForDisplay, FlatTypes
<1> USE DEF FlatTypes, Using, TakingEvent, TakeLabels, CallbackLabels, Disconnecting
<1>7. Types'
  <2>1. record' \in [Records -> RecordType]
    BY <1>1, <1>2, <1>3, <1>4, <1>21, WrapperFacts DEF Types
  <2>2. step' \in [Users -> [at : Labels, on : Records \union {NoRecord}]]
    BY <1>1, <1>2, <1>3, <1>4, <1>21 DEF Types, Labels, AtRest
  <2> QED BY <1>1, <1>4, <1>21, <2>1, <2>2 DEF Types
<1>8. OnInv'
  BY <1>1, <1>2, <1>4, <1>21, <1>5, <1>6 DEF OnInv
<1>9. CountInv'
  <2>1. \A d \in Records : /\ Takers(d)' = Takers(d)
                           /\ Callers(d)' = Callers(d)
    BY <1>1, <1>2, <1>4, <1>21, <1>5, <1>6 DEF Takers, Callers, OnInv
  <2> QED BY <1>1, <1>2, <1>4, <1>21, <1>5, <1>6, <2>1 DEF CountInv
<1>10. ListInv'
  BY <1>1, <1>2, <1>4, <1>21, <1>5, <1>6 DEF ListInv
<1>11. TakeInv'
  BY <1>1, <1>2, <1>4, <1>21, <1>5, <1>6 DEF TakeInv, Takers
<1>12. SetupInv'
  BY <1>1, <1>2, <1>4, <1>21, <1>5, <1>6 DEF SetupInv, OnInv
<1>13. CallbackInv'
  BY <1>1, <1>2, <1>4, <1>21, <1>5, <1>6 DEF CallbackInv
<1>14. DisconnectInv'
  BY <1>1, <1>2, <1>4, <1>21, <1>5, <1>6 DEF DisconnectInv
<1>15. OwnedInv'
  BY <1>1, <1>2, <1>4, <1>21, <1>5, <1>6 DEF OwnedInv
<1>16. SleepInv'
  BY <1>1, <1>2, <1>4, <1>21, <1>5, <1>6 DEF SleepInv
<1>17. OneCloserInv'
  BY <1>1, <1>2, <1>4, <1>21, <1>5, <1>6 DEF OneCloserInv
<1>18. GcInv'
  BY <1>1, <1>2, <1>4, <1>21, <1>5, <1>6 DEF GcInv
<1> QED BY <1>7, <1>8, <1>9, <1>10, <1>11, <1>12, <1>13, <1>14, <1>15, <1>16, <1>17,
   <1>18 DEF ConnectionInv

(* The GCs are taken away.                                                  *)
LEMMA ReleaseClosedInv ==
  ASSUME ConnectionInv, NEW u \in Users, ReleaseClosed(u)
  PROVE  ConnectionInv'
<1>1. /\ Types /\ OnInv /\ CountInv /\ ListInv /\ TakeInv /\ SetupInv
      /\ CallbackInv /\ DisconnectInv /\ OwnedInv /\ SleepInv /\ OneCloserInv /\ GcInv
      /\ NoRecord \notin Records /\ FlatTypes
  BY SessionsAssumption, TypesFlat DEF ConnectionInv
<1>2. PICK c \in Records : c = step[u].on /\ record[c].live
  BY <1>1 DEF OnInv, Using, ReleaseClosed, Doing
<1>3. /\ step' = [step EXCEPT ![u].at = "endClosed"]
      /\ gcs' = [gcs EXCEPT ![c] = 0]
  BY <1>1, <1>2 DEF ReleaseClosed, ReleasesGcs, Types, fixed, displayVars, listVars,
     Calling, Doing, Continues, CallEnds, Using
<1>4. /\ UNCHANGED <<session, open, openings, queued, connections, handles, record, sleepers>>
      /\ step[u].at = "closed" /\ c = step[u].on
      /\ \A d \in Records : gcs'[d] = (IF d = c THEN 0 ELSE gcs[d])
  BY <1>1, <1>2 DEF ReleaseClosed, ReleasesGcs, Types, fixed, displayVars, listVars,
     Calling, Doing, Continues, CallEnds, Using
<1>5. /\ \A v \in Users : /\ step'[v].at = (IF v = u THEN "endClosed" ELSE step[v].at)
                      /\ step'[v].on = step[v].on
  BY <1>1, <1>2, <1>3, <1>4 DEF Types, RecordType, Freed, Wrapper, AtRest
<1>6. connectionForDisplay' = connectionForDisplay
  BY <1>1, <1>2, <1>4, <1>5 DEF connectionForDisplay, FlatTypes
<1> USE DEF FlatTypes, Using, TakingEvent, TakeLabels, CallbackLabels, Disconnecting
<1>7. Types'
  BY <1>1, <1>2, <1>3, <1>4 DEF Types, RecordType, Labels, AtRest
<1>8. OnInv'
  BY <1>1, <1>2, <1>4, <1>5, <1>6 DEF OnInv
<1>9. CountInv'
  <2>1. \A d \in Records : /\ Takers(d)' = Takers(d)
                           /\ Callers(d)' = Callers(d)
    BY <1>1, <1>2, <1>4, <1>5, <1>6 DEF Takers, Callers, OnInv
  <2> QED BY <1>1, <1>2, <1>4, <1>5, <1>6, <2>1 DEF CountInv
<1>10. ListInv'
  BY <1>1, <1>2, <1>4, <1>5, <1>6 DEF ListInv
<1>11. TakeInv'
  BY <1>1, <1>2, <1>4, <1>5, <1>6 DEF TakeInv
<1>12. SetupInv'
  BY <1>1, <1>2, <1>4, <1>5, <1>6 DEF SetupInv, OnInv
<1>13. CallbackInv'
  BY <1>1, <1>2, <1>4, <1>5, <1>6 DEF CallbackInv
<1>14. DisconnectInv'
  BY <1>1, <1>2, <1>4, <1>5, <1>6 DEF DisconnectInv
<1>15. OwnedInv'
  BY <1>1, <1>2, <1>4, <1>5, <1>6 DEF OwnedInv
<1>16. SleepInv'
  BY <1>1, <1>2, <1>4, <1>5, <1>6 DEF SleepInv
<1>17. OneCloserInv'
  BY <1>1, <1>2, <1>4, <1>5, <1>6 DEF OneCloserInv
<1>18. GcInv'
  BY <1>1, <1>2, <1>4, <1>5, <1>6 DEF GcInv
<1> QED BY <1>7, <1>8, <1>9, <1>10, <1>11, <1>12, <1>13, <1>14, <1>15, <1>16, <1>17,
   <1>18 DEF ConnectionInv

(* The callback ends, and wakes whoever disconnects.                        *)
LEMMA EndClosedInv ==
  ASSUME ConnectionInv, NEW u \in Users, EndClosed(u)
  PROVE  ConnectionInv'
<1>1. /\ Types /\ OnInv /\ CountInv /\ ListInv /\ TakeInv /\ SetupInv
      /\ CallbackInv /\ DisconnectInv /\ OwnedInv /\ SleepInv /\ OneCloserInv /\ GcInv
      /\ NoRecord \notin Records /\ FlatTypes
  BY SessionsAssumption, TypesFlat DEF ConnectionInv
<1>2. PICK c \in Records : c = step[u].on /\ record[c].live
  BY <1>1 DEF EndClosed, Doing, OnInv, Using
<1>21. /\ u \in Callers(c) /\ record[c].closeCallbacks = Cardinality(Callers(c)) /\ Callers(c) \subseteq Users
  BY <1>1, <1>2 DEF EndClosed, Doing, Callers, CallbackLabels, CountInv, Using
<1>22. record[c].closeCallbacks > 0 /\ record[c].closeCallbacks \in Nat /\ c = step[u].on /\ record[c].live
  BY <1>2, <1>21, UserSets
<1>3. /\ step' = [step EXCEPT ![u] = [at |-> "teardown", on |-> NoRecord]]
      /\ record' = [record EXCEPT ![c].closeCallbacks = @ - 1]
  BY <1>1, <1>2, <1>21, <1>22
     DEF EndClosed, Broadcast, StillAsleep, fixed, displayVars, listVars, Calling, Doing,
     Continues, CallEnds, Using
<1>4. /\ UNCHANGED <<session, open, openings, queued, connections, handles, gcs>>
      /\ step[u].at = "endClosed" /\ c = step[u].on
      /\ sleepers' = {v \in sleepers : step[v].on # c}
  BY <1>1, <1>2, <1>21, <1>22
     DEF EndClosed, Broadcast, StillAsleep, fixed, displayVars, listVars, Calling, Doing,
     Continues, CallEnds, Using
<1>5. /\ \A v \in Users : /\ step'[v].at = (IF v = u THEN "teardown" ELSE step[v].at)
                      /\ step'[v].on = (IF v = u THEN NoRecord ELSE step[v].on)
      /\ \A d \in Records :
           /\ record'[d].closeCallbacks = (IF d = c THEN record[d].closeCallbacks - 1 ELSE record[d].closeCallbacks)
           /\ record'[d].live = record[d].live /\ record'[d].display = record[d].display
           /\ record'[d].ownsDisplay = record[d].ownsDisplay /\ record'[d].closing = record[d].closing
           /\ record'[d].eventUsers = record[d].eventUsers
  BY <1>1, <1>2, <1>3, <1>4, <1>21, <1>22 DEF Types, RecordType, Freed, Wrapper, AtRest
<1>6. connectionForDisplay' = connectionForDisplay
  BY <1>1, <1>4, <1>21, <1>22, <1>5 DEF connectionForDisplay, FlatTypes
<1> USE DEF FlatTypes, Using, TakingEvent, TakeLabels, CallbackLabels, Disconnecting
<1>7. Types'
  BY <1>1, <1>2, <1>3, <1>4, <1>21, <1>22 DEF Types, RecordType, Labels, AtRest
<1>8. OnInv'
  BY <1>1, <1>4, <1>21, <1>22, <1>5, <1>6 DEF OnInv
<1>9. CountInv'
  <2>1. \A d \in Records : /\ Takers(d)' = Takers(d)
                           /\ Callers(d)' = (IF d = c THEN Callers(d) \ {u} ELSE Callers(d))
    BY <1>1, <1>4, <1>21, <1>22, <1>5, <1>6 DEF Takers, Callers, OnInv
  <2>2. Takers(c) \subseteq Users /\ Callers(c) \subseteq Users
    BY DEF Takers, Callers
  <2>3. Cardinality(Callers(c)') = Cardinality(Callers(c)) - 1
    BY <1>1, <1>4, <1>21, <1>22, <1>5, <1>6, <2>1, <2>2, UserSets
  <2> QED BY <1>1, <1>4, <1>21, <1>22, <1>5, <1>6, <2>1, <2>3 DEF CountInv
<1>10. ListInv'
  BY <1>1, <1>4, <1>21, <1>22, <1>5, <1>6 DEF ListInv
<1>11. TakeInv'
  BY <1>1, <1>4, <1>21, <1>22, <1>5, <1>6 DEF TakeInv
<1>12. SetupInv'
  BY <1>1, <1>4, <1>21, <1>22, <1>5, <1>6 DEF SetupInv, OnInv
<1>13. CallbackInv'
  BY <1>1, <1>4, <1>21, <1>22, <1>5, <1>6 DEF CallbackInv
<1>14. DisconnectInv'
  BY <1>1, <1>4, <1>21, <1>22, <1>5, <1>6 DEF DisconnectInv
<1>15. OwnedInv'
  BY <1>1, <1>4, <1>21, <1>22, <1>5, <1>6 DEF OwnedInv
<1>16. SleepInv'
  BY <1>1, <1>4, <1>21, <1>22, <1>5, <1>6 DEF SleepInv
<1>17. OneCloserInv'
  BY <1>1, <1>4, <1>21, <1>22, <1>5, <1>6 DEF OneCloserInv
<1>18. GcInv'
  BY <1>1, <1>4, <1>21, <1>22, <1>5, <1>6 DEF GcInv
<1> QED BY <1>7, <1>8, <1>9, <1>10, <1>11, <1>12, <1>13, <1>14, <1>15, <1>16, <1>17,
   <1>18 DEF ConnectionInv

(* The display is taken down.                                               *)
LEMMA TeardownInv ==
  ASSUME ConnectionInv, NEW u \in Users, Teardown(u)
  PROVE  ConnectionInv'
<1>1. /\ Types /\ OnInv /\ CountInv /\ ListInv /\ TakeInv /\ SetupInv
      /\ CallbackInv /\ DisconnectInv /\ OwnedInv /\ SleepInv /\ OneCloserInv /\ GcInv
      /\ NoRecord \notin Records /\ FlatTypes
  BY SessionsAssumption, TypesFlat DEF ConnectionInv
<1>3. /\ step' = [step EXCEPT ![u] = AtRest]
  BY <1>1 DEF Teardown, CallbackInv, fixed, displayVars, listVars, Calling, Doing,
     Continues, CallEnds, Using
<1>4. /\ UNCHANGED <<session, openings, connections, handles, record, gcs, sleepers>>
      /\ step[u].at = "teardown" /\ ~open' /\ open' \in BOOLEAN /\ queued' = 0
      /\ connectionForDisplay = {}
  BY <1>1 DEF Teardown, CallbackInv, fixed, displayVars, listVars, Calling, Doing,
     Continues, CallEnds, Using
<1>5. /\ \A v \in Users : /\ step'[v].at = (IF v = u THEN "idle" ELSE step[v].at)
                      /\ step'[v].on = (IF v = u THEN NoRecord ELSE step[v].on)
  BY <1>1, <1>3, <1>4 DEF Types, RecordType, Freed, Wrapper, AtRest
<1>6. connectionForDisplay' = connectionForDisplay
  BY <1>1, <1>4, <1>5 DEF connectionForDisplay, FlatTypes
<1> USE DEF FlatTypes, Using, TakingEvent, TakeLabels, CallbackLabels, Disconnecting
<1>7. Types'
  BY <1>1, <1>3, <1>4 DEF Types, RecordType, Labels, AtRest
<1>8. OnInv'
  BY <1>1, <1>4, <1>5, <1>6 DEF OnInv
<1>9. CountInv'
  <2>1. \A d \in Records : /\ Takers(d)' = Takers(d)
                           /\ Callers(d)' = Callers(d)
    BY <1>1, <1>4, <1>5, <1>6 DEF Takers, Callers, OnInv
  <2> QED BY <1>1, <1>4, <1>5, <1>6, <2>1 DEF CountInv
<1>10. ListInv'
  BY <1>1, <1>4, <1>5, <1>6 DEF ListInv
<1>11. TakeInv'
  BY <1>1, <1>4, <1>5, <1>6 DEF TakeInv, CallbackInv, OneCloserInv
<1>12. SetupInv'
  BY <1>1, <1>4, <1>5, <1>6 DEF SetupInv, OnInv, CallbackInv, OneCloserInv
<1>13. CallbackInv'
  BY <1>1, <1>4, <1>5, <1>6 DEF CallbackInv
<1>14. DisconnectInv'
  BY <1>1, <1>4, <1>5, <1>6 DEF DisconnectInv
<1>15. OwnedInv'
  BY <1>1, <1>4, <1>5, <1>6 DEF OwnedInv, CallbackInv, OneCloserInv
<1>16. SleepInv'
  BY <1>1, <1>4, <1>5, <1>6 DEF SleepInv
<1>17. OneCloserInv'
  BY <1>1, <1>4, <1>5, <1>6 DEF OneCloserInv
<1>18. GcInv'
  BY <1>1, <1>4, <1>5, <1>6 DEF GcInv, CallbackInv, OneCloserInv
<1> QED BY <1>7, <1>8, <1>9, <1>10, <1>11, <1>12, <1>13, <1>14, <1>15, <1>16, <1>17,
   <1>18 DEF ConnectionInv

(* Disconnecting. *)
LEMMA DisconnectWaitsInv ==
  ASSUME ConnectionInv, NEW u \in Users, NEW c \in handles, Disconnect(u, c), record[c].eventUsers > 0
  PROVE  ConnectionInv'
<1>1. /\ Types /\ OnInv /\ CountInv /\ ListInv /\ TakeInv /\ SetupInv
      /\ CallbackInv /\ DisconnectInv /\ OwnedInv /\ SleepInv /\ OneCloserInv /\ GcInv
      /\ NoRecord \notin Records /\ FlatTypes
  BY SessionsAssumption, TypesFlat DEF ConnectionInv
<1>3. /\ record' = [record EXCEPT ![c] = [record[c] EXCEPT !.closing = TRUE]]
      /\ step' = [step EXCEPT ![u] = [at |-> "awaitLast", on |-> c]]
  BY <1>1 DEF Disconnect, Refuses, BindingNone, Closing, TakingEvent, Types, ListInv,
     fixed, displayVars, listVars, Calling, Doing, Continues, CallEnds, Using
<1>4. /\ UNCHANGED <<session, open, openings, queued, connections, gcs>>
      /\ \A v \in Users : step[v].at # "setup"
      /\ session.together \/ \A v \in Users : step[v].at \in TakingEvent
      /\ step[u].at = "idle" /\ c \in Records /\ record[c].live
      /\ handles' = handles \ {c}
      /\ record[c].eventUsers > 0
      /\ sleepers' = sleepers \union {u}
  BY <1>1 DEF Disconnect, Refuses, BindingNone, Closing, TakingEvent, Types, ListInv,
     fixed, displayVars, listVars, Calling, Doing, Continues, CallEnds, Using
<1>5. /\ \A v \in Users : /\ step'[v].at = (IF v = u THEN "awaitLast" ELSE step[v].at)
                      /\ step'[v].on = (IF v = u THEN c ELSE step[v].on)
      /\ record'[c].closing
      /\ \A d \in Records : d # c =>
           /\ record'[d].closing = record[d].closing
      /\ \A d \in Records : 
           /\ record'[d].live = record[d].live /\ record'[d].display = record[d].display
           /\ record'[d].ownsDisplay = record[d].ownsDisplay /\ record'[d].eventUsers = record[d].eventUsers
           /\ record'[d].closeCallbacks = record[d].closeCallbacks
  BY <1>1, <1>3, <1>4 DEF Types, RecordType, Freed, Wrapper, AtRest
<1>6. connectionForDisplay' = connectionForDisplay
  BY <1>1, <1>4, <1>5 DEF connectionForDisplay, FlatTypes
<1> USE DEF FlatTypes, Using, TakingEvent, TakeLabels, CallbackLabels, Disconnecting
<1>7. Types'
  <2>1. record' \in [Records -> RecordType]
    BY <1>1, <1>3, <1>4, WrapperFacts DEF Types
  <2>2. step' \in [Users -> [at : Labels, on : Records \union {NoRecord}]]
    BY <1>1, <1>3, <1>4 DEF Types, Labels, AtRest
  <2> QED BY <1>1, <1>4, <2>1, <2>2 DEF Types
<1>8. OnInv'
  BY <1>1, <1>4, <1>5, <1>6 DEF OnInv
<1>9. CountInv'
  <2>1. \A d \in Records : /\ Takers(d)' = Takers(d)
                           /\ Callers(d)' = Callers(d)
    BY <1>1, <1>4, <1>5, <1>6 DEF Takers, Callers, OnInv
  <2> QED BY <1>1, <1>4, <1>5, <1>6, <2>1 DEF CountInv
<1>10. ListInv'
  BY <1>1, <1>4, <1>5, <1>6 DEF ListInv
<1>11. TakeInv'
  BY <1>1, <1>4, <1>5, <1>6 DEF TakeInv
<1>12. SetupInv'
  BY <1>1, <1>4, <1>5, <1>6 DEF SetupInv, OnInv
<1>13. CallbackInv'
  BY <1>1, <1>4, <1>5, <1>6 DEF CallbackInv
<1>14. DisconnectInv'
  BY <1>1, <1>4, <1>5, <1>6 DEF DisconnectInv
<1>15. OwnedInv'
  BY <1>1, <1>4, <1>5, <1>6 DEF OwnedInv
<1>16. SleepInv'
  BY <1>1, <1>4, <1>5, <1>6 DEF SleepInv
<1>17. OneCloserInv'
  BY <1>1, <1>4, <1>5, <1>6 DEF OneCloserInv
<1>18. GcInv'
  BY <1>1, <1>4, <1>5, <1>6 DEF GcInv
<1> QED BY <1>7, <1>8, <1>9, <1>10, <1>11, <1>12, <1>13, <1>14, <1>15, <1>16, <1>17,
   <1>18 DEF ConnectionInv

(* Nobody takes events.                                                     *)
LEMMA DisconnectGoesInv ==
  ASSUME ConnectionInv, NEW u \in Users, NEW c \in handles, Disconnect(u, c), ~(record[c].eventUsers > 0)
  PROVE  ConnectionInv'
<1>1. /\ Types /\ OnInv /\ CountInv /\ ListInv /\ TakeInv /\ SetupInv
      /\ CallbackInv /\ DisconnectInv /\ OwnedInv /\ SleepInv /\ OneCloserInv /\ GcInv
      /\ NoRecord \notin Records /\ FlatTypes
  BY SessionsAssumption, TypesFlat DEF ConnectionInv
<1>3. /\ record' = [record EXCEPT ![c] = [record[c] EXCEPT !.closing = TRUE]]
      /\ step' = [step EXCEPT ![u] = [at |-> "unlist", on |-> c]]
  BY <1>1 DEF Disconnect, Refuses, BindingNone, Closing, TakingEvent, Types, ListInv,
     fixed, displayVars, listVars, Calling, Doing, Continues, CallEnds, Using, FlatTypes
<1>4. /\ UNCHANGED <<session, open, openings, queued, connections, gcs>>
      /\ \A v \in Users : step[v].at # "setup"
      /\ session.together \/ \A v \in Users : step[v].at \in TakingEvent
      /\ step[u].at = "idle" /\ c \in Records /\ record[c].live
      /\ handles' = handles \ {c}
      /\ record[c].eventUsers = 0
      /\ sleepers' = sleepers
  BY <1>1 DEF Disconnect, Refuses, BindingNone, Closing, TakingEvent, Types, ListInv,
     fixed, displayVars, listVars, Calling, Doing, Continues, CallEnds, Using, FlatTypes
<1>5. /\ \A v \in Users : /\ step'[v].at = (IF v = u THEN "unlist" ELSE step[v].at)
                      /\ step'[v].on = (IF v = u THEN c ELSE step[v].on)
      /\ record'[c].closing
      /\ \A d \in Records : d # c =>
           /\ record'[d].closing = record[d].closing
      /\ \A d \in Records : 
           /\ record'[d].live = record[d].live /\ record'[d].display = record[d].display
           /\ record'[d].ownsDisplay = record[d].ownsDisplay /\ record'[d].eventUsers = record[d].eventUsers
           /\ record'[d].closeCallbacks = record[d].closeCallbacks
  BY <1>1, <1>3, <1>4 DEF Types, RecordType, Freed, Wrapper, AtRest
<1>6. connectionForDisplay' = connectionForDisplay
  BY <1>1, <1>4, <1>5 DEF connectionForDisplay, FlatTypes
<1> USE DEF FlatTypes, Using, TakingEvent, TakeLabels, CallbackLabels, Disconnecting
<1>7. Types'
  <2>1. record' \in [Records -> RecordType]
    BY <1>1, <1>3, <1>4, WrapperFacts DEF Types
  <2>2. step' \in [Users -> [at : Labels, on : Records \union {NoRecord}]]
    BY <1>1, <1>3, <1>4 DEF Types, Labels, AtRest
  <2> QED BY <1>1, <1>4, <2>1, <2>2 DEF Types
<1>8. OnInv'
  BY <1>1, <1>4, <1>5, <1>6 DEF OnInv
<1>9. CountInv'
  <2>1. \A d \in Records : /\ Takers(d)' = Takers(d)
                           /\ Callers(d)' = Callers(d)
    BY <1>1, <1>4, <1>5, <1>6 DEF Takers, Callers, OnInv
  <2> QED BY <1>1, <1>4, <1>5, <1>6, <2>1 DEF CountInv
<1>10. ListInv'
  BY <1>1, <1>4, <1>5, <1>6 DEF ListInv
<1>11. TakeInv'
  BY <1>1, <1>4, <1>5, <1>6 DEF TakeInv
<1>12. SetupInv'
  BY <1>1, <1>4, <1>5, <1>6 DEF SetupInv, OnInv
<1>13. CallbackInv'
  BY <1>1, <1>4, <1>5, <1>6 DEF CallbackInv
<1>14. DisconnectInv'
  BY <1>1, <1>4, <1>5, <1>6 DEF DisconnectInv
<1>15. OwnedInv'
  BY <1>1, <1>4, <1>5, <1>6 DEF OwnedInv
<1>16. SleepInv'
  BY <1>1, <1>4, <1>5, <1>6 DEF SleepInv
<1>17. OneCloserInv'
  BY <1>1, <1>4, <1>5, <1>6 DEF OneCloserInv
<1>18. GcInv'
  BY <1>1, <1>4, <1>5, <1>6 DEF GcInv
<1> QED BY <1>7, <1>8, <1>9, <1>10, <1>11, <1>12, <1>13, <1>14, <1>15, <1>16, <1>17,
   <1>18 DEF ConnectionInv

(* Woken too early.                                                         *)
LEMMA LastSleepsInv ==
  ASSUME ConnectionInv, NEW u \in Users, AwaitLast(u), record[Using(u)].eventUsers > 0
  PROVE  ConnectionInv'
<1>1. /\ Types /\ OnInv /\ CountInv /\ ListInv /\ TakeInv /\ SetupInv
      /\ CallbackInv /\ DisconnectInv /\ OwnedInv /\ SleepInv /\ OneCloserInv /\ GcInv
      /\ NoRecord \notin Records /\ FlatTypes
  BY SessionsAssumption, TypesFlat DEF ConnectionInv
<1>2. PICK c \in Records : c = step[u].on /\ record[c].live
  BY <1>1 DEF OnInv, Using, AwaitLast, Doing
<1>3. /\ step' = [step EXCEPT ![u].at = "awaitLast"]
  BY <1>1, <1>2 DEF AwaitLast, Sleeps, fixed, displayVars, listVars, Calling, Doing,
     Continues, CallEnds, Using
<1>4. /\ UNCHANGED <<session, open, openings, queued, connections, handles, record, gcs>>
      /\ step[u].at = "awaitLast" /\ c = step[u].on
      /\ record[c].eventUsers > 0 /\ sleepers' = sleepers \union {u}
  BY <1>1, <1>2 DEF AwaitLast, Sleeps, fixed, displayVars, listVars, Calling, Doing,
     Continues, CallEnds, Using
<1>5. /\ \A v \in Users : /\ step'[v].at = (IF v = u THEN "awaitLast" ELSE step[v].at)
                      /\ step'[v].on = step[v].on
  BY <1>1, <1>2, <1>3, <1>4 DEF Types, RecordType, Freed, Wrapper, AtRest
<1>6. connectionForDisplay' = connectionForDisplay
  BY <1>1, <1>2, <1>4, <1>5 DEF connectionForDisplay, FlatTypes
<1> USE DEF FlatTypes, Using, TakingEvent, TakeLabels, CallbackLabels, Disconnecting
<1>7. Types'
  BY <1>1, <1>2, <1>3, <1>4 DEF Types, RecordType, Labels, AtRest
<1>8. OnInv'
  BY <1>1, <1>2, <1>4, <1>5, <1>6 DEF OnInv
<1>9. CountInv'
  <2>1. \A d \in Records : /\ Takers(d)' = Takers(d)
                           /\ Callers(d)' = Callers(d)
    BY <1>1, <1>2, <1>4, <1>5, <1>6 DEF Takers, Callers, OnInv
  <2> QED BY <1>1, <1>2, <1>4, <1>5, <1>6, <2>1 DEF CountInv
<1>10. ListInv'
  BY <1>1, <1>2, <1>4, <1>5, <1>6 DEF ListInv
<1>11. TakeInv'
  BY <1>1, <1>2, <1>4, <1>5, <1>6 DEF TakeInv
<1>12. SetupInv'
  BY <1>1, <1>2, <1>4, <1>5, <1>6 DEF SetupInv, OnInv
<1>13. CallbackInv'
  BY <1>1, <1>2, <1>4, <1>5, <1>6 DEF CallbackInv
<1>14. DisconnectInv'
  BY <1>1, <1>2, <1>4, <1>5, <1>6 DEF DisconnectInv
<1>15. OwnedInv'
  BY <1>1, <1>2, <1>4, <1>5, <1>6 DEF OwnedInv
<1>16. SleepInv'
  BY <1>1, <1>2, <1>4, <1>5, <1>6 DEF SleepInv
<1>17. OneCloserInv'
  BY <1>1, <1>2, <1>4, <1>5, <1>6 DEF OneCloserInv
<1>18. GcInv'
  BY <1>1, <1>2, <1>4, <1>5, <1>6 DEF GcInv
<1> QED BY <1>7, <1>8, <1>9, <1>10, <1>11, <1>12, <1>13, <1>14, <1>15, <1>16, <1>17,
   <1>18 DEF ConnectionInv

(* Woken when nobody takes events any more.                                 *)
LEMMA LastGoesInv ==
  ASSUME ConnectionInv, NEW u \in Users, AwaitLast(u), ~(record[Using(u)].eventUsers > 0)
  PROVE  ConnectionInv'
<1>1. /\ Types /\ OnInv /\ CountInv /\ ListInv /\ TakeInv /\ SetupInv
      /\ CallbackInv /\ DisconnectInv /\ OwnedInv /\ SleepInv /\ OneCloserInv /\ GcInv
      /\ NoRecord \notin Records /\ FlatTypes
  BY SessionsAssumption, TypesFlat DEF ConnectionInv
<1>2. PICK c \in Records : c = step[u].on /\ record[c].live
  BY <1>1 DEF OnInv, Using, AwaitLast, Doing
<1>3. /\ step' = [step EXCEPT ![u].at = "unlist"]
  BY <1>1, <1>2 DEF AwaitLast, Awake, FlatTypes, fixed, displayVars, listVars, Calling,
     Doing, Continues, CallEnds, Using
<1>4. /\ UNCHANGED <<session, open, openings, queued, connections, handles, record, gcs, sleepers>>
      /\ step[u].at = "awaitLast" /\ c = step[u].on /\ u \notin sleepers
      /\ record[c].eventUsers = 0
  BY <1>1, <1>2 DEF AwaitLast, Awake, FlatTypes, fixed, displayVars, listVars, Calling,
     Doing, Continues, CallEnds, Using
<1>5. /\ \A v \in Users : /\ step'[v].at = (IF v = u THEN "unlist" ELSE step[v].at)
                      /\ step'[v].on = step[v].on
  BY <1>1, <1>2, <1>3, <1>4 DEF Types, RecordType, Freed, Wrapper, AtRest
<1>6. connectionForDisplay' = connectionForDisplay
  BY <1>1, <1>2, <1>4, <1>5 DEF connectionForDisplay, FlatTypes
<1> USE DEF FlatTypes, Using, TakingEvent, TakeLabels, CallbackLabels, Disconnecting
<1>7. Types'
  BY <1>1, <1>2, <1>3, <1>4 DEF Types, RecordType, Labels, AtRest
<1>8. OnInv'
  BY <1>1, <1>2, <1>4, <1>5, <1>6 DEF OnInv
<1>9. CountInv'
  <2>1. \A d \in Records : /\ Takers(d)' = Takers(d)
                           /\ Callers(d)' = Callers(d)
    BY <1>1, <1>2, <1>4, <1>5, <1>6 DEF Takers, Callers, OnInv
  <2> QED BY <1>1, <1>2, <1>4, <1>5, <1>6, <2>1 DEF CountInv
<1>10. ListInv'
  BY <1>1, <1>2, <1>4, <1>5, <1>6 DEF ListInv
<1>11. TakeInv'
  BY <1>1, <1>2, <1>4, <1>5, <1>6 DEF TakeInv
<1>12. SetupInv'
  BY <1>1, <1>2, <1>4, <1>5, <1>6 DEF SetupInv, OnInv
<1>13. CallbackInv'
  BY <1>1, <1>2, <1>4, <1>5, <1>6 DEF CallbackInv
<1>14. DisconnectInv'
  BY <1>1, <1>2, <1>4, <1>5, <1>6 DEF DisconnectInv
<1>15. OwnedInv'
  BY <1>1, <1>2, <1>4, <1>5, <1>6 DEF OwnedInv
<1>16. SleepInv'
  BY <1>1, <1>2, <1>4, <1>5, <1>6 DEF SleepInv
<1>17. OneCloserInv'
  BY <1>1, <1>2, <1>4, <1>5, <1>6 DEF OneCloserInv
<1>18. GcInv'
  BY <1>1, <1>2, <1>4, <1>5, <1>6 DEF GcInv
<1> QED BY <1>7, <1>8, <1>9, <1>10, <1>11, <1>12, <1>13, <1>14, <1>15, <1>16, <1>17,
   <1>18 DEF ConnectionInv

(* The record leaves the list.                                              *)
LEMMA UnregisterInv ==
  ASSUME ConnectionInv, NEW u \in Users, unregisterConnection(u)
  PROVE  ConnectionInv'
<1>1. /\ Types /\ OnInv /\ CountInv /\ ListInv /\ TakeInv /\ SetupInv
      /\ CallbackInv /\ DisconnectInv /\ OwnedInv /\ SleepInv /\ OneCloserInv /\ GcInv
      /\ NoRecord \notin Records /\ FlatTypes
  BY SessionsAssumption, TypesFlat DEF ConnectionInv
<1>2. PICK c \in Records : c = step[u].on /\ record[c].live
  BY <1>1 DEF OnInv, Using, unregisterConnection, Doing
<1>20. record[c].eventUsers = 0
  BY <1>1, <1>2 DEF unregisterConnection, Doing, DisconnectInv, Disconnecting, Using
<1>21. Takers(c) = {}
  BY <1>2, <1>20, NobodyCounted
<1>3. /\ step' = [step EXCEPT ![u].at = "awaitCallbacks"]
  BY <1>1, <1>2, <1>21
     DEF unregisterConnection, DisconnectInv, Disconnecting, fixed, displayVars, listVars,
     Calling, Doing, Continues, CallEnds, Using
<1>4. /\ UNCHANGED <<session, open, openings, queued, handles, record, gcs, sleepers>>
      /\ step[u].at = "unlist" /\ c = step[u].on
      /\ connections' = connections \ {c}
      /\ c \notin handles
  BY <1>1, <1>2, <1>21
     DEF unregisterConnection, DisconnectInv, Disconnecting, fixed, displayVars, listVars,
     Calling, Doing, Continues, CallEnds, Using
<1>5. /\ \A v \in Users : /\ step'[v].at = (IF v = u THEN "awaitCallbacks" ELSE step[v].at)
                      /\ step'[v].on = step[v].on
  BY <1>1, <1>2, <1>3, <1>4, <1>21 DEF Types, RecordType, Freed, Wrapper, AtRest
<1>6. connectionForDisplay' = connectionForDisplay \ {c}
  BY <1>1, <1>2, <1>4, <1>21, <1>5 DEF connectionForDisplay, FlatTypes
<1> USE DEF FlatTypes, Using, TakingEvent, TakeLabels, CallbackLabels, Disconnecting
<1>7. Types'
  BY <1>1, <1>2, <1>3, <1>4, <1>21 DEF Types, RecordType, Labels, AtRest
<1>8. OnInv'
  BY <1>1, <1>2, <1>4, <1>21, <1>5, <1>6 DEF OnInv
<1>9. CountInv'
  <2>1. \A d \in Records : /\ Takers(d)' = Takers(d)
                           /\ Callers(d)' = Callers(d)
    BY <1>1, <1>2, <1>4, <1>21, <1>5, <1>6 DEF Takers, Callers, OnInv
  <2> QED BY <1>1, <1>2, <1>4, <1>21, <1>5, <1>6, <2>1 DEF CountInv
<1>10. ListInv'
  BY <1>1, <1>2, <1>4, <1>21, <1>5, <1>6 DEF ListInv
<1>11. TakeInv'
  BY <1>1, <1>2, <1>4, <1>21, <1>5, <1>6 DEF TakeInv, Takers
<1>12. SetupInv'
  BY <1>1, <1>2, <1>4, <1>21, <1>5, <1>6 DEF SetupInv, OnInv
<1>13. CallbackInv'
  BY <1>1, <1>2, <1>4, <1>21, <1>5, <1>6 DEF CallbackInv
<1>14. DisconnectInv'
  BY <1>1, <1>2, <1>4, <1>21, <1>5, <1>6 DEF DisconnectInv
<1>15. OwnedInv'
  BY <1>1, <1>2, <1>4, <1>21, <1>5, <1>6 DEF OwnedInv
<1>16. SleepInv'
  BY <1>1, <1>2, <1>4, <1>21, <1>5, <1>6 DEF SleepInv
<1>17. OneCloserInv'
  BY <1>1, <1>2, <1>4, <1>21, <1>5, <1>6 DEF OneCloserInv
<1>18. GcInv'
  BY <1>1, <1>2, <1>4, <1>21, <1>5, <1>6 DEF GcInv
<1> QED BY <1>7, <1>8, <1>9, <1>10, <1>11, <1>12, <1>13, <1>14, <1>15, <1>16, <1>17,
   <1>18 DEF ConnectionInv

(* A close callback is still on the record.                                 *)
LEMMA CallbacksSleepInv ==
  ASSUME ConnectionInv, NEW u \in Users, AwaitCallbacks(u), ~callbacksDone(Using(u))
  PROVE  ConnectionInv'
<1>1. /\ Types /\ OnInv /\ CountInv /\ ListInv /\ TakeInv /\ SetupInv
      /\ CallbackInv /\ DisconnectInv /\ OwnedInv /\ SleepInv /\ OneCloserInv /\ GcInv
      /\ NoRecord \notin Records /\ FlatTypes
  BY SessionsAssumption, TypesFlat DEF ConnectionInv
<1>2. PICK c \in Records : c = step[u].on /\ record[c].live
  BY <1>1 DEF OnInv, Using, AwaitCallbacks, Doing
<1>3. /\ step' = [step EXCEPT ![u].at = "awaitCallbacks"]
  BY <1>1, <1>2 DEF AwaitCallbacks, callbacksDone, FlatTypes, Sleeps, fixed, displayVars,
     listVars, Calling, Doing, Continues, CallEnds, Using
<1>4. /\ UNCHANGED <<session, open, openings, queued, connections, handles, record, gcs>>
      /\ step[u].at = "awaitCallbacks" /\ c = step[u].on
      /\ record[c].closeCallbacks > 0 /\ sleepers' = sleepers \union {u}
  BY <1>1, <1>2 DEF AwaitCallbacks, callbacksDone, FlatTypes, Sleeps, fixed, displayVars,
     listVars, Calling, Doing, Continues, CallEnds, Using
<1>5. /\ \A v \in Users : /\ step'[v].at = (IF v = u THEN "awaitCallbacks" ELSE step[v].at)
                      /\ step'[v].on = step[v].on
  BY <1>1, <1>2, <1>3, <1>4 DEF Types, RecordType, Freed, Wrapper, AtRest
<1>6. connectionForDisplay' = connectionForDisplay
  BY <1>1, <1>2, <1>4, <1>5 DEF connectionForDisplay, FlatTypes
<1> USE DEF FlatTypes, Using, TakingEvent, TakeLabels, CallbackLabels, Disconnecting
<1>7. Types'
  BY <1>1, <1>2, <1>3, <1>4 DEF Types, RecordType, Labels, AtRest
<1>8. OnInv'
  BY <1>1, <1>2, <1>4, <1>5, <1>6 DEF OnInv
<1>9. CountInv'
  <2>1. \A d \in Records : /\ Takers(d)' = Takers(d)
                           /\ Callers(d)' = Callers(d)
    BY <1>1, <1>2, <1>4, <1>5, <1>6 DEF Takers, Callers, OnInv
  <2> QED BY <1>1, <1>2, <1>4, <1>5, <1>6, <2>1 DEF CountInv
<1>10. ListInv'
  BY <1>1, <1>2, <1>4, <1>5, <1>6 DEF ListInv
<1>11. TakeInv'
  BY <1>1, <1>2, <1>4, <1>5, <1>6 DEF TakeInv
<1>12. SetupInv'
  BY <1>1, <1>2, <1>4, <1>5, <1>6 DEF SetupInv, OnInv
<1>13. CallbackInv'
  BY <1>1, <1>2, <1>4, <1>5, <1>6 DEF CallbackInv
<1>14. DisconnectInv'
  BY <1>1, <1>2, <1>4, <1>5, <1>6 DEF DisconnectInv
<1>15. OwnedInv'
  BY <1>1, <1>2, <1>4, <1>5, <1>6 DEF OwnedInv
<1>16. SleepInv'
  BY <1>1, <1>2, <1>4, <1>5, <1>6 DEF SleepInv
<1>17. OneCloserInv'
  BY <1>1, <1>2, <1>4, <1>5, <1>6 DEF OneCloserInv
<1>18. GcInv'
  BY <1>1, <1>2, <1>4, <1>5, <1>6 DEF GcInv
<1> QED BY <1>7, <1>8, <1>9, <1>10, <1>11, <1>12, <1>13, <1>14, <1>15, <1>16, <1>17,
   <1>18 DEF ConnectionInv

(* No callback is: the client's display is let go.                          *)
LEMMA CallbacksDoneInv ==
  ASSUME ConnectionInv, NEW u \in Users, AwaitCallbacks(u), callbacksDone(Using(u)), ~record[Using(u)].ownsDisplay
  PROVE  ConnectionInv'
<1>1. /\ Types /\ OnInv /\ CountInv /\ ListInv /\ TakeInv /\ SetupInv
      /\ CallbackInv /\ DisconnectInv /\ OwnedInv /\ SleepInv /\ OneCloserInv /\ GcInv
      /\ NoRecord \notin Records /\ FlatTypes
  BY SessionsAssumption, TypesFlat DEF ConnectionInv
<1>2. PICK c \in Records : c = step[u].on /\ record[c].live
  BY <1>1 DEF OnInv, Using, AwaitCallbacks, Doing
<1>3. /\ record' = [record EXCEPT ![c] = [record[c] EXCEPT !.display = FALSE, !.ownsDisplay = FALSE]]
      /\ step' = [step EXCEPT ![u].at = "release"]
  BY <1>1, <1>2 DEF AwaitCallbacks, callbacksDone, Awake, DisconnectInv, Disconnecting,
     fixed, displayVars, listVars, Calling, Doing, Continues, CallEnds, Using
<1>4. /\ UNCHANGED <<session, open, openings, queued, connections, handles, gcs, sleepers>>
      /\ step[u].at = "awaitCallbacks" /\ c = step[u].on /\ record[c].live /\ u \notin sleepers
      /\ record[c].closeCallbacks = 0 /\ c \notin connections /\ ~record[c].ownsDisplay
  BY <1>1, <1>2 DEF AwaitCallbacks, callbacksDone, Awake, DisconnectInv, Disconnecting,
     fixed, displayVars, listVars, Calling, Doing, Continues, CallEnds, Using
<1>5. /\ \A v \in Users : /\ step'[v].at = (IF v = u THEN "release" ELSE step[v].at)
                      /\ step'[v].on = step[v].on
      /\ ~record'[c].display /\ ~record'[c].ownsDisplay
      /\ \A d \in Records : d # c =>
           /\ record'[d].display = record[d].display /\ record'[d].ownsDisplay = record[d].ownsDisplay
      /\ \A d \in Records : 
           /\ record'[d].live = record[d].live /\ record'[d].closing = record[d].closing
           /\ record'[d].eventUsers = record[d].eventUsers /\ record'[d].closeCallbacks = record[d].closeCallbacks
  BY <1>1, <1>2, <1>3, <1>4 DEF Types, RecordType, Freed, Wrapper, AtRest
<1>6. connectionForDisplay' = connectionForDisplay
  BY <1>1, <1>2, <1>4, <1>5 DEF connectionForDisplay, FlatTypes
<1> USE DEF FlatTypes, Using, TakingEvent, TakeLabels, CallbackLabels, Disconnecting
<1>7. Types'
  <2>1. record' \in [Records -> RecordType]
    BY <1>1, <1>2, <1>3, <1>4, WrapperFacts DEF Types
  <2>2. step' \in [Users -> [at : Labels, on : Records \union {NoRecord}]]
    BY <1>1, <1>2, <1>3, <1>4 DEF Types, Labels, AtRest
  <2> QED BY <1>1, <1>4, <2>1, <2>2 DEF Types
<1>8. OnInv'
  BY <1>1, <1>2, <1>4, <1>5, <1>6 DEF OnInv
<1>9. CountInv'
  <2>1. \A d \in Records : /\ Takers(d)' = Takers(d)
                           /\ Callers(d)' = Callers(d)
    BY <1>1, <1>2, <1>4, <1>5, <1>6 DEF Takers, Callers, OnInv
  <2> QED BY <1>1, <1>2, <1>4, <1>5, <1>6, <2>1 DEF CountInv
<1>10. ListInv'
  BY <1>1, <1>2, <1>4, <1>5, <1>6 DEF ListInv
<1>11. TakeInv'
  BY <1>1, <1>2, <1>4, <1>5, <1>6 DEF TakeInv
<1>12. SetupInv'
  BY <1>1, <1>2, <1>4, <1>5, <1>6 DEF SetupInv, OnInv
<1>13. CallbackInv'
  BY <1>1, <1>2, <1>4, <1>5, <1>6 DEF CallbackInv
<1>14. DisconnectInv'
  BY <1>1, <1>2, <1>4, <1>5, <1>6 DEF DisconnectInv
<1>15. OwnedInv'
  BY <1>1, <1>2, <1>4, <1>5, <1>6 DEF OwnedInv, DisconnectInv
<1>16. SleepInv'
  BY <1>1, <1>2, <1>4, <1>5, <1>6 DEF SleepInv
<1>17. OneCloserInv'
  BY <1>1, <1>2, <1>4, <1>5, <1>6 DEF OneCloserInv
<1>18. GcInv'
  BY <1>1, <1>2, <1>4, <1>5, <1>6 DEF GcInv
<1> QED BY <1>7, <1>8, <1>9, <1>10, <1>11, <1>12, <1>13, <1>14, <1>15, <1>16, <1>17,
   <1>18 DEF ConnectionInv

(* Or the display that the connection opened.                               *)
LEMMA CallbacksDoneOwnedInv ==
  ASSUME ConnectionInv, NEW u \in Users, AwaitCallbacks(u), callbacksDone(Using(u)), record[Using(u)].ownsDisplay
  PROVE  ConnectionInv'
<1>1. /\ Types /\ OnInv /\ CountInv /\ ListInv /\ TakeInv /\ SetupInv
      /\ CallbackInv /\ DisconnectInv /\ OwnedInv /\ SleepInv /\ OneCloserInv /\ GcInv
      /\ NoRecord \notin Records /\ FlatTypes
  BY SessionsAssumption, TypesFlat DEF ConnectionInv
<1>2. PICK c \in Records : c = step[u].on /\ record[c].live
  BY <1>1 DEF OnInv, Using, AwaitCallbacks, Doing
<1>3. /\ record' = [record EXCEPT ![c] = [record[c] EXCEPT !.display = FALSE, !.ownsDisplay = FALSE]]
      /\ step' = [step EXCEPT ![u].at = "releaseOwned"]
  BY <1>1, <1>2 DEF AwaitCallbacks, callbacksDone, Awake, DisconnectInv, Disconnecting,
     fixed, displayVars, listVars, Calling, Doing, Continues, CallEnds, Using
<1>4. /\ UNCHANGED <<session, open, openings, queued, connections, handles, gcs, sleepers>>
      /\ step[u].at = "awaitCallbacks" /\ c = step[u].on /\ record[c].live /\ u \notin sleepers
      /\ record[c].closeCallbacks = 0 /\ c \notin connections /\ record[c].ownsDisplay
  BY <1>1, <1>2 DEF AwaitCallbacks, callbacksDone, Awake, DisconnectInv, Disconnecting,
     fixed, displayVars, listVars, Calling, Doing, Continues, CallEnds, Using
<1>5. /\ \A v \in Users : /\ step'[v].at = (IF v = u THEN "releaseOwned" ELSE step[v].at)
                      /\ step'[v].on = step[v].on
      /\ ~record'[c].display /\ ~record'[c].ownsDisplay
      /\ \A d \in Records : d # c =>
           /\ record'[d].display = record[d].display /\ record'[d].ownsDisplay = record[d].ownsDisplay
      /\ \A d \in Records : 
           /\ record'[d].live = record[d].live /\ record'[d].closing = record[d].closing
           /\ record'[d].eventUsers = record[d].eventUsers /\ record'[d].closeCallbacks = record[d].closeCallbacks
  BY <1>1, <1>2, <1>3, <1>4 DEF Types, RecordType, Freed, Wrapper, AtRest
<1>6. connectionForDisplay' = connectionForDisplay
  BY <1>1, <1>2, <1>4, <1>5 DEF connectionForDisplay, FlatTypes
<1> USE DEF FlatTypes, Using, TakingEvent, TakeLabels, CallbackLabels, Disconnecting
<1>7. Types'
  <2>1. record' \in [Records -> RecordType]
    BY <1>1, <1>2, <1>3, <1>4, WrapperFacts DEF Types
  <2>2. step' \in [Users -> [at : Labels, on : Records \union {NoRecord}]]
    BY <1>1, <1>2, <1>3, <1>4 DEF Types, Labels, AtRest
  <2> QED BY <1>1, <1>4, <2>1, <2>2 DEF Types
<1>8. OnInv'
  BY <1>1, <1>2, <1>4, <1>5, <1>6 DEF OnInv
<1>9. CountInv'
  <2>1. \A d \in Records : /\ Takers(d)' = Takers(d)
                           /\ Callers(d)' = Callers(d)
    BY <1>1, <1>2, <1>4, <1>5, <1>6 DEF Takers, Callers, OnInv
  <2> QED BY <1>1, <1>2, <1>4, <1>5, <1>6, <2>1 DEF CountInv
<1>10. ListInv'
  BY <1>1, <1>2, <1>4, <1>5, <1>6 DEF ListInv
<1>11. TakeInv'
  BY <1>1, <1>2, <1>4, <1>5, <1>6 DEF TakeInv
<1>12. SetupInv'
  BY <1>1, <1>2, <1>4, <1>5, <1>6 DEF SetupInv, OnInv
<1>13. CallbackInv'
  BY <1>1, <1>2, <1>4, <1>5, <1>6 DEF CallbackInv
<1>14. DisconnectInv'
  BY <1>1, <1>2, <1>4, <1>5, <1>6 DEF DisconnectInv
<1>15. OwnedInv'
  BY <1>1, <1>2, <1>4, <1>5, <1>6 DEF OwnedInv, DisconnectInv
<1>16. SleepInv'
  BY <1>1, <1>2, <1>4, <1>5, <1>6 DEF SleepInv
<1>17. OneCloserInv'
  BY <1>1, <1>2, <1>4, <1>5, <1>6 DEF OneCloserInv
<1>18. GcInv'
  BY <1>1, <1>2, <1>4, <1>5, <1>6 DEF GcInv
<1> QED BY <1>7, <1>8, <1>9, <1>10, <1>11, <1>12, <1>13, <1>14, <1>15, <1>16, <1>17,
   <1>18 DEF ConnectionInv

(* The GCs are taken away.                                                  *)
LEMMA ReleaseInv ==
  ASSUME ConnectionInv, NEW u \in Users, Doing(u, "release"), ReleaseResources(u)
  PROVE  ConnectionInv'
<1>1. /\ Types /\ OnInv /\ CountInv /\ ListInv /\ TakeInv /\ SetupInv
      /\ CallbackInv /\ DisconnectInv /\ OwnedInv /\ SleepInv /\ OneCloserInv /\ GcInv
      /\ NoRecord \notin Records /\ FlatTypes
  BY SessionsAssumption, TypesFlat DEF ConnectionInv
<1>2. PICK c \in Records : c = step[u].on /\ record[c].live
  BY <1>1 DEF OnInv, Using, Doing
<1>3. /\ step' = [step EXCEPT ![u].at = "free"]
      /\ gcs' = [gcs EXCEPT ![c] = 0]
  BY <1>1, <1>2 DEF ReleaseResources, ReleasesGcs, Types, fixed, displayVars, listVars,
     Calling, Doing, Continues, CallEnds, Using
<1>4. /\ UNCHANGED <<session, open, openings, queued, connections, handles, record, sleepers>>
      /\ step[u].at = "release" /\ c = step[u].on
      /\ \A d \in Records : gcs'[d] = (IF d = c THEN 0 ELSE gcs[d])
  BY <1>1, <1>2 DEF ReleaseResources, ReleasesGcs, Types, fixed, displayVars, listVars,
     Calling, Doing, Continues, CallEnds, Using
<1>5. /\ \A v \in Users : /\ step'[v].at = (IF v = u THEN "free" ELSE step[v].at)
                      /\ step'[v].on = step[v].on
  BY <1>1, <1>2, <1>3, <1>4 DEF Types, RecordType, Freed, Wrapper, AtRest
<1>6. connectionForDisplay' = connectionForDisplay
  BY <1>1, <1>2, <1>4, <1>5 DEF connectionForDisplay, FlatTypes
<1> USE DEF FlatTypes, Using, TakingEvent, TakeLabels, CallbackLabels, Disconnecting
<1>7. Types'
  BY <1>1, <1>2, <1>3, <1>4 DEF Types, RecordType, Labels, AtRest
<1>8. OnInv'
  BY <1>1, <1>2, <1>4, <1>5, <1>6 DEF OnInv
<1>9. CountInv'
  <2>1. \A d \in Records : /\ Takers(d)' = Takers(d)
                           /\ Callers(d)' = Callers(d)
    BY <1>1, <1>2, <1>4, <1>5, <1>6 DEF Takers, Callers, OnInv
  <2> QED BY <1>1, <1>2, <1>4, <1>5, <1>6, <2>1 DEF CountInv
<1>10. ListInv'
  BY <1>1, <1>2, <1>4, <1>5, <1>6 DEF ListInv
<1>11. TakeInv'
  BY <1>1, <1>2, <1>4, <1>5, <1>6 DEF TakeInv
<1>12. SetupInv'
  BY <1>1, <1>2, <1>4, <1>5, <1>6 DEF SetupInv, OnInv
<1>13. CallbackInv'
  BY <1>1, <1>2, <1>4, <1>5, <1>6 DEF CallbackInv
<1>14. DisconnectInv'
  BY <1>1, <1>2, <1>4, <1>5, <1>6 DEF DisconnectInv
<1>15. OwnedInv'
  BY <1>1, <1>2, <1>4, <1>5, <1>6 DEF OwnedInv
<1>16. SleepInv'
  BY <1>1, <1>2, <1>4, <1>5, <1>6 DEF SleepInv
<1>17. OneCloserInv'
  BY <1>1, <1>2, <1>4, <1>5, <1>6 DEF OneCloserInv
<1>18. GcInv'
  BY <1>1, <1>2, <1>4, <1>5, <1>6 DEF GcInv
<1> QED BY <1>7, <1>8, <1>9, <1>10, <1>11, <1>12, <1>13, <1>14, <1>15, <1>16, <1>17,
   <1>18 DEF ConnectionInv

(* Also of a connection that owns its display.                              *)
LEMMA ReleaseOwnedInv ==
  ASSUME ConnectionInv, NEW u \in Users, Doing(u, "releaseOwned"), ReleaseResources(u)
  PROVE  ConnectionInv'
<1>1. /\ Types /\ OnInv /\ CountInv /\ ListInv /\ TakeInv /\ SetupInv
      /\ CallbackInv /\ DisconnectInv /\ OwnedInv /\ SleepInv /\ OneCloserInv /\ GcInv
      /\ NoRecord \notin Records /\ FlatTypes
  BY SessionsAssumption, TypesFlat DEF ConnectionInv
<1>2. PICK c \in Records : c = step[u].on /\ record[c].live
  BY <1>1 DEF OnInv, Using, Doing
<1>3. /\ step' = [step EXCEPT ![u].at = "closeOwned"]
      /\ gcs' = [gcs EXCEPT ![c] = 0]
  BY <1>1, <1>2 DEF ReleaseResources, ReleasesGcs, Types, fixed, displayVars, listVars,
     Calling, Doing, Continues, CallEnds, Using
<1>4. /\ UNCHANGED <<session, open, openings, queued, connections, handles, record, sleepers>>
      /\ step[u].at = "releaseOwned" /\ c = step[u].on
      /\ \A d \in Records : gcs'[d] = (IF d = c THEN 0 ELSE gcs[d])
  BY <1>1, <1>2 DEF ReleaseResources, ReleasesGcs, Types, fixed, displayVars, listVars,
     Calling, Doing, Continues, CallEnds, Using
<1>5. /\ \A v \in Users : /\ step'[v].at = (IF v = u THEN "closeOwned" ELSE step[v].at)
                      /\ step'[v].on = step[v].on
  BY <1>1, <1>2, <1>3, <1>4 DEF Types, RecordType, Freed, Wrapper, AtRest
<1>6. connectionForDisplay' = connectionForDisplay
  BY <1>1, <1>2, <1>4, <1>5 DEF connectionForDisplay, FlatTypes
<1> USE DEF FlatTypes, Using, TakingEvent, TakeLabels, CallbackLabels, Disconnecting
<1>7. Types'
  BY <1>1, <1>2, <1>3, <1>4 DEF Types, RecordType, Labels, AtRest
<1>8. OnInv'
  BY <1>1, <1>2, <1>4, <1>5, <1>6 DEF OnInv
<1>9. CountInv'
  <2>1. \A d \in Records : /\ Takers(d)' = Takers(d)
                           /\ Callers(d)' = Callers(d)
    BY <1>1, <1>2, <1>4, <1>5, <1>6 DEF Takers, Callers, OnInv
  <2> QED BY <1>1, <1>2, <1>4, <1>5, <1>6, <2>1 DEF CountInv
<1>10. ListInv'
  BY <1>1, <1>2, <1>4, <1>5, <1>6 DEF ListInv
<1>11. TakeInv'
  BY <1>1, <1>2, <1>4, <1>5, <1>6 DEF TakeInv
<1>12. SetupInv'
  BY <1>1, <1>2, <1>4, <1>5, <1>6 DEF SetupInv, OnInv
<1>13. CallbackInv'
  BY <1>1, <1>2, <1>4, <1>5, <1>6 DEF CallbackInv
<1>14. DisconnectInv'
  BY <1>1, <1>2, <1>4, <1>5, <1>6 DEF DisconnectInv
<1>15. OwnedInv'
  BY <1>1, <1>2, <1>4, <1>5, <1>6 DEF OwnedInv
<1>16. SleepInv'
  BY <1>1, <1>2, <1>4, <1>5, <1>6 DEF SleepInv
<1>17. OneCloserInv'
  BY <1>1, <1>2, <1>4, <1>5, <1>6 DEF OneCloserInv
<1>18. GcInv'
  BY <1>1, <1>2, <1>4, <1>5, <1>6 DEF GcInv
<1> QED BY <1>7, <1>8, <1>9, <1>10, <1>11, <1>12, <1>13, <1>14, <1>15, <1>16, <1>17,
   <1>18 DEF ConnectionInv

(* Which is then closed.                                                    *)
LEMMA CloseOwnedInv ==
  ASSUME ConnectionInv, NEW u \in Users, CloseOwned(u)
  PROVE  ConnectionInv'
<1>1. /\ Types /\ OnInv /\ CountInv /\ ListInv /\ TakeInv /\ SetupInv
      /\ CallbackInv /\ DisconnectInv /\ OwnedInv /\ SleepInv /\ OneCloserInv /\ GcInv
      /\ NoRecord \notin Records /\ FlatTypes
  BY SessionsAssumption, TypesFlat DEF ConnectionInv
<1>2. PICK c \in Records : c = step[u].on /\ record[c].live
  BY <1>1 DEF OnInv, Using, CloseOwned, Doing
<1>21. session.owned /\ c \notin connections
  BY <1>1, <1>2 DEF CloseOwned, Doing, OwnedInv, DisconnectInv, Disconnecting, Using
<1>22. connectionForDisplay = {}
  <2>1. \A d \in connections : d = c
    BY <1>1, <1>2, <1>21 DEF ListInv, OwnedInv, FlatTypes
  <2> QED BY <2>1, <1>21 DEF connectionForDisplay
<1>3. /\ step' = [step EXCEPT ![u].at = "free"]
  BY <1>1, <1>2, <1>21, <1>22
     DEF CloseOwned, fixed, displayVars, listVars, Calling, Doing, Continues, CallEnds,
     Using
<1>4. /\ UNCHANGED <<session, openings, connections, handles, record, gcs, sleepers>>
      /\ step[u].at = "closeOwned" /\ c = step[u].on /\ ~open' /\ open' \in BOOLEAN /\ queued' = 0
      /\ session.owned
      /\ connectionForDisplay = {}
  BY <1>1, <1>2, <1>21, <1>22
     DEF CloseOwned, fixed, displayVars, listVars, Calling, Doing, Continues, CallEnds,
     Using
<1>5. /\ \A v \in Users : /\ step'[v].at = (IF v = u THEN "free" ELSE step[v].at)
                      /\ step'[v].on = step[v].on
  BY <1>1, <1>2, <1>3, <1>4, <1>21, <1>22 DEF Types, RecordType, Freed, Wrapper, AtRest
<1>6. connectionForDisplay' = connectionForDisplay
  BY <1>1, <1>2, <1>4, <1>21, <1>22, <1>5 DEF connectionForDisplay, FlatTypes
<1> USE DEF FlatTypes, Using, TakingEvent, TakeLabels, CallbackLabels, Disconnecting
<1>7. Types'
  BY <1>1, <1>2, <1>3, <1>4, <1>21, <1>22 DEF Types, RecordType, Labels, AtRest
<1>8. OnInv'
  BY <1>1, <1>2, <1>4, <1>21, <1>22, <1>5, <1>6 DEF OnInv
<1>9. CountInv'
  <2>1. \A d \in Records : /\ Takers(d)' = Takers(d)
                           /\ Callers(d)' = Callers(d)
    BY <1>1, <1>2, <1>4, <1>21, <1>22, <1>5, <1>6 DEF Takers, Callers, OnInv
  <2> QED BY <1>1, <1>2, <1>4, <1>21, <1>22, <1>5, <1>6, <2>1 DEF CountInv
<1>10. ListInv'
  BY <1>1, <1>2, <1>4, <1>21, <1>22, <1>5, <1>6 DEF ListInv
<1>11. TakeInv'
  BY <1>1, <1>2, <1>4, <1>21, <1>22, <1>5, <1>6 DEF TakeInv
<1>12. SetupInv'
  BY <1>1, <1>2, <1>4, <1>21, <1>22, <1>5, <1>6 DEF SetupInv, OnInv
<1>13. CallbackInv'
  BY <1>1, <1>2, <1>4, <1>21, <1>22, <1>5, <1>6 DEF CallbackInv
<1>14. DisconnectInv'
  BY <1>1, <1>2, <1>4, <1>21, <1>22, <1>5, <1>6 DEF DisconnectInv
<1>15. OwnedInv'
  BY <1>1, <1>2, <1>4, <1>21, <1>22, <1>5, <1>6 DEF OwnedInv
<1>16. SleepInv'
  BY <1>1, <1>2, <1>4, <1>21, <1>22, <1>5, <1>6 DEF SleepInv
<1>17. OneCloserInv'
  BY <1>1, <1>2, <1>4, <1>21, <1>22, <1>5, <1>6 DEF OneCloserInv
<1>18. GcInv'
  BY <1>1, <1>2, <1>4, <1>21, <1>22, <1>5, <1>6 DEF GcInv, OwnedInv, OneCloserInv
<1> QED BY <1>7, <1>8, <1>9, <1>10, <1>11, <1>12, <1>13, <1>14, <1>15, <1>16, <1>17,
   <1>18 DEF ConnectionInv

(* The record is freed.                                                     *)
LEMMA FreeInv ==
  ASSUME ConnectionInv, NEW u \in Users, FreeConnection(u)
  PROVE  ConnectionInv'
<1>1. /\ Types /\ OnInv /\ CountInv /\ ListInv /\ TakeInv /\ SetupInv
      /\ CallbackInv /\ DisconnectInv /\ OwnedInv /\ SleepInv /\ OneCloserInv /\ GcInv
      /\ NoRecord \notin Records /\ FlatTypes
  BY SessionsAssumption, TypesFlat DEF ConnectionInv
<1>2. PICK c \in Records : c = step[u].on /\ record[c].live
  BY <1>1 DEF OnInv, Using, FreeConnection, Doing
<1>20. Takers(c) = {} /\ Callers(c) = {}
  BY <1>1, <1>2, NobodyCounted
     DEF FreeConnection, Doing, DisconnectInv, Disconnecting, Using
<1>21. \A v \in Users : v # u => step[v].on # c
  BY <1>1, <1>2, <1>20
     DEF FreeConnection, Doing, Takers, Callers, DisconnectInv, SetupInv, FlatTypes,
     Labels, Disconnecting, TakingEvent, Using
<1>3. /\ step' = [step EXCEPT ![u] = AtRest]
      /\ record' = [record EXCEPT ![c] = Freed]
  BY <1>1, <1>2, <1>21
     DEF FreeConnection, DisconnectInv, Disconnecting, fixed, displayVars, listVars,
     Calling, Doing, Continues, CallEnds, Using
<1>4. /\ UNCHANGED <<session, open, openings, queued, connections, handles, gcs, sleepers>>
      /\ step[u].at = "free" /\ c = step[u].on
      /\ c \notin connections
  BY <1>1, <1>2, <1>21
     DEF FreeConnection, DisconnectInv, Disconnecting, fixed, displayVars, listVars,
     Calling, Doing, Continues, CallEnds, Using
<1>5. /\ \A v \in Users : /\ step'[v].at = (IF v = u THEN "idle" ELSE step[v].at)
                      /\ step'[v].on = (IF v = u THEN NoRecord ELSE step[v].on)
      /\ ~record'[c].live /\ ~record'[c].display /\ ~record'[c].ownsDisplay /\ ~record'[c].closing
      /\ record'[c].eventUsers = 0 /\ record'[c].closeCallbacks = 0
      /\ \A d \in Records : d # c =>
           /\ record'[d].live = record[d].live /\ record'[d].display = record[d].display
           /\ record'[d].ownsDisplay = record[d].ownsDisplay /\ record'[d].closing = record[d].closing
           /\ record'[d].eventUsers = record[d].eventUsers /\ record'[d].closeCallbacks = record[d].closeCallbacks
  BY <1>1, <1>2, <1>3, <1>4, <1>21 DEF Types, RecordType, Freed, Wrapper, AtRest
<1>6. connectionForDisplay' = connectionForDisplay
  BY <1>1, <1>2, <1>4, <1>21, <1>5 DEF connectionForDisplay, FlatTypes
<1> USE DEF FlatTypes, Using, TakingEvent, TakeLabels, CallbackLabels, Disconnecting
<1>7. Types'
  <2>1. record' \in [Records -> RecordType]
    BY <1>1, <1>2, <1>3, <1>4, <1>21, WrapperFacts DEF Types
  <2>2. step' \in [Users -> [at : Labels, on : Records \union {NoRecord}]]
    BY <1>1, <1>2, <1>3, <1>4, <1>21 DEF Types, Labels, AtRest
  <2> QED BY <1>1, <1>4, <1>21, <2>1, <2>2 DEF Types
<1>8. OnInv'
  BY <1>1, <1>2, <1>4, <1>21, <1>5, <1>6 DEF OnInv
<1>9. CountInv'
  <2>1. \A d \in Records : /\ Takers(d)' = Takers(d)
                           /\ Callers(d)' = Callers(d)
    BY <1>1, <1>2, <1>4, <1>21, <1>5, <1>6 DEF Takers, Callers, OnInv
  <2>2. Takers(c) = {} /\ Callers(c) = {}
    BY <1>1, <1>2, <1>4, <1>21, <1>5, <1>6 DEF OnInv, Takers, Callers
  <2>3. ASSUME NEW d \in Records
        PROVE  /\ record'[d].eventUsers = Cardinality(Takers(d)')
               /\ record'[d].closeCallbacks = Cardinality(Callers(d)')
    <3>1. CASE d = c
      BY <1>5, <2>1, <2>2, <3>1, FS_EmptySet
    <3>2. CASE d # c
      BY <1>1, <1>5, <2>1, <3>2 DEF CountInv
    <3> QED BY <3>1, <3>2
  <2> QED BY <2>3 DEF CountInv
<1>10. ListInv'
  BY <1>1, <1>2, <1>4, <1>21, <1>5, <1>6 DEF ListInv
<1>11. TakeInv'
  BY <1>1, <1>2, <1>4, <1>21, <1>5, <1>6 DEF TakeInv
<1>12. SetupInv'
  BY <1>1, <1>2, <1>4, <1>21, <1>5, <1>6 DEF SetupInv, OnInv
<1>13. CallbackInv'
  BY <1>1, <1>2, <1>4, <1>21, <1>5, <1>6 DEF CallbackInv
<1>14. DisconnectInv'
  BY <1>1, <1>2, <1>4, <1>21, <1>5, <1>6 DEF DisconnectInv
<1>15. OwnedInv'
  BY <1>1, <1>2, <1>4, <1>21, <1>5, <1>6 DEF OwnedInv
<1>16. SleepInv'
  BY <1>1, <1>2, <1>4, <1>21, <1>5, <1>6 DEF SleepInv
<1>17. OneCloserInv'
  BY <1>1, <1>2, <1>4, <1>21, <1>5, <1>6 DEF OneCloserInv
<1>18. GcInv'
  BY <1>1, <1>2, <1>4, <1>21, <1>5, <1>6 DEF GcInv
<1> QED BY <1>7, <1>8, <1>9, <1>10, <1>11, <1>12, <1>13, <1>14, <1>15, <1>16, <1>17,
   <1>18 DEF ConnectionInv

-----------------------------------------------------------------------------

(* The invariant holds at the start.                                        *)
LEMMA InitConnection == XcbInit => ConnectionInv
<1> SUFFICES ASSUME XcbInit PROVE ConnectionInv
  OBVIOUS
<1>1. Types
  <2>1. Freed \in RecordType /\ AtRest \in [at : Labels, on : Records \union {NoRecord}]
    BY WrapperFacts DEF AtRest, Labels
  <2> QED BY <2>1 DEF XcbInit, Types
<1>2. \A u \in Users : step[u].at = "idle" /\ step[u].on = NoRecord
  BY DEF XcbInit, AtRest
<1>3. connections = {} /\ sleepers = {}
  BY DEF XcbInit
<1>4. \A c \in Records : /\ ~record[c].live /\ ~record[c].ownsDisplay /\ gcs[c] = 0
                         /\ record[c].eventUsers = 0 /\ record[c].closeCallbacks = 0
  BY DEF XcbInit, Freed
<1>5. CountInv
  <2>1. \A c : Takers(c) = {} /\ Callers(c) = {}
    BY <1>2 DEF Takers, Callers, TakeLabels, CallbackLabels
  <2> QED BY <1>4, <2>1, FS_EmptySet DEF CountInv
<1>6. OnInv /\ TakeInv /\ SetupInv /\ CallbackInv
  BY <1>2 DEF OnInv, TakeInv, SetupInv, CallbackInv, Using, TakeLabels, CallbackLabels
<1>7. ListInv /\ SleepInv /\ OneCloserInv /\ GcInv
  BY <1>2, <1>3, <1>4
     DEF ListInv, SleepInv, OneCloserInv, GcInv, connectionForDisplay, TakingEvent
<1>8. DisconnectInv /\ OwnedInv
  BY <1>2, <1>4 DEF DisconnectInv, OwnedInv, Disconnecting, CallbackLabels
<1> QED BY <1>1, <1>5, <1>6, <1>7, <1>8 DEF ConnectionInv

(* Every step preserves it.                                                 *)
LEMMA NextConnection == ConnectionInv /\ [XcbNext]_xcbVars => ConnectionInv'
<1> SUFFICES ASSUME ConnectionInv, [XcbNext]_xcbVars PROVE ConnectionInv'
  OBVIOUS
<1>1. CASE OpenDisplay
  BY <1>1, OpenDisplayInv
<1>2. CASE Connect
  BY <1>2, ConnectInv
<1>3. CASE EventArrives
  <2>1. queued \in Nat
    BY DEF ConnectionInv, Types
  <2> QED BY <1>3, <2>1, SameInv DEF EventArrives, listVars
<1>4. CASE UNCHANGED xcbVars
  <2>1. queued \in Nat
    BY DEF ConnectionInv, Types
  <2> QED BY <1>4, <2>1, SameInv DEF xcbVars, fixed, displayVars, listVars
<1>5. ASSUME NEW u \in Users, Bind(u) \/ registerConnectionForDisplay(u) PROVE ConnectionInv'
  BY <1>5, BindAgainInv, BindNewInv, RegisterNewInv, RegisterFoundInv
<1>6. ASSUME NEW u \in Users, EventsQueued(u) \/ NextEvent(u) \/ Woken(u) \/ LeaveTake(u)
      PROVE  ConnectionInv'
  BY <1>6, TakeMoveInv, LeaveTakeInv
<1>7. ASSUME NEW u \in Users, CloseDisplay(u) \/ Teardown(u)
      PROVE  ConnectionInv'
  BY <1>7, CloseBareInv, CloseAttachInv, TeardownInv
<1>8. ASSUME NEW u \in Users, BeginClosed(u) \/ AwaitUsers(u) PROVE ConnectionInv'
  BY <1>8, BeginClosedSleepsInv, BeginClosedClearsInv, AwaitUsersSleepsInv,
     AwaitUsersClearsInv
<1>9. ASSUME NEW u \in Users, ReleaseClosed(u) \/ EndClosed(u) PROVE ConnectionInv'
  BY <1>9, ReleaseClosedInv, EndClosedInv
<1>10. ASSUME NEW u \in Users, AwaitLast(u) \/ unregisterConnection(u) PROVE ConnectionInv'
  BY <1>10, LastSleepsInv, LastGoesInv, UnregisterInv
<1>11. ASSUME NEW u \in Users, AwaitCallbacks(u) PROVE ConnectionInv'
  BY <1>11, CallbacksSleepInv, CallbacksDoneInv, CallbacksDoneOwnedInv
<1>12. ASSUME NEW u \in Users, ReleaseResources(u) PROVE ConnectionInv'
  <2>1. Doing(u, "release") \/ Doing(u, "releaseOwned")
    BY <1>12 DEF ReleaseResources
  <2> QED BY <1>12, <2>1, ReleaseInv, ReleaseOwnedInv
<1>13. ASSUME NEW u \in Users, CloseOwned(u) \/ FreeConnection(u) PROVE ConnectionInv'
  BY <1>13, CloseOwnedInv, FreeInv
<1>14. ASSUME NEW u \in Users, NEW c \in handles,
              TakeQueuedError(u, c) \/ BeginTake(u, c) \/ FailingRequest(u, c) \/ CreateGc(u, c)
       PROVE  ConnectionInv'
  BY <1>14, TakeQueuedErrorInv, BeginTakeInv, FailingRequestInv, CreateGcInv
<1>15. ASSUME NEW u \in Users, NEW c \in handles, Disconnect(u, c) PROVE ConnectionInv'
  BY <1>15, DisconnectWaitsInv, DisconnectGoesInv
<1>16. ASSUME NEW u \in Users, NEW c \in handles, StoreAnswer(u, c) PROVE ConnectionInv'
  <2>1. queued \in Nat
    BY DEF ConnectionInv, Types
  <2> QED BY <1>16, <2>1, SameInv DEF StoreAnswer, fixed, displayVars, listVars
<1>17. ASSUME NEW u \in Users, NEW k \in cookies, TakeAnswer(u, k) \/ DiscardAnswer(u, k)
       PROVE  ConnectionInv'
  <2>1. queued \in Nat
    BY DEF ConnectionInv, Types
  <2> QED BY <1>17, <2>1, SameInv
     DEF TakeAnswer, DiscardAnswer, fixed, displayVars, listVars
<1> QED
  BY <1>1, <1>2, <1>3, <1>4, <1>5, <1>6, <1>7, <1>8, <1>9, <1>10, <1>11, <1>12, <1>13,
     <1>14, <1>15, <1>16, <1>17 DEF XcbNext

(* The records, their counts and the threads on them stay consistent.       *)
THEOREM XcbInvariant == XcbSpec => []ConnectionInv
<1>1. XcbInit => ConnectionInv
  BY InitConnection
<1>2. ConnectionInv /\ [XcbNext]_xcbVars => ConnectionInv'
  BY NextConnection
<1> QED BY <1>1, <1>2, PTL DEF XcbSpec

(* A thread sleeps only while what it waits for has still to happen, and    *)
(* whoever that is, if in XNextEvent, will be found and told to leave.      *)
THEOREM XcbClosersReturn == XcbSpec => []ClosersReturn
<1>1. ConnectionInv => ClosersReturn
  BY DEF ConnectionInv, SleepInv, TakeInv, TakeLabels, ClosersReturn, Awake, Doing, Using
<1> QED BY <1>1, XcbInvariant, PTL

-----------------------------------------------------------------------------
(* Sequence numbers.  A cookie holds a number's rest; numbers less than      *)
(* Narrow apart have different rests, and the number is found again.         *)
LEMMA Division ==
  ASSUME NEW n \in Nat, NEW m \in Nat \ {0}
  PROVE  /\ n \div m \in Nat /\ (n % m) \in Nat /\ (n % m) < m
         /\ n = m * (n \div m) + (n % m)
  BY SMT

(* The rest is the only one there is.                                       *)
LEMMA Rest ==
  ASSUME NEW q \in Nat, NEW m \in Nat \ {0}, NEW r \in Nat, r < m
  PROVE  (m * q + r) % m = r 
  BY SMT

(* Whole multiples are a multiple apart.                                    *)
LEMMA Block ==
  ASSUME NEW m \in Nat \ {0}, NEW q \in Nat, NEW p \in Nat, q > p
  PROVE  m * q >= m * p + m
  BY SMT
(* Two numbers less than m apart, with the same rest, are one. *)
LEMMA SameRest ==
  ASSUME NEW m \in Nat \ {0}, NEW k \in Nat, NEW l \in Nat, k < l + m, l < k + m, (k % m) = (l % m)
  PROVE  k = l
<1>1. /\ k = m * (k \div m) + (k % m) /\ k \div m \in Nat
      /\ l = m * (l \div m) + (l % m) /\ l \div m \in Nat
  BY Division
<1> DEFINE q == k \div m
           p == l \div m
<1>2. ~(q > p)
  <2> SUFFICES ASSUME q > p PROVE FALSE
    OBVIOUS
  <2>1. m * q >= m * p + m
    BY <1>1, Block
  <2> QED BY <1>1, <2>1, Division
<1>3. ~(p > q)
  <2> SUFFICES ASSUME p > q PROVE FALSE
    OBVIOUS
  <2>1. m * p >= m * q + m
    BY <1>1, Block
  <2> QED BY <1>1, <2>1, Division
<1>4. p = q
  BY <1>1, <1>2, <1>3
<1> QED BY <1>1, <1>4

(* widenSequence finds a connection's number again.                         *)
LEMMA WidenInvertsLow ==
  ASSUME NEW c, NEW of \in Nat, last[c] \in Nat, of <= last[c], last[c] < of + Narrow
  PROVE  widenSequence(c, Low(of)) = of
<1> DEFINE n == last[c]
           q == n \div Narrow
           r == n % Narrow
           p == of \div Narrow
           s == of % Narrow
<1>1. Narrow \in Nat \ {0}
  BY SessionsAssumption
<1>2. /\ q \in Nat /\ r \in Nat /\ r < Narrow /\ n = Narrow * q + r
      /\ p \in Nat /\ s \in Nat /\ s < Narrow /\ of = Narrow * p + s
      /\ Narrow * q \in Nat /\ Narrow * p \in Nat
  <2>1. n \in Nat
    OBVIOUS
  <2> HIDE DEF n
  <2>2. /\ q \in Nat /\ r \in Nat /\ r < Narrow /\ n = Narrow * q + r
        /\ p \in Nat /\ s \in Nat /\ s < Narrow /\ of = Narrow * p + s
    BY <1>1, <2>1, Division
  <2>3. \A a, b \in Nat : a * b \in Nat
    OBVIOUS
  <2> QED BY <1>1, <2>2, <2>3
<1>3. widenSequence(c, Low(of)) = LET w == (n - r) + s
                                  IN  IF w > n /\ w >= Narrow THEN w - Narrow ELSE w
  BY DEF widenSequence, Low
<1>31. n \in Nat /\ of <= n /\ n < of + Narrow
  OBVIOUS
<1> HIDE DEF n, q, r, p, s
<1>4. ~(p > q)
  <2>1. p > q => Narrow * p >= Narrow * q + Narrow
    BY <1>1, <1>2, Block
  <2> QED BY <1>1, <1>2, <1>31, <2>1
<1>5. ~(q > p + 1)
  <2>1. q > p + 1 => Narrow * q >= Narrow * (p + 1) + Narrow
    BY <1>1, <1>2, Block
  <2>2. Narrow * (p + 1) = Narrow * p + Narrow
    BY <1>1, <1>2
  <2> QED BY <1>1, <1>2, <1>31, <2>1, <2>2
<1>6. CASE q = p
  BY <1>1, <1>2, <1>3, <1>31, <1>6
<1>7. CASE q = p + 1
  <2>1. Narrow * q = Narrow * p + Narrow
    BY <1>1, <1>2, <1>7
  <2> QED BY <1>1, <1>2, <1>3, <1>31, <2>1
<1> QED BY <1>2, <1>4, <1>5, <1>6, <1>7

(* The key of an answer has the rest of its number, so the answers of       *)
(* numbers less than Narrow apart have different keys.                      *)
LEMMA KeysDiffer ==
  ASSUME NEW k \in Nat, NEW l \in Nat, NEW a, NEW b,
         k < l + Narrow, l < k + Narrow, KeyOf(a, k) = KeyOf(b, l)
  PROVE  k = l
<1>1. Narrow \in Nat \ {0}
  BY SessionsAssumption
<1>2. ASSUME NEW n \in Nat, NEW kind
      PROVE  (KeyOf(kind, n) % Narrow) = (n % Narrow)
  <2>1. (n % Narrow) \in Nat /\ (n % Narrow) < Narrow
    BY <1>1, Division
  <2>2. ((n % Narrow) % Narrow) = (n % Narrow)
    <3>1. (Narrow * 0 + (n % Narrow)) % Narrow = (n % Narrow)
      BY <1>1, <2>1, Rest
    <3>2. Narrow * 0 + (n % Narrow) = (n % Narrow)
      BY <1>1, <2>1
    <3> QED BY <3>1, <3>2
  <2> QED BY <2>2 DEF KeyOf, Low
<1> QED BY <1>1, <1>2, SameRest

(* Keys are numbers.                                                        *)
LEMMA KeyOfType ==
  ASSUME NEW k \in Nat, NEW a
  PROVE  KeyOf(a, k) \in Nat
<1>1. (k % Narrow) \in Nat
  BY SessionsAssumption, Division
<1> QED BY <1>1 DEF KeyOf, Low

(* So each cookie finds its answer, or none.                                *)
LEMMA CookiesFindAnswers == CookieInv => AnswersFound
<1> SUFFICES ASSUME CookieInv, NEW k \in cookies
             PROVE  IF record[k.on].display
                    THEN /\ TakenAt(k) \in DOMAIN pending[k.on]
                         /\ pending[k.on][TakenAt(k)] = k.of
                    ELSE TakenAt(k) \notin DOMAIN pending[k.on]
  BY DEF AnswersFound
<1>1. last[k.on] \in Nat /\ k.of \in Nat /\ k.of <= last[k.on] /\ last[k.on] < k.of + Narrow
  BY DEF CookieInv, Recent
<1>2. widenSequence(k.on, Low(k.of)) = k.of
  BY <1>1, WidenInvertsLow
<1>3. TakenAt(k) = KeyOf(k.kind, k.of)
  BY <1>2 DEF TakenAt, KeyOf
<1> QED BY <1>3 DEF CookieInv, FindsOwn

(* The invariant of the cookies holds at the start.                         *)
LEMMA InitCookies == XcbInit => CookieInv
BY DEF XcbInit, CookieInv

(* Cookies are kept, or given up, while their connections' numbers go on    *)
(* and their answers stay; or the table is emptied and the display gone.    *)
LEMMA CookiesStay ==
  ASSUME CookieInv, cookies' \subseteq cookies,
         last' \in [Records -> Nat], pending' = [c \in Records |-> pending'[c]],
         \A k \in cookies' :
           /\ k.on \in handles'
           /\ last'[k.on] >= last[k.on] /\ last'[k.on] < k.of + Narrow
           /\ \/ /\ pending'[k.on] = pending[k.on]
                 /\ record'[k.on].display = record[k.on].display
              \/ DOMAIN pending'[k.on] = {} /\ ~record'[k.on].display
  PROVE  CookieInv'
<1>1. ASSUME NEW k \in cookies' PROVE Recent(k)' /\ FindsOwn(k)'
  <2>1. /\ k \in cookies /\ k.on \in Records /\ k.of \in Nat
        /\ last[k.on] \in Nat /\ last'[k.on] \in Nat
    BY DEF CookieInv
  <2>2. Recent(k) /\ FindsOwn(k)
    BY <2>1 DEF CookieInv
  <2>3. Recent(k)'
    BY <2>1, <2>2 DEF Recent
  <2>4. FindsOwn(k)'
    BY <2>1, <2>2 DEF FindsOwn, KeyOf, Low
  <2> QED BY <2>3, <2>4
<1> QED BY <1>1 DEF CookieInv

(* A step that does nothing to the connections in the client's hands.       *)
LEMMA CookiesUntouched ==
  ASSUME CookieInv, UNCHANGED cookies,
         last' \in [Records -> Nat], pending' = [c \in Records |-> pending'[c]],
         \A c \in handles :
           /\ c \in handles' /\ last'[c] = last[c] /\ pending'[c] = pending[c]
           /\ record'[c].display = record[c].display
  PROVE  CookieInv'
<1>1. \A k \in cookies : /\ k.on \in handles /\ k.on \in Records /\ Recent(k)
  BY DEF CookieInv
<1>2. \A k \in cookies : last[k.on] \in Nat
  BY <1>1 DEF CookieInv
<1> QED BY <1>1, <1>2, CookiesStay DEF Recent

(* In particular one that leaves the answers alone.                         *)
LEMMA AnswersUntouched ==
  ASSUME CookieInv, UNCHANGED answerVars,
         \A c \in handles : c \in handles' /\ record'[c].display = record[c].display
  PROVE  CookieInv'
<1>1. UNCHANGED <<last, pending, cookies>>
  BY DEF answerVars
<1>2. last' \in [Records -> Nat] /\ pending' = [c \in Records |-> pending'[c]]
  BY <1>1 DEF CookieInv
<1> QED BY <1>1, <1>2, CookiesUntouched

(* What the client holds is none of the records that are being built, taken *)
(* apart or free.                                                           *)
LEMMA HeldRecords ==
  ASSUME ConnectionInv
  PROVE  /\ record \in [Records -> RecordType] /\ handles \subseteq Records
         /\ \A c \in handles : record[c].live
         /\ \A u \in Users : /\ step[u].at \notin {"idle", "teardown"} => Using(u) \in Records
                             /\ step[u].at \in Disconnecting \union {"setup"} =>
                                  Using(u) \notin handles
BY DEF ConnectionInv, Types, OnInv, ListInv, SetupInv, DisconnectInv

(* A connection is built, without answers.                                  *)
LEMMA BuiltKeeps ==
  ASSUME ConnectionInv, CookieInv, NEW c \in FreeRecords, NEW owns,
         allocConnection(c, owns), handles \subseteq handles'
  PROVE  CookieInv'
<1>1. c \in Records /\ c \notin handles /\ handles \subseteq Records
  BY HeldRecords DEF FreeRecords
<1>2. /\ UNCHANGED cookies
      /\ record' = [record EXCEPT ![c] = Wrapper(owns)]
      /\ last' = [last EXCEPT ![c] = 0] /\ pending' = [pending EXCEPT ![c] = <<>>]
  BY DEF allocConnection
<1>3. last' \in [Records -> Nat] /\ pending' = [d \in Records |-> pending'[d]]
  BY <1>1, <1>2 DEF CookieInv
<1>4. \A d \in handles : /\ last'[d] = last[d] /\ pending'[d] = pending[d]
                         /\ record'[d].display = record[d].display
  BY <1>1, <1>2, HeldRecords DEF CookieInv
<1> QED BY <1>2, <1>3, <1>4, CookiesUntouched

(* A display opens, by itself or with its connection; an event arrives.     *)
LEMMA OpeningsKeep ==
  ASSUME ConnectionInv, CookieInv, OpenDisplay \/ Connect \/ EventArrives
  PROVE  CookieInv'
<1>1. CASE Connect
  <2>1. PICK c \in FreeRecords : allocConnection(c, TRUE) /\ handles' = handles \union {c}
    BY <1>1 DEF Connect
  <2> QED BY <2>1, BuiltKeeps
<1>2. CASE OpenDisplay \/ EventArrives
  <2>1. UNCHANGED answerVars /\ UNCHANGED <<handles, record>>
    BY <1>2 DEF OpenDisplay, EventArrives, listVars
  <2> QED BY <2>1, AnswersUntouched
<1> QED BY <1>1, <1>2

(* A connection is bound, or one that lost the race is given back.          *)
LEMMA BindKeeps ==
  ASSUME ConnectionInv, CookieInv, NEW u \in Users,
         Bind(u) \/ registerConnectionForDisplay(u)
  PROVE  CookieInv'
<1>1. CASE Bind(u) /\ connectionForDisplay = {}
  <2>1. PICK c \in FreeRecords : allocConnection(c, FALSE) /\ handles' = handles
    BY <1>1 DEF Bind
  <2> QED BY <2>1, BuiltKeeps
<1>2. CASE Bind(u) /\ connectionForDisplay # {}
  <2>1. UNCHANGED answerVars /\ handles \subseteq handles' /\ UNCHANGED record
    BY <1>2 DEF Bind
  <2> QED BY <2>1, AnswersUntouched
<1>3. CASE registerConnectionForDisplay(u)
  <2>1. /\ UNCHANGED answerVars /\ handles \subseteq handles' /\ step[u].at = "setup"
        /\ record' = record \/ record' = [record EXCEPT ![Using(u)] = Freed]
    BY <1>3 DEF registerConnectionForDisplay, Doing
  <2>2. Using(u) \notin handles
    BY <2>1, HeldRecords
  <2>3. \A c \in handles : record'[c].display = record[c].display
    BY <2>1, <2>2, HeldRecords
  <2> QED BY <2>1, <2>3, AnswersUntouched
<1> QED BY <1>1, <1>2, <1>3

(* Taking an event leaves the displays of connections alone.                *)
LEMMA TakesKeep ==
  ASSUME ConnectionInv, CookieInv, NEW u \in Users,
         \/ EventsQueued(u) \/ NextEvent(u) \/ Woken(u) \/ LeaveTake(u)
         \/ \E c \in handles : TakeQueuedError(u, c) \/ BeginTake(u, c)
  PROVE  CookieInv'
<1>1. UNCHANGED answerVars /\ UNCHANGED handles
  BY DEF EventsQueued, NextEvent, Woken, LeaveTake, TakeQueuedError, BeginTake, listVars
<1>2. PICK c \in Records :
        \/ record' = record
        \/ record' = [record EXCEPT ![c].errors = @ - 1]
        \/ record' = [record EXCEPT ![c].eventUsers = @ + 1]
        \/ record' = [record EXCEPT ![c].eventUsers = @ - 1]
  <2>1. CASE EventsQueued(u) \/ NextEvent(u) \/ Woken(u) \/ LeaveTake(u)
    <3>1. Using(u) \in Records
      BY <2>1, HeldRecords DEF EventsQueued, NextEvent, Woken, LeaveTake, Doing
    <3> QED BY <2>1, <3>1 DEF EventsQueued, NextEvent, Woken, LeaveTake
  <2>2. CASE \E c \in handles : TakeQueuedError(u, c) \/ BeginTake(u, c)
    BY <2>2, HeldRecords DEF TakeQueuedError, BeginTake
  <2> QED BY <2>1, <2>2
<1>3. \A d \in handles : record'[d].display = record[d].display
  BY <1>2, HeldRecords DEF RecordType
<1> QED BY <1>1, <1>3, AnswersUntouched

(* So does a close, but for the step that drains.                           *)
LEMMA ClosingKeeps ==
  ASSUME ConnectionInv, CookieInv, NEW u \in Users,
         CloseDisplay(u) \/ ReleaseClosed(u) \/ EndClosed(u) \/ Teardown(u)
  PROVE  CookieInv'
<1>1. UNCHANGED answerVars /\ UNCHANGED handles
  BY DEF CloseDisplay, ReleaseClosed, EndClosed, Teardown, listVars
<1>2. \/ record' = record
      \/ \E c \in Records : \/ record' = [record EXCEPT ![c].closeCallbacks = @ + 1]
                            \/ record' = [record EXCEPT ![c].closeCallbacks = @ - 1]
  <2>1. connectionForDisplay \subseteq Records
    BY DEF ConnectionInv, Types, connectionForDisplay
  <2>2. EndClosed(u) => Using(u) \in Records
    BY HeldRecords DEF EndClosed, Doing
  <2> QED BY <2>1, <2>2 DEF CloseDisplay, ReleaseClosed, EndClosed, Teardown
<1>3. \A d \in handles : record'[d].display = record[d].display
  BY <1>2, HeldRecords DEF RecordType
<1> QED BY <1>1, <1>3, AnswersUntouched

(* Who disconnects has a record to itself.                                  *)
LEMMA DisconnectingKeeps ==
  ASSUME ConnectionInv, CookieInv, NEW u \in Users,
         \/ AwaitLast(u) \/ unregisterConnection(u) \/ AwaitCallbacks(u)
         \/ ReleaseResources(u) \/ CloseOwned(u) \/ FreeConnection(u)
  PROVE  CookieInv'
<1>1. Using(u) \in Records /\ Using(u) \notin handles
  <2>1. step[u].at \in Disconnecting
    BY DEF AwaitLast, unregisterConnection, AwaitCallbacks, ReleaseResources, CloseOwned,
       FreeConnection, Doing, Disconnecting
  <2>2. step[u].at \notin {"idle", "teardown"}
    BY <2>1 DEF Disconnecting
  <2> QED BY <2>1, <2>2, HeldRecords
<1>2. /\ UNCHANGED <<handles, last, cookies>>
      /\ pending' = pending \/ pending' = [pending EXCEPT ![Using(u)] = <<>>]
      /\ \/ record' = record
         \/ record' = [record EXCEPT ![Using(u)].display = FALSE,
                                     ![Using(u)].ownsDisplay = FALSE]
         \/ record' = [record EXCEPT ![Using(u)] = Freed]
  BY DEF AwaitLast, unregisterConnection, AwaitCallbacks, ReleaseResources, CloseOwned,
     FreeConnection, drainPendingLocked, listVars, answerVars
<1>3. last' \in [Records -> Nat] /\ pending' = [c \in Records |-> pending'[c]]
  BY <1>1, <1>2 DEF CookieInv
<1>4. \A c \in handles : pending'[c] = pending[c] /\ record'[c].display = record[c].display
  BY <1>1, <1>2, HeldRecords DEF CookieInv
<1> QED BY <1>2, <1>3, <1>4, CookiesUntouched

(* With the connection go its cookies.                                      *)
LEMMA DisconnectKeeps ==
  ASSUME ConnectionInv, CookieInv, NEW u \in Users, NEW c \in handles, Disconnect(u, c)
  PROVE  CookieInv'
<1>1. /\ UNCHANGED <<last, pending>> /\ handles' = handles \ {c}
      /\ cookies' = {k \in cookies : k.on # c}
      /\ record' = [record EXCEPT ![c].closing = TRUE]
  BY DEF Disconnect, Refuses
<1>2. last' \in [Records -> Nat] /\ pending' = [d \in Records |-> pending'[d]]
  BY <1>1 DEF CookieInv
<1>3. ASSUME NEW k \in cookies'
      PROVE  /\ k.on \in handles' /\ last'[k.on] >= last[k.on] /\ last'[k.on] < k.of + Narrow
             /\ pending'[k.on] = pending[k.on] /\ record'[k.on].display = record[k.on].display
  <2>1. k \in cookies /\ k.on # c /\ k.on \in handles /\ k.on \in Records /\ Recent(k)
    BY <1>1 DEF CookieInv
  <2>2. last[k.on] \in Nat
    BY <2>1 DEF CookieInv
  <2>3. record'[k.on] = record[k.on]
    BY <1>1, <2>1, HeldRecords
  <2> QED BY <1>1, <2>1, <2>2, <2>3 DEF Recent
<1>4. cookies' \subseteq cookies
  BY <1>1
<1> QED BY <1>2, <1>3, <1>4, CookiesStay

(* A close empties the table of the display it takes away.                  *)
LEMMA ClosedKeeps ==
  ASSUME ConnectionInv, CookieInv, NEW u \in Users, BeginClosed(u) \/ AwaitUsers(u)
  PROVE  CookieInv'
<1>1. PICK c \in Records : c = Using(u)
  BY HeldRecords DEF BeginClosed, AwaitUsers, Doing
<1>2. PICK noted : /\ noted = record \/ noted = [record EXCEPT ![c].closing = TRUE]
                   /\ displayClosed(u, noted)
  BY <1>1 DEF BeginClosed, AwaitUsers, Refuses
<1>3. /\ noted \in [Records -> RecordType]
      /\ \A d \in Records : noted[d].display = record[d].display
  <2>1. record \in [Records -> RecordType]
    BY HeldRecords
  <2>2. CASE noted = [record EXCEPT ![c].closing = TRUE]
    BY ONLY <1>1, <2>1, <2>2 DEF RecordType
  <2> QED BY <1>2, <2>1, <2>2
<1>4. UNCHANGED <<handles, last, cookies>>
  BY <1>2 DEF displayClosed, listVars
<1>5. CASE noted[c].eventUsers > 0
  <2>1. record' = noted /\ UNCHANGED pending
    BY <1>1, <1>2, <1>5 DEF displayClosed
  <2> QED BY <1>3, <1>4, <2>1, HeldRecords, AnswersUntouched DEF answerVars
<1>6. CASE ~(noted[c].eventUsers > 0)
  <2>1. /\ record' = [noted EXCEPT ![c].display = FALSE, ![c].ownsDisplay = FALSE,
                                   ![c].errors = 0]
        /\ pending' = [pending EXCEPT ![c] = <<>>]
    BY <1>1, <1>2, <1>6 DEF displayClosed, drainPendingLocked
  <2>2. last' \in [Records -> Nat] /\ pending' = [d \in Records |-> pending'[d]]
    BY <1>4, <2>1 DEF CookieInv
  <2>3. /\ ~record'[c].display /\ DOMAIN pending'[c] = {}
        /\ \A d \in Records \ {c} : /\ pending'[d] = pending[d]
                                    /\ record'[d].display = record[d].display
    BY <1>3, <2>1 DEF CookieInv, RecordType
  <2>4. \A k \in cookies : /\ k.on \in handles /\ k.on \in Records /\ Recent(k)
                           /\ last[k.on] \in Nat
    BY DEF CookieInv
  <2> QED BY <1>4, <2>2, <2>3, <2>4, CookiesStay DEF Recent
<1> QED BY <1>5, <1>6

(* A request that leaves no answer takes a number.                          *)
LEMMA NumbersKeep ==
  ASSUME ConnectionInv, CookieInv, NEW u \in Users, NEW c \in handles,
         FailingRequest(u, c) \/ CreateGc(u, c)
  PROVE  CookieInv'
<1>1. /\ UNCHANGED <<handles, pending, cookies>>
      /\ \A k \in cookies : k.on = c => k.of + Narrow > last[c] + 1
      /\ last' = [last EXCEPT ![c] = @ + 1]
      /\ record' = record \/ record' = [record EXCEPT ![c].errors = @ + 1]
  BY DEF FailingRequest, CreateGc, xcbCompatNextSequence, listVars
<1>2. c \in Records
  BY HeldRecords
<1>3. last' \in [Records -> Nat] /\ pending' = [d \in Records |-> pending'[d]]
  BY <1>1, <1>2 DEF CookieInv
<1>4. \A d \in Records : record'[d].display = record[d].display
  BY <1>1, <1>2, HeldRecords DEF RecordType
<1>5. ASSUME NEW k \in cookies
      PROVE  /\ k.on \in handles /\ k.on \in Records
             /\ last'[k.on] >= last[k.on] /\ last'[k.on] < k.of + Narrow
  <2>1. /\ k.on \in handles /\ k.on \in Records /\ Recent(k) /\ last[k.on] \in Nat
        /\ k.of \in Nat /\ Narrow \in Nat
    BY SessionsAssumption DEF CookieInv
  <2>2. last'[k.on] = (IF k.on = c THEN last[c] + 1 ELSE last[k.on])
    BY <1>1, <2>1 DEF CookieInv
  <2> QED BY <1>1, <2>1, <2>2 DEF Recent
<1> QED BY <1>1, <1>3, <1>4, <1>5, CookiesStay

(* A new answer takes a key that no cookie of the connection is waiting at. *)
LEMMA StoreAnswerKeeps ==
  ASSUME ConnectionInv, CookieInv, NEW u \in Users, NEW c \in handles, StoreAnswer(u, c)
  PROVE  CookieInv'
<1>1. PICK kind \in {"checked", "replying"} :
        /\ \A k \in cookies : k.on = c => k.of + Narrow > last[c] + 1
        /\ last' = [last EXCEPT ![c] = @ + 1]
        /\ pending' = [pending EXCEPT ![c] = Stored(@, KeyOf(kind, last'[c]), last'[c])]
        /\ cookies' = cookies \union {[kind |-> kind, on |-> c, of |-> last'[c]]}
        /\ UNCHANGED <<handles, record>> /\ record[c].display
  BY DEF StoreAnswer, xcbCompatNextSequence, RequestReady, listVars
<1>2. PICK s \in Nat :
        /\ s = last[c] + 1 /\ last'[c] = s
        /\ c \in Records /\ last[c] \in Nat /\ Narrow \in Nat \ {0}
        /\ last' \in [Records -> Nat]
        /\ \A d \in Records \ {c} : last'[d] = last[d]
  BY <1>1, HeldRecords, SessionsAssumption DEF CookieInv
<1> DEFINE new == [kind |-> kind, on |-> c, of |-> s]
           key == KeyOf(kind, s)
<1>3. /\ pending' = [d \in Records |-> pending'[d]]
      /\ pending'[c] = Stored(pending[c], key, s)
      /\ \A d \in Records \ {c} : pending'[d] = pending[d]
  BY <1>1, <1>2 DEF CookieInv
<1>4. /\ key \in DOMAIN pending'[c] /\ pending'[c][key] = s
      /\ \A n \in DOMAIN pending[c] : n # key =>
           n \in DOMAIN pending'[c] /\ pending'[c][n] = pending[c][n]
  BY <1>3 DEF Stored
<1>5. cookies' = cookies \union {new}
  BY <1>1, <1>2
<1>6. new \in [kind : {"checked", "replying"}, on : Records, of : Nat]
  BY <1>2
<1>7. Recent(new)' /\ FindsOwn(new)' /\ new.on \in handles'
  <2>1. new.kind = kind /\ new.on = c /\ new.of = s
    OBVIOUS
  <2>2. Recent(new)'
    BY <1>2, <2>1 DEF Recent
  <2>3. FindsOwn(new)'
    BY <1>1, <1>4, <2>1 DEF FindsOwn, KeyOf, Low
  <2> QED BY <1>1, <2>1, <2>2, <2>3
<1>8. ASSUME NEW k \in cookies
      PROVE  /\ Recent(k)' /\ FindsOwn(k)' /\ k.on \in handles'
             /\ k.on = c => k.of # s
  <2>1. /\ k.on \in handles /\ k.on \in Records /\ k.of \in Nat /\ last[k.on] \in Nat
        /\ Recent(k) /\ FindsOwn(k)
    BY DEF CookieInv
  <2>2. CASE k.on # c
    BY <1>1, <1>2, <1>3, <2>1, <2>2 DEF Recent, FindsOwn, KeyOf, Low
  <2>3. CASE k.on = c
    <3>1. k.of < s /\ s < k.of + Narrow /\ k.of > 0
      BY <1>1, <1>2, <2>1, <2>3 DEF Recent
    <3>2. Recent(k)'
      BY <1>2, <2>1, <2>3, <3>1 DEF Recent
    <3>3. KeyOf(k.kind, k.of) # key
      <4> SUFFICES ASSUME KeyOf(k.kind, k.of) = key PROVE FALSE
        OBVIOUS
      <4>1. k.of < s + Narrow
        BY <1>2, <2>1, <3>1
      <4>2. k.of = s
        BY <2>1, <3>1, <4>1, KeysDiffer
      <4> QED BY <1>2, <2>1, <3>1, <4>2
    <3>4. FindsOwn(k)'
      <4>1. /\ KeyOf(k.kind, k.of) \in DOMAIN pending[c]
            /\ pending[c][KeyOf(k.kind, k.of)] = k.of
        BY <1>1, <2>1, <2>3 DEF FindsOwn
      <4> HIDE DEF key
      <4>2. /\ KeyOf(k.kind, k.of) \in DOMAIN pending'[c]
            /\ pending'[c][KeyOf(k.kind, k.of)] = k.of
        BY <1>4, <3>3, <4>1
      <4> QED BY <1>1, <2>3, <4>2 DEF FindsOwn, KeyOf, Low
    <3> QED BY <1>1, <1>2, <2>1, <2>3, <3>1, <3>2, <3>4
  <2> QED BY <2>2, <2>3
<1>9. \A k \in cookies' : k.on \in handles' /\ Recent(k)' /\ FindsOwn(k)'
  <2> HIDE DEF new
  <2> QED BY <1>5, <1>7, <1>8
<1>10. \A k, l \in cookies' : k.on = l.on /\ k.of = l.of => k = l
  <2>1. new.on = c /\ new.of = s
    OBVIOUS
  <2>2. \A k, l \in cookies : k.on = l.on /\ k.of = l.of => k = l
    BY DEF CookieInv
  <2> HIDE DEF new
  <2> QED BY <1>5, <1>8, <2>1, <2>2
<1>11. cookies' \subseteq [kind : {"checked", "replying"}, on : Records, of : Nat]
  BY <1>5, <1>6 DEF CookieInv
<1> QED BY <1>2, <1>3, <1>9, <1>10, <1>11 DEF CookieInv

(* An answer that is taken or discarded is under no other cookie.           *)
LEMMA TakenAnswerKeeps ==
  ASSUME ConnectionInv, CookieInv, NEW u \in Users, NEW k \in cookies,
         TakeAnswer(u, k) \/ DiscardAnswer(u, k)
  PROVE  CookieInv'
<1>1. /\ k.on \in Records /\ last[k.on] \in Nat /\ k.of \in Nat /\ Narrow \in Nat
      /\ k.of <= last[k.on] /\ last[k.on] < k.of + Narrow
  BY SessionsAssumption DEF CookieInv, Recent
<1>2. widenSequence(k.on, Low(k.of)) = k.of
  BY <1>1, WidenInvertsLow
<1>3. PICK key : /\ pending' = [pending EXCEPT ![k.on] = Dropped(@, key)]
                 /\ key \in {KeyOf("checked", k.of), KeyOf(k.kind, k.of)}
  BY <1>2 DEF TakeAnswer, DiscardAnswer, TakenAt, KeyOf
<1>4. UNCHANGED <<last, handles, record>> /\ cookies' = cookies \ {k}
  BY DEF TakeAnswer, DiscardAnswer, listVars
<1>5. /\ pending' = [d \in Records |-> pending'[d]]
      /\ pending'[k.on] = Dropped(pending[k.on], key)
      /\ \A d \in Records \ {k.on} : pending'[d] = pending[d]
  BY <1>1, <1>3 DEF CookieInv
<1>6. /\ DOMAIN pending'[k.on] = DOMAIN pending[k.on] \ {key}
      /\ \A n \in DOMAIN pending'[k.on] : pending'[k.on][n] = pending[k.on][n]
  BY <1>5 DEF Dropped, Restrict
<1>7. ASSUME NEW l \in cookies, l # k PROVE Recent(l)' /\ FindsOwn(l)'
  <2>1. /\ l.on \in Records /\ l.of \in Nat /\ last[l.on] \in Nat /\ Recent(l) /\ FindsOwn(l)
    BY DEF CookieInv
  <2>2. CASE l.on # k.on
    BY <1>4, <1>5, <2>1, <2>2 DEF Recent, FindsOwn, KeyOf, Low
  <2>3. CASE l.on = k.on
    <3>1. l.of # k.of
      BY <1>7, <2>3 DEF CookieInv
    <3>2. l.of < k.of + Narrow /\ k.of < l.of + Narrow
      BY <1>1, <2>1, <2>3 DEF Recent
    <3>3. KeyOf(l.kind, l.of) # key
      BY <1>1, <1>3, <2>1, <3>1, <3>2, KeysDiffer
    <3>4. FindsOwn(l)'
      BY <1>4, <1>6, <2>1, <2>3, <3>3 DEF FindsOwn, KeyOf, Low
    <3> QED BY <1>4, <2>1, <3>4 DEF Recent
  <2> QED BY <2>2, <2>3
<1> QED BY <1>4, <1>5, <1>7 DEF CookieInv

(* Every step preserves it.                                                 *)
LEMMA NextCookies == ConnectionInv /\ CookieInv /\ [XcbNext]_xcbVars => CookieInv'
<1> SUFFICES ASSUME ConnectionInv, CookieInv, [XcbNext]_xcbVars PROVE CookieInv'
  OBVIOUS
<1>1. CASE OpenDisplay \/ Connect \/ EventArrives
  BY <1>1, OpeningsKeep
<1>2. ASSUME NEW u \in Users, Bind(u) \/ registerConnectionForDisplay(u) PROVE CookieInv'
  BY <1>2, BindKeeps
<1>3. ASSUME NEW u \in Users,
             \/ EventsQueued(u) \/ NextEvent(u) \/ Woken(u) \/ LeaveTake(u)
             \/ \E c \in handles : TakeQueuedError(u, c) \/ BeginTake(u, c)
      PROVE  CookieInv'
  BY <1>3, TakesKeep
<1>4. ASSUME NEW u \in Users,
             CloseDisplay(u) \/ ReleaseClosed(u) \/ EndClosed(u) \/ Teardown(u)
      PROVE  CookieInv'
  BY <1>4, ClosingKeeps
<1>5. ASSUME NEW u \in Users, BeginClosed(u) \/ AwaitUsers(u) PROVE CookieInv'
  BY <1>5, ClosedKeeps
<1>6. ASSUME NEW u \in Users,
             \/ AwaitLast(u) \/ unregisterConnection(u) \/ AwaitCallbacks(u)
             \/ ReleaseResources(u) \/ CloseOwned(u) \/ FreeConnection(u)
      PROVE  CookieInv'
  BY <1>6, DisconnectingKeeps
<1>7. ASSUME NEW u \in Users, NEW c \in handles, FailingRequest(u, c) \/ CreateGc(u, c)
      PROVE  CookieInv'
  BY <1>7, NumbersKeep
<1>8. ASSUME NEW u \in Users, NEW c \in handles, Disconnect(u, c) PROVE CookieInv'
  BY <1>8, DisconnectKeeps
<1>9. ASSUME NEW u \in Users, NEW c \in handles, StoreAnswer(u, c) PROVE CookieInv'
  BY <1>9, StoreAnswerKeeps
<1>10. ASSUME NEW u \in Users, NEW k \in cookies, TakeAnswer(u, k) \/ DiscardAnswer(u, k)
       PROVE  CookieInv'
  BY <1>10, TakenAnswerKeeps
<1>11. CASE UNCHANGED xcbVars
  <2>1. UNCHANGED answerVars /\ UNCHANGED <<handles, record>>
    BY <1>11 DEF xcbVars, listVars
  <2> QED BY <2>1, AnswersUntouched
<1> QED
  BY <1>1, <1>2, <1>3, <1>4, <1>5, <1>6, <1>7, <1>8, <1>9, <1>10, <1>11 DEF XcbNext

(* Nobody is on a wrapper that was freed, a display has one wrapper that is  *)
(* its own, and every cookie finds the answer of its own request until its   *)
(* display is closed, and nothing afterwards.                                *)
THEOREM XcbWrapperIsSound == XcbSpec => []WrapperIsSound
<1>1. ConnectionInv => XcbTypeOK
  <2> SUFFICES ASSUME ConnectionInv, NEW c \in Records
               PROVE  /\ record[c].eventUsers \in 0..Cardinality(Users)
                      /\ record[c].closeCallbacks \in 0..Cardinality(Users)
    BY DEF XcbTypeOK, ConnectionInv, Types
  <2>1. \A S : S \subseteq Users => Cardinality(S) \in 0..Cardinality(Users)
    <3>1. \A S : S \subseteq Users => Cardinality(S) <= Cardinality(Users)
      BY SessionsAssumption, FS_Subset
    <3> QED BY <3>1, UserSets
  <2>2. Takers(c) \subseteq Users /\ Callers(c) \subseteq Users
    BY DEF Takers, Callers
  <2> QED BY <2>1, <2>2 DEF ConnectionInv, CountInv
<1>2. ConnectionInv => NobodyOnFreed
  <2> SUFFICES ASSUME ConnectionInv PROVE NobodyOnFreed
    OBVIOUS
  <2>1. \A u \in Users : Using(u) = NoRecord \/ record[Using(u)].live
    BY DEF ConnectionInv, OnInv
  <2>2. \A c \in handles \union connections : record[c].live
    BY DEF ConnectionInv, Types, ListInv
  <2>3. \A u \in Users : step[u].at \in {"queued", "next"} => open
    BY DEF ConnectionInv, TakeInv, TakeLabels, ListInv
  <2> QED BY <2>1, <2>2, <2>3 DEF NobodyOnFreed
<1>3. ConnectionInv => OneWrapper
  <2> SUFFICES ASSUME ConnectionInv PROVE OneWrapper
    OBVIOUS
  <2>1. Cardinality(connectionForDisplay) <= 1
    <3>1. connectionForDisplay = {} \/ \E c : connectionForDisplay = {c}
      <4>1. \A c, d \in connectionForDisplay : c = d
        BY DEF ConnectionInv, ListInv
      <4> QED BY <4>1
    <3>2. \A c : Cardinality({c}) = 1
      BY FS_Singleton
    <3>3. Cardinality({}) = 0
      BY FS_EmptySet
    <3>4. CASE connectionForDisplay = {}
      BY <3>3, <3>4
    <3>5. CASE \E c : connectionForDisplay = {c}
      <4>1. Cardinality(connectionForDisplay) = 1
        BY <3>2, <3>5
      <4> QED BY <4>1
    <3> QED BY <3>1, <3>4, <3>5
  <2>2. \A c \in connectionForDisplay :
          record[c].closing => \E u \in Closing : Using(u) = c
    BY DEF ConnectionInv, ListInv, Closing, TakingEvent
  <2> QED BY <2>1, <2>2 DEF OneWrapper
<1>4. ConnectionInv => GcsOnOpenDisplay
  BY DEF ConnectionInv, GcInv, GcsOnOpenDisplay
<1>5. ConnectionInv /\ AnswersFound => WrapperIsSound
  BY <1>1, <1>2, <1>3, <1>4 DEF WrapperIsSound
<1>6. XcbInit => ConnectionInv /\ CookieInv
  BY InitConnection, InitCookies
<1>7. (ConnectionInv /\ CookieInv) /\ [XcbNext]_xcbVars => (ConnectionInv /\ CookieInv)'
  BY NextConnection, NextCookies
<1>8. ConnectionInv /\ CookieInv => WrapperIsSound
  BY <1>5, CookiesFindAnswers
<1> QED BY <1>6, <1>7, <1>8, PTL DEF XcbSpec
=============================================================================
