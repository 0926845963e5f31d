--------------------------- MODULE XcbConnection ---------------------------
(***************************************************************************)
(* The XCB layer's connection (compat/xcb-compat.c): a record that wraps a  *)
(* display, found by it, with a mutex and one condition variable.  A thread *)
(* may wait for an event on it while another closes the display, a third    *)
(* disconnects and a request fails.  And the table where a connection's     *)
(* answers wait for their cookies, by a sequence number that the cookie     *)
(* holds only in part, until its display is closed.                         *)
(* A step is one hold of a mutex.                                           *)
(***************************************************************************)
EXTENDS Naturals, FiniteSets, Functions

CONSTANTS Users, Records, NoRecord,
          Narrow,   \* 2^32, scaled: how many numbers a cookie tells apart
          Sessions  \* the programs to explore, each of them a record:
                    \*  does     what the threads call, of XcbCalls
                    \*  owned    does xcb_connect open the display, or the client?
                    \*  together may a close and a disconnect overlap?
                    \*  calls, opens, events   bounds

XcbCalls == {"take", "poll", "fail", "gc", "close", "disconnect",
          "checked", "replying"}

ASSUME SessionsAssumption ==
  /\ IsFiniteSet(Users) /\ Narrow \in Nat \ {0} /\ NoRecord \notin Records
  /\ Sessions \subseteq
       [does : SUBSET XcbCalls, owned : BOOLEAN, together : BOOLEAN,
        calls : Nat, opens : Nat, events : Nat]

VARIABLES session,     \* one of Sessions, never changed
          open,        \* is the display open?  (its address is always the same)
          openings,    \* how many times it was opened
          queued,      \* X events waiting on it
          handles,     \* connections the client holds and has not disconnected
          connections, \* the list, under connectionsMutex
          record,      \* xcb_connection_t, by address
          gcs,         \* gcEntries: the opening that a record's GCs belong to
          step,        \* what each thread does next, and on which record
          sleepers,    \* the threads in pthread_cond_wait
          called,      \* calls made
          last,        \* nextSequence - 1, by record
          pending,     \* pendingBuckets, by record: key -> the request answered
          cookies      \* cookies the client has yet to use: their kind, the
                       \* connection they are on and the request they are of

displayVars == <<open, openings, queued>>
listVars == <<handles, connections>>
fixed == <<session, displayVars>>
answerVars == <<last, pending, cookies>>
xcbVars == <<fixed, listVars, record, gcs, step,
             sleepers, called, answerVars>>

Freed == [live |-> FALSE, display |-> FALSE, ownsDisplay |-> FALSE,
          closing |-> FALSE, eventUsers |-> 0, closeCallbacks |-> 0, errors |-> 0]
Wrapper(owns) == [Freed EXCEPT !.live = TRUE, !.display = TRUE, !.ownsDisplay = owns]
AtRest == [at |-> "idle", on |-> NoRecord]

XcbInit ==
  /\ session \in Sessions
  /\ open = FALSE /\ openings = 0 /\ queued = 0
  /\ handles = {} /\ connections = {} /\ record = [c \in Records |-> Freed]
  /\ gcs = [c \in Records |-> 0]
  /\ step = [u \in Users |-> AtRest] /\ sleepers = {} /\ called = 0
  /\ last = [c \in Records |-> 0] /\ pending = [c \in Records |-> <<>>]
  /\ cookies = {}

-----------------------------------------------------------------------------
Doing(u, label) == step[u].at = label
Using(u) == step[u].on
Continues(u, label) == step' = [step EXCEPT ![u].at = label]
CallEnds(u) == step' = [step EXCEPT ![u] = AtRest]

Calling(u, call) ==
  /\ Doing(u, "idle") /\ call \in session.does
  /\ called < session.calls /\ called' = called + 1

(* connectionForDisplayLocked.                                              *)
connectionForDisplay == {c \in connections : record[c].display}
RequestReady(c) == record[c].display /\ ~record[c].closing

(* pthread_cond_broadcast.                                                  *)
WakesOne(c) ==
  LET there == {u \in sleepers : Using(u) = c}
  IN  IF there = {} THEN sleepers ELSE sleepers \ {CHOOSE u \in there : TRUE}
StillAsleep(c) == {u \in sleepers : Using(u) # c}
Broadcast(c) == sleepers' = StillAsleep(c)

(* What any client of Xlib owes: it makes no request on a display and binds *)
(* nothing to it while it is being closed, or disconnected from.  It may be *)
(* waiting for an event.                                                    *)
TakingEvent == {"idle", "queued", "next", "woken", "leave"}
Closing == {u \in Users : step[u].at \notin TakingEvent \union {"setup"}}
Undisturbed == Closing = {}
BindingNone == \A u \in Users : ~Doing(u, "setup")

(* Every request takes the next number of its connection.  A client uses    *)
(* each cookie before the numbers of a connection repeat.                   *)
xcbCompatNextSequence(c) ==
  /\ \A cookie \in cookies : cookie.on = c => cookie.of + Narrow > last[c] + 1
  /\ last' = [last EXCEPT ![c] = @ + 1]

(* A new record has made no request, and has no answers.                    *)
allocConnection(c, owns) ==
  /\ record' = [record EXCEPT ![c] = Wrapper(owns)]
  /\ last' = [last EXCEPT ![c] = 0] /\ pending' = [pending EXCEPT ![c] = <<>>]
  /\ UNCHANGED cookies
(* The answers that wait on it; its errors go with the record's fields.     *)
drainPendingLocked(c) == pending' = [pending EXCEPT ![c] = <<>>]

-----------------------------------------------------------------------------
(* XOpenDisplay, by the client or by xcb_connect, whose record nobody else   *)
(* can look up before it returns.                                           *)
Opens ==
  /\ ~open /\ Undisturbed /\ openings < session.opens
  /\ open' = TRUE /\ openings' = openings + 1 /\ queued' = 0
FreeRecords == {c \in Records : ~record[c].live}

OpenDisplay ==
  /\ ~session.owned /\ Opens
  /\ UNCHANGED <<session, listVars, record, gcs, step, sleepers, called,
                 answerVars>>
Connect ==
  /\ session.owned /\ Opens
  /\ \E c \in FreeRecords :
       /\ allocConnection(c, TRUE)
       /\ connections' = connections \union {c}
       /\ handles' = handles \union {c}
  /\ UNCHANGED <<session, gcs, step, sleepers, called>>

(* xcbCompatConnectionForDisplay, which builds a record with nothing held   *)
(* and then looks again.                                                    *)
Bind(u) ==
  /\ Doing(u, "idle") /\ ~session.owned /\ open /\ Undisturbed
  /\ \/ /\ connectionForDisplay # {} /\ ~(connectionForDisplay \subseteq handles)
        /\ handles' = handles \union connectionForDisplay
        /\ UNCHANGED <<record, step, answerVars>>
     \/ /\ connectionForDisplay = {}
        /\ \E c \in FreeRecords :
             /\ allocConnection(c, FALSE)
             /\ step' = [step EXCEPT ![u] = [at |-> "setup", on |-> c]]
        /\ UNCHANGED handles
  /\ UNCHANGED <<fixed, connections, gcs, sleepers, called>>

registerConnectionForDisplay(u) ==
  /\ Doing(u, "setup") /\ CallEnds(u)
  /\ IF connectionForDisplay = {}
     THEN /\ connections' = connections \union {Using(u)}
          /\ handles' = handles \union {Using(u)}
          /\ UNCHANGED record
     ELSE /\ handles' = handles \union connectionForDisplay
          /\ record' = [record EXCEPT ![Using(u)] = Freed]
          /\ UNCHANGED connections
  /\ UNCHANGED <<fixed, gcs, sleepers, called, answerVars>>

-----------------------------------------------------------------------------
(* takeEvent, which xcb_poll_for_event, _queued_event and wait_for_event     *)
(* call.  A refused call changes nothing and is left out.                   *)
TakeQueuedError(u, c) ==
  /\ \E call \in {"take", "poll"} : Calling(u, call)
  /\ record[c].errors > 0
  /\ record' = [record EXCEPT ![c].errors = @ - 1]
  /\ UNCHANGED <<fixed, listVars, gcs, step, sleepers, answerVars>>
BeginTake(u, c) ==
  /\ record[c].errors = 0 /\ RequestReady(c)
  /\ \E call \in {"take", "poll"} :
       /\ Calling(u, call)
       /\ step' = [step EXCEPT ![u] =
                    [at |-> IF call = "poll" THEN "queued" ELSE "next", on |-> c]]
  /\ record' = [record EXCEPT ![c].eventUsers = @ + 1]
  /\ UNCHANGED <<fixed, listVars, gcs, sleepers, answerVars>>

(* XEventsQueued, then XNextEvent, which returns an event of type 0 when     *)
(* eventWaitCancelled says so; else it looks again.                         *)
EventsQueued(u) ==
  /\ Doing(u, "queued") /\ Continues(u, IF queued > 0 THEN "next" ELSE "leave")
  /\ UNCHANGED <<fixed, listVars, record, gcs, sleepers, called, answerVars>>
eventWaitCancelled ==
  \E c \in connectionForDisplay : record[c].closing \/ record[c].errors > 0
NextEvent(u) ==
  /\ Doing(u, "next")
  /\ IF eventWaitCancelled
     THEN Continues(u, "woken") /\ UNCHANGED queued
     ELSE queued > 0 /\ queued' = queued - 1 /\ Continues(u, "leave")
  /\ UNCHANGED <<session, open, openings, listVars, record, gcs, sleepers,
                 called, answerVars>>
Woken(u) ==
  /\ Doing(u, "woken")
  /\ LET c == Using(u) IN
     \/ /\ record[c].closing /\ Continues(u, "leave") /\ UNCHANGED record
     \/ /\ ~record[c].closing /\ record[c].errors > 0 /\ Continues(u, "leave")
        /\ record' = [record EXCEPT ![c].errors = @ - 1]
     \/ /\ ~record[c].closing /\ record[c].errors = 0 /\ Continues(u, "next")
        /\ UNCHANGED record
  /\ UNCHANGED <<fixed, listVars, gcs, sleepers, called, answerVars>>
LeaveTake(u) ==
  /\ Doing(u, "leave") /\ CallEnds(u)
  /\ record' = [record EXCEPT ![Using(u)].eventUsers = @ - 1]
  /\ Broadcast(Using(u))
  /\ UNCHANGED <<fixed, listVars, gcs, called, answerVars>>

(* An X event is queued on the display.                                     *)
EventArrives ==
  /\ open /\ queued < session.events /\ queued' = queued + 1
  /\ UNCHANGED <<session, open, openings, listVars, record, gcs, step, sleepers,
                 called, answerVars>>

(* An unchecked request that fails (xcbCompatStoreProtocolError), and        *)
(* xcb_create_gc.                                                           *)
FailingRequest(u, c) ==
  /\ Calling(u, "fail") /\ Undisturbed /\ RequestReady(c)
  /\ xcbCompatNextSequence(c)
  /\ record' = [record EXCEPT ![c].errors = @ + 1] /\ Broadcast(c)
  /\ UNCHANGED <<fixed, listVars, gcs, step, pending, cookies>>
CreateGc(u, c) ==
  /\ Calling(u, "gc") /\ Undisturbed /\ RequestReady(c)
  /\ xcbCompatNextSequence(c)
  /\ gcs' = [gcs EXCEPT ![c] = openings]
  /\ UNCHANGED <<fixed, listVars, record, step, sleepers, pending, cookies>>

-----------------------------------------------------------------------------
(* Closing a display and disconnecting refuse what comes, wait for the      *)
(* event users there are, and take the GCs away.  A thread that finds the   *)
(* condition false sleeps, and looks again when it is woken.                *)
Sleeps(u, label) == Continues(u, label) /\ sleepers' = sleepers \union {u}
Awake(u) == u \notin sleepers
Refuses(c) == [record EXCEPT ![c].closing = TRUE]
ReleasesGcs(c) == gcs' = [gcs EXCEPT ![c] = 0]
Disconnecting == {"awaitLast", "unlist", "awaitCallbacks", "release",
                  "releaseOwned", "closeOwned", "free"}

(* XCloseDisplay calls displayClosed before it takes anything down.         *)
CloseDisplay(u) ==
  /\ Calling(u, "close") /\ ~session.owned /\ open /\ BindingNone
  /\ \A v \in Closing : session.together /\ step[v].at \in Disconnecting
  /\ \/ /\ connectionForDisplay = {} /\ Continues(u, "teardown") /\ UNCHANGED record
     \/ \E c \in connectionForDisplay :
          /\ record' = [record EXCEPT ![c].closeCallbacks = @ + 1]
          /\ step' = [step EXCEPT ![u] = [at |-> "closing", on |-> c]]
  /\ UNCHANGED <<fixed, listVars, gcs, sleepers, answerVars>>

(* The record stays in the list and in the client's hands, in error, but     *)
(* what it still held is freed.                                             *)
displayClosed(u, noted) ==
  LET c == Using(u) IN
  /\ IF noted[c].eventUsers > 0
     THEN record' = noted /\ Sleeps(u, "awaitUsers") /\ UNCHANGED pending
     ELSE /\ record' = [noted EXCEPT ![c].display = FALSE, ![c].ownsDisplay = FALSE,
                                     ![c].errors = 0]
          /\ drainPendingLocked(c)
          /\ Continues(u, "closed") /\ UNCHANGED sleepers
  /\ UNCHANGED <<fixed, listVars, gcs, called, last, cookies>>
BeginClosed(u) == Doing(u, "closing") /\ displayClosed(u, Refuses(Using(u)))
AwaitUsers(u) == Doing(u, "awaitUsers") /\ Awake(u) /\ displayClosed(u, record)
ReleaseClosed(u) ==
  /\ Doing(u, "closed") /\ ReleasesGcs(Using(u)) /\ Continues(u, "endClosed")
  /\ UNCHANGED <<fixed, listVars, record, sleepers, called, answerVars>>
EndClosed(u) ==
  /\ Doing(u, "endClosed")
  /\ record' = [record EXCEPT ![Using(u)].closeCallbacks = @ - 1] /\ Broadcast(Using(u))
  /\ step' = [step EXCEPT ![u] = [at |-> "teardown", on |-> NoRecord]]
  /\ UNCHANGED <<fixed, listVars, gcs, called, answerVars>>
Teardown(u) ==
  /\ Doing(u, "teardown") /\ CallEnds(u) /\ open' = FALSE /\ queued' = 0
  /\ UNCHANGED <<session, openings, listVars, record, gcs, sleepers, called,
                 answerVars>>

-----------------------------------------------------------------------------
(* xcb_disconnect.  With the connection the client gives up its cookies.     *)
Disconnect(u, c) ==
  /\ Calling(u, "disconnect") /\ BindingNone
  /\ Closing # {} => session.together
  /\ handles' = handles \ {c} /\ record' = Refuses(c)
  /\ cookies' = {cookie \in cookies : cookie.on # c}
  /\ IF record[c].eventUsers > 0
     THEN /\ step' = [step EXCEPT ![u] = [at |-> "awaitLast", on |-> c]]
          /\ sleepers' = sleepers \union {u}
     ELSE /\ step' = [step EXCEPT ![u] = [at |-> "unlist", on |-> c]]
          /\ UNCHANGED sleepers
  /\ UNCHANGED <<fixed, connections, gcs, last, pending>>
AwaitLast(u) ==
  /\ Doing(u, "awaitLast") /\ Awake(u)
  /\ IF record[Using(u)].eventUsers > 0
     THEN Sleeps(u, "awaitLast") ELSE Continues(u, "unlist") /\ UNCHANGED sleepers
  /\ UNCHANGED <<fixed, listVars, record, gcs, called, answerVars>>
unregisterConnection(u) ==
  /\ Doing(u, "unlist") /\ Continues(u, "awaitCallbacks")
  /\ connections' = connections \ {Using(u)}
  /\ UNCHANGED <<fixed, handles, record, gcs, sleepers, called, answerVars>>
doesNotWait(c) == TRUE
callbacksDone(c) == record[c].closeCallbacks = 0
AwaitCallbacks(u) ==
  /\ Doing(u, "awaitCallbacks") /\ Awake(u)
  /\ LET c == Using(u) IN
     IF ~callbacksDone(c)
     THEN Sleeps(u, "awaitCallbacks") /\ UNCHANGED record
     ELSE /\ record' = [record EXCEPT ![c].display = FALSE, ![c].ownsDisplay = FALSE]
          /\ Continues(u, IF record[c].ownsDisplay THEN "releaseOwned" ELSE "release")
          /\ UNCHANGED sleepers
  /\ UNCHANGED <<fixed, listVars, gcs, called, answerVars>>
ReleaseResources(u) ==
  /\ \/ Doing(u, "release") /\ Continues(u, "free")
     \/ Doing(u, "releaseOwned") /\ Continues(u, "closeOwned")
  /\ ReleasesGcs(Using(u))
  /\ UNCHANGED <<fixed, listVars, record, sleepers, called, answerVars>>
CloseOwned(u) ==
  /\ Doing(u, "closeOwned") /\ Continues(u, "free") /\ open' = FALSE /\ queued' = 0
  /\ UNCHANGED <<session, openings, listVars, record, gcs, sleepers, called,
                 answerVars>>
FreeConnection(u) ==
  /\ Doing(u, "free") /\ CallEnds(u) /\ record' = [record EXCEPT ![Using(u)] = Freed]
  /\ drainPendingLocked(Using(u))
  /\ UNCHANGED <<fixed, listVars, gcs, sleepers, called, last, cookies>>

-----------------------------------------------------------------------------
(* Cookies.  A checked request leaves its answer under its number, a request *)
(* with a reply leaves it under as much of the number as the cookie has; and *)
(* the call that takes or discards it has only the cookie.  It looks in the  *)
(* table also when the connection is in error.                              *)
Low(s) == s % Narrow
widenSequence(c, s) ==
  LET widened == (last[c] - Low(last[c])) + s
  IN  IF widened > last[c] /\ widened >= Narrow THEN widened - Narrow ELSE widened

KeyOf(kind, s) == IF kind = "checked" THEN s ELSE Low(s)
TakenAt(cookie) ==
  IF cookie.kind = "checked" THEN widenSequence(cookie.on, Low(cookie.of))
  ELSE Low(cookie.of)

(* findPending, and what xcbCompatStorePending makes of a table.            *)
Stored(table, key, s) ==
  [k \in DOMAIN table \union {key} |-> IF k = key THEN s ELSE table[k]]
Dropped(table, key) == Restrict(table, DOMAIN table \ {key})

StoreAnswer(u, c) ==
  \E kind \in {"checked", "replying"} :
    /\ Calling(u, kind) /\ Undisturbed /\ RequestReady(c)
    /\ xcbCompatNextSequence(c)
    /\ pending' = [pending EXCEPT ![c] = Stored(@, KeyOf(kind, last'[c]), last'[c])]
    /\ cookies' = cookies \union {[kind |-> kind, on |-> c, of |-> last'[c]]}
    /\ UNCHANGED <<fixed, listVars, record, gcs, step, sleepers>>

TakeAnswer(u, cookie) ==
  /\ Doing(u, "idle")
  /\ cookies' = cookies \ {cookie}
  /\ pending' = [pending EXCEPT ![cookie.on] = Dropped(@, TakenAt(cookie))]
  /\ UNCHANGED <<fixed, listVars, record, gcs, step, sleepers, called, last>>
(* xcb_discard_reply.                                                       *)
DiscardAnswer(u, cookie) ==
  /\ Doing(u, "idle")
  /\ cookies' = cookies \ {cookie}
  /\ pending' = [pending EXCEPT ![cookie.on] =
                   Dropped(@, widenSequence(cookie.on, Low(cookie.of)))]
  /\ UNCHANGED <<fixed, listVars, record, gcs, step, sleepers, called, last>>

XcbNext ==
  \/ OpenDisplay \/ Connect \/ EventArrives
  \/ \E u \in Users :
       \/ Bind(u) \/ registerConnectionForDisplay(u)
       \/ EventsQueued(u) \/ NextEvent(u) \/ Woken(u) \/ LeaveTake(u)
       \/ CloseDisplay(u) \/ BeginClosed(u) \/ AwaitUsers(u) \/ ReleaseClosed(u)
       \/ EndClosed(u) \/ Teardown(u)
       \/ AwaitLast(u) \/ unregisterConnection(u) \/ AwaitCallbacks(u)
       \/ ReleaseResources(u) \/ CloseOwned(u) \/ FreeConnection(u)
       \/ \E c \in handles :
            \/ TakeQueuedError(u, c) \/ BeginTake(u, c) \/ FailingRequest(u, c)
            \/ CreateGc(u, c) \/ Disconnect(u, c) \/ StoreAnswer(u, c)
       \/ \E cookie \in cookies : TakeAnswer(u, cookie) \/ DiscardAnswer(u, cookie)

XcbSpec == XcbInit /\ [][XcbNext]_xcbVars

-----------------------------------------------------------------------------
XcbTypeOK ==
  /\ \A c \in Records : /\ record[c].eventUsers \in 0..Cardinality(Users)
                        /\ record[c].closeCallbacks \in 0..Cardinality(Users)
  /\ handles \union connections \subseteq Records

(* Nobody is on a record that was freed, and the display stays open under a  *)
(* thread that waits for its events.                                        *)
NobodyOnFreed ==
  /\ \A u \in Users : Using(u) = NoRecord \/ record[Using(u)].live
  /\ \A c \in handles \union connections : record[c].live
  /\ \A u \in Users : step[u].at \in {"queued", "next"} => open

(* A display has one wrapper, and an open one never has that of an earlier   *)
(* display at its address (xcb-compat.c:181).                               *)
OneWrapper ==
  /\ Cardinality(connectionForDisplay) <= 1
  /\ \A c \in connectionForDisplay :
       record[c].closing => \E u \in Closing : Using(u) = c

(* A client that closes the display and disconnects one after the other has  *)
(* its GCs freed while their display is there.                              *)
GcsOnOpenDisplay ==
  \A c \in Records :
    gcs[c] # 0 /\ ~session.together => open /\ gcs[c] = openings

(* Until its display is closed each cookie finds the answer of its own       *)
(* request; afterwards none finds any, though the client may still ask.     *)
AnswersFound ==
  \A cookie \in cookies :
    LET found == pending[cookie.on] IN
    IF record[cookie.on].display
    THEN TakenAt(cookie) \in DOMAIN found /\ found[TakenAt(cookie)] = cookie.of
    ELSE TakenAt(cookie) \notin DOMAIN found

WrapperIsSound ==
  XcbTypeOK /\ NobodyOnFreed /\ OneWrapper /\ GcsOnOpenDisplay /\ AnswersFound

(* Who closes or disconnects returns: a thread only sleeps while what it     *)
(* waits for has still to happen, and whoever that is, if in XNextEvent,     *)
(* is found by it (eventWaitCancelled) and told to leave.                   *)
ClosersReturn ==
  \A u \in Users :
    /\ ~Awake(u) => IF Doing(u, "awaitCallbacks") THEN record[Using(u)].closeCallbacks > 0
                    ELSE record[Using(u)].eventUsers > 0
    /\ step[u].at \in {"queued", "next"} => Using(u) \in connectionForDisplay
=============================================================================
