------------------------------ MODULE TypedText ------------------------------
(***************************************************************************)
(* What becomes of a stroke (src/src/events.c, src/src/input-method.c).     *)
(* SDL reports a printable key twice, as a SDL_KEYDOWN and, while text input *)
(* is on, as a SDL_TEXTINPUT.  The library gives the client one of them and *)
(* suppresses the other, by the character: in pendingAsciiRing those whose  *)
(* raw key it has delivered, in committedAscii the last one it delivered as  *)
(* a text.  A text waits in a table of commits until the client looks up    *)
(* the KeyPress that stands for it.                                         *)
(***************************************************************************)
EXTENDS Naturals, FiniteSets, Sequences

CONSTANTS Characters,
          NoChar,      \* committedAscii = 0
          Typists,     \* what to explore, each of them a record:
                       \*  focused  does a context have the focus at first?
                       \*  kinds    the strokes that are typed
                       \*  strokes  bound: how many of them
                       \*  ahead    bound: keys whose text is still to come
                       \*  moves    bound: changes of the focus
                       \*  settled  do those wait until all is delivered?
          RingSlots,   \* of pendingAsciiRing, one of which stays free
          MaxPending   \* MAX_PENDING_COMMITS

VARIABLES typist,    \* one of Typists, never changed
          wire,      \* SDL's queue, as far as the keyboard goes
          owed,      \* the texts that the host has still to send
          sendsText, \* is SDL's text input on?
          hasFocus,  \* inputMethodHasActiveTextInput
          pendingAscii, committedAscii,
          commits, nextCommitId, \* pendingCommits
          inFlight,  \* the KeyPresses of texts that the client has not read
          misread, \* the strokes whose lookup returned another text
          arrivals,  \* of each stroke: the KeyPresses that told of it
          ignored,   \* the commits whose KeyPress the client threw away
          resetAt,   \* the last commit before the last inputMethodReset
          pressed, moves

hostVars == <<wire, owed, sendsText>>
dedupVars == <<pendingAscii, committedAscii>>
commitVars == <<commits, nextCommitId, inFlight, misread, ignored, resetAt>>
typedTextVars == <<typist, hostVars, hasFocus, dedupVars, commitVars, arrivals,
                   pressed, moves>>

(* key: a printable ASCII key.  keypad: a key whose SDL keycode is no ASCII  *)
(* character.  composed: the end of a composition, without a key.  late: a  *)
(* key that a host input method reports after its text.                     *)
Strokes == {"key", "keypad", "composed", "late"}
ASSUME TypistsAssumption ==
  /\ Typists \subseteq [focused : BOOLEAN, kinds : SUBSET Strokes, strokes : Nat,
                        ahead : Nat, moves : Nat, settled : BOOLEAN]
  /\ RingSlots \in Nat \ {0} /\ MaxPending \in Nat \ {0}

Event(type, char) == [type |-> type, char |-> char, stroke |-> pressed + 1]

TypedTextInit ==
  /\ typist \in Typists
  /\ wire = <<>> /\ owed = <<>> /\ sendsText = TRUE
  /\ hasFocus = typist.focused
  /\ pendingAscii = <<>> /\ committedAscii = NoChar
  /\ commits = <<>> /\ nextCommitId = 1
  /\ inFlight = {} /\ misread = {} /\ ignored = {} /\ resetAt = 0
  /\ arrivals = [s \in 1..typist.strokes |-> 0]
  /\ pressed = 0 /\ moves = 0

-----------------------------------------------------------------------------
(* The host.                                                                *)
Press(kind, c) ==
  /\ kind \in typist.kinds /\ pressed < typist.strokes
  /\ pressed' = pressed + 1
  /\ LET key == IF kind = "composed" THEN <<>> ELSE <<Event(kind, c)>>
         text == IF sendsText THEN <<Event("text", c)>> ELSE <<>>
         edit == IF kind = "composed" /\ sendsText
                 THEN <<Event("edit", c)>> ELSE <<>>
     IN IF kind = "late"
        THEN owed = <<>> /\ wire' = wire \o text \o key /\ UNCHANGED owed
        ELSE /\ Len(owed) < typist.ahead
             /\ wire' = wire \o key \o edit /\ owed' = owed \o text
  /\ UNCHANGED <<typist, sendsText, hasFocus, dedupVars, commitVars, arrivals, moves>>

SendText ==
  /\ owed # <<>> /\ owed' = Tail(owed)
  /\ wire' = IF sendsText THEN Append(wire, Head(owed)) ELSE wire
  /\ UNCHANGED <<typist, sendsText, hasFocus, dedupVars, commitVars, arrivals,
                 pressed, moves>>

-----------------------------------------------------------------------------
(* The duplicates, and the table.                                           *)
clearPendingAsciiRing == pendingAscii' = <<>>
tooFew(c) ==
  pendingAscii' = IF Len(pendingAscii) + 2 < RingSlots
                  THEN Append(pendingAscii, c) ELSE pendingAscii
pushPendingAsciiChar(c) ==
  pendingAscii' = IF Len(pendingAscii) + 1 < RingSlots
                  THEN Append(pendingAscii, c) ELSE pendingAscii

(* Matches or not, the character that was committed is forgotten.           *)
matchesCommitted(c) == committedAscii = c
forgetCommitted == committedAscii' = NoChar
matchesPending(c) == pendingAscii # <<>> /\ Head(pendingAscii) = c

dropOldestCommit(table) == Tail(table)
inputMethodSetCurrentText(s) ==
  LET table == Append(commits, [id |-> nextCommitId, text |-> s])
  IN /\ commits' = IF Len(table) > MaxPending THEN dropOldestCommit(table) ELSE table
     /\ inFlight' = inFlight \union {[id |-> nextCommitId, stroke |-> s]}
     /\ nextCommitId' = nextCommitId + 1
     /\ UNCHANGED <<misread, ignored, resetAt>>

-----------------------------------------------------------------------------
(* convertEvent.                                                            *)
Converts(type) ==
  /\ wire # <<>> /\ Head(wire).type = type
  /\ wire' = Tail(wire)
  /\ UNCHANGED <<typist, owed, sendsText, hasFocus, pressed, moves>>
Char == Head(wire).char
Arrives == arrivals' = [arrivals EXCEPT ![Head(wire).stroke] = @ + 1]

(* shouldSuppressIMTextKeydown of a printable ASCII key.                    *)
ConvertKey ==
  /\ Converts("key") \/ Converts("late")
  /\ forgetCommitted
  /\ IF matchesCommitted(Char) THEN UNCHANGED <<pendingAscii, arrivals>>
     ELSE /\ Arrives
          /\ IF hasFocus THEN pushPendingAsciiChar(Char) ELSE UNCHANGED pendingAscii
  /\ UNCHANGED commitVars

(* And of one that has no ASCII character: no match is tried.               *)
ConvertKeypad ==
  /\ Converts("keypad")
  /\ IF hasFocus THEN UNCHANGED arrivals ELSE Arrives
  /\ UNCHANGED <<dedupVars, commitVars>>

(* SDL_TEXTEDITING: clearAsciiDedupRings.                                   *)
ConvertEdit ==
  /\ Converts("edit")
  /\ clearPendingAsciiRing /\ forgetCommitted
  /\ UNCHANGED <<commitVars, arrivals>>

convertTextInputEvent ==
  /\ Converts("text")
  /\ IF ~hasFocus THEN UNCHANGED <<dedupVars, commitVars, arrivals>>
     ELSE IF matchesPending(Char)
     THEN /\ pendingAscii' = Tail(pendingAscii)
          /\ UNCHANGED <<committedAscii, commitVars, arrivals>>
     ELSE /\ clearPendingAsciiRing /\ committedAscii' = Char
          /\ Arrives /\ inputMethodSetCurrentText(Head(wire).stroke)

-----------------------------------------------------------------------------
(* The client.                                                              *)
Client == UNCHANGED <<typist, hostVars, hasFocus, dedupVars, arrivals, pressed, moves>>
inputMethodPendingText(id) == {c \in {commits[i] : i \in DOMAIN commits} : c.id = id}
isAt(id, i) == commits[i].id = id /\ \A j \in 1..(i - 1) : commits[j].id # id
inputMethodConsumePendingText(id) ==
  \/ \E i \in DOMAIN commits :
       /\ isAt(id, i)
       /\ commits' = SubSeq(commits, 1, i - 1) \o SubSeq(commits, i + 1, Len(commits))
  \/ (\A i \in DOMAIN commits : commits[i].id # id) /\ UNCHANGED commits
keepsForRetry(id) == UNCHANGED commits

(* A lookup.  One whose buffer is too small may be tried again.             *)
Xutf8LookupString(k, fits) ==
  /\ IF fits
     THEN /\ inFlight' = inFlight \ {k}
          /\ misread' = misread \union
               {k.stroke : c \in {d \in inputMethodPendingText(k.id) : d.text # k.stroke}}
          /\ inputMethodConsumePendingText(k.id)
     ELSE keepsForRetry(k.id) /\ UNCHANGED <<inFlight, misread>>
  /\ UNCHANGED <<nextCommitId, ignored, resetAt>> /\ Client

ThrowAway(k) ==
  /\ inFlight' = inFlight \ {k} /\ ignored' = ignored \union {k.id}
  /\ UNCHANGED <<commits, nextCommitId, misread, resetAt>> /\ Client

(* The window of the KeyPress is destroyed before the client takes it.      *)
leavesText(id) == UNCHANGED commits
releasesText(id) == inputMethodConsumePendingText(id)
releaseDiscardedImCommit(k) ==
  /\ inFlight' = inFlight \ {k}
  /\ releasesText(k.id)
  /\ UNCHANGED <<nextCommitId, misread, ignored, resetAt>> /\ Client

Delivered == wire = <<>> /\ owed = <<>>
MovesFocus ==
  /\ moves < typist.moves /\ moves' = moves + 1
  /\ typist.settled => Delivered
  /\ UNCHANGED <<typist, owed, dedupVars, arrivals, pressed>>
(* SDL 2 also flushes the texts in its queue; what stays keeps its order.   *)
SDL_StopTextInput ==
  \/ UNCHANGED wire
  \/ LET stays == {i \in DOMAIN wire : wire[i].type \notin {"text", "edit"}}
     IN \E from \in [1..Cardinality(stays) -> stays] :
          /\ \A i, j \in DOMAIN from : i < j => from[i] < from[j]
          /\ wire' = [i \in DOMAIN from |-> wire[from[i]]]

FocusTaken ==
  /\ MovesFocus /\ ~hasFocus
  /\ hasFocus' = TRUE /\ sendsText' = TRUE
  /\ UNCHANGED <<wire, commitVars>>

FocusDropped ==
  /\ MovesFocus /\ hasFocus
  /\ hasFocus' = FALSE /\ sendsText' = FALSE /\ SDL_StopTextInput
  /\ UNCHANGED commitVars

(* XCloseIM: the table goes, too.                                           *)
inputMethodReset ==
  /\ MovesFocus
  /\ IF hasFocus THEN sendsText' = FALSE /\ SDL_StopTextInput
     ELSE UNCHANGED <<sendsText, wire>>
  /\ hasFocus' = FALSE
  /\ commits' = <<>> /\ resetAt' = nextCommitId - 1
  /\ UNCHANGED <<nextCommitId, inFlight, misread, ignored>>

(* XSelectInput for keys, and the first mapping of such a window.           *)
XSelectInput ==
  /\ MovesFocus /\ ~hasFocus /\ sendsText
  /\ sendsText' = FALSE /\ SDL_StopTextInput
  /\ UNCHANGED <<hasFocus, commitVars>>

(* XSetICValues of the client window: text input stops and starts again.    *)
XSetICValues ==
  /\ MovesFocus /\ hasFocus /\ SDL_StopTextInput
  /\ UNCHANGED <<sendsText, hasFocus, commitVars>>

TypedTextNext ==
  \/ \E kind \in Strokes, c \in Characters : Press(kind, c)
  \/ SendText
  \/ ConvertKey \/ ConvertKeypad \/ ConvertEdit \/ convertTextInputEvent
  \/ \E k \in inFlight :
       \/ \E fits \in BOOLEAN : Xutf8LookupString(k, fits)
       \/ ThrowAway(k) \/ releaseDiscardedImCommit(k)
  \/ FocusTaken \/ FocusDropped \/ inputMethodReset \/ XSelectInput \/ XSetICValues

-----------------------------------------------------------------------------
(* Types.                                                                   *)
TypedTextTypeOK ==
  /\ committedAscii \in Characters \union {NoChar}
  /\ Len(pendingAscii) < RingSlots /\ Len(commits) <= MaxPending

(* While the focus stays where it is, the client gets one KeyPress for each *)
(* stroke, whichever of its two events came first.                          *)
StrokesArriveOnce ==
  typist.moves = 0 =>
    \A s \in 1..pressed : arrivals[s] <= 1 /\ (Delivered => arrivals[s] = 1)

(* A lookup returns the text of its own KeyPress, in whatever order they are *)
(* looked up, and after a try with a buffer that was too small; it returns  *)
(* none only when MaxPending younger texts have come since or the input     *)
(* method was closed.  And no text stays but for a KeyPress that is on its   *)
(* way or that the client threw away.                                       *)
CommitsAreKept ==
  LET held == {commits[i].id : i \in DOMAIN commits}
      coming == {k.id : k \in inFlight}
  IN /\ TypedTextTypeOK
     /\ misread = {}
     /\ \A id \in coming : id > resetAt /\ id + MaxPending >= nextCommitId => id \in held
     /\ held \subseteq coming \union ignored

(* "With no focused IC the raw keydown is delivered and looked up directly" *)
(* (xtest.c:259).                                                           *)
RawKeysArrive ==
  typist.settled /\ ~hasFocus /\ Delivered => \A s \in 1..pressed : arrivals[s] > 0
==============================================================================
