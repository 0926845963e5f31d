----------------------------- MODULE Clipboard -----------------------------
(***************************************************************************)
(* The CLIPBOARD selection and its mirror on the host (src/src/selection.c). *)
(* Whoever claims the selection is asked for its text by a hidden window of *)
(* the library, the requestor, with the same events that a client would    *)
(* send; the answer, at once or piece by piece (INCR), is written to the    *)
(* host's clipboard.  The host tells of every change of its clipboard, the *)
(* library's own included, and a change by another program revokes the     *)
(* owner.  One event loop converts SDL's queue and runs the clients'        *)
(* handlers, in the order of their events.                                  *)
(***************************************************************************)
EXTENDS Naturals, FiniteSets, Sequences, SequencesExt

CONSTANTS Owners,         \* windows of clients that claim CLIPBOARD
          NoOwner,        \* None
          Scenarios,      \* how each owner answers, and bounds: the claims and
                          \* the copies by other host programs
          Pool,           \* CLIPBOARD_FETCH_PROP_POOL
          OwnersTimeOut   \* an owner abandons a transfer nobody reads

ASSUME ClipboardAssumption ==
  /\ IsFiniteSet(Owners) /\ NoOwner \notin Owners
  /\ Scenarios \subseteq
       [style : [Owners -> {"text", "legacy", "incr", "image", "decline", "silent"}],
        claims : Nat, copies : Nat]
  /\ Pool \in Nat \ {0} /\ OwnersTimeOut \in BOOLEAN

VARIABLES scenario,      \* one of Scenarios, never changed
          owner,         \* of the CLIPBOARD entry
          clipboardFetchPending, fetchProperty, fetchTarget, fetchGen,
          incrActive, incrProperty, incrBuf,
          lastPushed, everPushed,
          store,         \* the properties of the requestor
          queue,         \* SDL's queue
          inbox,         \* events the clients have and have not yet handled
          transfer,      \* per owner, the INCR transfer it is sending
          content,       \* per owner, the last claim it made
          believes,      \* per owner, does it think it owns CLIPBOARD?
          hostText, news, \* the host's clipboard, and changes not yet told
          claims, copies,
          copiedAt,      \* the last claim when another program last copied
          skipped,       \* was an update skipped since the last claim?
          mirrored         \* the last text written, and what it had to be

fetchVars == <<clipboardFetchPending, fetchProperty, fetchTarget, fetchGen>>
incrVars == <<incrActive, incrProperty, incrBuf>>
markVars == <<lastPushed, everPushed>>
clientVars == <<inbox, transfer, content, believes>>
hostClipboardVars == <<hostText, news, copies, copiedAt>>
clipboardVars == <<scenario, owner, fetchVars, incrVars, markVars, store, queue,
                   clientVars, hostClipboardVars, claims, skipped, mirrored>>

NoSlot == Pool
Slots == 0..Pool - 1
NoTransfer == [slot |-> NoSlot, left |-> <<>>]

(* A text is the sequence of its pieces; each claim brings another one.     *)
Whole(c) == <<[claim |-> c, piece |-> "head"], [claim |-> c, piece |-> "tail"]>>
Unowned == Whole(0)
NoText == <<[claim |-> 0, piece |-> "none"]>>

Nothing == [type |-> "nothing", data |-> <<>>]
TextOf(data) == [type |-> "text", data |-> data]
Hint == [type |-> "INCR", data |-> <<>>]
Image == [type |-> "image", data |-> <<>>]

SelectionRequest(w, target, slot) ==
  [type |-> "SelectionRequest", at |-> w, target |-> target, property |-> slot]
SelectionNotify(target, slot) ==
  [type |-> "SelectionNotify", target |-> target, property |-> slot]
PropertyNotify(slot, state) ==
  [type |-> "PropertyNotify", property |-> slot, state |-> state]
SelectionClear(w) == [type |-> "SelectionClear", at |-> w]
Update == [type |-> "SDL_CLIPBOARDUPDATE"]

style == scenario.style

ClipboardInit ==
  /\ scenario \in Scenarios
  /\ owner = NoOwner
  /\ clipboardFetchPending = FALSE /\ fetchProperty = NoSlot
  /\ fetchTarget = "None" /\ fetchGen = 0
  /\ incrActive = FALSE /\ incrProperty = NoSlot /\ incrBuf = <<>>
  /\ lastPushed = NoText /\ everPushed = FALSE
  /\ store = [s \in Slots |-> Nothing]
  /\ queue = <<>> /\ inbox = <<>>
  /\ transfer = [w \in Owners |-> NoTransfer]
  /\ content = [w \in Owners |-> 0]
  /\ believes = [w \in Owners |-> FALSE]
  /\ hostText = Unowned /\ news = 0
  /\ claims = 0 /\ copies = 0 /\ copiedAt = 0
  /\ skipped = FALSE
  /\ mirrored = [text |-> NoText, wanted |-> NoText]

-----------------------------------------------------------------------------
(* The fetch, the reassembly and the write to the host.                     *)
clipboardResetIncr == incrActive' = FALSE /\ incrProperty' = NoSlot /\ incrBuf' = <<>>

EndFetch == clipboardFetchPending' = FALSE /\ fetchTarget' = "None"

Abandon ==
  /\ EndFetch /\ clipboardResetIncr
  /\ UNCHANGED <<fetchProperty, fetchGen>>

pushTextToSdlClipboard(data) ==
  /\ lastPushed' = data /\ everPushed' = TRUE
  /\ hostText' = data /\ news' = news + 1
  /\ mirrored' = [text |-> data,
                wanted |-> IF owner = NoOwner THEN NoText ELSE Whole(content[owner])]
  /\ UNCHANGED <<copies, copiedAt>>

NoPush == UNCHANGED <<markVars, hostClipboardVars, mirrored>>

(* XDeleteProperty on the requestor, whose mask selects the event.          *)
XDeleteProperty(slot, rest) ==
  /\ store' = [store EXCEPT ![slot] = Nothing]
  /\ queue' = IF store[slot] = Nothing THEN rest
              ELSE Append(rest, PropertyNotify(slot, "Delete"))

(* A fetch uses the next slot of the pool.  That fewer than Pool fetches    *)
(* are unanswered is what a comment in the code assumes.                    *)
Unanswered(slot) ==
  \E e \in Range(queue) \union Range(inbox) :
    e.type \in {"SelectionRequest", "SelectionNotify"} /\ e.property = slot

MayFetch ==
  /\ ~Unanswered(fetchGen)
  /\ OwnersTimeOut => \A w \in Owners : transfer[w].slot # fetchGen

startClipboardFetch(w, events) ==
  /\ fetchProperty' = fetchGen /\ fetchGen' = (fetchGen + 1) % Pool
  /\ fetchTarget' = "UTF8_STRING" /\ clipboardFetchPending' = TRUE
  /\ clipboardResetIncr
  /\ queue' = Append(events, SelectionRequest(w, "UTF8_STRING", fetchGen))

-----------------------------------------------------------------------------
(* XSetSelectionOwner.  A claim that comes too late by its timestamp        *)
(* changes nothing, so it is not a step.                                    *)
toldOfLoss(w) ==
  IF owner \in {NoOwner, w} THEN queue ELSE Append(queue, SelectionClear(owner))

XSetSelectionOwner(w) ==
  /\ claims < scenario.claims /\ MayFetch
  /\ claims' = claims + 1
  /\ owner' = w
  /\ content' = [content EXCEPT ![w] = claims + 1]
  /\ believes' = [believes EXCEPT ![w] = TRUE]
  /\ skipped' = FALSE
  /\ startClipboardFetch(w, toldOfLoss(w))
  /\ NoPush /\ UNCHANGED <<scenario, store, inbox, transfer>>

Disown ==
  /\ owner # NoOwner
  /\ owner' = NoOwner
  /\ queue' = toldOfLoss(NoOwner)
  /\ Abandon /\ NoPush
  /\ UNCHANGED <<scenario, store, clientVars, claims, skipped>>

-----------------------------------------------------------------------------
(* clipboardConsumeInternalEvent: what is for the requestor.                *)
ForRequestor(e) == e.type \in {"SelectionNotify", "PropertyNotify"}

anyReply(e) == TRUE
IsReply(e) == e.property = fetchProperty
noneIsStale(e) == FALSE
StaleDecline(e) == e.target # fetchTarget

(* A decline names no slot, so it may be another fetch's.                   *)
Declined(e, rest) ==
  /\ IF StaleDecline(e)
       THEN queue' = rest /\ UNCHANGED fetchVars
       ELSE IF fetchTarget = "UTF8_STRING" /\ owner # NoOwner
         THEN /\ fetchTarget' = "STRING"
              /\ queue' = Append(rest, SelectionRequest(owner, "STRING", fetchProperty))
              /\ UNCHANGED <<clipboardFetchPending, fetchProperty, fetchGen>>
         ELSE EndFetch /\ queue' = rest /\ UNCHANGED <<fetchProperty, fetchGen>>
  /\ NoPush /\ UNCHANGED <<incrVars, store>>

clipboardHandleFetchReply(slot, rest) ==
  /\ EndFetch /\ UNCHANGED <<fetchProperty, fetchGen>>
  /\ CASE store[slot].type = "nothing" ->
            NoPush /\ queue' = rest /\ UNCHANGED <<incrVars, store>>
       [] store[slot].type = "INCR" ->
            /\ incrActive' = TRUE /\ incrProperty' = slot /\ incrBuf' = <<>>
            /\ XDeleteProperty(slot, rest) /\ NoPush
       [] store[slot].type = "image" ->
            XDeleteProperty(slot, rest) /\ NoPush /\ UNCHANGED incrVars
       [] store[slot].type = "text" ->
            /\ pushTextToSdlClipboard(store[slot].data)
            /\ XDeleteProperty(slot, rest) /\ UNCHANGED incrVars

Notified(e, rest) ==
  CASE ~clipboardFetchPending -> NoPush /\ queue' = rest /\ UNCHANGED <<fetchVars, incrVars, store>>
    [] clipboardFetchPending /\ e.property = NoSlot -> Declined(e, rest)
    [] clipboardFetchPending /\ e.property # NoSlot /\ ~IsReply(e) ->
         NoPush /\ queue' = rest /\ UNCHANGED <<fetchVars, incrVars, store>>
    [] OTHER -> clipboardHandleFetchReply(e.property, rest)

(* A chunk, the empty chunk that ends the transfer, what aborts it, or the  *)
(* notice of a write that an earlier notice has already consumed.           *)
clipboardHandleIncrChunk(slot, rest) ==
  /\ UNCHANGED fetchVars
  /\ XDeleteProperty(slot, rest)
  /\ CASE store[slot] = Nothing -> NoPush /\ UNCHANGED incrVars
       [] store[slot].type \in {"INCR", "image"} -> NoPush /\ clipboardResetIncr
       [] store[slot].type = "text" /\ store[slot].data = <<>> ->
            pushTextToSdlClipboard(incrBuf) /\ clipboardResetIncr
       [] OTHER -> /\ incrBuf' = incrBuf \o store[slot].data
                   /\ NoPush /\ UNCHANGED <<incrActive, incrProperty>>

IsChunk(e) == e.state = "NewValue" /\ incrActive /\ e.property = incrProperty

(* A delete is an owner's sign to go on; all that wait on the slot see it.  *)
WaitsOn(slot) == {w \in Owners : transfer[w].slot = slot}
GoesThrough(e) == e.state = "Delete" /\ incrActive

PropertyChanged(e, rest) ==
  IF IsChunk(e) THEN clipboardHandleIncrChunk(e.property, rest) /\ UNCHANGED inbox
  ELSE /\ inbox' = IF GoesThrough(e) /\ WaitsOn(e.property) # {}
                     THEN Append(inbox, [type |-> "PropertyNotify",
                                         to |-> WaitsOn(e.property),
                                         property |-> e.property])
                     ELSE inbox
       /\ queue' = rest /\ NoPush /\ UNCHANGED <<fetchVars, incrVars, store>>

-----------------------------------------------------------------------------
(* clipboardHandleExternalUpdate.                                           *)
FirstFetch == ~everPushed /\ (clipboardFetchPending \/ incrActive)
IsEcho == lastPushed # NoText /\ hostText = lastPushed
markAfterEcho == NoText

expireSelectionOwner(rest) ==
  IF owner = NoOwner
    THEN owner' = owner /\ queue' = rest /\ UNCHANGED <<fetchVars, incrVars>>
    ELSE owner' = NoOwner /\ queue' = Append(rest, SelectionClear(owner)) /\ Abandon

clipboardHandleExternalUpdate(rest) ==
  /\ \/ /\ FirstFetch
        /\ skipped' = TRUE
        /\ queue' = rest /\ UNCHANGED <<owner, fetchVars, incrVars, lastPushed>>
     \/ /\ ~FirstFetch /\ IsEcho
        /\ lastPushed' = markAfterEcho
        /\ queue' = rest /\ UNCHANGED <<owner, fetchVars, incrVars, skipped>>
     \/ /\ ~FirstFetch /\ ~IsEcho
        /\ expireSelectionOwner(rest) /\ lastPushed' = NoText
        /\ UNCHANGED skipped
  /\ UNCHANGED <<everPushed, store, inbox, hostClipboardVars, mirrored>>

-----------------------------------------------------------------------------
(* The event loop: convertEvent of the head of SDL's queue.                 *)
Convert ==
  /\ queue # <<>>
  /\ LET e == Head(queue)
         rest == Tail(queue)
     IN \/ /\ e.type = "SDL_CLIPBOARDUPDATE"
           /\ clipboardHandleExternalUpdate(rest)
        \/ /\ e.type = "SelectionNotify"
           /\ Notified(e, rest) /\ UNCHANGED <<owner, inbox, skipped>>
        \/ /\ e.type = "PropertyNotify"
           /\ PropertyChanged(e, rest) /\ UNCHANGED <<owner, skipped>>
        \/ /\ ~ForRequestor(e) /\ e.type # "SDL_CLIPBOARDUPDATE"
           /\ inbox' = Append(inbox, e) /\ queue' = rest
           /\ NoPush /\ UNCHANGED <<owner, fetchVars, incrVars, store, skipped>>
  /\ UNCHANGED <<scenario, transfer, content, believes, claims>>

-----------------------------------------------------------------------------
(* The clients.  A write to the requestor is told to the requestor.         *)
Write(slot, value, others) ==
  /\ store' = [store EXCEPT ![slot] = value]
  /\ queue' = queue \o <<PropertyNotify(slot, "NewValue")>> \o others

Accepts(w, target) ==
  style[w] \in {"text", "incr", "image"} \/ (style[w] = "legacy" /\ target = "STRING")

Answer(e) ==
  LET w == e.at
      agreed == <<SelectionNotify(e.target, e.property)>>
  IN \/ /\ ~Accepts(w, e.target) /\ style[w] # "silent"
        /\ queue' = Append(queue, SelectionNotify(e.target, NoSlot))
        /\ UNCHANGED <<store, transfer>>
     \/ style[w] = "silent" /\ UNCHANGED <<queue, store, transfer>>
     \/ /\ Accepts(w, e.target) /\ style[w] \in {"text", "legacy"}
        /\ Write(e.property, TextOf(Whole(content[w])), agreed)
        /\ UNCHANGED transfer
     \/ /\ style[w] = "image"
        /\ Write(e.property, Image, agreed)
        /\ UNCHANGED transfer
     \/ /\ style[w] = "incr"
        /\ Write(e.property, Hint, agreed)
        /\ transfer' = [transfer EXCEPT ![w] =
             [slot |-> e.property,
              left |-> [i \in 1..2 |-> <<Whole(content[w])[i]>>] \o <<<<>>>>]]

Handle ==
  /\ inbox # <<>>
  /\ LET e == Head(inbox)
     IN \/ /\ e.type = "SelectionRequest"
           /\ Answer(e) /\ inbox' = Tail(inbox)
           /\ UNCHANGED believes
        \/ /\ e.type = "SelectionClear"
           /\ believes' = [believes EXCEPT ![e.at] = FALSE]
           /\ inbox' = Tail(inbox)
           /\ UNCHANGED <<queue, store, transfer>>
        \/ /\ e.type = "PropertyNotify"
           /\ \E w \in e.to :
                /\ IF transfer[w].slot = e.property
                     THEN /\ Write(e.property, TextOf(Head(transfer[w].left)), <<>>)
                          /\ transfer' = [transfer EXCEPT ![w] =
                               IF Len(@.left) = 1 THEN NoTransfer
                               ELSE [slot |-> @.slot, left |-> Tail(@.left)]]
                     ELSE UNCHANGED <<queue, store, transfer>>
                /\ inbox' = IF e.to = {w} THEN Tail(inbox)
                            ELSE <<[e EXCEPT !.to = @ \ {w}]>> \o Tail(inbox)
           /\ UNCHANGED believes
  /\ NoPush
  /\ UNCHANGED <<scenario, owner, fetchVars, incrVars, content, claims, skipped>>

(* An owner whose transfer nobody reads any more.                           *)
readSlot == IF incrActive THEN incrProperty
            ELSE IF clipboardFetchPending THEN fetchProperty ELSE NoSlot

GiveUp(w) ==
  /\ OwnersTimeOut
  /\ transfer[w] # NoTransfer /\ transfer[w].slot # readSlot
  /\ transfer' = [transfer EXCEPT ![w] = NoTransfer]
  /\ NoPush
  /\ UNCHANGED <<scenario, owner, fetchVars, incrVars, store, queue, inbox,
                 content, believes, claims, skipped>>

-----------------------------------------------------------------------------
(* The host: another program copies, and SDL tells of a change.             *)
HostCopy(text) ==
  /\ copies < scenario.copies
  /\ copies' = copies + 1
  /\ hostText' = text /\ news' = news + 1 /\ copiedAt' = claims
  /\ UNCHANGED <<scenario, owner, fetchVars, incrVars, markVars, store, queue,
                 clientVars, claims, skipped, mirrored>>

HostTells ==
  /\ news > 0
  /\ news' = news - 1 /\ queue' = Append(queue, Update)
  /\ UNCHANGED <<scenario, owner, fetchVars, incrVars, markVars, store, clientVars,
                 hostText, copies, copiedAt, claims, skipped, mirrored>>

ClipboardNext ==
  \/ \E w \in Owners : XSetSelectionOwner(w) \/ GiveUp(w)
  \/ Disown \/ Convert \/ Handle \/ HostTells
  \/ \E c \in 0..claims : HostCopy(Whole(c))

-----------------------------------------------------------------------------
(* What reaches the host's clipboard is the whole text of the selection's   *)
(* owner at that moment: not that of a fetch that another claim has         *)
(* superseded, not a revoked owner's, and not a part of it (IsReply,        *)
(* startClipboardFetch, Abandon, clipboardHandleIncrChunk).                 *)
MirroredIsCurrent == mirrored.text = mirrored.wanted

(* A client that believes it owns CLIPBOARD owns it, or the SelectionClear  *)
(* that tells it otherwise is on its way (XSetSelectionOwner,               *)
(* expireSelectionOwner).                                                   *)
LosersAreTold ==
  \A w \in Owners :
    believes[w] => owner = w \/ SelectionClear(w) \in Range(queue) \union Range(inbox)

(* Once every change of the host's clipboard has been told, no owner        *)
(* remains whose claim is older than a copy by another program, if neither  *)
(* a push followed it nor the guard of the first fetch skipped it.          *)
HostChangeRevokes ==
  news = 0 /\ Update \notin Range(queue) /\ owner # NoOwner =>
    content[owner] > copiedAt \/ skipped \/ hostText = Whole(content[owner])

(* Who owns CLIPBOARD, who believes to, whom the host takes it for and what  *)
(* text the host has agree.                                                 *)
HostFollowsOwner == MirroredIsCurrent /\ LosersAreTold /\ HostChangeRevokes

(* Once nothing is under way, the host has the text of an owner that gives  *)
(* it in one of the two targets it is asked for, whatever the owners of     *)
(* superseded fetches answer and whenever they do.                          *)
Settled == queue = <<>> /\ inbox = <<>> /\ news = 0 /\ owner # NoOwner
Gives(w) == style[w] \in {"text", "legacy", "incr"}
Declines(w) == style[w] \in {"legacy", "decline"}

DeclineSparesFetch ==
  Settled /\ Gives(owner) => hostText = Whole(content[owner])

(* The same, if no other owner declines: its answer would be taken for the  *)
(* current one's (Declined, clipboardHandleFetchReply).                     *)
OwnersTextArrives ==
  Settled /\ Gives(owner) /\ (\A w \in Owners \ {owner} : ~Declines(w)) =>
    hostText = Whole(content[owner])
=============================================================================
