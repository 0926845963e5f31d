---------------------------- MODULE InputContext ----------------------------
(***************************************************************************)
(* Which input context has the focus, and the preedit it shows             *)
(* (src/src/input-method.c).  The library tells a client of a composition   *)
(* by callbacks, and a callback may call back: destroy, unfocus or focus     *)
(* any context, the one it is called for included, or make a new one, which *)
(* may get the memory of one that is gone.                                  *)
(***************************************************************************)
EXTENDS Naturals, FiniteSets, Sequences

CONSTANTS Contexts,  \* addresses of an _XIC
          NoContext, \* NULL
          Programs   \* the clients to explore, each of them a record:
                     \*  nested   the calls its callbacks may make
                     \*  requests bound: calls it makes
                     \*  edits    bound: changes of the composition

VARIABLES program,  \* one of Programs, never changed
          alive,    \* the contexts that have not been freed
          destroying, preeditActive, preeditLength, \* of each
          focused,  \* focusedInputConnection
          nextFocus,   \* pendingFocusTarget
          reentered, \* is handlePreeditImpl running?
          textActive, \* focusedTextInputActive
          hostSends, \* SDL: does it send text?
          running,  \* what the library has still to do: its stack
          told,     \* of each: has the client been told of a start?
          shown,    \* of each: the length of the preedit the client shows
          orderly,  \* did every callback so far make sense to the client?
          requests, edits

contextVars == <<alive, destroying, preeditActive, preeditLength>>
focusVars == <<focused, nextFocus, textActive, hostSends>>
clientView == <<told, shown, orderly>>
inputContextVars == <<program, contextVars, focusVars, reentered, running,
                      clientView, requests, edits>>

Calls == {"create", "destroy", "focus", "unfocus"}
ASSUME ProgramsAssumption ==
  /\ NoContext \notin Contexts
  /\ Programs \subseteq [nested : SUBSET Calls, requests : Nat, edits : Nat]

Step(op, ic, n) == [op |-> op, ic |-> ic, n |-> n]

InputContextInit ==
  /\ program \in Programs
  /\ alive = {} /\ destroying = {} /\ preeditActive = {}
  /\ preeditLength = [ic \in Contexts |-> 0]
  /\ focused = NoContext /\ nextFocus = NoContext
  /\ textActive = FALSE /\ hostSends = FALSE /\ reentered = FALSE
  /\ running = <<>>
  /\ told = {} /\ shown = [ic \in Contexts |-> 0] /\ orderly = TRUE
  /\ requests = 0 /\ edits = 0

-----------------------------------------------------------------------------
(* What a call still has to do once it has reached its first callback.      *)
inputMethodHandlePreedit(n) == <<Step("preedit", NoContext, n)>>
inputMethodUnsetFocus(ic) ==
  IF focused # ic THEN <<>>
  ELSE inputMethodHandlePreedit(0) \o <<Step("unset", ic, 0)>>

InCallback == running # <<>> /\ Head(running).op = "callback"
MayCall(op) ==
  /\ running = <<>> \/ (InCallback /\ op \in program.nested)
  /\ requests < program.requests /\ requests' = requests + 1
  /\ UNCHANGED <<program, edits, reentered, clientView>>

TakesFocus(ic) ==
  /\ focused' = ic /\ textActive' = TRUE /\ hostSends' = TRUE

XSetICFocus(ic) ==
  /\ MayCall("focus") /\ ic \in alive
  /\ IF focused \notin {NoContext, ic}
     THEN /\ nextFocus' = ic
          /\ running' = inputMethodHandlePreedit(0) \o <<Step("focus", ic, 0)>> \o running
          /\ UNCHANGED <<focused, textActive, hostSends>>
     ELSE TakesFocus(ic) /\ UNCHANGED <<nextFocus, running>>
  /\ UNCHANGED contextVars

(* The first context there is gets the focus.                               *)
XCreateIC(ic) ==
  /\ MayCall("create") /\ ic \notin alive
  /\ alive' = alive \union {ic}
  /\ preeditLength' = [preeditLength EXCEPT ![ic] = 0]
  /\ IF focused = NoContext THEN TakesFocus(ic)
     ELSE UNCHANGED <<focused, textActive, hostSends>>
  /\ UNCHANGED <<destroying, preeditActive, nextFocus, running>>

XUnsetICFocus(ic) ==
  /\ MayCall("unfocus") /\ ic \in alive
  /\ running' = inputMethodUnsetFocus(ic) \o running
  /\ UNCHANGED <<contextVars, focusVars>>

forgetsTarget(ic) == nextFocus' = IF nextFocus = ic THEN NoContext ELSE nextFocus

XDestroyIC(ic) ==
  /\ MayCall("destroy") /\ ic \in alive \ destroying
  /\ destroying' = destroying \union {ic}
  /\ forgetsTarget(ic)
  /\ running' = inputMethodUnsetFocus(ic) \o <<Step("free", ic, 0)>> \o running
  /\ UNCHANGED <<alive, preeditActive, preeditLength, focused, textActive, hostSends>>

(* inputMethodReset: XCloseIM, or the last XCloseDisplay.                   *)
XCloseIM ==
  /\ running = <<>> /\ focused # NoContext
  /\ requests < program.requests /\ requests' = requests + 1
  /\ running' = inputMethodUnsetFocus(focused)
  /\ UNCHANGED <<program, contextVars, focusVars, reentered, clientView, edits>>

(* The host changes the composition, or ends it before it commits a text.   *)
TextEditing(n) ==
  /\ running = <<>> /\ edits < program.edits
  /\ edits' = edits + 1
  /\ running' = inputMethodHandlePreedit(n)
  /\ UNCHANGED <<program, contextVars, focusVars, reentered, clientView, requests>>

-----------------------------------------------------------------------------
(* The library goes on.                                                     *)
On(op) == running # <<>> /\ Head(running).op = op
This == Head(running).ic
Length == Head(running).n
Rest == Tail(running)
Unbudgeted == UNCHANGED <<program, requests, edits>>

handlePreeditImpl(ic, n) ==
  <<Step("start", ic, n), Step("draw", ic, n), Step("caret", ic, n),
    Step("done", ic, n), Step("leave", ic, n)>>

BeginPreedit ==
  /\ On("preedit")
  /\ IF reentered \/ focused = NoContext
     THEN running' = Rest /\ UNCHANGED reentered
     ELSE running' = handlePreeditImpl(focused, Length) \o Rest /\ reentered' = TRUE
  /\ UNCHANGED <<contextVars, focusVars, clientView>> /\ Unbudgeted

LeavePreedit ==
  /\ On("leave") /\ running' = Rest /\ reentered' = FALSE
  /\ UNCHANGED <<contextVars, focusVars, clientView>> /\ Unbudgeted

(* Every callback but the last is followed by this check.                   *)
neverBails == FALSE
bails == focused # This
Handling(op) == On(op) /\ ~bails /\ UNCHANGED <<focusVars, reentered>> /\ Unbudgeted
LeftToDo == [draw |-> 3, caret |-> 2, done |-> 1]
Bail ==
  /\ \E op \in DOMAIN LeftToDo :
       On(op) /\ bails /\ running' = SubSeq(running, LeftToDo[op] + 1, Len(running))
  /\ UNCHANGED <<contextVars, focusVars, reentered, clientView>> /\ Unbudgeted

Invokes == running' = <<Step("callback", This, Length)>> \o Rest
Returns ==
  /\ InCallback /\ running' = Rest
  /\ UNCHANGED <<contextVars, focusVars, reentered, clientView>> /\ Unbudgeted

PreeditStart ==
  /\ Handling("start")
  /\ IF This \notin preeditActive /\ Length > 0
     THEN /\ preeditActive' = preeditActive \union {This}
          /\ orderly' = (orderly /\ This \notin told)
          /\ told' = told \union {This} /\ Invokes
     ELSE running' = Rest /\ UNCHANGED <<preeditActive, told, orderly>>
  /\ UNCHANGED <<alive, destroying, preeditLength, shown>>

PreeditDraw ==
  /\ Handling("draw")
  /\ IF This \in preeditActive \/ Length > 0
     THEN /\ orderly' = (orderly /\ This \in told /\ preeditLength[This] = shown[This])
          /\ shown' = [shown EXCEPT ![This] = Length] /\ Invokes
     ELSE /\ running' = Tail(Rest)
          /\ UNCHANGED <<orderly, shown>>
  /\ UNCHANGED <<contextVars, told>>

PreeditCaret ==
  /\ Handling("caret")
  /\ IF This \in destroying THEN running' = Rest ELSE Invokes
  /\ orderly' = (orderly /\ This \in told)
  /\ UNCHANGED <<contextVars, told, shown>>

endsPreedit == preeditActive' = preeditActive \ {This}
PreeditDone ==
  /\ Handling("done")
  /\ preeditLength' = [preeditLength EXCEPT ![This] = Length]
  /\ IF This \in preeditActive /\ Length = 0
     THEN /\ endsPreedit
          /\ orderly' = (orderly /\ This \in told)
          /\ told' = told \ {This} /\ Invokes
     ELSE running' = Rest /\ UNCHANGED <<preeditActive, told, orderly>>
  /\ UNCHANGED <<alive, destroying, shown>>

FinishUnset ==
  /\ On("unset") /\ running' = Rest
  /\ IF focused = This
     THEN /\ preeditActive' = preeditActive \ {This}
          /\ focused' = NoContext /\ textActive' = FALSE /\ hostSends' = FALSE
     ELSE UNCHANGED <<preeditActive, focused, textActive, hostSends>>
  /\ UNCHANGED <<alive, destroying, preeditLength, nextFocus, reentered, clientView>>
  /\ Unbudgeted

FinishFocus ==
  /\ On("focus") /\ running' = Rest
  /\ nextFocus' = NoContext
  /\ IF nextFocus = This THEN TakesFocus(This)
     ELSE UNCHANGED <<focused, textActive, hostSends>>
  /\ UNCHANGED <<contextVars, reentered, clientView>> /\ Unbudgeted

Free ==
  /\ On("free") /\ running' = Rest
  /\ alive' = alive \ {This} /\ destroying' = destroying \ {This}
  /\ preeditActive' = preeditActive \ {This}
  /\ told' = told \ {This} /\ shown' = [shown EXCEPT ![This] = 0]
  /\ UNCHANGED <<preeditLength, focusVars, reentered, orderly>> /\ Unbudgeted

InputContextNext ==
  \/ \E ic \in Contexts :
       XSetICFocus(ic) \/ XCreateIC(ic) \/ XUnsetICFocus(ic) \/ XDestroyIC(ic)
  \/ XCloseIM
  \/ \E n \in 0..2 : TextEditing(n)
  \/ BeginPreedit \/ LeavePreedit \/ Bail \/ Returns
  \/ PreeditStart \/ PreeditDraw \/ PreeditCaret \/ PreeditDone
  \/ FinishUnset \/ FinishFocus \/ Free

-----------------------------------------------------------------------------
(* Types.                                                                   *)
InputContextTypeOK ==
  /\ destroying \subseteq alive /\ preeditActive \subseteq alive
  /\ nextFocus \in Contexts \union {NoContext}

(* What the callbacks tell makes sense: start and done alternate, draw and  *)
(* caret come in between, what a draw replaces is what the client shows, and *)
(* only the focused context is in the middle of a preedit.  It is so for    *)
(* clients whose callbacks leave the focus alone, but for the destruction   *)
(* of a context.                                                            *)
PreeditMakesSense ==
  orderly /\ (running = <<>> => told = preeditActive /\ told \subseteq {focused})
PreeditIsBalanced == program.nested \subseteq {"destroy"} => PreeditMakesSense

(* The library never goes on with a context that a callback has freed: the  *)
(* focused one is alive, so is the one a step that has passed its check      *)
(* works on, and the one that is about to be focused or freed.  And the     *)
(* host sends text when, and only when, a context is there to take it.  And  *)
(* what the callbacks tell is balanced.                                     *)
ContextsAreSound ==
  /\ InputContextTypeOK
  /\ focused \in alive \union {NoContext}
  /\ \A op \in {"start", "draw", "caret", "done"} : On(op) /\ ~bails => This \in alive
  /\ On("focus") /\ nextFocus = This => This \in alive
  /\ On("free") => This \in alive
  /\ running = <<>> =>
       /\ textActive = (focused # NoContext) /\ hostSends = textActive
       /\ ~reentered /\ nextFocus = NoContext
  /\ PreeditIsBalanced

(* A context that lost the focus is not stuck in the middle of a preedit,   *)
(* "skipping its start callback when focused again" (input-method.c:260).   *)
NoneIsStuck == running = <<>> => preeditActive \subseteq {focused}
=============================================================================
