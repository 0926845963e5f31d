----------------------------- MODULE EventList -----------------------------
(***************************************************************************)
(* What an Xlib client is promised about one display's event queue: events  *)
(* are delivered in the order they were generated, XCheckWindowEvent takes  *)
(* the first that matches, XPutBackEvent returns one to the head, and only  *)
(* the destruction of its window removes an event undelivered.              *)
(***************************************************************************)
EXTENDS Sequences, SequencesExt

VARIABLES list,   \* events the client can still receive, oldest first
          taken,  \* events it has received
          doomed  \* windows whose destruction has begun

listVars == <<list, taken, doomed>>

Init == list = <<>> /\ taken = {} /\ doomed = {}

Generate ==
  /\ IsStrictPrefix(list, list')
  /\ UNCHANGED <<taken, doomed>>

(* The head for XNextEvent, the first of a window for XCheckWindowEvent.    *)
Deliver ==
  \E i \in 1..Len(list) :
    /\ i = 1 \/ \A j \in 1..(i - 1) : list[j].win # list[i].win
    /\ list' = RemoveAt(list, i)
    /\ taken' = taken \union {list[i]}
    /\ UNCHANGED doomed

Return ==
  \E e \in taken :
    /\ list' = <<e>> \o list
    /\ taken' = taken \ {e}
    /\ UNCHANGED doomed

Doom == doomed \subseteq doomed' /\ UNCHANGED <<list, taken>>

Vanish ==
  \E w \in doomed :
    /\ list' = SelectSeq(list, LAMBDA e : e.win # w \/ e \in Range(list'))
    /\ UNCHANGED <<taken, doomed>>

Next == Generate \/ Deliver \/ Return \/ Doom \/ Vanish

Spec == Init /\ [][Next]_listVars
=============================================================================
