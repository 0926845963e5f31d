---------------------------- MODULE MCServices -----------------------------
(* Injected input, where it goes and whether the program has settled after  *)
(* it, the clipboard, the wake that presents what was drawn, input contexts, *)
(* typed text and the XCB connection.  They share no state; part says which *)
(* one a behaviour is about.                                                *)
EXTENDS ReplayTarget, Timeline, Clipboard, PresentWake, InputContext, TypedText,
        XcbConnection
CONSTANTS w1, w2, c1, c2, u1, u2, u3, Parts
VARIABLE part

TwoWindows == {w1, w2}
NearAndFar == {0, 1}
SmallAndLarge == {1, 4}
Racing == [overlap |-> TRUE, relative |-> FALSE, areas |-> {1}, writes |-> 3,
           calls |-> 1]
Serial == [overlap |-> FALSE, relative |-> TRUE, areas |-> {1}, writes |-> 3,
           calls |-> 2]
Sized == [Serial EXCEPT !.areas = SmallAndLarge, !.calls = 1]
RacingAndSerial == {Racing, Serial, Sized}
Watched == {"Expose", "Present"}
NowOrLately == {0, 3, 4}
(* Only differences of the counters matter: every one is about to wrap.     *)
AboutToWrap == \A k \in Kinds : counter[k] = Modulus - 1

TwoOwners == {c1, c2}
Rivals(one, other, n, m) ==
  [style |-> (c1 :> one @@ c2 :> other), claims |-> n, copies |-> m]
ClaimsAndCopies ==
  {Rivals("incr", "incr", 2, 0), Rivals("legacy", "text", 3, 0),
   Rivals("incr", "legacy", 2, 0), Rivals("incr", "text", 2, 0),
   Rivals("incr", "text", 1, 1),
   Rivals("legacy", "image", 2, 1), Rivals("text", "decline", 2, 1),
   Rivals("text", "silent", 2, 1)}
Declining == {Rivals("text", "decline", 3, 0)}

Alone ==
  [overlap |-> FALSE, works |-> 3, opens |-> 2, failures |-> 1]
Overlapping ==
  [overlap |-> TRUE, works |-> 2, opens |-> 2, failures |-> 1]
AloneAndOverlapping == {Alone, Overlapping}

Editor(nested, n, m) == [nested |-> nested, requests |-> n, edits |-> m]
SomeEditors == {Editor({}, 6, 3), Editor({"destroy"}, 5, 3), Editor(Calls, 4, 3)}

Typist(kinds, n, m, f) ==
  [focused |-> TRUE, kinds |-> kinds, strokes |-> n, ahead |-> m, moves |-> f,
   settled |-> FALSE]
SomeTypists ==
  {Typist({"key"}, 5, 3, 0), Typist(Strokes, 2, 1, 2), Typist(Strokes, 3, 1, 1),
   [Typist(Strokes \ {"composed"}, 4, 1, 0) EXCEPT !.focused = FALSE]}
SettledTypists == {[Typist({"key", "keypad"}, 2, 1, 1) EXCEPT !.settled = TRUE]}

ThreeUsers == {u1, u2, u3}
Shared(does, n) ==
  [does |-> does, owned |-> FALSE, together |-> FALSE, calls |-> n,
   opens |-> 2, events |-> 1]
SomeSessions ==
  {[Shared({"take", "poll", "fail", "close", "disconnect"}, 5)
      EXCEPT !.together = TRUE],
   Shared({"take", "gc", "close", "disconnect"}, 5),
   [Shared({"take", "fail", "gc", "disconnect"}, 5) EXCEPT !.owned = TRUE],
   [Shared({"checked", "replying"}, 9) EXCEPT !.opens = 1, !.events = 0],
   [Shared({"checked", "replying", "close", "disconnect"}, 5) EXCEPT !.events = 0]}

AllParts ==
  {"target", "timeline", "clipboard", "present", "contexts", "text", "xcb"}
JustClipboard == {"clipboard"}
JustText == {"text"}

Interchangeable == Permutations(TwoWindows)

vars == <<replayTargetVars, timelineVars, clipboardVars, presentVars,
          inputContextVars, typedTextVars, xcbVars, part>>
Init ==
  /\ part \in Parts /\ TargetInit /\ TimelineInit /\ ClipboardInit
  /\ PresentInit /\ InputContextInit /\ TypedTextInit /\ XcbInit
  /\ AboutToWrap /\ (part # "timeline" => clock = 0)
  /\ part # "target" => client = CHOOSE c \in Clients : TRUE
  /\ part # "clipboard" => scenario = CHOOSE s \in Scenarios : TRUE
  /\ part # "present" => painter = CHOOSE p \in Painters : TRUE
  /\ part # "contexts" => program = CHOOSE p \in Programs : TRUE
  /\ part # "text" => typist = CHOOSE t \in Typists : TRUE
  /\ part # "xcb" => session = CHOOSE s \in Sessions : TRUE
Next ==
  \/ /\ part = "target" /\ TargetNext
     /\ UNCHANGED <<timelineVars, clipboardVars, presentVars,
                    inputContextVars, typedTextVars, xcbVars, part>>
  \/ /\ part = "timeline" /\ TimelineNext
     /\ UNCHANGED <<replayTargetVars, clipboardVars, presentVars,
                    inputContextVars, typedTextVars, xcbVars, part>>
  \/ /\ part = "clipboard" /\ ClipboardNext
     /\ UNCHANGED <<replayTargetVars, timelineVars, presentVars,
                    inputContextVars, typedTextVars, xcbVars, part>>
  \/ /\ part = "present" /\ PresentNext
     /\ UNCHANGED <<replayTargetVars, timelineVars, clipboardVars,
                    inputContextVars, typedTextVars, xcbVars, part>>
  \/ /\ part = "contexts" /\ InputContextNext
     /\ UNCHANGED <<replayTargetVars, timelineVars, clipboardVars,
                    presentVars, typedTextVars, xcbVars, part>>
  \/ /\ part = "text" /\ TypedTextNext
     /\ UNCHANGED <<replayTargetVars, timelineVars, clipboardVars,
                    presentVars, inputContextVars, xcbVars, part>>
  \/ /\ part = "xcb" /\ XcbNext
     /\ UNCHANGED <<replayTargetVars, timelineVars, clipboardVars,
                    presentVars, inputContextVars, typedTextVars, part>>
Spec == Init /\ [][Next]_vars
=============================================================================
