----------------------------- MODULE MCLibrary -----------------------------
(* The displays with the live resize, the focus and crossing events, the    *)
(* contexts and surfaces of GLX, and the segments of MIT-SHM.  They share    *)
(* no state; part says which one a behaviour is about.                      *)
EXTENDS DisplayLifecycle, FocusCrossing, GlxContext, SharedMemory
CONSTANTS Parts, d1, d2, d3, t2, n1, n2, w1, w2, w3, g1, g2, c1, c2, c3, s1, s2,
          m1, m2
VARIABLE part

ThreeDisplays == {d1, d2, d3}
TwoThreads == {Main, t2}
TwoHostWindows == {n1, n2}
Program(threads, embedded, host, displays, failures_) ==
  [threads |-> threads, embedded |-> embedded, host |-> host,
   displays |-> displays, failures |-> failures_]
Embedding == Program({Main}, TRUE, FALSE, ThreeDisplays, 2)
AllPrograms ==
  {Program({Main}, FALSE, TRUE, ThreeDisplays, 2), Embedding,
   Program(TwoThreads, FALSE, FALSE, {d1, d2}, 1),
   Program(TwoThreads, FALSE, FALSE, ThreeDisplays, 0)}
ThreeWindows == {w1, w2, w3}
(* Every tree of three windows, up to the windows' names.                   *)
Shapes == {up \in [ThreeWindows -> ThreeWindows \union {Root}] :
             /\ up[w1] = Root /\ up[w2] \in {Root, w1}
             /\ up[w3] \in {Root, w1, w2}
             /\ up[w2] = Root => up[w3] = Root}
BothKinds == {"focus", "pointer"}

TwoGlxThreads == {g1, g2}
ThreeContexts == {c1, c2, c3}
TwoDrawables == {s1, s2}
OneEach == g1 :> {s1} @@ g2 :> {s2}
All(drawables) == [t \in TwoGlxThreads |-> drawables]
Scene(does, draws, ready, n, m) ==
  [does |-> does, draws |-> draws, ready |-> ready, together |-> FALSE,
   resizes |-> FALSE, calls |-> n, failures |-> m]
Making == {"create", "destroy", "bind", "release"}
SomeScenes ==
  {Scene(Making, OneEach, {c1}, 4, 1),
   Scene({"bind", "release", "swap", "remove"}, All(TwoDrawables), {c1, c2}, 3, 1),
   [Scene({"bind", "swap", "remove"}, All({s1}), {c1, c2}, 3, 1)
      EXCEPT !.resizes = TRUE]}
DestroyedTogether == {[Scene(Making, OneEach, {c1}, 4, 0) EXCEPT !.together = TRUE]}

TwoSegments == {m1, m2}
FourAddresses == 1..4

AllParts == {"displays", "places", "glx", "segments"}
JustGlx == {"glx"}

vars == <<lifecycleVars, focusCrossingVars, glxVars, shmVars, part>>
Init ==
  /\ part \in Parts /\ LifecycleInit /\ FocusCrossingInit /\ GlxInit /\ ShmInit
  /\ part # "places" => kind = "focus" /\ above = [w \in TreeWindows |-> Root]
                          /\ unmapped = {}
  /\ part # "displays" => program = Embedding
  /\ kind = "pointer" => unmapped = {}
  /\ above \in Shapes
  /\ part # "glx" => scene = CHOOSE s \in Scenes : TRUE
  /\ part # "segments" => clientMapped = {}
Next ==
  \/ /\ part = "displays" /\ LifecycleNext
     /\ UNCHANGED <<focusCrossingVars, glxVars, shmVars, part>>
  \/ /\ part = "places" /\ FocusCrossingNext
     /\ UNCHANGED <<lifecycleVars, glxVars, shmVars, part>>
  \/ /\ part = "glx" /\ GlxNext
     /\ UNCHANGED <<lifecycleVars, focusCrossingVars, shmVars, part>>
  \/ /\ part = "segments" /\ ShmNext
     /\ UNCHANGED <<lifecycleVars, focusCrossingVars, glxVars, part>>
Spec == Init /\ [][Next]_vars
=============================================================================
