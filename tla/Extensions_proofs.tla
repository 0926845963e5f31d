------------------------- MODULE Extensions_proofs -------------------------
(***************************************************************************)
(* Theorems about two protocol extensions.  GLX contexts, for any number of *)
(* threads, contexts, drawables and calls: a context is there as long as    *)
(* something needs it, and a frame is swapped on the surface it was drawn   *)
(* on.  The MIT-SHM segments, for any number of segments, threads and       *)
(* addresses: what is copied stays mapped, and nothing else does.           *)
(***************************************************************************)
EXTENDS GlxContext, SharedMemory, FiniteSetTheorems, TLAPS

-----------------------------------------------------------------------------
(* GLX contexts.                                                            *)

(* Steps.                                                                   *)
Binding == {"refresh", "find", "register", "attach"}
Labels == {"rest", "create", "realize", "store", "install", "swap", "uncount",
           "unshare", "claim", "tearDown", "drop"} \union Binding

StepType ==
  [at : Labels, for : {"none", "create", "bind", "swap"},
   ctx : GLXContexts \union {NoContext}, d : Drawables \union {NoDrawable},
   name : Nat, size : Nat]

GlxTypes ==
  /\ scene \in Scenes
  /\ contexts \subseteq GLXContexts /\ handles \subseteq contexts
  /\ egl \in [GLXContexts -> Nat] /\ sharesEgl \in [GLXContexts -> Nat]
  /\ share \in [GLXContexts -> GLXContexts \union {NoContext}]
  /\ currentCount \in [GLXContexts -> Nat] /\ shareRefs \in [GLXContexts -> Nat]
  /\ destroyPending \in [GLXContexts -> BOOLEAN]
  /\ eglContexts \subseteq Nat /\ IsFiniteSet(eglContexts)
  /\ eglCurrent \in [GlxThreads -> [egl : Nat, surface : Nat]]
  /\ currentContext \in [GlxThreads -> GLXContexts \union {NoContext}]
  /\ currentDrawable \in [GlxThreads -> Drawables \union {NoDrawable}]
  /\ currentDrawSurface \in [GlxThreads -> Nat]
  /\ drawableSurfaces \in [Drawables -> [surface : Nat, size : Nat]]
  /\ size \in [Drawables -> 1..2]
  /\ doing \in [GlxThreads -> StepType]

(* What a step holds of its context: a count, or a reference.               *)
Counts(s) ==
  \/ s.at = "uncount"
  \/ s.for = "bind" /\ s.at \in {"realize", "store", "install"} \union Binding
Refers(s) ==
  \/ s.at \in {"create", "unshare"}
  \/ s.for = "create" /\ s.at \in {"realize", "store"}

(* What a step is about.                                                    *)
Realizes == {"realize", "store"}
StepForm(s) ==
  /\ s.at = "rest" => s = Rest
  /\ s.at \notin {"rest", "create"} => s.ctx \in GLXContexts
  /\ s.at \in Realizes => s.for \in {"bind", "create"}
  /\ s.at \in Binding => s.for \in {"bind", "swap"}
  /\ s.at = "install" => s.for = "bind"
  /\ s.at = "swap" => s.for = "swap"
  /\ s.for # "create" /\ s.at \in Realizes \union Binding \union {"install"} => s.d \in Drawables

OfCurrent(s) ==
  \/ s.at \in {"drop", "swap"}
  \/ s.for = "swap" /\ s.at \in Binding

StepInv ==
  \A t \in GlxThreads :
    /\ StepForm(doing[t])
    /\ OfCurrent(doing[t]) => doing[t].ctx = currentContext[t]
    /\ doing[t].at = "swap" => doing[t].name = currentDrawSurface[t]
    /\ currentContext[t] = NoContext <=> currentDrawable[t] = NoDrawable

(* The counts.                                                              *)
Currents(c) == {t \in GlxThreads : currentContext[t] = c}
Counters(c) == {t \in GlxThreads : doing[t].ctx = c /\ Counts(doing[t])}
Sharers(c) == {o \in GLXContexts : share[o] = c}
Referrers(c) == {t \in GlxThreads : doing[t].ctx = c /\ Refers(doing[t])}

CountInv ==
  \A c \in GLXContexts :
    currentCount[c] = Cardinality(Currents(c)) + Cardinality(Counters(c))
RefInv ==
  \A c \in GLXContexts :
    shareRefs[c] = Cardinality(Sharers(c)) + Cardinality(Referrers(c))

(* The life of a context.                                                   *)
Doing(label, c) == {t \in GlxThreads : doing[t].at = label /\ doing[t].ctx = c}
Kept(c) == currentCount[c] > 0 \/ shareRefs[c] > 0

LifeInv ==
  \A c \in GLXContexts :
    /\ c \notin contexts => egl[c] = NoName /\ share[c] = NoContext
                              /\ ~Kept(c) /\ ~destroyPending[c] /\ Doing("tearDown", c) = {}
    /\ c \in handles => ~destroyPending[c] /\ Doing("tearDown", c) = {}
    /\ destroyPending[c] => Kept(c) \/ Doing("claim", c) # {}
    /\ Doing("tearDown", c) # {} => ~Kept(c) /\ ~destroyPending[c]
    /\ Doing("claim", c) # {} => destroyPending[c]
    /\ c \in contexts \ handles => destroyPending[c] \/ Doing("tearDown", c) # {}
    /\ \A t, u \in Doing("tearDown", c) : t = u

(* EGL's contexts.                                                          *)
Storing == {t \in GlxThreads : doing[t].at = "store"}
EglInv ==
  /\ NoName \notin eglContexts
  /\ \A c \in GLXContexts : egl[c] \in eglContexts \union {NoName}
  /\ \A c, o \in GLXContexts : egl[c] = egl[o] /\ egl[c] # NoName => c = o
  /\ \A e \in eglContexts : \/ \E c \in GLXContexts : egl[c] = e
                            \/ \E t \in Storing : doing[t].name = e
  /\ \A t \in Storing : egl[doing[t].ctx] = NoName /\ doing[t].name \in eglContexts
  /\ \A t \in Storing, c \in GLXContexts : egl[c] # doing[t].name
  /\ \A t, u \in Storing : doing[t].name = doing[u].name \/ doing[t].ctx = doing[u].ctx => t = u

(* Those that must have been realized.                                      *)
RealInv ==
  /\ \A c \in GLXContexts : share[c] # NoContext =>
       egl[share[c]] # NoName /\ sharesEgl[c] = egl[share[c]]
  /\ \A t \in GlxThreads :
       /\ doing[t].at \in Binding \union {"install", "create"} /\ doing[t].ctx # NoContext
            => egl[doing[t].ctx] # NoName
       /\ currentContext[t] # NoContext => egl[currentContext[t]] # NoName

BoundInv ==
  \A t \in GlxThreads :
    eglCurrent[t] =
      IF doing[t].at = "install"
        THEN [egl |-> egl[doing[t].ctx], surface |-> doing[t].name]
      ELSE IF currentContext[t] = NoContext THEN Unbound
      ELSE [egl |-> egl[currentContext[t]], surface |-> currentDrawSurface[t]]

GlxInv ==
  /\ GlxTypes /\ StepInv /\ CountInv /\ RefInv /\ LifeInv /\ EglInv /\ RealInv
  /\ BoundInv

-----------------------------------------------------------------------------
(* Counting sets of threads and of contexts.                                *)
LEMMA SetFacts ==
  ASSUME NEW S, S \subseteq GlxThreads \/ S \subseteq GLXContexts
  PROVE  /\ IsFiniteSet(S) /\ Cardinality(S) \in Nat
         /\ Cardinality(S) = 0 <=> S = {}
         /\ \A x : /\ x \notin S => Cardinality(S \union {x}) = Cardinality(S) + 1
                   /\ x \in S => Cardinality(S \ {x}) = Cardinality(S) - 1
<1>1. IsFiniteSet(S)
  BY ScenesAssumption, FS_Subset
<1>2. Cardinality(S) \in Nat /\ (Cardinality(S) = 0 <=> S = {})
  BY <1>1, FS_CardinalityType, FS_EmptySet
<1>3. ASSUME NEW x, x \notin S PROVE Cardinality(S \union {x}) = Cardinality(S) + 1
  BY <1>1, <1>3, FS_AddElement
<1>4. ASSUME NEW x, x \in S PROVE Cardinality(S \ {x}) = Cardinality(S) - 1
  BY <1>1, <1>4, FS_RemoveElement
<1> QED BY <1>1, <1>2, <1>3, <1>4

(* EGL's new name is not in use.                                            *)
LEMMA NewNameIsNew ==
  ASSUME GlxTypes
  PROVE  NewName \in Nat /\ NewName \notin InUse
<1> DEFINE A == {sharesEgl[c] : c \in contexts}
           B == {drawableSurfaces[d].surface : d \in Drawables}
           Of(u) == {eglCurrent[u].surface, currentDrawSurface[u], doing[u].name}
           C == UNION {Of(u) : u \in GlxThreads}
<1>1. IsFiniteSet(A)
  <2> DEFINE f == [c \in contexts |-> sharesEgl[c]]
  <2>1. f \in Surjection(contexts, A)
    BY DEF Surjection
  <2>2. IsFiniteSet(contexts)
    BY ScenesAssumption, FS_Subset DEF GlxTypes
  <2> QED BY <2>1, <2>2, FS_Surjection
<1>2. IsFiniteSet(B)
  <2> DEFINE f == [d \in Drawables |-> drawableSurfaces[d].surface]
  <2>1. f \in Surjection(Drawables, B)
    BY DEF Surjection
  <2>2. IsFiniteSet(Drawables)
    BY ScenesAssumption
  <2> QED BY <2>1, <2>2, FS_Surjection
<1>3. IsFiniteSet(C)
  <2>1. IsFiniteSet({Of(u) : u \in GlxThreads})
    <3> DEFINE f == [u \in GlxThreads |-> Of(u)]
    <3>1. f \in Surjection(GlxThreads, {Of(u) : u \in GlxThreads})
      BY DEF Surjection
    <3>2. IsFiniteSet(GlxThreads)
      BY ScenesAssumption
    <3> HIDE DEF f
    <3> QED BY <3>1, <3>2, FS_Surjection
  <2>2. ASSUME NEW u \in GlxThreads PROVE IsFiniteSet(Of(u))
    <3>1. IsFiniteSet({eglCurrent[u].surface})
      BY FS_Singleton
    <3>2. IsFiniteSet({eglCurrent[u].surface} \union {currentDrawSurface[u]})
      BY <3>1, FS_AddElement
    <3>3. IsFiniteSet(({eglCurrent[u].surface} \union {currentDrawSurface[u]})
                        \union {doing[u].name})
      BY <3>2, FS_AddElement
    <3>4. Of(u) = ({eglCurrent[u].surface} \union {currentDrawSurface[u]})
                        \union {doing[u].name}
      OBVIOUS
    <3> QED BY <3>3, <3>4
  <2> HIDE DEF Of
  <2> QED BY <2>1, <2>2, FS_UNION
<1> DEFINE N == (({NoName} \union eglContexts) \union A) \union B
<1>4. InUse = N \union C
  BY DEF InUse
<1> HIDE DEF A, B, C
<1>5. IsFiniteSet(InUse)
  <2>1. IsFiniteSet({NoName} \union eglContexts)
    BY FS_Singleton, FS_Union DEF GlxTypes
  <2>2. IsFiniteSet(({NoName} \union eglContexts) \union A)
    BY <1>1, <2>1, FS_Union
  <2>3. IsFiniteSet(N)
    BY <1>2, <2>2, FS_Union
  <2> QED BY <1>3, <1>4, <2>3, FS_Union
<1> DEFINE k == Cardinality(InUse)
<1>6. k \in Nat
  BY <1>5, FS_CardinalityType
<1>7. NoName \in InUse
  BY <1>4
<1>8. IsFiniteSet(InUse \ {NoName}) /\ Cardinality(InUse \ {NoName}) = k - 1
  BY <1>5, <1>7, FS_RemoveElement
<1>9. Cardinality(1..k) = k
  BY <1>6, FS_Interval
<1> HIDE DEF k
<1>10. \E n \in 1..k : n \notin InUse
  <2> SUFFICES ASSUME \A n \in 1..k : n \in InUse PROVE FALSE
    OBVIOUS
  <2>1. 1..k \subseteq InUse \ {NoName}
    BY <1>6 DEF NoName
  <2>2. Cardinality(1..k) <= Cardinality(InUse \ {NoName})
    BY <1>8, <2>1, FS_Subset
  <2> QED BY <1>6, <1>8, <1>9, <2>2
<1>11. NewName \in 1..k /\ NewName \notin InUse
  BY <1>10 DEF NewName, k
<1> QED BY <1>6, <1>11

(* A thread goes to another step.                                           *)
Goes(t, s) ==
  /\ doing' \in [GlxThreads -> StepType]
  /\ doing'[t] = s /\ \A u \in GlxThreads \ {t} : doing'[u] = doing[u]

(* What Moves does.                                                         *)
LEMMA MovesGoes ==
  ASSUME GlxTypes, NEW t \in GlxThreads, NEW s \in StepType, Moves(t, s)
  PROVE  Goes(t, s)
BY DEF GlxTypes, Moves, Goes

(* Steps are steps, and so are steps with another field.                    *)
LEMMA StepTypes ==
  /\ Rest \in StepType
  /\ \A i \in StepType :
       /\ i.at \in Labels /\ i.for \in {"none", "create", "bind", "swap"}
       /\ i.ctx \in GLXContexts \union {NoContext}
       /\ i.d \in Drawables \union {NoDrawable} /\ i.name \in Nat /\ i.size \in Nat
<1>1. Rest \in StepType
  BY DEF Rest, StepType, Labels, NoName
<1>2. ASSUME NEW i \in StepType
      PROVE  /\ i.at \in Labels /\ i.for \in {"none", "create", "bind", "swap"}
             /\ i.ctx \in GLXContexts \union {NoContext}
             /\ i.d \in Drawables \union {NoDrawable} /\ i.name \in Nat /\ i.size \in Nat
  BY DEF StepType
<1> QED BY <1>1, <1>2

(* MovesTo changes the label only.                                          *)
LEMMA MovesToGoes ==
  ASSUME GlxTypes, NEW t \in GlxThreads, NEW label \in Labels, MovesTo(t, label)
  PROVE  \E s \in StepType :
           /\ Goes(t, s) /\ s.at = label /\ s.for = doing[t].for
           /\ s.ctx = doing[t].ctx /\ s.d = doing[t].d /\ s.name = doing[t].name
<1> DEFINE s == [doing[t] EXCEPT !.at = label]
<1>1. doing[t] \in StepType
  BY DEF GlxTypes
<1>2. \A i \in StepType :
        LET r == [i EXCEPT !.at = label]
        IN  /\ r \in StepType /\ r.at = label /\ r.for = i.for /\ r.ctx = i.ctx
            /\ r.d = i.d /\ r.name = i.name
  BY DEF StepType
<1>3. /\ s \in StepType /\ s.at = label /\ s.for = doing[t].for
      /\ s.ctx = doing[t].ctx /\ s.d = doing[t].d /\ s.name = doing[t].name
  BY <1>1, <1>2
<1>4. Moves(t, s)
  BY DEF MovesTo
<1> HIDE DEF s
<1>5. Goes(t, s)
  BY <1>3, <1>4, MovesGoes
<1> QED BY <1>3, <1>5

(* A call that goes from rest to a label, a purpose, a context, a drawable.  *)
Called(t, label, purpose, c, d) ==
  Moves(t, [Rest EXCEPT !.at = label, !.for = purpose, !.ctx = c, !.d = d])
LEMMA CallGoes ==
  ASSUME GlxTypes, NEW t \in GlxThreads, NEW label \in Labels,
         NEW purpose \in {"none", "create", "bind", "swap"},
         NEW c \in GLXContexts \union {NoContext}, NEW d \in Drawables \union {NoDrawable},
         Called(t, label, purpose, c, d)
  PROVE  \E s \in StepType :
           /\ Goes(t, s) /\ s.at = label /\ s.for = purpose /\ s.ctx = c /\ s.d = d
<1> DEFINE s == [Rest EXCEPT !.at = label, !.for = purpose, !.ctx = c, !.d = d]
<1>1. ASSUME NEW i \in StepType
      PROVE  LET r == [i EXCEPT !.at = label, !.for = purpose, !.ctx = c, !.d = d]
             IN  /\ r \in StepType /\ r.at = label /\ r.for = purpose /\ r.ctx = c
                 /\ r.d = d
  BY DEF StepType
<1>2. s \in StepType /\ s.at = label /\ s.for = purpose /\ s.ctx = c /\ s.d = d
  BY <1>1, StepTypes
<1>3. Moves(t, s)
  BY DEF Called
<1> HIDE DEF s
<1> QED BY <1>2, <1>3, MovesGoes

(* And one that goes to a label with a context.                             *)
Fresh(t, label, c) == Moves(t, [Rest EXCEPT !.at = label, !.ctx = c])
LEMMA FreshGoes ==
  ASSUME GlxTypes, NEW t \in GlxThreads, NEW label \in Labels,
         NEW c \in GLXContexts \union {NoContext},
         Fresh(t, label, c)
  PROVE  \E s \in StepType :
           Goes(t, s) /\ s.at = label /\ s.for = "none" /\ s.ctx = c
<1> DEFINE s == [Rest EXCEPT !.at = label, !.ctx = c]
<1>1. ASSUME NEW i \in StepType
      PROVE  LET r == [i EXCEPT !.at = label, !.ctx = c]
             IN  r \in StepType /\ r.at = label /\ r.for = i.for /\ r.ctx = c
  BY DEF StepType
<1>2. Rest.for = "none"
  BY DEF Rest
<1>3. s \in StepType /\ s.at = label /\ s.for = "none" /\ s.ctx = c
  BY <1>1, <1>2, StepTypes
<1>4. Moves(t, s)
  BY DEF Fresh
<1> HIDE DEF s
<1> QED BY <1>3, <1>4, MovesGoes

-----------------------------------------------------------------------------
(* What a part of the invariant needs of a step that does not concern it.   *)
FormOK(t, s) ==
  /\ StepForm(s)
  /\ OfCurrent(s) => s.ctx = currentContext[t]
  /\ s.at = "swap" => s.name = currentDrawSurface[t]

(* Nothing about the thread itself changes but its step.                    *)
LEMMA StepFrame ==
  ASSUME StepInv, NEW t \in GlxThreads, NEW s \in StepType, Goes(t, s),
         UNCHANGED threadVars, FormOK(t, s)
  PROVE  StepInv'
<1> SUFFICES ASSUME NEW u \in GlxThreads
             PROVE  /\ StepForm(doing'[u])
                    /\ OfCurrent(doing'[u]) => doing'[u].ctx = currentContext[u]
                    /\ doing'[u].at = "swap" => doing'[u].name = currentDrawSurface[u]
                    /\ currentContext[u] = NoContext <=> currentDrawable[u] = NoDrawable
  BY DEF StepInv, threadVars, StepForm, OfCurrent
<1>1. CASE u = t
  <2>1. doing'[u] = s
    BY <1>1 DEF Goes
  <2> QED BY <1>1, <2>1 DEF StepInv, FormOK
<1>2. CASE u # t
  <2>1. doing'[u] = doing[u]
    BY <1>2 DEF Goes
  <2> QED BY <2>1 DEF StepInv
<1> QED BY <1>1, <1>2

(* What a set of threads becomes that are in one kind of step.              *)
LEMMA CountersAfter ==
  ASSUME NEW t \in GlxThreads, NEW s \in StepType, Goes(t, s), NEW c \in GLXContexts
  PROVE  Counters(c)' = (Counters(c) \ {t})
                          \union (IF s.ctx = c /\ Counts(s) THEN {t} ELSE {})
<1>1. doing'[t] = s /\ \A u \in GlxThreads \ {t} : doing'[u] = doing[u]
  BY DEF Goes
<1>2. Counters(c)' = {u \in GlxThreads : doing'[u].ctx = c /\ Counts(doing'[u])}
  BY DEF Counters, Counts
<1> QED BY <1>1, <1>2 DEF Counters

(* And of those that hold a reference.                                      *)
LEMMA ReferrersAfter ==
  ASSUME NEW t \in GlxThreads, NEW s \in StepType, Goes(t, s), NEW c \in GLXContexts
  PROVE  Referrers(c)' = (Referrers(c) \ {t})
                           \union (IF s.ctx = c /\ Refers(s) THEN {t} ELSE {})
<1>1. doing'[t] = s /\ \A u \in GlxThreads \ {t} : doing'[u] = doing[u]
  BY DEF Goes
<1>2. Referrers(c)' = {u \in GlxThreads : doing'[u].ctx = c /\ Refers(doing'[u])}
  BY DEF Referrers, Refers
<1> QED BY <1>1, <1>2 DEF Referrers

(* And of those that are at one label.                                      *)
LEMMA DoingAfter ==
  ASSUME NEW t \in GlxThreads, NEW s \in StepType, Goes(t, s), NEW label,
         NEW c \in GLXContexts
  PROVE  Doing(label, c)' = (Doing(label, c) \ {t})
                              \union (IF s.at = label /\ s.ctx = c THEN {t} ELSE {})
<1>1. doing'[t] = s /\ \A u \in GlxThreads \ {t} : doing'[u] = doing[u]
  BY DEF Goes
<1> QED BY <1>1 DEF Doing

(* A step that holds the same count.                                        *)
CountsAs(i, s) ==
  \A c \in GLXContexts : (i.ctx = c /\ Counts(i)) <=> (s.ctx = c /\ Counts(s))
LEMMA CountFrame ==
  ASSUME CountInv, NEW t \in GlxThreads, NEW s \in StepType, Goes(t, s),
         currentCount' = currentCount, currentContext' = currentContext,
         CountsAs(doing[t], s)
  PROVE  CountInv'
<1> SUFFICES ASSUME NEW c \in GLXContexts
             PROVE  currentCount'[c] = Cardinality(Currents(c)') + Cardinality(Counters(c)')
  BY DEF CountInv
<1>1. Currents(c)' = Currents(c)
  BY DEF Currents
<1>2. Counters(c)' = Counters(c)
  <2>1. t \in Counters(c) <=> s.ctx = c /\ Counts(s)
    BY DEF Counters, CountsAs
  <2> QED BY <2>1, CountersAfter
<1> QED BY <1>1, <1>2 DEF CountInv

(* A step that holds the same reference.                                    *)
RefersAs(i, s) ==
  \A c \in GLXContexts : (i.ctx = c /\ Refers(i)) <=> (s.ctx = c /\ Refers(s))
LEMMA RefFrame ==
  ASSUME RefInv, NEW t \in GlxThreads, NEW s \in StepType, Goes(t, s),
         shareRefs' = shareRefs, share' = share, RefersAs(doing[t], s)
  PROVE  RefInv'
<1> SUFFICES ASSUME NEW c \in GLXContexts
             PROVE  shareRefs'[c] = Cardinality(Sharers(c)') + Cardinality(Referrers(c)')
  BY DEF RefInv
<1>1. Sharers(c)' = Sharers(c)
  BY DEF Sharers
<1>2. Referrers(c)' = Referrers(c)
  <2>1. t \in Referrers(c) <=> s.ctx = c /\ Refers(s)
    BY DEF Referrers, RefersAs
  <2> QED BY <2>1, ReferrersAfter
<1> QED BY <1>1, <1>2 DEF RefInv

(* A step that destroys nothing.                                            *)
LEMMA LifeFrame ==
  ASSUME LifeInv, NEW t \in GlxThreads, NEW s \in StepType, Goes(t, s),
         UNCHANGED <<contexts, handles, egl, share, counts>>,
         {doing[t].at, s.at} \intersect {"claim", "tearDown"} = {}
  PROVE  LifeInv'
<1>1. \A c \in GLXContexts, label \in {"claim", "tearDown"} :
        Doing(label, c)' = Doing(label, c)
  <2> SUFFICES ASSUME NEW c \in GLXContexts, NEW label \in {"claim", "tearDown"}
               PROVE  Doing(label, c)' = Doing(label, c)
    OBVIOUS
  <2>1. t \notin Doing(label, c) /\ s.at # label
    BY DEF Doing
  <2> QED BY <2>1, DoingAfter
<1>2. \A c \in GLXContexts : Kept(c)' = Kept(c)
  BY DEF Kept, counts
<1> QED BY <1>1, <1>2 DEF LifeInv, counts

(* A step with no new name.                                                 *)
LEMMA EglFrame ==
  ASSUME EglInv, NEW t \in GlxThreads, NEW s \in StepType, Goes(t, s),
         egl' = egl, eglContexts' = eglContexts, "store" \notin {doing[t].at, s.at}
  PROVE  EglInv'
<1>1. Storing' = Storing /\ \A u \in Storing : doing'[u] = doing[u]
  BY DEF Storing, Goes
<1> QED BY <1>1 DEF EglInv

(* A step that finds its context realized, if it needs to.                  *)
Real(s) == s.at \in Binding \union {"install", "create"} /\ s.ctx # NoContext
             => egl[s.ctx] # NoName
LEMMA RealFrame ==
  ASSUME RealInv, NEW t \in GlxThreads, NEW s \in StepType, Goes(t, s),
         UNCHANGED <<egl, share, sharesEgl, currentContext>>, Real(s)
  PROVE  RealInv'
<1> SUFFICES ASSUME NEW u \in GlxThreads PROVE Real(doing'[u])
  BY DEF RealInv, Real
<1>1. CASE u = t
  BY <1>1 DEF Goes
<1>2. CASE u # t
  BY <1>2 DEF Goes, RealInv, Real
<1> QED BY <1>1, <1>2

(* A step that binds nothing.                                               *)
LEMMA BoundFrame ==
  ASSUME BoundInv, NEW t \in GlxThreads, NEW s \in StepType, Goes(t, s),
         UNCHANGED <<egl, eglCurrent, currentContext, currentDrawSurface>>,
         "install" \notin {doing[t].at, s.at}
  PROVE  BoundInv'
<1> SUFFICES ASSUME NEW u \in GlxThreads
             PROVE  eglCurrent[u] =
                      IF doing'[u].at = "install"
                        THEN [egl |-> egl[doing'[u].ctx], surface |-> doing'[u].name]
                      ELSE IF currentContext[u] = NoContext THEN Unbound
                      ELSE [egl |-> egl[currentContext[u]], surface |-> currentDrawSurface[u]]
  BY DEF BoundInv
<1>1. CASE u = t
  BY <1>1 DEF Goes, BoundInv
<1>2. CASE u # t
  BY <1>2 DEF Goes, BoundInv
<1> QED BY <1>1, <1>2

(* A step that concerns none of them.                                       *)
LEMMA GoesOn ==
  ASSUME GlxInv, NEW t \in GlxThreads, NEW s \in StepType, Goes(t, s),
         UNCHANGED <<scene, recordVars, eglVars, threadVars>>,
         FormOK(t, s), CountsAs(doing[t], s), RefersAs(doing[t], s), Real(s),
         {doing[t].at, s.at} \intersect {"claim", "tearDown", "store", "install"} = {},
         drawableSurfaces' \in [Drawables -> [surface : Nat, size : Nat]],
         size' \in [Drawables -> 1..2]
  PROVE  GlxInv'
<1>1. /\ GlxTypes /\ StepInv /\ CountInv /\ RefInv /\ LifeInv /\ EglInv /\ RealInv
      /\ BoundInv
  BY DEF GlxInv
<1>2. UNCHANGED <<scene, contexts, handles, egl, share, sharesEgl, counts, currentCount,
                  shareRefs, destroyPending, eglContexts, eglCurrent, threadVars,
                  currentContext, currentDrawable, currentDrawSurface>>
  BY DEF recordVars, eglVars, threadVars, counts
<1>3. GlxTypes'
  <2>1. doing' \in [GlxThreads -> StepType]
    BY DEF Goes
  <2> QED BY <1>1, <1>2, <2>1 DEF GlxTypes
<1>4. StepInv'
  BY <1>1, <1>2, StepFrame
<1>5. CountInv' /\ RefInv'
  BY <1>1, <1>2, CountFrame, RefFrame
<1>6. LifeInv'
  BY <1>1, <1>2, LifeFrame
<1>7. EglInv'
  BY <1>1, <1>2, EglFrame
<1>8. RealInv' /\ BoundInv'
  BY <1>1, <1>2, RealFrame, BoundFrame
<1> QED BY <1>3, <1>4, <1>5, <1>6, <1>7, <1>8 DEF GlxInv

-----------------------------------------------------------------------------
(* What is known of a thread's step, and of resting.                        *)
LEMMA StepFacts ==
  ASSUME GlxInv, NEW t \in GlxThreads
  PROVE  /\ GlxTypes /\ doing[t] \in StepType /\ FormOK(t, doing[t])
         /\ Real(doing[t])
         /\ currentContext[t] = NoContext <=> currentDrawable[t] = NoDrawable
         /\ doing[t].for # "create" /\ doing[t].at \in Realizes \union Binding \union {"install"}
              => doing[t].d \in Drawables
BY DEF GlxInv, GlxTypes, StepInv, RealInv, Real, FormOK, StepForm

(* A thread at rest has nothing in hand.                                    *)
LEMMA RestFacts ==
  /\ Rest.at = "rest" /\ Rest.for = "none" /\ Rest.ctx = NoContext /\ Rest.name = NoName
  /\ Rest.d = NoDrawable
  /\ StepForm(Rest) /\ ~OfCurrent(Rest) /\ ~Counts(Rest) /\ ~Refers(Rest) /\ Real(Rest)
  /\ \A t : FormOK(t, Rest)
<1>1. /\ Rest.at = "rest" /\ Rest.for = "none" /\ Rest.ctx = NoContext
      /\ Rest.name = NoName /\ Rest.d = NoDrawable
  BY DEF Rest
<1> QED
  BY <1>1 DEF StepForm, OfCurrent, Counts, Refers, Real, FormOK, Binding, Realizes

(* The calls that fail, or make EGL do nothing for the context, go on.      *)
LEMMA CreateFailsInv ==
  ASSUME GlxInv, NEW t \in GlxThreads, CreateFails(t)
  PROVE  GlxInv'
<1>1. /\ doing[t].at = "create" /\ UNCHANGED <<scene, recordVars, eglVars, threadVars>>
      /\ UNCHANGED <<drawableSurfaces, size>>
  BY DEF CreateFails, At, surfaceVars
<1>2. /\ GlxTypes /\ drawableSurfaces \in [Drawables -> [surface : Nat, size : Nat]]
      /\ size \in [Drawables -> 1..2]
  BY StepFacts DEF GlxTypes
<1>3. CASE doing[t].ctx = NoContext /\ Moves(t, Rest)
  <2>1. Goes(t, Rest) /\ Rest \in StepType
    BY <1>2, <1>3, MovesGoes, StepTypes
  <2>2. CountsAs(doing[t], Rest) /\ RefersAs(doing[t], Rest)
    BY <1>1, <1>3, RestFacts, ScenesAssumption DEF CountsAs, RefersAs, Counts, Binding
  <2> QED BY <1>1, <1>2, <2>1, <2>2, RestFacts, GoesOn
<1>4. CASE doing[t].ctx # NoContext /\ MovesTo(t, "unshare")
  <2>1. PICK s \in StepType :
          /\ Goes(t, s) /\ s.at = "unshare" /\ s.for = doing[t].for
          /\ s.ctx = doing[t].ctx
    BY <1>2, <1>4, MovesToGoes DEF Labels
  <2>2. CountsAs(doing[t], s) /\ RefersAs(doing[t], s)
    BY <1>1, <2>1 DEF CountsAs, RefersAs, Counts, Refers, Binding
  <2>3. FormOK(t, s) /\ Real(s)
    BY <1>4, <2>1, StepTypes DEF FormOK, StepForm, OfCurrent, Real, Binding, Realizes
  <2> QED BY <1>1, <1>2, <2>1, <2>2, <2>3, GoesOn
<1> QED BY <1>3, <1>4 DEF CreateFails

(* Choosing EGL's context.                                                  *)
LEMMA RealizeFailsInv ==
  ASSUME GlxInv, NEW t \in GlxThreads, RealizeFails(t)
  PROVE  GlxInv'
<1>1. /\ doing[t].at = "realize" /\ UNCHANGED <<scene, recordVars, eglVars, threadVars>>
      /\ UNCHANGED <<drawableSurfaces, size>>
      /\ MovesTo(t, IF doing[t].for = "create" THEN "unshare" ELSE "uncount")
  BY DEF RealizeFails, At, surfaceVars
<1>2. /\ GlxTypes /\ drawableSurfaces \in [Drawables -> [surface : Nat, size : Nat]]
      /\ size \in [Drawables -> 1..2] /\ FormOK(t, doing[t])
  BY StepFacts DEF GlxTypes
<1>3. PICK s \in StepType :
        /\ Goes(t, s) /\ s.at = (IF doing[t].for = "create" THEN "unshare" ELSE "uncount")
        /\ s.for = doing[t].for /\ s.ctx = doing[t].ctx
  BY <1>1, <1>2, MovesToGoes DEF Labels
<1>4. doing[t].for \in {"bind", "create"} /\ doing[t].ctx \in GLXContexts
  BY <1>1, <1>2 DEF FormOK, StepForm, Realizes
<1>5. CountsAs(doing[t], s) /\ RefersAs(doing[t], s)
  BY <1>1, <1>3, <1>4 DEF CountsAs, RefersAs, Counts, Refers, Binding
<1>6. FormOK(t, s) /\ Real(s)
  BY <1>3, <1>4 DEF FormOK, StepForm, OfCurrent, Real, Binding, Realizes
<1>7. {doing[t].at, s.at} \intersect {"claim", "tearDown", "store", "install"} = {}
  BY <1>1, <1>3
<1> QED BY <1>1, <1>2, <1>3, <1>5, <1>6, <1>7, GoesOn

(* A context that is realized already.                                      *)
LEMMA RealizedInv ==
  ASSUME GlxInv, NEW t \in GlxThreads, Steps(t, "realize"),
         egl[doing[t].ctx] # NoName, MovesTo(t, Realized(t)), eglContexts' = eglContexts,
         UNCHANGED <<recordVars, eglCurrent, threadVars, surfaceVars>>
  PROVE  GlxInv'
<1>1. /\ doing[t].at = "realize" /\ UNCHANGED <<scene, recordVars, eglVars, threadVars>>
      /\ UNCHANGED <<drawableSurfaces, size>>
  BY DEF Steps, At, surfaceVars, eglVars
<1>2. /\ GlxTypes /\ drawableSurfaces \in [Drawables -> [surface : Nat, size : Nat]]
      /\ size \in [Drawables -> 1..2] /\ FormOK(t, doing[t])
  BY StepFacts DEF GlxTypes
<1>3. doing[t].for \in {"bind", "create"} /\ doing[t].ctx \in GLXContexts
  BY <1>1, <1>2 DEF FormOK, StepForm, Realizes
<1>4. Realized(t) \in {"create", "refresh"} /\ (Realized(t) = "create" <=> doing[t].for = "create")
  BY DEF Realized
<1>5. PICK s \in StepType :
        /\ Goes(t, s) /\ s.at = Realized(t) /\ s.for = doing[t].for
        /\ s.ctx = doing[t].ctx /\ s.d = doing[t].d
  <2>1. Realized(t) \in Labels
    BY <1>4 DEF Labels, Binding
  <2> QED BY <1>2, <2>1, MovesToGoes
<1>6. CountsAs(doing[t], s) /\ RefersAs(doing[t], s)
  BY <1>1, <1>3, <1>4, <1>5 DEF CountsAs, RefersAs, Counts, Refers, Binding
<1>7. FormOK(t, s) /\ Real(s)
  BY <1>1, <1>2, <1>3, <1>4, <1>5 DEF FormOK, StepForm, OfCurrent, Real, Binding, Realizes
<1>8. {doing[t].at, s.at} \intersect {"claim", "tearDown", "store", "install"} = {}
  BY <1>1, <1>4, <1>5
<1> QED BY <1>1, <1>2, <1>5, <1>6, <1>7, <1>8, GoesOn

(* Swapping begins.                                                         *)
LEMMA SwapInv ==
  ASSUME GlxInv, NEW t \in GlxThreads, glXSwapBuffers(t)
  PROVE  GlxInv'
<1>1. /\ doing[t] = Rest /\ UNCHANGED <<scene, recordVars, eglVars, threadVars>>
      /\ UNCHANGED <<drawableSurfaces, size>> /\ currentContext[t] # NoContext
  BY DEF glXSwapBuffers, Calls, surfaceVars
<1>2. /\ GlxTypes /\ drawableSurfaces \in [Drawables -> [surface : Nat, size : Nat]]
      /\ size \in [Drawables -> 1..2] /\ FormOK(t, doing[t])
      /\ currentContext[t] \in GLXContexts /\ currentDrawable[t] \in Drawables
  BY <1>1, StepFacts DEF GlxTypes
<1>3. PICK s \in StepType :
        /\ Goes(t, s) /\ s.at = "refresh" /\ s.for = "swap" /\ s.ctx = currentContext[t]
        /\ s.d = currentDrawable[t]
  <2>1. Called(t, "refresh", "swap", currentContext[t], currentDrawable[t])
    BY DEF glXSwapBuffers, Called
  <2>2. "refresh" \in Labels
    BY DEF Labels, Binding
  <2> QED BY <1>2, <2>1, <2>2, CallGoes
<1>6. CountsAs(doing[t], s) /\ RefersAs(doing[t], s)
  BY <1>1, <1>3, RestFacts DEF CountsAs, RefersAs, Counts, Refers, Binding
<1>7. egl[currentContext[t]] # NoName
  BY <1>1 DEF GlxInv, RealInv
<1>8. FormOK(t, s) /\ Real(s)
  BY <1>2, <1>3, <1>7 DEF FormOK, StepForm, OfCurrent, Real, Binding, Realizes
<1>9. {doing[t].at, s.at} \intersect {"claim", "tearDown", "store", "install"} = {}
  BY <1>1, <1>3, RestFacts
<1> QED BY <1>1, <1>2, <1>3, <1>6, <1>8, <1>9, GoesOn

(* Surfaces.  A step that goes from one label of a binding to another.      *)
LEMMA BindsOn ==
  ASSUME GlxInv, NEW t \in GlxThreads, NEW s \in StepType, Goes(t, s),
         UNCHANGED <<scene, recordVars, eglVars, threadVars>>,
         doing[t].at \in Binding,
         \/ s.at \in Binding
         \/ s.at = "uncount" /\ doing[t].for = "bind"
         \/ s.at = "drop" /\ doing[t].for = "swap"
         \/ s.at = "swap" /\ doing[t].for = "swap" /\ s.name = currentDrawSurface[t],
         s.for = doing[t].for, s.ctx = doing[t].ctx, s.d = doing[t].d,
         drawableSurfaces' \in [Drawables -> [surface : Nat, size : Nat]],
         size' \in [Drawables -> 1..2]
  PROVE  GlxInv'
<1>1. FormOK(t, doing[t]) /\ Real(doing[t])
  BY StepFacts
<1>2. doing[t].for \in {"bind", "swap"} /\ doing[t].ctx \in GLXContexts
  BY <1>1 DEF FormOK, StepForm, Realizes, Binding
<1>3. CountsAs(doing[t], s) /\ RefersAs(doing[t], s)
  BY <1>2 DEF CountsAs, RefersAs, Counts, Refers, Binding
<1>4. FormOK(t, s) /\ Real(s)
  BY <1>1, <1>2 DEF FormOK, StepForm, OfCurrent, Real, Binding, Realizes
<1>5. {doing[t].at, s.at} \intersect {"claim", "tearDown", "store", "install"} = {}
  BY DEF Binding
<1> QED BY <1>3, <1>4, <1>5, GoesOn

(* The drawable has been resized: its surface goes.                         *)
LEMMA RefreshInv ==
  ASSUME GlxInv, NEW t \in GlxThreads, refreshDrawableSurfaceIfResized(t)
  PROVE  GlxInv'
<1>1. /\ doing[t].at = "refresh" /\ UNCHANGED <<scene, recordVars, eglVars, threadVars>>
      /\ size' = size /\ MovesTo(t, "find")
  BY DEF refreshDrawableSurfaceIfResized, Steps, At
<1>2. GlxTypes /\ size \in [Drawables -> 1..2]
  BY StepFacts DEF GlxTypes
<1>3. drawableSurfaces' \in [Drawables -> [surface : Nat, size : Nat]]
  <2>1. drawableSurfaces \in [Drawables -> [surface : Nat, size : Nat]]
    BY <1>2 DEF GlxTypes
  <2>2. NoSurface \in [surface : Nat, size : Nat]
    BY DEF NoSurface, NoName
  <2>3. \/ drawableSurfaces' = drawableSurfaces
        \/ drawableSurfaces' = [drawableSurfaces EXCEPT ![doing[t].d] = NoSurface]
    BY DEF refreshDrawableSurfaceIfResized
  <2> QED BY <2>1, <2>2, <2>3
<1>4. PICK s \in StepType :
        /\ Goes(t, s) /\ s.at = "find" /\ s.for = doing[t].for /\ s.ctx = doing[t].ctx
        /\ s.d = doing[t].d
  <2>1. "find" \in Labels
    BY DEF Labels, Binding
  <2> QED BY <1>1, <1>2, <2>1, MovesToGoes
<1>5. doing[t].at \in Binding /\ s.at \in Binding
  BY <1>1, <1>4 DEF Binding
<1> QED BY <1>1, <1>2, <1>3, <1>4, <1>5, BindsOn

(* A step with another label, name and perhaps size.                        *)
Named(t, label, n) == Moves(t, [doing[t] EXCEPT !.at = label, !.name = n])
Sized(t, label, n, z) == Moves(t, [doing[t] EXCEPT !.at = label, !.name = n, !.size = z])
LEMMA NamesGoes ==
  ASSUME GlxTypes, NEW t \in GlxThreads, NEW label \in Labels, NEW n \in Nat, NEW z \in Nat,
         Named(t, label, n) \/ Sized(t, label, n, z)
  PROVE  \E s \in StepType :
           /\ Goes(t, s) /\ s.at = label /\ s.for = doing[t].for
           /\ s.ctx = doing[t].ctx /\ s.d = doing[t].d /\ s.name = n
<1> DEFINE r == [doing[t] EXCEPT !.at = label, !.name = n]
           s == [doing[t] EXCEPT !.at = label, !.name = n, !.size = z]
<1>1. doing[t] \in StepType
  BY DEF GlxTypes
<1>2. ASSUME NEW i \in StepType
      PROVE  LET k == [i EXCEPT !.at = label, !.name = n]
             IN  /\ k \in StepType /\ k.at = label /\ k.for = i.for /\ k.ctx = i.ctx
                 /\ k.d = i.d /\ k.name = n
  BY DEF StepType
<1>3. ASSUME NEW i \in StepType
      PROVE  LET k == [i EXCEPT !.at = label, !.name = n, !.size = z]
             IN  /\ k \in StepType /\ k.at = label /\ k.for = i.for /\ k.ctx = i.ctx
                 /\ k.d = i.d /\ k.name = n
  BY DEF StepType
<1>4. /\ r \in StepType /\ r.at = label /\ r.for = doing[t].for /\ r.ctx = doing[t].ctx
      /\ r.d = doing[t].d /\ r.name = n
  BY <1>1, <1>2
<1>5. /\ s \in StepType /\ s.at = label /\ s.for = doing[t].for /\ s.ctx = doing[t].ctx
      /\ s.d = doing[t].d /\ s.name = n
  BY <1>1, <1>3
<1>6. Moves(t, r) \/ Moves(t, s)
  BY DEF Named, Sized
<1> HIDE DEF r, s
<1>7. CASE Moves(t, r)
  BY <1>4, <1>7, MovesGoes
<1>8. CASE Moves(t, s)
  BY <1>5, <1>8, MovesGoes
<1> QED BY <1>6, <1>7, <1>8

(* The drawable's surface, or a new one.                                    *)
LEMMA FindInv ==
  ASSUME GlxInv, NEW t \in GlxThreads, surfaceForDrawable(t)
  PROVE  GlxInv'
<1>1. /\ doing[t].at = "find" /\ UNCHANGED <<scene, recordVars, eglVars, threadVars>>
      /\ UNCHANGED <<drawableSurfaces, size>>
  BY DEF surfaceForDrawable, Steps, At, surfaceVars
<1>2. /\ GlxTypes /\ drawableSurfaces \in [Drawables -> [surface : Nat, size : Nat]]
      /\ size \in [Drawables -> 1..2]
  BY StepFacts DEF GlxTypes
<1>3. doing[t].d \in Drawables
  BY <1>1, StepFacts DEF FormOK, StepForm, Binding
<1>4. /\ drawableSurfaces[doing[t].d].surface \in Nat /\ size[doing[t].d] \in Nat
      /\ NewName \in Nat
  BY <1>2, <1>3, NewNameIsNew
<1>5. \E s \in StepType :
        /\ Goes(t, s) /\ s.at \in {"attach", "register"} /\ s.for = doing[t].for
        /\ s.ctx = doing[t].ctx /\ s.d = doing[t].d
  <2>1. {"attach", "register"} \subseteq Labels
    BY DEF Labels, Binding
  <2>2. \/ Named(t, "attach", drawableSurfaces[doing[t].d].surface)
        \/ Sized(t, "register", NewName, size[doing[t].d])
    BY DEF surfaceForDrawable, Named, Sized
  <2>3. CASE Named(t, "attach", drawableSurfaces[doing[t].d].surface)
    BY <1>2, <1>4, <2>1, <2>3, NamesGoes
  <2>4. CASE Sized(t, "register", NewName, size[doing[t].d])
    BY <1>2, <1>4, <2>1, <2>4, NamesGoes
  <2> QED BY <2>2, <2>3, <2>4
<1>6. PICK s \in StepType :
        /\ Goes(t, s) /\ s.at \in {"attach", "register"} /\ s.for = doing[t].for
        /\ s.ctx = doing[t].ctx /\ s.d = doing[t].d
  BY <1>5
<1>7. doing[t].at \in Binding /\ s.at \in Binding
  BY <1>1, <1>6 DEF Binding
<1> QED BY <1>1, <1>2, <1>6, <1>7, BindsOn

(* The bind or the swap is given up.                                        *)
LEMMA AbandonsInv ==
  ASSUME GlxInv, NEW t \in GlxThreads, doing[t].at \in Binding, Abandons(t),
         UNCHANGED <<scene, recordVars, eglVars, threadVars, surfaceVars>>
  PROVE  GlxInv'
<1>1. /\ GlxTypes /\ drawableSurfaces \in [Drawables -> [surface : Nat, size : Nat]]
      /\ size \in [Drawables -> 1..2] /\ UNCHANGED <<drawableSurfaces, size>>
  BY StepFacts DEF GlxTypes, surfaceVars
<1>2. doing[t].for \in {"bind", "swap"}
  BY StepFacts DEF FormOK, StepForm
<1>3. PICK s \in StepType :
        /\ Goes(t, s) /\ s.at = (IF doing[t].for = "bind" THEN "uncount" ELSE "drop")
        /\ s.for = doing[t].for /\ s.ctx = doing[t].ctx /\ s.d = doing[t].d
  <2>1. {"uncount", "drop"} \subseteq Labels
    BY DEF Labels
  <2> QED BY <1>1, <2>1, MovesToGoes DEF Abandons
<1> QED BY <1>1, <1>2, <1>3, BindsOn

(* Making a surface fails.                                                  *)
LEMMA SurfaceFailsInv ==
  ASSUME GlxInv, NEW t \in GlxThreads, SurfaceFails(t)
  PROVE  GlxInv'
<1>1. doing[t].at \in Binding
  BY DEF SurfaceFails, At, Binding
<1> QED BY <1>1, AbandonsInv DEF SurfaceFails, At

(* Binding it fails.                                                        *)
LEMMA MakeCurrentFailsInv ==
  ASSUME GlxInv, NEW t \in GlxThreads, MakeCurrentFails(t)
  PROVE  GlxInv'
<1>1. doing[t].at \in Binding
  BY DEF MakeCurrentFails, At, Binding
<1>2. UNCHANGED <<scene, recordVars, eglVars, threadVars, surfaceVars>>
  BY DEF MakeCurrentFails, At, surfaceAfterFailure, threadVars
<1> QED BY <1>1, <1>2, AbandonsInv DEF MakeCurrentFails

(* A surface is registered, unless another thread has been quicker.         *)
LEMMA RegisterInv ==
  ASSUME GlxInv, NEW t \in GlxThreads, registerDrawableSurface(t)
  PROVE  GlxInv'
<1>1. /\ doing[t].at = "register" /\ UNCHANGED <<scene, recordVars, eglVars, threadVars>>
      /\ size' = size
  BY DEF registerDrawableSurface, Steps, At
<1>2. GlxTypes /\ size \in [Drawables -> 1..2]
  BY StepFacts DEF GlxTypes
<1>3. doing[t].d \in Drawables
  BY <1>1, StepFacts DEF FormOK, StepForm, Binding
<1>4. drawableSurfaces' \in [Drawables -> [surface : Nat, size : Nat]]
  <2>1. drawableSurfaces \in [Drawables -> [surface : Nat, size : Nat]]
    BY <1>2 DEF GlxTypes
  <2>2. [surface |-> doing[t].name, size |-> doing[t].size] \in [surface : Nat, size : Nat]
    BY StepFacts, StepTypes
  <2>3. \/ drawableSurfaces' = drawableSurfaces
        \/ drawableSurfaces' = [drawableSurfaces EXCEPT ![doing[t].d] =
                                  [surface |-> doing[t].name, size |-> doing[t].size]]
    BY DEF registerDrawableSurface
  <2> QED BY <2>1, <2>2, <2>3
<1>5. drawableSurfaces'[doing[t].d].surface \in Nat
  BY <1>3, <1>4
<1>6. Named(t, "attach", drawableSurfaces'[doing[t].d].surface)
  BY DEF registerDrawableSurface, Named
<1>7. "attach" \in Labels
  BY DEF Labels, Binding
<1>8. PICK s \in StepType :
        /\ Goes(t, s) /\ s.at = "attach" /\ s.for = doing[t].for
        /\ s.ctx = doing[t].ctx /\ s.d = doing[t].d
  BY <1>2, <1>5, <1>6, <1>7, NamesGoes
<1>9. doing[t].at \in Binding /\ s.at \in Binding
  BY <1>1, <1>8 DEF Binding
<1> QED BY <1>1, <1>2, <1>4, <1>8, <1>9, BindsOn

(* What the thread has bound is what it will swap.                          *)
LEMMA SameSurfaceInv ==
  ASSUME GlxInv, NEW t \in GlxThreads, Steps(t, "attach"), doing[t].for = "swap",
         ~mustRebind(t, doing[t].name), MovesTo(t, "swap"),
         UNCHANGED <<recordVars, eglVars, threadVars, surfaceVars>>
  PROVE  GlxInv'
<1>1. /\ doing[t].at \in Binding /\ scene' = scene /\ UNCHANGED <<drawableSurfaces, size>>
  BY DEF Steps, At, Binding, surfaceVars
<1>2. /\ GlxTypes /\ drawableSurfaces \in [Drawables -> [surface : Nat, size : Nat]]
      /\ size \in [Drawables -> 1..2]
  BY StepFacts DEF GlxTypes
<1>3. PICK s \in StepType :
        /\ Goes(t, s) /\ s.at = "swap" /\ s.for = doing[t].for
        /\ s.ctx = doing[t].ctx /\ s.d = doing[t].d /\ s.name = doing[t].name
  <2>1. "swap" \in Labels
    BY DEF Labels
  <2> QED BY <1>2, <2>1, MovesToGoes
<1>4. s.name = currentDrawSurface[t]
  BY <1>3 DEF mustRebind
<1> QED BY <1>1, <1>2, <1>3, <1>4, BindsOn

(* The swap is over.                                                        *)
LEMMA SwapEndsInv ==
  ASSUME GlxInv, NEW t \in GlxThreads, SwapEnds(t)
  PROVE  GlxInv'
<1>1. /\ doing[t].at = "swap" /\ UNCHANGED <<scene, recordVars, eglVars, threadVars>>
      /\ UNCHANGED <<drawableSurfaces, size>> /\ Moves(t, Rest)
  BY DEF SwapEnds, Steps, At, surfaceVars
<1>2. /\ GlxTypes /\ drawableSurfaces \in [Drawables -> [surface : Nat, size : Nat]]
      /\ size \in [Drawables -> 1..2] /\ FormOK(t, doing[t])
  BY StepFacts DEF GlxTypes
<1>3. Goes(t, Rest) /\ Rest \in StepType
  BY <1>1, <1>2, MovesGoes, StepTypes
<1>4. CountsAs(doing[t], Rest) /\ RefersAs(doing[t], Rest)
  BY <1>1, RestFacts DEF CountsAs, RefersAs, Counts, Refers, Binding
<1> QED BY <1>1, <1>2, <1>3, <1>4, RestFacts, GoesOn

(* A drawable's surface goes.                                               *)
LEMMA DestroyedInv ==
  ASSUME GlxInv, NEW t \in GlxThreads, NEW d \in Drawables, glxDrawableDestroyed(t, d)
  PROVE  GlxInv'
<1>1. /\ doing[t] = Rest /\ UNCHANGED <<scene, recordVars, eglVars, threadVars, size>>
  BY DEF glxDrawableDestroyed, Calls
<1>2. GlxTypes /\ size \in [Drawables -> 1..2] /\ doing \in [GlxThreads -> StepType]
  BY StepFacts DEF GlxTypes
<1>3. drawableSurfaces' \in [Drawables -> [surface : Nat, size : Nat]]
  <2>1. drawableSurfaces \in [Drawables -> [surface : Nat, size : Nat]]
    BY <1>2 DEF GlxTypes
  <2>2. NoSurface \in [surface : Nat, size : Nat]
    BY DEF NoSurface, NoName
  <2>3. drawableSurfaces' = [drawableSurfaces EXCEPT ![d] = NoSurface]
    BY DEF glxDrawableDestroyed
  <2> QED BY <2>1, <2>2, <2>3
<1>4. CASE doing' = doing
  <2>1. Goes(t, Rest) /\ Rest \in StepType
    BY <1>1, <1>2, <1>4, StepTypes DEF Goes
  <2>2. CountsAs(doing[t], Rest) /\ RefersAs(doing[t], Rest)
    BY <1>1 DEF CountsAs, RefersAs
  <2> QED BY <1>1, <1>2, <1>3, <2>1, <2>2, RestFacts, GoesOn
<1>5. CASE /\ currentDrawable[t] = d
           /\ Fresh(t, "drop", currentContext[t])
  <2>1. currentContext[t] \in GLXContexts \union {NoContext}
    BY <1>2 DEF GlxTypes
  <2>2. currentContext[t] # NoContext
    BY <1>5, StepFacts, ScenesAssumption
  <2>3. PICK s \in StepType :
          Goes(t, s) /\ s.at = "drop" /\ s.for = "none" /\ s.ctx = currentContext[t]
    <3>1. "drop" \in Labels
      BY DEF Labels
    <3> QED BY <1>2, <1>5, <2>1, <3>1, FreshGoes
  <2>4. CountsAs(doing[t], s) /\ RefersAs(doing[t], s)
    BY <1>1, <2>3, RestFacts DEF CountsAs, RefersAs, Counts, Refers, Binding
  <2>5. FormOK(t, s) /\ Real(s)
    BY <2>1, <2>2, <2>3 DEF FormOK, StepForm, OfCurrent, Real, Binding, Realizes
  <2>6. {doing[t].at, s.at} \intersect {"claim", "tearDown", "store", "install"} = {}
    BY <1>1, <2>3, RestFacts
  <2> QED BY <1>1, <1>2, <1>3, <2>3, <2>4, <2>5, <2>6, GoesOn
<1> QED BY <1>4, <1>5 DEF glxDrawableDestroyed, Fresh

-----------------------------------------------------------------------------
(* Whoever is counted keeps the context.                                    *)
LEMMA HeldFacts ==
  ASSUME GlxInv, NEW c \in GLXContexts
  PROVE  /\ Currents(c) # {} \/ Counters(c) # {} => currentCount[c] > 0
         /\ Sharers(c) # {} \/ Referrers(c) # {} => shareRefs[c] > 0
         /\ Kept(c) => c \in contexts /\ Doing("tearDown", c) = {}
<1>1. /\ Currents(c) \subseteq GlxThreads /\ Counters(c) \subseteq GlxThreads
      /\ Sharers(c) \subseteq GLXContexts /\ Referrers(c) \subseteq GlxThreads
  BY DEF Currents, Counters, Sharers, Referrers
<1>2. /\ currentCount[c] = Cardinality(Currents(c)) + Cardinality(Counters(c))
      /\ shareRefs[c] = Cardinality(Sharers(c)) + Cardinality(Referrers(c))
  BY DEF GlxInv, CountInv, RefInv
<1>3. /\ Cardinality(Currents(c)) \in Nat /\ Cardinality(Counters(c)) \in Nat
      /\ Cardinality(Sharers(c)) \in Nat /\ Cardinality(Referrers(c)) \in Nat
      /\ Cardinality(Currents(c)) = 0 <=> Currents(c) = {}
      /\ Cardinality(Counters(c)) = 0 <=> Counters(c) = {}
      /\ Cardinality(Sharers(c)) = 0 <=> Sharers(c) = {}
      /\ Cardinality(Referrers(c)) = 0 <=> Referrers(c) = {}
  BY <1>1, SetFacts
<1>4. Kept(c) => c \in contexts /\ Doing("tearDown", c) = {}
  BY DEF GlxInv, LifeInv
<1> QED BY <1>2, <1>3, <1>4

(* A thread that changes its own binding.                                   *)
LEMMA StepOwn ==
  ASSUME StepInv, NEW t \in GlxThreads, NEW s \in StepType, Goes(t, s),
         \A u \in GlxThreads \ {t} : /\ currentContext'[u] = currentContext[u]
                                     /\ currentDrawable'[u] = currentDrawable[u]
                                     /\ currentDrawSurface'[u] = currentDrawSurface[u],
         StepForm(s), OfCurrent(s) => s.ctx = currentContext'[t],
         s.at = "swap" => s.name = currentDrawSurface'[t],
         currentContext'[t] = NoContext <=> currentDrawable'[t] = NoDrawable
  PROVE  StepInv'
<1> SUFFICES ASSUME NEW u \in GlxThreads
             PROVE  /\ StepForm(doing'[u])
                    /\ OfCurrent(doing'[u]) => doing'[u].ctx = currentContext'[u]
                    /\ doing'[u].at = "swap" => doing'[u].name = currentDrawSurface'[u]
                    /\ currentContext'[u] = NoContext <=> currentDrawable'[u] = NoDrawable
  BY DEF StepInv, StepForm, OfCurrent
<1>1. CASE u = t
  <2>1. doing'[u] = s
    BY <1>1 DEF Goes
  <2> QED BY <1>1, <2>1
<1>2. CASE u # t
  <2>1. doing'[u] = doing[u]
    BY <1>2 DEF Goes
  <2> QED BY <1>2, <2>1 DEF StepInv
<1> QED BY <1>1, <1>2

(* To a context that is realized.                                           *)
LEMMA RealOwn ==
  ASSUME RealInv, NEW t \in GlxThreads, NEW s \in StepType, Goes(t, s),
         UNCHANGED <<egl, share, sharesEgl>>,
         \A u \in GlxThreads \ {t} : currentContext'[u] = currentContext[u],
         Real(s), currentContext'[t] # NoContext => egl[currentContext'[t]] # NoName
  PROVE  RealInv'
<1> SUFFICES ASSUME NEW u \in GlxThreads
             PROVE  /\ Real(doing'[u])
                    /\ currentContext'[u] # NoContext => egl[currentContext'[u]] # NoName
  BY DEF RealInv, Real
<1>1. CASE u = t
  BY <1>1 DEF Goes
<1>2. CASE u # t
  BY <1>2 DEF Goes, RealInv, Real
<1> QED BY <1>1, <1>2

(* And to the surface that EGL has.                                         *)
LEMMA BoundOwn ==
  ASSUME BoundInv, NEW t \in GlxThreads, NEW s \in StepType, Goes(t, s), egl' = egl,
         \A u \in GlxThreads \ {t} : /\ eglCurrent'[u] = eglCurrent[u]
                                     /\ currentContext'[u] = currentContext[u]
                                     /\ currentDrawSurface'[u] = currentDrawSurface[u],
         eglCurrent'[t] =
           IF s.at = "install" THEN [egl |-> egl[s.ctx], surface |-> s.name]
           ELSE IF currentContext'[t] = NoContext THEN Unbound
           ELSE [egl |-> egl[currentContext'[t]], surface |-> currentDrawSurface'[t]]
  PROVE  BoundInv'
<1> SUFFICES ASSUME NEW u \in GlxThreads
             PROVE  eglCurrent'[u] =
                      IF doing'[u].at = "install"
                        THEN [egl |-> egl[doing'[u].ctx], surface |-> doing'[u].name]
                      ELSE IF currentContext'[u] = NoContext THEN Unbound
                      ELSE [egl |-> egl[currentContext'[u]],
                            surface |-> currentDrawSurface'[u]]
  BY DEF BoundInv
<1>1. CASE u = t
  <2>1. doing'[u] = s
    BY <1>1 DEF Goes
  <2> QED BY <1>1, <2>1
<1>2. CASE u # t
  <2>1. doing'[u] = doing[u]
    BY <1>2 DEF Goes
  <2> QED BY <1>2, <2>1 DEF BoundInv
<1> QED BY <1>1, <1>2

(* Letting go: the last one claims the teardown.                            *)
LEMMA LetsGoInv ==
  ASSUME GlxInv, ~scene.together, NEW t \in GlxThreads, NEW c \in contexts,
         NEW current \in 0..1, NEW shares \in 0..1, LetsGo(t, c, current, shares),
         Doing("tearDown", c) = {}, doing[t].at # "tearDown",
         doing[t].at = "claim" => doing[t].ctx = c,
         currentCount[c] >= current, shareRefs[c] >= shares
  PROVE  /\ LifeInv'
         /\ currentCount' \in [GLXContexts -> Nat] /\ shareRefs' \in [GLXContexts -> Nat]
         /\ destroyPending' \in [GLXContexts -> BOOLEAN]
         /\ \A o \in GLXContexts :
              /\ currentCount'[o] = IF o = c THEN currentCount[c] - current
                                             ELSE currentCount[o]
              /\ shareRefs'[o] = IF o = c THEN shareRefs[c] - shares ELSE shareRefs[o]
         /\ \E s \in StepType :
              /\ Goes(t, s) /\ s.for = "none" /\ StepForm(s)
              /\ s.at = "rest" \/ s.at = "tearDown"
<1>1. /\ GlxTypes /\ LifeInv /\ c \in GLXContexts
      /\ currentCount \in [GLXContexts -> Nat] /\ shareRefs \in [GLXContexts -> Nat]
      /\ destroyPending \in [GLXContexts -> BOOLEAN]
  BY DEF GlxInv, GlxTypes
<1>2. /\ currentCount' = [currentCount EXCEPT ![c] = @ - current]
      /\ shareRefs' = [shareRefs EXCEPT ![c] = @ - shares]
      /\ UNCHANGED <<contexts, handles, egl, share, sharesEgl>>
      /\ NoneElse(t, "claim", c)
  BY DEF LetsGo
<1>3. PICK claimed \in BOOLEAN :
        /\ claimed = claimContextTeardown(destroyPending[c], currentCount'[c], shareRefs'[c])
        /\ destroyPending' = [destroyPending EXCEPT ![c] = @ /\ ~claimed]
        /\ Moves(t, IF claimed THEN [Rest EXCEPT !.at = "tearDown", !.ctx = c] ELSE Rest)
  BY DEF LetsGo
<1>4. currentCount[c] - current \in Nat /\ shareRefs[c] - shares \in Nat
  BY <1>1
<1>5. /\ currentCount' \in [GLXContexts -> Nat] /\ shareRefs' \in [GLXContexts -> Nat]
      /\ \A o \in GLXContexts :
              /\ currentCount'[o] = IF o = c THEN currentCount[c] - current
                                             ELSE currentCount[o]
              /\ shareRefs'[o] = IF o = c THEN shareRefs[c] - shares ELSE shareRefs[o]
  BY <1>1, <1>2, <1>4
<1>6. /\ destroyPending' \in [GLXContexts -> BOOLEAN]
      /\ destroyPending'[c] = (destroyPending[c] /\ ~claimed)
      /\ \A o \in GLXContexts \ {c} : destroyPending'[o] = destroyPending[o]
  BY <1>1, <1>3
<1>7. PICK s \in StepType :
        /\ Goes(t, s) /\ s.for = "none" /\ StepForm(s)
        /\ IF claimed THEN s.at = "tearDown" /\ s.ctx = c ELSE s = Rest
  <2>1. CASE claimed
    <3>1. Fresh(t, "tearDown", c) /\ "tearDown" \in Labels
      BY <1>3, <2>1 DEF Fresh, Labels
    <3>2. PICK s \in StepType :
            Goes(t, s) /\ s.at = "tearDown" /\ s.for = "none" /\ s.ctx = c
      BY <1>1, <3>1, FreshGoes
    <3>3. StepForm(s)
      BY <1>1, <3>2 DEF StepForm, Binding, Realizes
    <3> QED BY <2>1, <3>2, <3>3
  <2>2. CASE ~claimed
    <3>1. Moves(t, Rest)
      BY <1>3, <2>2
    <3> QED BY <1>1, <2>2, <3>1, MovesGoes, StepTypes, RestFacts
  <2> QED BY <2>1, <2>2
<1>8. LifeInv'
  <2>1. \A o \in GLXContexts :
          /\ Doing("tearDown", o)' = Doing("tearDown", o)
                                       \union (IF claimed /\ o = c THEN {t} ELSE {})
          /\ Doing("claim", o)' = Doing("claim", o) \ {t}
    <3> SUFFICES ASSUME NEW o \in GLXContexts
                 PROVE  /\ Doing("tearDown", o)' = Doing("tearDown", o)
                                       \union (IF claimed /\ o = c THEN {t} ELSE {})
                        /\ Doing("claim", o)' = Doing("claim", o) \ {t}
      OBVIOUS
    <3>1. t \notin Doing("tearDown", o)
      BY DEF Doing
    <3>2. /\ s.at = "tearDown" /\ s.ctx = o <=> claimed /\ o = c
          /\ s.at # "claim"
      BY <1>7, RestFacts
    <3> QED BY <1>7, <3>1, <3>2, DoingAfter
  <2>2. Doing("claim", c) \subseteq {t}
    BY <1>2 DEF NoneElse, Doing
  <2>3. \A o \in GLXContexts \ {c} : t \notin Doing("claim", o)
    BY DEF Doing
  <2>4. \A o \in GLXContexts \ {c} : Kept(o)' = Kept(o)
    BY <1>5 DEF Kept
  <2>5. claimed <=> destroyPending[c] /\ ~Kept(c)'
    <3>1. claimed <=> destroyPending[c] /\ currentCount'[c] = 0 /\ shareRefs'[c] = 0
      <4>1. claimed \in BOOLEAN /\ destroyPending[c] \in BOOLEAN
        BY <1>1
      <4> QED BY <1>3, <4>1 DEF claimContextTeardown
    <3>2. ~Kept(c)' <=> currentCount'[c] = 0 /\ shareRefs'[c] = 0
      BY <1>1, <1>5 DEF Kept
    <3> QED BY <3>1, <3>2
  <2> SUFFICES ASSUME NEW o \in GLXContexts
               PROVE  /\ o \notin contexts => egl[o] = NoName /\ share[o] = NoContext
                                 /\ ~Kept(o)' /\ ~destroyPending'[o] /\ Doing("tearDown", o)' = {}
                      /\ o \in handles => ~destroyPending'[o] /\ Doing("tearDown", o)' = {}
                      /\ destroyPending'[o] => Kept(o)' \/ Doing("claim", o)' # {}
                      /\ Doing("tearDown", o)' # {} => ~Kept(o)' /\ ~destroyPending'[o]
                      /\ Doing("claim", o)' # {} => destroyPending'[o]
                      /\ o \in contexts \ handles => destroyPending'[o] \/ Doing("tearDown", o)' # {}
                      /\ \A u, v \in Doing("tearDown", o)' : u = v
    BY <1>2 DEF LifeInv
  <2>6. CASE o # c
    BY <1>1, <1>6, <2>1, <2>3, <2>4, <2>6 DEF LifeInv
  <2>7. CASE o = c
    <3>1. Doing("claim", c)' = {}
      BY <1>1, <2>1, <2>2
    <3>2. Doing("tearDown", c)' = IF claimed THEN {t} ELSE {}
      BY <1>1, <2>1
    <3>3. destroyPending[c] => c \notin handles
      BY <1>1 DEF LifeInv
    <3>4. c \in contexts \ handles => destroyPending[c]
      BY <1>1 DEF LifeInv
    <3> QED BY <1>6, <2>5, <2>7, <3>1, <3>2, <3>3, <3>4
  <2> QED BY <2>6, <2>7
<1>9. s.at = "rest" \/ s.at = "tearDown"
  BY <1>7, RestFacts
<1> QED BY <1>5, <1>6, <1>7, <1>8, <1>9

(* What letting go leaves alone, and what the counts become.                *)
LEMMA LetsGoRest ==
  ASSUME GlxInv, ~scene.together, NEW t \in GlxThreads, NEW c \in contexts,
         NEW current \in 0..1, NEW shares \in 0..1, LetsGo(t, c, current, shares),
         scene' = scene, UNCHANGED <<eglVars, threadVars, surfaceVars>>,
         Doing("tearDown", c) = {}, doing[t].at \in {"uncount", "unshare", "claim"},
         doing[t].ctx = c, current = 1 <=> doing[t].at = "uncount",
         shares = 1 <=> doing[t].at = "unshare",
         currentCount[c] >= current, shareRefs[c] >= shares
  PROVE  GlxInv'
<1>1. /\ GlxTypes /\ StepInv /\ CountInv /\ RefInv /\ LifeInv /\ EglInv /\ RealInv
      /\ BoundInv /\ c \in GLXContexts
  BY DEF GlxInv, GlxTypes
<1>2. /\ UNCHANGED <<contexts, handles, egl, share, sharesEgl, eglContexts, eglCurrent,
                     threadVars, currentContext, currentDrawable, currentDrawSurface,
                     drawableSurfaces, size>>
  BY DEF LetsGo, eglVars, threadVars, surfaceVars
<1>3. /\ LifeInv'
      /\ currentCount' \in [GLXContexts -> Nat] /\ shareRefs' \in [GLXContexts -> Nat]
      /\ destroyPending' \in [GLXContexts -> BOOLEAN]
      /\ \A o \in GLXContexts :
           /\ currentCount'[o] = IF o = c THEN currentCount[c] - current ELSE currentCount[o]
           /\ shareRefs'[o] = IF o = c THEN shareRefs[c] - shares ELSE shareRefs[o]
      /\ \E s \in StepType :
           /\ Goes(t, s) /\ s.for = "none" /\ StepForm(s)
           /\ s.at = "rest" \/ s.at = "tearDown"
  BY LetsGoInv
<1>4. PICK s \in StepType :
        /\ Goes(t, s) /\ s.for = "none" /\ StepForm(s)
        /\ s.at = "rest" \/ s.at = "tearDown"
  BY <1>3
<1>5. GlxTypes'
  <2>1. doing' \in [GlxThreads -> StepType]
    BY <1>4 DEF Goes
  <2> QED BY <1>1, <1>2, <1>3, <2>1 DEF GlxTypes
<1>6. FormOK(t, s) /\ Real(s) /\ ~Counts(s) /\ ~Refers(s)
  BY <1>4 DEF FormOK, Real, OfCurrent, Counts, Refers, Binding
<1>7. StepInv' /\ RealInv'
  BY <1>1, <1>2, <1>4, <1>6, StepFrame, RealFrame
<1>8. EglInv' /\ BoundInv'
  BY <1>1, <1>2, <1>4, EglFrame, BoundFrame
<1>9. CountInv'
  <2> SUFFICES ASSUME NEW o \in GLXContexts
               PROVE  currentCount'[o] = Cardinality(Currents(o)') + Cardinality(Counters(o)')
    BY DEF CountInv
  <2>1. Currents(o)' = Currents(o)
    BY <1>2 DEF Currents
  <2>2. Counters(o)' = Counters(o) \ {t}
    BY <1>4, <1>6, CountersAfter
  <2>3. t \in Counters(o) <=> o = c /\ doing[t].at = "uncount"
    BY DEF Counters, Counts, Binding
  <2>4. /\ currentCount[o] = Cardinality(Currents(o)) + Cardinality(Counters(o))
        /\ Cardinality(Currents(o)) \in Nat /\ Cardinality(Counters(o)) \in Nat
        /\ t \in Counters(o) => Cardinality(Counters(o) \ {t}) = Cardinality(Counters(o)) - 1
        /\ t \notin Counters(o) => Counters(o) \ {t} = Counters(o)
    <3>1. Currents(o) \subseteq GlxThreads /\ Counters(o) \subseteq GlxThreads
      BY DEF Currents, Counters
    <3> QED BY <1>1, <3>1, SetFacts DEF CountInv
  <2>5. current = IF doing[t].at = "uncount" THEN 1 ELSE 0
    OBVIOUS
  <2>6. currentCount'[o] = IF o = c THEN currentCount[o] - current ELSE currentCount[o]
    BY <1>3
  <2>7. CASE t \in Counters(o)
    <3>1. currentCount'[o] = currentCount[o] - 1
      BY <2>3, <2>5, <2>6, <2>7
    <3> QED BY <2>1, <2>2, <2>4, <2>7, <3>1
  <2>8. CASE t \notin Counters(o)
    <3>1. currentCount'[o] = currentCount[o]
      BY <1>1, <2>3, <2>5, <2>6, <2>8 DEF GlxTypes
    <3> QED BY <2>1, <2>2, <2>4, <2>8, <3>1
  <2> QED BY <2>7, <2>8
<1>10. RefInv'
  <2> SUFFICES ASSUME NEW o \in GLXContexts
               PROVE  shareRefs'[o] = Cardinality(Sharers(o)') + Cardinality(Referrers(o)')
    BY DEF RefInv
  <2>1. Sharers(o)' = Sharers(o)
    BY <1>2 DEF Sharers
  <2>2. Referrers(o)' = Referrers(o) \ {t}
    BY <1>4, <1>6, ReferrersAfter
  <2>3. t \in Referrers(o) <=> o = c /\ doing[t].at = "unshare"
    BY DEF Referrers, Refers
  <2>4. /\ shareRefs[o] = Cardinality(Sharers(o)) + Cardinality(Referrers(o))
        /\ Cardinality(Sharers(o)) \in Nat /\ Cardinality(Referrers(o)) \in Nat
        /\ t \in Referrers(o) => Cardinality(Referrers(o) \ {t}) = Cardinality(Referrers(o)) - 1
        /\ t \notin Referrers(o) => Referrers(o) \ {t} = Referrers(o)
    <3>1. Sharers(o) \subseteq GLXContexts /\ Referrers(o) \subseteq GlxThreads
      BY DEF Sharers, Referrers
    <3> QED BY <1>1, <3>1, SetFacts DEF RefInv
  <2>5. shares = IF doing[t].at = "unshare" THEN 1 ELSE 0
    OBVIOUS
  <2>6. shareRefs'[o] = IF o = c THEN shareRefs[o] - shares ELSE shareRefs[o]
    BY <1>3
  <2>7. CASE t \in Referrers(o)
    <3>1. shareRefs'[o] = shareRefs[o] - 1
      BY <2>3, <2>5, <2>6, <2>7
    <3> QED BY <2>1, <2>2, <2>4, <2>7, <3>1
  <2>8. CASE t \notin Referrers(o)
    <3>1. shareRefs'[o] = shareRefs[o]
      BY <1>1, <2>3, <2>5, <2>6, <2>8 DEF GlxTypes
    <3> QED BY <2>1, <2>2, <2>4, <2>8, <3>1
  <2> QED BY <2>7, <2>8
<1> QED BY <1>3, <1>5, <1>7, <1>8, <1>9, <1>10 DEF GlxInv

(* A count given back.                                                      *)
LEMMA UncountInv ==
  ASSUME GlxInv, ~scene.together, NEW t \in GlxThreads, Uncount(t)
  PROVE  GlxInv'
<1>1. /\ doing[t].at = "uncount" /\ scene' = scene /\ LetsGo(t, doing[t].ctx, 1, 0)
      /\ UNCHANGED <<eglVars, threadVars, surfaceVars>>
  BY DEF Uncount, Steps, At
<1> DEFINE c == doing[t].ctx
<1>2. c \in GLXContexts
  BY <1>1, StepFacts DEF FormOK, StepForm
<1>3. t \in Counters(c)
  BY <1>1 DEF Counters, Counts
<1>4. currentCount[c] > 0 /\ currentCount[c] \in Nat /\ shareRefs[c] \in Nat
  BY <1>2, <1>3, HeldFacts, StepFacts DEF GlxTypes
<1>5. c \in contexts /\ Doing("tearDown", c) = {}
  BY <1>2, <1>4, HeldFacts DEF Kept
<1> HIDE DEF c
<1>6. doing[t].ctx = c /\ LetsGo(t, c, 1, 0) /\ 0 \in 0..1 /\ 1 \in 0..1
  BY <1>1 DEF c
<1>7. currentCount[c] >= 1 /\ shareRefs[c] >= 0
  BY <1>4
<1> QED BY <1>1, <1>5, <1>6, <1>7, LetsGoRest

(* A reference given back.                                                  *)
LEMMA UnshareInv ==
  ASSUME GlxInv, ~scene.together, NEW t \in GlxThreads, releaseShareRef(t)
  PROVE  GlxInv'
<1>1. /\ doing[t].at = "unshare" /\ scene' = scene /\ LetsGo(t, doing[t].ctx, 0, 1)
      /\ UNCHANGED <<eglVars, threadVars, surfaceVars>>
  BY DEF releaseShareRef, Steps, At
<1> DEFINE c == doing[t].ctx
<1>2. c \in GLXContexts
  BY <1>1, StepFacts DEF FormOK, StepForm
<1>3. t \in Referrers(c)
  BY <1>1 DEF Referrers, Refers
<1>4. shareRefs[c] > 0 /\ shareRefs[c] \in Nat /\ currentCount[c] \in Nat
  BY <1>2, <1>3, HeldFacts, StepFacts DEF GlxTypes
<1>5. c \in contexts /\ Doing("tearDown", c) = {}
  BY <1>2, <1>4, HeldFacts DEF Kept
<1> HIDE DEF c
<1>6. doing[t].ctx = c /\ LetsGo(t, c, 0, 1) /\ 0 \in 0..1 /\ 1 \in 0..1
  BY <1>1 DEF c
<1>7. currentCount[c] >= 0 /\ shareRefs[c] >= 1
  BY <1>4
<1> QED BY <1>1, <1>5, <1>6, <1>7, LetsGoRest

(* The second look of glXDestroyContext.                                    *)
LEMMA ClaimInv ==
  ASSUME GlxInv, ~scene.together, NEW t \in GlxThreads, ClaimDestroyed(t)
  PROVE  GlxInv'
<1>1. /\ doing[t].at = "claim" /\ scene' = scene /\ LetsGo(t, doing[t].ctx, 0, 0)
      /\ UNCHANGED <<eglVars, threadVars, surfaceVars>>
  BY DEF ClaimDestroyed, Steps, At
<1> DEFINE c == doing[t].ctx
<1>2. c \in GLXContexts
  BY <1>1, StepFacts DEF FormOK, StepForm
<1>3. t \in Doing("claim", c)
  BY <1>1 DEF Doing
<1>4. shareRefs[c] \in Nat /\ currentCount[c] \in Nat
  BY <1>2, StepFacts DEF GlxTypes
<1>5. c \in contexts /\ Doing("tearDown", c) = {}
  BY <1>2, <1>3 DEF GlxInv, LifeInv
<1> HIDE DEF c
<1>6. doing[t].ctx = c /\ LetsGo(t, c, 0, 0) /\ 0 \in 0..1
  BY <1>1 DEF c
<1>7. currentCount[c] >= 0 /\ shareRefs[c] >= 0
  BY <1>4
<1> QED BY <1>1, <1>5, <1>6, <1>7, LetsGoRest

(* The thread's binding goes, and its count is to be given back.            *)
LEMMA UnbindsInv ==
  ASSUME GlxInv, NEW t \in GlxThreads, currentContext[t] # NoContext,
         doing[t].at \in {"rest", "drop"}, scene' = scene, Unbinds(t)
  PROVE  GlxInv'
<1>1. /\ GlxTypes /\ StepInv /\ CountInv /\ RefInv /\ LifeInv /\ EglInv /\ RealInv
      /\ BoundInv
  BY DEF GlxInv
<1>2. /\ UNCHANGED <<contexts, handles, egl, share, sharesEgl, counts, currentCount,
                     shareRefs, destroyPending, eglContexts, drawableSurfaces, size>>
  BY DEF Unbinds, recordVars, counts, surfaceVars
<1>3. currentContext[t] \in GLXContexts
  BY <1>1 DEF GlxTypes
<1>4. PICK s \in StepType :
        Goes(t, s) /\ s.at = "uncount" /\ s.for = "none" /\ s.ctx = currentContext[t]
  <2>1. Fresh(t, "uncount", currentContext[t]) /\ "uncount" \in Labels
    BY DEF Unbinds, Fresh, Labels
  <2> QED BY <1>1, <1>3, <2>1, FreshGoes
<1>5. /\ eglCurrent' \in [GlxThreads -> [egl : Nat, surface : Nat]]
      /\ currentContext' \in [GlxThreads -> GLXContexts \union {NoContext}]
      /\ currentDrawable' \in [GlxThreads -> Drawables \union {NoDrawable}]
      /\ currentDrawSurface' \in [GlxThreads -> Nat]
      /\ eglCurrent'[t] = Unbound /\ currentContext'[t] = NoContext
      /\ currentDrawable'[t] = NoDrawable
      /\ \A u \in GlxThreads \ {t} : /\ eglCurrent'[u] = eglCurrent[u]
                                     /\ currentContext'[u] = currentContext[u]
                                     /\ currentDrawable'[u] = currentDrawable[u]
                                     /\ currentDrawSurface'[u] = currentDrawSurface[u]
  <2>1. Unbound \in [egl : Nat, surface : Nat] /\ NoName \in Nat
    BY DEF Unbound, NoName
  <2> QED BY <1>1, <2>1 DEF Unbinds, GlxTypes
<1>6. GlxTypes'
  <2>1. doing' \in [GlxThreads -> StepType]
    BY <1>4 DEF Goes
  <2> QED BY <1>1, <1>2, <1>5, <2>1 DEF GlxTypes
<1>7. StepForm(s) /\ ~OfCurrent(s) /\ Real(s)
  BY <1>3, <1>4 DEF StepForm, OfCurrent, Real, Binding, Realizes
<1>8. StepInv'
  BY <1>1, <1>4, <1>5, <1>7, StepOwn
<1>9. CountInv'
  <2> SUFFICES ASSUME NEW o \in GLXContexts
               PROVE  currentCount'[o] = Cardinality(Currents(o)') + Cardinality(Counters(o)')
    BY DEF CountInv
  <2>1. Currents(o)' = Currents(o) \ {t}
    BY <1>5, ScenesAssumption DEF Currents
  <2>2. Counters(o)' = (Counters(o) \ {t}) \union (IF o = currentContext[t] THEN {t} ELSE {})
    BY <1>4, CountersAfter DEF Counts
  <2>3. t \notin Counters(o) /\ (t \in Currents(o) <=> o = currentContext[t])
    BY DEF Counters, Counts, Currents, Binding
  <2>4. /\ currentCount[o] = Cardinality(Currents(o)) + Cardinality(Counters(o))
        /\ Cardinality(Currents(o)) \in Nat /\ Cardinality(Counters(o)) \in Nat
        /\ t \in Currents(o) => Cardinality(Currents(o) \ {t}) = Cardinality(Currents(o)) - 1
        /\ t \notin Currents(o) => Currents(o) \ {t} = Currents(o)
        /\ Cardinality(Counters(o) \union {t}) = Cardinality(Counters(o)) + 1
    <3>1. Currents(o) \subseteq GlxThreads /\ Counters(o) \subseteq GlxThreads
      BY DEF Currents, Counters
    <3> QED BY <1>1, <2>3, <3>1, SetFacts DEF CountInv
  <2>5. Counters(o)' = IF o = currentContext[t] THEN Counters(o) \union {t} ELSE Counters(o)
    BY <2>2, <2>3
  <2> QED BY <1>2, <2>1, <2>3, <2>4, <2>5
<1>10. RefInv'
  <2>1. RefersAs(doing[t], s)
    BY <1>1, <1>4 DEF RefersAs, Refers
  <2> QED BY <1>1, <1>2, <1>4, <2>1, RefFrame
<1>11. LifeInv' /\ EglInv'
  BY <1>1, <1>2, <1>4, LifeFrame, EglFrame
<1>12. RealInv'
  BY <1>1, <1>2, <1>4, <1>5, <1>7, RealOwn
<1>13. BoundInv'
  BY <1>1, <1>2, <1>4, <1>5, BoundOwn
<1> QED BY <1>6, <1>8, <1>9, <1>10, <1>11, <1>12, <1>13 DEF GlxInv

(* Dropping what is current, or releasing it.                               *)
LEMMA DropInv ==
  ASSUME GlxInv, NEW t \in GlxThreads, Drop(t) \/ ReleaseCurrent(t)
  PROVE  GlxInv'
<1>1. CASE Drop(t)
  <2>1. doing[t].at = "drop" /\ scene' = scene /\ Unbinds(t)
    BY <1>1 DEF Drop, Steps, At
  <2>2. currentContext[t] # NoContext
    BY <2>1, StepFacts, ScenesAssumption DEF FormOK, StepForm, OfCurrent
  <2> QED BY <2>1, <2>2, UnbindsInv
<1>2. CASE ReleaseCurrent(t)
  BY <1>2, RestFacts, UnbindsInv DEF ReleaseCurrent, Calls
<1> QED BY <1>1, <1>2

-----------------------------------------------------------------------------
(* The first look of glXDestroyContext: the context waits to be let go of.   *)
LEMMA DestroyInv ==
  ASSUME GlxInv, NEW t \in GlxThreads, NEW c \in GLXContexts, glXDestroyContext(t, c)
  PROVE  GlxInv'
<1>1. /\ GlxTypes /\ StepInv /\ CountInv /\ RefInv /\ LifeInv /\ EglInv /\ RealInv
      /\ BoundInv
  BY DEF GlxInv
<1>2. /\ doing[t] = Rest /\ scene' = scene /\ c \in handles /\ handles' = handles \ {c}
      /\ destroyPending' = [destroyPending EXCEPT ![c] = TRUE]
      /\ UNCHANGED <<contexts, egl, share, sharesEgl, currentCount, shareRefs,
                     eglContexts, eglCurrent, threadVars, currentContext,
                     currentDrawSurface, drawableSurfaces, size, currentDrawable>>
  BY DEF glXDestroyContext, Calls, eglVars, threadVars, surfaceVars
<1> DEFINE label == IF currentContext[t] = c THEN "drop" ELSE "claim"
<1>3. PICK s \in StepType : Goes(t, s) /\ s.at = label /\ s.for = "none" /\ s.ctx = c
  <2>1. Fresh(t, label, c) /\ label \in Labels
    BY DEF glXDestroyContext, Fresh, Labels
  <2> HIDE DEF label
  <2> QED BY <1>1, <2>1, FreshGoes
<1>4. /\ destroyPending' \in [GLXContexts -> BOOLEAN] /\ destroyPending'[c]
      /\ \A o \in GLXContexts \ {c} : destroyPending'[o] = destroyPending[o]
  BY <1>1, <1>2 DEF GlxTypes
<1>5. GlxTypes'
  <2>1. doing' \in [GlxThreads -> StepType]
    BY <1>3 DEF Goes
  <2> QED BY <1>1, <1>2, <1>4, <2>1 DEF GlxTypes
<1>6. FormOK(t, s) /\ Real(s) /\ ~Counts(s) /\ ~Refers(s)
  BY <1>3 DEF FormOK, StepForm, Real, OfCurrent, Counts, Refers, Binding, Realizes
<1>7. CountsAs(doing[t], s) /\ RefersAs(doing[t], s)
  BY <1>2, <1>6, RestFacts DEF CountsAs, RefersAs
<1>8. StepInv' /\ RealInv'
  BY <1>1, <1>2, <1>3, <1>6, StepFrame, RealFrame
<1>9. CountInv' /\ RefInv'
  BY <1>1, <1>2, <1>3, <1>7, CountFrame, RefFrame
<1>10. EglInv' /\ BoundInv'
  <2>1. {"store", "install"} \intersect {doing[t].at, s.at} = {}
    BY <1>2, <1>3, RestFacts
  <2> QED BY <1>1, <1>2, <1>3, <2>1, EglFrame, BoundFrame
<1>11. LifeInv'
  <2>1. \A o \in GLXContexts :
          /\ Doing("tearDown", o)' = Doing("tearDown", o)
          /\ Doing("claim", o)' = Doing("claim", o)
                                    \union (IF label = "claim" /\ o = c THEN {t} ELSE {})
    <3> SUFFICES ASSUME NEW o \in GLXContexts
                 PROVE  /\ Doing("tearDown", o)' = Doing("tearDown", o)
                        /\ Doing("claim", o)' = Doing("claim", o)
                                    \union (IF label = "claim" /\ o = c THEN {t} ELSE {})
      OBVIOUS
    <3>1. t \notin Doing("tearDown", o) /\ t \notin Doing("claim", o)
      BY <1>2, RestFacts DEF Doing
    <3>2. /\ s.at = "claim" /\ s.ctx = o <=> label = "claim" /\ o = c
          /\ s.at # "tearDown"
      BY <1>3
    <3> QED BY <1>3, <3>1, <3>2, DoingAfter
  <2>2. \A o \in GLXContexts : Kept(o)' = Kept(o)
    BY <1>2 DEF Kept
  <2>3. label # "claim" => Kept(c)
    <3>1. label # "claim" => t \in Currents(c)
      BY DEF Currents
    <3> QED BY <3>1, HeldFacts DEF Kept
  <2>4. c \in contexts /\ ~destroyPending[c] /\ Doing("tearDown", c) = {}
    BY <1>1, <1>2 DEF GlxTypes, LifeInv
  <2> HIDE DEF label
  <2> SUFFICES ASSUME NEW o \in GLXContexts
               PROVE  /\ o \notin contexts => egl[o] = NoName /\ share[o] = NoContext
                                 /\ ~Kept(o) /\ ~destroyPending'[o] /\ Doing("tearDown", o) = {}
                      /\ o \in handles \ {c} => ~destroyPending'[o] /\ Doing("tearDown", o) = {}
                      /\ destroyPending'[o] => Kept(o) \/ Doing("claim", o)' # {}
                      /\ Doing("tearDown", o) # {} => ~Kept(o) /\ ~destroyPending'[o]
                      /\ Doing("claim", o)' # {} => destroyPending'[o]
                      /\ o \in contexts \ (handles \ {c})
                           => destroyPending'[o] \/ Doing("tearDown", o) # {}
                      /\ \A u, v \in Doing("tearDown", o) : u = v
    BY <1>2, <2>1, <2>2 DEF LifeInv
  <2>5. CASE o = c
    <3>1. Kept(c) \/ Doing("claim", c)' # {}
      BY <2>1, <2>3
    <3> QED BY <1>4, <2>4, <2>5, <3>1
  <2>6. CASE o # c
    BY <1>1, <1>4, <2>1, <2>6 DEF LifeInv
  <2> QED BY <2>5, <2>6
<1> QED BY <1>5, <1>8, <1>9, <1>10, <1>11 DEF GlxInv

(* Who refers to a context that is torn down?  Nobody.                      *)
LEMMA TornDown ==
  ASSUME GlxInv, NEW c \in GLXContexts, Doing("tearDown", c) # {}
  PROVE  /\ c \notin handles /\ ~destroyPending[c] /\ ~Kept(c) /\ Doing("claim", c) = {}
         /\ \A t \in GlxThreads :
              /\ currentContext[t] # c
              /\ doing[t].ctx = c => doing[t].at \in {"rest", "tearDown"}
         /\ \A o \in GLXContexts : share[o] # c
<1>1. /\ c \notin handles /\ ~destroyPending[c] /\ ~Kept(c) /\ Doing("claim", c) = {}
  BY DEF GlxInv, LifeInv
<1>2. /\ Currents(c) = {} /\ Counters(c) = {} /\ Sharers(c) = {} /\ Referrers(c) = {}
  BY <1>1, HeldFacts DEF Kept
<1>3. \A t \in GlxThreads : currentContext[t] # c
  BY <1>2 DEF Currents
<1>4. ASSUME NEW t \in GlxThreads, doing[t].ctx = c PROVE doing[t].at \in {"rest", "tearDown"}
  <2>1. ~Counts(doing[t]) /\ ~Refers(doing[t]) /\ doing[t].at # "claim"
    BY <1>1, <1>2, <1>4 DEF Counters, Referrers, Doing
  <2>2. ~OfCurrent(doing[t])
    BY <1>3, <1>4, StepFacts DEF FormOK
  <2>3. doing[t].at \in Labels /\ StepForm(doing[t])
    BY StepFacts, StepTypes DEF FormOK
  <2> QED BY <2>1, <2>2, <2>3 DEF Labels, Binding, Counts, Refers, OfCurrent, StepForm, Realizes
<1>5. \A o \in GLXContexts : share[o] # c
  BY <1>2 DEF Sharers
<1> QED BY <1>1, <1>3, <1>4, <1>5

(* The teardown.                                                            *)
LEMMA TearDownInv ==
  ASSUME GlxInv, NEW t \in GlxThreads, tearDownContextChain(t)
  PROVE  GlxInv'
<1>1. /\ GlxTypes /\ StepInv /\ CountInv /\ RefInv /\ LifeInv /\ EglInv /\ RealInv
      /\ BoundInv
  BY DEF GlxInv
<1> DEFINE c == doing[t].ctx
<1>2. /\ doing[t].at = "tearDown" /\ scene' = scene
      /\ eglContexts' = eglContexts \ {egl[c]} /\ contexts' = contexts \ {c}
      /\ egl' = [egl EXCEPT ![c] = NoName] /\ share' = [share EXCEPT ![c] = NoContext]
      /\ sharesEgl' = [sharesEgl EXCEPT ![c] = NoName]
      /\ UNCHANGED <<handles, counts, currentCount, shareRefs, destroyPending, eglCurrent,
                     threadVars, currentContext, currentDrawable, currentDrawSurface,
                     drawableSurfaces, size>>
  BY DEF tearDownContextChain, Steps, At, counts, threadVars, surfaceVars
<1>3. c \in GLXContexts /\ t \in Doing("tearDown", c)
  BY <1>2, StepFacts DEF FormOK, StepForm, Doing
<1>4. /\ c \notin handles /\ ~destroyPending[c] /\ ~Kept(c) /\ Doing("claim", c) = {}
      /\ \A u \in GlxThreads :
           /\ currentContext[u] # c
           /\ doing[u].ctx = c => doing[u].at \in {"rest", "tearDown"}
      /\ \A o \in GLXContexts : share[o] # c
  BY <1>3, TornDown
<1>5. c \in contexts
  BY <1>1, <1>3 DEF LifeInv
<1>6. PICK s \in StepType :
        /\ Goes(t, s) /\ s.for = "none" /\ StepForm(s)
        /\ IF share[c] = NoContext THEN s = Rest ELSE s.at = "unshare" /\ s.ctx = share[c]
  <2>1. CASE share[c] = NoContext
    <3>1. Moves(t, Rest)
      BY <2>1 DEF tearDownContextChain
    <3> QED BY <1>1, <2>1, <3>1, MovesGoes, StepTypes, RestFacts
  <2>2. CASE share[c] # NoContext
    <3>1. Fresh(t, "unshare", share[c]) /\ "unshare" \in Labels
      BY <2>2 DEF tearDownContextChain, Fresh, Labels
    <3>2. share[c] \in GLXContexts
      BY <1>1, <1>3, <2>2 DEF GlxTypes
    <3>3. PICK s \in StepType :
            Goes(t, s) /\ s.at = "unshare" /\ s.for = "none" /\ s.ctx = share[c]
      BY <1>1, <3>1, <3>2, FreshGoes
    <3>4. StepForm(s)
      BY <3>2, <3>3 DEF StepForm, Binding, Realizes
    <3> QED BY <2>2, <3>3, <3>4
  <2> QED BY <2>1, <2>2
<1> HIDE DEF c
<1>7. /\ egl' \in [GLXContexts -> Nat] /\ sharesEgl' \in [GLXContexts -> Nat]
      /\ share' \in [GLXContexts -> GLXContexts \union {NoContext}]
      /\ egl'[c] = NoName /\ share'[c] = NoContext
      /\ \A o \in GLXContexts \ {c} : /\ egl'[o] = egl[o] /\ sharesEgl'[o] = sharesEgl[o]
                                      /\ share'[o] = share[o]
  BY <1>1, <1>2, <1>3 DEF GlxTypes, NoName
<1>8. GlxTypes'
  <2>1. doing' \in [GlxThreads -> StepType]
    BY <1>6 DEF Goes
  <2>2. eglContexts' \subseteq Nat /\ IsFiniteSet(eglContexts')
    BY <1>1, <1>2, FS_RemoveElement DEF GlxTypes
  <2>3. contexts' \subseteq GLXContexts /\ handles' \subseteq contexts'
    BY <1>1, <1>2, <1>4 DEF GlxTypes
  <2> QED BY <1>1, <1>2, <1>7, <2>1, <2>2, <2>3 DEF GlxTypes
<1>9. s.at = "rest" \/ s.at = "unshare"
  BY <1>6, RestFacts
<1>10. FormOK(t, s) /\ ~Counts(s) /\ (s.at = "unshare" <=> Refers(s))
  BY <1>6, <1>9 DEF FormOK, OfCurrent, Counts, Refers, Binding
<1>11. StepInv'
  BY <1>1, <1>2, <1>6, <1>10, StepFrame
<1>12. CountInv'
  <2>1. CountsAs(doing[t], s)
    BY <1>2, <1>10 DEF CountsAs, Counts, Binding
  <2> QED BY <1>1, <1>2, <1>6, <2>1, CountFrame
<1>13. RefInv'
  <2> SUFFICES ASSUME NEW o \in GLXContexts
               PROVE  shareRefs[o] = Cardinality(Sharers(o)') + Cardinality(Referrers(o)')
    BY <1>2 DEF RefInv
  <2>1. Sharers(o)' = Sharers(o) \ {c}
    BY <1>3, <1>7, ScenesAssumption DEF Sharers
  <2>2. Referrers(o)' = (Referrers(o) \ {t}) \union (IF o = share[c] THEN {t} ELSE {})
    <3>1. s.ctx = o /\ Refers(s) <=> o = share[c]
      BY <1>6, <1>10, RestFacts, ScenesAssumption
    <3> QED BY <1>6, <3>1, ReferrersAfter
  <2>3. t \notin Referrers(o) /\ (c \in Sharers(o) <=> o = share[c])
    BY <1>2, <1>3 DEF Referrers, Refers, Sharers
  <2>4. /\ shareRefs[o] = Cardinality(Sharers(o)) + Cardinality(Referrers(o))
        /\ Cardinality(Sharers(o)) \in Nat /\ Cardinality(Referrers(o)) \in Nat
        /\ c \in Sharers(o) => Cardinality(Sharers(o) \ {c}) = Cardinality(Sharers(o)) - 1
        /\ c \notin Sharers(o) => Sharers(o) \ {c} = Sharers(o)
        /\ Cardinality(Referrers(o) \union {t}) = Cardinality(Referrers(o)) + 1
    <3>1. Sharers(o) \subseteq GLXContexts /\ Referrers(o) \subseteq GlxThreads
      BY DEF Sharers, Referrers
    <3> QED BY <1>1, <2>3, <3>1, SetFacts DEF RefInv
  <2>5. Referrers(o)' = IF o = share[c] THEN Referrers(o) \union {t} ELSE Referrers(o)
    BY <2>2, <2>3
  <2> QED BY <2>1, <2>3, <2>4, <2>5
<1>14. LifeInv'
  <2>1. \A o \in GLXContexts :
          /\ Doing("tearDown", o)' = IF o = c THEN {} ELSE Doing("tearDown", o)
          /\ Doing("claim", o)' = Doing("claim", o)
    <3> SUFFICES ASSUME NEW o \in GLXContexts
                 PROVE  /\ Doing("tearDown", o)' = IF o = c THEN {} ELSE Doing("tearDown", o)
                        /\ Doing("claim", o)' = Doing("claim", o)
      OBVIOUS
    <3>1. t \notin Doing("claim", o) /\ (t \in Doing("tearDown", o) <=> o = c)
      BY <1>2, <1>3 DEF Doing, c
    <3>2. s.at \notin {"claim", "tearDown"}
      BY <1>9
    <3>3. Doing("tearDown", c) = {t}
      BY <1>1, <1>3 DEF LifeInv
    <3>4. /\ Doing("tearDown", o)' = Doing("tearDown", o) \ {t}
          /\ Doing("claim", o)' = Doing("claim", o) \ {t}
      BY <1>6, <3>2, DoingAfter
    <3> QED BY <3>1, <3>3, <3>4
  <2>2. \A o \in GLXContexts : Kept(o)' = Kept(o)
    BY <1>2 DEF Kept
  <2> SUFFICES ASSUME NEW o \in GLXContexts
               PROVE  /\ o \notin contexts \ {c} => egl'[o] = NoName /\ share'[o] = NoContext
                           /\ ~Kept(o) /\ ~destroyPending[o] /\ Doing("tearDown", o)' = {}
                      /\ o \in handles => ~destroyPending[o] /\ Doing("tearDown", o)' = {}
                      /\ destroyPending[o] => Kept(o) \/ Doing("claim", o) # {}
                      /\ Doing("tearDown", o)' # {} => ~Kept(o) /\ ~destroyPending[o]
                      /\ Doing("claim", o) # {} => destroyPending[o]
                      /\ o \in (contexts \ {c}) \ handles
                           => destroyPending[o] \/ Doing("tearDown", o)' # {}
                      /\ \A u, v \in Doing("tearDown", o)' : u = v
    BY <1>2, <2>1, <2>2 DEF LifeInv
  <2>3. CASE o = c
    BY <1>4, <1>7, <2>1, <2>3
  <2>4. CASE o # c
    BY <1>1, <1>7, <2>1, <2>4 DEF LifeInv
  <2> QED BY <2>3, <2>4
<1>15. EglInv'
  <2>1. Storing' = Storing /\ \A u \in Storing : doing'[u] = doing[u] /\ doing[u].ctx # c
    <3>1. s.at # "store" /\ t \notin Storing
      BY <1>2, <1>9 DEF Storing
    <3> QED BY <1>4, <1>6, <3>1 DEF Storing, Goes
  <2>2. \A u \in Storing : doing[u].ctx \in GLXContexts
    BY StepFacts DEF Storing, FormOK, StepForm
  <2>3. \A u \in Storing : doing[u].name # NoName
    BY <1>1 DEF EglInv
  <2>4. \A e \in eglContexts \ {egl[c]} : \/ \E o \in GLXContexts : egl'[o] = e
                                          \/ \E u \in Storing : doing[u].name = e
    BY <1>1, <1>7 DEF EglInv
  <2>5. \A o \in GLXContexts : egl'[o] \in (eglContexts \ {egl[c]}) \union {NoName}
    BY <1>1, <1>3, <1>7 DEF EglInv
  <2>6. \A o, x \in GLXContexts : egl'[o] = egl'[x] /\ egl'[o] # NoName => o = x
    BY <1>1, <1>3, <1>7 DEF EglInv
  <2>7. \A u \in Storing : /\ egl'[doing[u].ctx] = NoName
                           /\ doing[u].name \in eglContexts \ {egl[c]}
    BY <1>1, <1>3, <1>7, <2>1, <2>2 DEF EglInv
  <2>8. \A u \in Storing, o \in GLXContexts : egl'[o] # doing[u].name
    BY <1>1, <1>7, <2>3 DEF EglInv
  <2> QED BY <1>1, <1>2, <2>1, <2>4, <2>5, <2>6, <2>7, <2>8 DEF EglInv
<1>16. RealInv'
  <2>1. \A o \in GLXContexts : share'[o] # NoContext =>
          egl'[share'[o]] # NoName /\ sharesEgl'[o] = egl'[share'[o]]
    BY <1>1, <1>4, <1>7 DEF RealInv, GlxTypes
  <2>2. \A u \in GlxThreads : currentContext[u] # NoContext => egl'[currentContext[u]] # NoName
    BY <1>1, <1>4, <1>7 DEF RealInv, GlxTypes
  <2>3. ASSUME NEW u \in GlxThreads, doing'[u].at \in Binding \union {"install", "create"},
               doing'[u].ctx # NoContext
        PROVE  egl'[doing'[u].ctx] # NoName
    <3>1. u # t
      BY <1>6, <1>9, <2>3 DEF Goes, Binding
    <3>2. doing'[u] = doing[u]
      BY <1>6, <3>1 DEF Goes
    <3>3. doing[u].ctx # c /\ doing[u].ctx \in GLXContexts
      BY <1>4, <2>3, <3>2, StepFacts, StepTypes DEF Binding
    <3>4. egl[doing[u].ctx] # NoName
      BY <1>1, <2>3, <3>2 DEF RealInv
    <3> QED BY <1>7, <3>2, <3>3, <3>4
  <2> QED BY <1>2, <2>1, <2>2, <2>3 DEF RealInv
<1>17. BoundInv'
  <2> SUFFICES ASSUME NEW u \in GlxThreads
               PROVE  eglCurrent[u] =
                        IF doing'[u].at = "install"
                          THEN [egl |-> egl'[doing'[u].ctx], surface |-> doing'[u].name]
                        ELSE IF currentContext[u] = NoContext THEN Unbound
                        ELSE [egl |-> egl'[currentContext[u]],
                              surface |-> currentDrawSurface[u]]
    BY <1>2 DEF BoundInv
  <2>1. currentContext[u] # NoContext => egl'[currentContext[u]] = egl[currentContext[u]]
    BY <1>1, <1>4, <1>7 DEF GlxTypes
  <2>2. CASE u = t
    BY <1>1, <1>2, <1>6, <1>9, <2>1, <2>2 DEF Goes, BoundInv
  <2>3. CASE u # t
    <3>1. doing'[u] = doing[u]
      BY <1>6, <2>3 DEF Goes
    <3>2. doing[u].at = "install" => egl'[doing[u].ctx] = egl[doing[u].ctx]
      <4>1. doing[u].at = "install" => doing[u].ctx # c /\ doing[u].ctx \in GLXContexts
        BY <1>4, StepFacts DEF FormOK, StepForm
      <4> QED BY <1>7, <4>1
    <3> QED BY <1>1, <2>1, <3>1, <3>2 DEF BoundInv
  <2> QED BY <2>2, <2>3
<1> QED BY <1>8, <1>11, <1>12, <1>13, <1>14, <1>15, <1>16, <1>17 DEF GlxInv

-----------------------------------------------------------------------------
(* A context gets its EGL context: what was realized is left as it was.     *)
Grows ==
  /\ egl' \in [GLXContexts -> Nat]
  /\ \A c \in GLXContexts : egl[c] # NoName => egl'[c] = egl[c]
LEMMA RealGrows ==
  ASSUME GlxInv, NEW t \in GlxThreads, NEW s \in StepType, Goes(t, s), Grows,
         currentContext' = currentContext,
         \A o \in GLXContexts : share'[o] # NoContext =>
           egl'[share'[o]] # NoName /\ sharesEgl'[o] = egl'[share'[o]],
         s.at \in Binding \union {"install", "create"} /\ s.ctx # NoContext
           => egl'[s.ctx] # NoName
  PROVE  RealInv'
<1>1. ASSUME NEW u \in GlxThreads, currentContext[u] # NoContext
      PROVE  egl'[currentContext[u]] # NoName
  <2>1. currentContext[u] \in GLXContexts /\ egl[currentContext[u]] # NoName
    BY <1>1 DEF GlxInv, GlxTypes, RealInv
  <2> QED BY <2>1 DEF Grows
<1>2. ASSUME NEW u \in GlxThreads, doing'[u].at \in Binding \union {"install", "create"},
             doing'[u].ctx # NoContext
      PROVE  egl'[doing'[u].ctx] # NoName
  <2>1. CASE u = t
    BY <1>2, <2>1 DEF Goes
  <2>2. CASE u # t
    <3>1. doing'[u] = doing[u]
      BY <2>2 DEF Goes
    <3>2. egl[doing[u].ctx] # NoName /\ doing[u].ctx \in GLXContexts
      BY <1>2, <3>1, StepFacts, StepTypes DEF Real
    <3> QED BY <3>1, <3>2 DEF Grows
  <2> QED BY <2>1, <2>2
<1> QED BY <1>1, <1>2 DEF RealInv

(* So what is bound stays bound to the same.                                *)
LEMMA BoundGrows ==
  ASSUME GlxInv, NEW t \in GlxThreads, NEW s \in StepType, Goes(t, s), Grows,
         UNCHANGED <<eglCurrent, currentContext, currentDrawSurface>>,
         "install" \notin {doing[t].at, s.at}
  PROVE  BoundInv'
<1> SUFFICES ASSUME NEW u \in GlxThreads
             PROVE  eglCurrent[u] =
                      IF doing'[u].at = "install"
                        THEN [egl |-> egl'[doing'[u].ctx], surface |-> doing'[u].name]
                      ELSE IF currentContext[u] = NoContext THEN Unbound
                      ELSE [egl |-> egl'[currentContext[u]], surface |-> currentDrawSurface[u]]
  BY DEF BoundInv
<1>1. BoundInv
  BY DEF GlxInv
<1>2. currentContext[u] # NoContext => egl'[currentContext[u]] = egl[currentContext[u]]
  <2>1. currentContext[u] # NoContext =>
          currentContext[u] \in GLXContexts /\ egl[currentContext[u]] # NoName
    BY DEF GlxInv, GlxTypes, RealInv
  <2> QED BY <2>1 DEF Grows
<1>3. CASE u = t
  BY <1>1, <1>2, <1>3 DEF Goes, BoundInv
<1>4. CASE u # t
  <2>1. doing'[u] = doing[u]
    BY <1>4 DEF Goes
  <2>2. doing[u].at = "install" => egl'[doing[u].ctx] = egl[doing[u].ctx]
    <3>1. doing[u].at = "install" => egl[doing[u].ctx] # NoName /\ doing[u].ctx \in GLXContexts
      BY StepFacts, ScenesAssumption DEF FormOK, StepForm, Real
    <3> QED BY <3>1 DEF Grows
  <2> QED BY <1>1, <1>2, <2>1, <2>2 DEF BoundInv
<1> QED BY <1>3, <1>4

(* Making a context from a visual.                                          *)
LEMMA CreateInv ==
  ASSUME GlxInv, NEW t \in GlxThreads, glXCreateContext(t)
  PROVE  GlxInv'
<1>1. /\ GlxTypes /\ StepInv /\ CountInv /\ RefInv /\ LifeInv /\ EglInv /\ RealInv
      /\ BoundInv
  BY DEF GlxInv
<1> DEFINE c == Calloc
<1>2. /\ contexts' = contexts \union {c} /\ handles' = handles \union {c}
      /\ UNCHANGED <<scene, egl, share, sharesEgl, counts, currentCount, shareRefs,
                     destroyPending, eglContexts, eglCurrent, currentContext,
                     currentDrawable, currentDrawSurface, drawableSurfaces, size, doing>>
  BY DEF glXCreateContext, Calls, counts, eglVars, threadVars, surfaceVars
<1>3. c \in GLXContexts /\ c \notin contexts
  BY <1>1 DEF glXCreateContext, Calloc, GlxTypes
<1> HIDE DEF c
<1>4. GlxTypes'
  BY <1>1, <1>2, <1>3 DEF GlxTypes
<1>5. StepInv' /\ EglInv' /\ RealInv' /\ BoundInv'
  BY <1>1, <1>2 DEF StepInv, StepForm, OfCurrent, EglInv, Storing, RealInv, BoundInv
<1>6. \A o \in GLXContexts :
        /\ Currents(o)' = Currents(o) /\ Counters(o)' = Counters(o)
        /\ Sharers(o)' = Sharers(o) /\ Referrers(o)' = Referrers(o)
        /\ \A label : Doing(label, o)' = Doing(label, o)
        /\ Kept(o)' = Kept(o)
  BY <1>2 DEF Currents, Counters, Counts, Sharers, Referrers, Refers, Doing, Kept
<1>7. CountInv' /\ RefInv'
  BY <1>1, <1>2, <1>6 DEF CountInv, RefInv
<1>8. LifeInv'
  BY <1>1, <1>2, <1>3, <1>6 DEF LifeInv
<1> QED BY <1>4, <1>5, <1>7, <1>8 DEF GlxInv

(* Making one that shares: the reference comes first.                       *)
LEMMA CreateFromInv ==
  ASSUME GlxInv, NEW t \in GlxThreads, NEW c \in GLXContexts \union {NoContext},
         createContextFromConfig(t, c)
  PROVE  GlxInv'
<1>1. /\ GlxTypes /\ StepInv /\ CountInv /\ RefInv /\ LifeInv /\ EglInv /\ RealInv
      /\ BoundInv
  BY DEF GlxInv
<1>2. /\ doing[t] = Rest /\ c \in handles \union {NoContext}
      /\ UNCHANGED <<scene, contexts, handles, egl, share, sharesEgl, currentCount,
                     destroyPending, eglVars, threadVars, eglContexts, eglCurrent,
                     currentContext, currentDrawable, currentDrawSurface,
                     drawableSurfaces, size>>
  BY DEF createContextFromConfig, Calls, eglVars, threadVars, surfaceVars
<1>3. CASE c = NoContext
  <2>1. /\ UNCHANGED <<recordVars, shareRefs>>
        /\ Moves(t, [Rest EXCEPT !.at = "create"])
    BY <1>2, <1>3 DEF createContextFromConfig, recordVars, counts
  <2>2. PICK s \in StepType :
          Goes(t, s) /\ s.at = "create" /\ s.for = "none" /\ s.ctx = NoContext
    <3> DEFINE r == [Rest EXCEPT !.at = "create"]
    <3>1. "create" \in Labels
      BY DEF Labels
    <3>2. ASSUME NEW i \in StepType
          PROVE  LET k == [i EXCEPT !.at = "create"]
                 IN  k \in StepType /\ k.at = "create" /\ k.for = i.for /\ k.ctx = i.ctx
      BY <3>1 DEF StepType
    <3>3. r \in StepType /\ r.at = "create" /\ r.for = Rest.for /\ r.ctx = Rest.ctx
      BY <3>2, StepTypes
    <3>4. Moves(t, r)
      BY <2>1
    <3> HIDE DEF r
    <3> QED BY <1>1, <3>3, <3>4, MovesGoes, RestFacts
  <2>3. CountsAs(doing[t], s) /\ RefersAs(doing[t], s)
    BY <1>2, <2>2, RestFacts, ScenesAssumption DEF CountsAs, RefersAs, Counts, Binding
  <2>4. FormOK(t, s) /\ Real(s)
    BY <2>2 DEF FormOK, StepForm, OfCurrent, Real, Binding, Realizes
  <2>5. {doing[t].at, s.at} \intersect {"claim", "tearDown", "store", "install"} = {}
    BY <1>2, <2>2, RestFacts
  <2>6. /\ drawableSurfaces' \in [Drawables -> [surface : Nat, size : Nat]]
        /\ size' \in [Drawables -> 1..2]
    BY <1>1, <1>2 DEF GlxTypes
  <2> QED BY <1>2, <2>1, <2>2, <2>3, <2>4, <2>5, <2>6, GoesOn
<1>4. CASE c # NoContext
  <2>1. c \in handles /\ c \in GLXContexts
    BY <1>2, <1>4
  <2>2. shareRefs' = [shareRefs EXCEPT ![c] = @ + 1]
    BY <1>4 DEF createContextFromConfig
  <2>3. PICK s \in StepType :
          Goes(t, s) /\ s.at = "realize" /\ s.for = "create" /\ s.ctx = c
    <3>1. "realize" \in Labels
      BY DEF Labels
    <3> DEFINE r == [Rest EXCEPT !.at = "realize", !.for = "create", !.ctx = c]
    <3>2. ASSUME NEW i \in StepType
          PROVE  LET k == [i EXCEPT !.at = "realize", !.for = "create", !.ctx = c]
                 IN  k \in StepType /\ k.at = "realize" /\ k.for = "create" /\ k.ctx = c
      BY <3>1 DEF StepType
    <3>3. r \in StepType /\ r.at = "realize" /\ r.for = "create" /\ r.ctx = c
      BY <3>2, StepTypes
    <3>4. Moves(t, r)
      BY <1>4 DEF createContextFromConfig
    <3> HIDE DEF r
    <3> QED BY <1>1, <3>3, <3>4, MovesGoes
  <2>4. /\ shareRefs' \in [GLXContexts -> Nat] /\ shareRefs'[c] = shareRefs[c] + 1
        /\ \A o \in GLXContexts \ {c} : shareRefs'[o] = shareRefs[o]
    BY <1>1, <2>1, <2>2 DEF GlxTypes
  <2>5. GlxTypes'
    <3>1. doing' \in [GlxThreads -> StepType]
      BY <2>3 DEF Goes
    <3> QED BY <1>1, <1>2, <2>4, <3>1 DEF GlxTypes
  <2>6. FormOK(t, s) /\ Real(s) /\ ~Counts(s) /\ Refers(s)
    BY <2>1, <2>3 DEF FormOK, StepForm, OfCurrent, Real, Counts, Refers, Binding, Realizes
  <2>7. StepInv' /\ RealInv'
    BY <1>1, <1>2, <2>3, <2>6, StepFrame, RealFrame
  <2>8. EglInv' /\ BoundInv'
    <3>1. {"store", "install"} \intersect {doing[t].at, s.at} = {}
      BY <1>2, <2>3, RestFacts
    <3> QED BY <1>1, <1>2, <2>3, <3>1, EglFrame, BoundFrame
  <2>9. CountInv'
    <3>1. CountsAs(doing[t], s)
      BY <1>2, <2>6, RestFacts DEF CountsAs
    <3> QED BY <1>1, <1>2, <2>3, <3>1, CountFrame
  <2>10. RefInv'
    <3> SUFFICES ASSUME NEW o \in GLXContexts
                 PROVE  shareRefs'[o] = Cardinality(Sharers(o)') + Cardinality(Referrers(o)')
      BY DEF RefInv
    <3>1. Sharers(o)' = Sharers(o)
      BY <1>2 DEF Sharers
    <3>2. t \notin Referrers(o)
      BY <1>2, RestFacts DEF Referrers
    <3>3. Referrers(o)' = IF o = c THEN Referrers(o) \union {t} ELSE Referrers(o)
      BY <2>3, <2>6, <3>2, ReferrersAfter
    <3>4. /\ shareRefs[o] = Cardinality(Sharers(o)) + Cardinality(Referrers(o))
          /\ Cardinality(Sharers(o)) \in Nat /\ Cardinality(Referrers(o)) \in Nat
          /\ Cardinality(Referrers(o) \union {t}) = Cardinality(Referrers(o)) + 1
      <4>1. Sharers(o) \subseteq GLXContexts /\ Referrers(o) \subseteq GlxThreads
        BY DEF Sharers, Referrers
      <4> QED BY <1>1, <3>2, <4>1, SetFacts DEF RefInv
    <3>5. shareRefs'[o] = IF o = c THEN shareRefs[o] + 1 ELSE shareRefs[o]
      BY <2>4
    <3> QED BY <3>1, <3>3, <3>4, <3>5
  <2>11. LifeInv'
    <3>1. \A o \in GLXContexts, label \in {"claim", "tearDown"} :
            Doing(label, o)' = Doing(label, o)
      <4> SUFFICES ASSUME NEW o \in GLXContexts, NEW label \in {"claim", "tearDown"}
                   PROVE  Doing(label, o)' = Doing(label, o)
        OBVIOUS
      <4>1. t \notin Doing(label, o) /\ s.at # label
        BY <1>2, <2>3, RestFacts DEF Doing
      <4> QED BY <2>3, <4>1, DoingAfter
    <3>2. \A o \in GLXContexts \ {c} : Kept(o)' = Kept(o)
      BY <1>2, <2>4 DEF Kept
    <3>3. c \in contexts /\ ~destroyPending[c] /\ Doing("tearDown", c) = {}
      BY <1>1, <2>1 DEF LifeInv, GlxTypes
    <3> QED BY <1>1, <1>2, <2>1, <3>1, <3>2, <3>3 DEF LifeInv
  <2> QED BY <2>5, <2>7, <2>8, <2>9, <2>10, <2>11 DEF GlxInv
<1> QED BY <1>3, <1>4

(* A new name is nobody's.                                                  *)
LEMMA NewNameUnused ==
  ASSUME GlxInv
  PROVE  /\ NewName \in Nat /\ NewName # NoName /\ NewName \notin eglContexts
         /\ \A c \in GLXContexts : egl[c] # NewName
         /\ \A t \in GlxThreads : doing[t].name # NewName
<1>1. NewName \in Nat /\ NewName \notin InUse
  BY NewNameIsNew DEF GlxInv
<1>2. NewName # NoName /\ NewName \notin eglContexts /\ \A t \in GlxThreads : doing[t].name # NewName
  BY <1>1 DEF InUse
<1>3. \A c \in GLXContexts : egl[c] # NewName
  BY <1>2 DEF GlxInv, EglInv
<1> QED BY <1>1, <1>2, <1>3

(* The EGL context of the new context.                                      *)
LEMMA CreateEglInv ==
  ASSUME GlxInv, NEW t \in GlxThreads, createEglContext(t)
  PROVE  GlxInv'
<1>1. /\ GlxTypes /\ StepInv /\ CountInv /\ RefInv /\ LifeInv /\ EglInv /\ RealInv
      /\ BoundInv
  BY DEF GlxInv
<1> DEFINE c == Calloc
           o == doing[t].ctx
           n == NewName
<1>2. /\ doing[t].at = "create" /\ scene' = scene
      /\ eglContexts' = eglContexts \union {n}
      /\ contexts' = contexts \union {c} /\ handles' = handles \union {c}
      /\ egl' = [egl EXCEPT ![c] = n] /\ share' = [share EXCEPT ![c] = o]
      /\ sharesEgl' = [sharesEgl EXCEPT ![c] = IF o = NoContext THEN NoName ELSE egl[o]]
      /\ Moves(t, Rest)
      /\ UNCHANGED <<counts, currentCount, shareRefs, destroyPending, eglCurrent,
                     threadVars, currentContext, currentDrawable, currentDrawSurface,
                     drawableSurfaces, size>>
  BY DEF createEglContext, Steps, At, counts, threadVars, surfaceVars
<1>3. c \in GLXContexts /\ c \notin contexts
  BY <1>1 DEF createEglContext, Calloc, GlxTypes
<1>4. o \in GLXContexts \union {NoContext} /\ (o # NoContext => egl[o] # NoName)
  BY <1>2, StepFacts, StepTypes DEF Real
<1>5. /\ n \in Nat /\ n # NoName /\ n \notin eglContexts
      /\ \A x \in GLXContexts : egl[x] # n
      /\ \A u \in GlxThreads : doing[u].name # n
  BY NewNameUnused
<1>6. Goes(t, Rest) /\ Rest \in StepType
  BY <1>1, <1>2, MovesGoes, StepTypes
<1>7. o = doing[t].ctx
  OBVIOUS
<1> HIDE DEF c, o, n
<1>8. /\ egl[c] = NoName /\ share[c] = NoContext /\ ~Kept(c) /\ ~destroyPending[c]
      /\ Doing("tearDown", c) = {} /\ Doing("claim", c) = {}
  BY <1>1, <1>3 DEF LifeInv
<1>9. /\ egl' \in [GLXContexts -> Nat] /\ egl'[c] = n
      /\ share' \in [GLXContexts -> GLXContexts \union {NoContext}] /\ share'[c] = o
      /\ \A x \in GLXContexts \ {c} : egl'[x] = egl[x] /\ share'[x] = share[x]
  BY <1>1, <1>2, <1>3, <1>4, <1>5 DEF GlxTypes
<1>10. /\ sharesEgl' \in [GLXContexts -> Nat]
       /\ sharesEgl'[c] = (IF o = NoContext THEN NoName ELSE egl[o])
       /\ \A x \in GLXContexts \ {c} : sharesEgl'[x] = sharesEgl[x]
  <2>1. (IF o = NoContext THEN NoName ELSE egl[o]) \in Nat
    BY <1>1, <1>4 DEF GlxTypes, NoName
  <2> QED BY <1>1, <1>2, <1>3, <2>1 DEF GlxTypes
<1>11. GlxTypes'
  <2>1. doing' \in [GlxThreads -> StepType]
    BY <1>6 DEF Goes
  <2>2. eglContexts' \subseteq Nat /\ IsFiniteSet(eglContexts')
    BY <1>1, <1>2, <1>5, FS_AddElement DEF GlxTypes
  <2> QED BY <1>1, <1>2, <1>3, <1>9, <1>10, <2>1, <2>2 DEF GlxTypes
<1>12. StepInv'
  BY <1>1, <1>2, <1>6, RestFacts, StepFrame
<1>13. CountInv'
  <2>1. CountsAs(doing[t], Rest)
    BY <1>2, RestFacts DEF CountsAs, Counts, Binding
  <2> QED BY <1>1, <1>2, <1>6, <2>1, CountFrame
<1>14. RefInv'
  <2> SUFFICES ASSUME NEW x \in GLXContexts
               PROVE  shareRefs[x] = Cardinality(Sharers(x)') + Cardinality(Referrers(x)')
    BY <1>2 DEF RefInv
  <2>1. c \notin Sharers(x) /\ (t \in Referrers(x) <=> x = o)
    BY <1>2, <1>7, <1>8, ScenesAssumption DEF Sharers, Referrers, Refers
  <2>2. Sharers(x)' = IF x = o THEN Sharers(x) \union {c} ELSE Sharers(x)
    BY <1>3, <1>9, <2>1 DEF Sharers
  <2>3. Referrers(x)' = Referrers(x) \ {t}
    BY <1>6, RestFacts, ReferrersAfter
  <2>4. /\ shareRefs[x] = Cardinality(Sharers(x)) + Cardinality(Referrers(x))
        /\ Cardinality(Sharers(x)) \in Nat /\ Cardinality(Referrers(x)) \in Nat
        /\ Cardinality(Sharers(x) \union {c}) = Cardinality(Sharers(x)) + 1
        /\ t \in Referrers(x) => Cardinality(Referrers(x) \ {t}) = Cardinality(Referrers(x)) - 1
        /\ t \notin Referrers(x) => Referrers(x) \ {t} = Referrers(x)
    <3>1. Sharers(x) \subseteq GLXContexts /\ Referrers(x) \subseteq GlxThreads
      BY DEF Sharers, Referrers
    <3> QED BY <1>1, <2>1, <3>1, SetFacts DEF RefInv
  <2>5. CASE x = o
    BY <2>1, <2>2, <2>3, <2>4, <2>5
  <2>6. CASE x # o
    BY <2>1, <2>2, <2>3, <2>4, <2>6
  <2> QED BY <2>5, <2>6
<1>15. LifeInv'
  <2>1. \A x \in GLXContexts, label \in {"claim", "tearDown"} :
          Doing(label, x)' = Doing(label, x)
    <3> SUFFICES ASSUME NEW x \in GLXContexts, NEW label \in {"claim", "tearDown"}
                 PROVE  Doing(label, x)' = Doing(label, x)
      OBVIOUS
    <3>1. t \notin Doing(label, x) /\ Rest.at # label
      BY <1>2, RestFacts DEF Doing
    <3> QED BY <1>6, <3>1, DoingAfter
  <2>2. \A x \in GLXContexts : Kept(x)' = Kept(x)
    BY <1>2 DEF Kept
  <2> QED BY <1>1, <1>2, <1>3, <1>8, <1>9, <2>1, <2>2 DEF LifeInv
<1>16. EglInv'
  <2>1. Storing' = Storing /\ \A u \in Storing : doing'[u] = doing[u]
    BY <1>2, <1>6, RestFacts DEF Storing, Goes
  <2>2. \A u \in Storing : doing[u].ctx # c
    <3>1. ASSUME NEW u \in Storing, doing[u].ctx = c PROVE FALSE
      <4>1. Counts(doing[u]) \/ Refers(doing[u])
        BY StepFacts DEF Storing, FormOK, StepForm, Counts, Refers, Realizes
      <4>2. u \in Counters(c) \/ u \in Referrers(c)
        BY <3>1, <4>1 DEF Counters, Referrers, Storing
      <4> QED BY <1>3, <1>8, <4>2, HeldFacts DEF Kept
    <3> QED BY <3>1
  <2>3. \A u \in Storing : doing[u].ctx \in GLXContexts /\ u \in GlxThreads
    BY StepFacts DEF Storing, FormOK, StepForm
  <2>4. \A e \in eglContexts' : \/ \E x \in GLXContexts : egl'[x] = e
                                \/ \E u \in Storing : doing[u].name = e
    <3>1. ASSUME NEW e \in eglContexts'
          PROVE  \/ \E x \in GLXContexts : egl'[x] = e
                 \/ \E u \in Storing : doing[u].name = e
      <4>1. CASE e = n
        BY <1>3, <1>9, <4>1
      <4>2. CASE e \in eglContexts
        <5>1. \/ \E x \in GLXContexts : egl[x] = e
              \/ \E u \in Storing : doing[u].name = e
          BY <1>1, <4>2 DEF EglInv
        <5>2. e # NoName
          BY <1>1, <4>2 DEF EglInv
        <5> QED BY <1>8, <1>9, <5>1, <5>2
      <4> QED BY <1>2, <4>1, <4>2
    <3> QED BY <3>1
  <2>5. NoName \notin eglContexts' /\ \A x \in GLXContexts : egl'[x] \in eglContexts' \union {NoName}
    BY <1>1, <1>2, <1>5, <1>9 DEF EglInv
  <2>6. \A x, y \in GLXContexts : egl'[x] = egl'[y] /\ egl'[x] # NoName => x = y
    BY <1>1, <1>5, <1>9 DEF EglInv
  <2>7. \A u \in Storing : egl'[doing[u].ctx] = NoName /\ doing[u].name \in eglContexts'
    BY <1>1, <1>2, <1>9, <2>2, <2>3 DEF EglInv
  <2>8. \A u \in Storing, x \in GLXContexts : egl'[x] # doing[u].name
    BY <1>1, <1>5, <1>9, <2>3 DEF EglInv
  <2> QED BY <1>1, <2>1, <2>4, <2>5, <2>6, <2>7, <2>8 DEF EglInv
<1>17. Grows
  BY <1>8, <1>9 DEF Grows
<1>18. RealInv'
  <2>1. ASSUME NEW x \in GLXContexts, share'[x] # NoContext
        PROVE  egl'[share'[x]] # NoName /\ sharesEgl'[x] = egl'[share'[x]]
    <3>1. CASE x = c
      <4>1. o # NoContext /\ o \in GLXContexts /\ egl'[o] = egl[o]
        BY <1>4, <1>9, <1>17, <2>1, <3>1 DEF Grows
      <4> QED BY <1>4, <1>9, <1>10, <3>1, <4>1
    <3>2. CASE x # c
      <4>1. share'[x] = share[x] /\ sharesEgl'[x] = sharesEgl[x]
        BY <1>9, <1>10, <3>2
      <4>2. /\ egl[share[x]] # NoName /\ sharesEgl[x] = egl[share[x]]
            /\ share[x] \in GLXContexts
        BY <1>1, <2>1, <4>1 DEF RealInv, GlxTypes
      <4> QED BY <1>17, <4>1, <4>2 DEF Grows
    <3> QED BY <3>1, <3>2
  <2> QED BY <1>2, <1>6, <1>17, <2>1, RestFacts, RealGrows DEF Binding
<1>19. BoundInv'
  BY <1>2, <1>6, <1>17, RestFacts, BoundGrows
<1> QED BY <1>11, <1>12, <1>13, <1>14, <1>15, <1>16, <1>18, <1>19 DEF GlxInv

(* A thread that will store the EGL context of a context.                   *)
LEMMA RealizesInv ==
  ASSUME GlxInv, ~scene.together, NEW t \in GlxThreads, Steps(t, "realize"),
         egl[doing[t].ctx] = NoName, NoneElse(t, "store", doing[t].ctx),
         eglContexts' = eglContexts \union {NewName},
         Named(t, "store", NewName),
         UNCHANGED <<recordVars, eglCurrent, threadVars, surfaceVars>>
  PROVE  GlxInv'
<1>1. /\ GlxTypes /\ StepInv /\ CountInv /\ RefInv /\ LifeInv /\ EglInv /\ RealInv
      /\ BoundInv
  BY DEF GlxInv
<1>2. /\ doing[t].at = "realize" /\ scene' = scene
      /\ UNCHANGED <<contexts, handles, egl, share, sharesEgl, counts, currentCount,
                     shareRefs, destroyPending, eglCurrent, threadVars, currentContext,
                     currentDrawable, currentDrawSurface, drawableSurfaces, size>>
  BY DEF Steps, At, recordVars, counts, threadVars, surfaceVars
<1>3. /\ NewName \in Nat /\ NewName # NoName /\ NewName \notin eglContexts
      /\ \A x \in GLXContexts : egl[x] # NewName
      /\ \A u \in GlxThreads : doing[u].name # NewName
  BY NewNameUnused
<1>4. PICK s \in StepType :
        /\ Goes(t, s) /\ s.at = "store" /\ s.for = doing[t].for
        /\ s.ctx = doing[t].ctx /\ s.d = doing[t].d /\ s.name = NewName
  <2>1. "store" \in Labels /\ 0 \in Nat
    BY DEF Labels
  <2> QED BY <1>1, <1>3, <2>1, NamesGoes
<1>5. GlxTypes'
  <2>1. doing' \in [GlxThreads -> StepType]
    BY <1>4 DEF Goes
  <2>2. eglContexts' \subseteq Nat /\ IsFiniteSet(eglContexts')
    BY <1>1, <1>3, FS_AddElement DEF GlxTypes
  <2> QED BY <1>1, <1>2, <2>1, <2>2 DEF GlxTypes
<1>6. FormOK(t, s) /\ Real(s)
  BY <1>2, <1>4, StepFacts DEF FormOK, StepForm, OfCurrent, Real, Binding, Realizes
<1>7. CountsAs(doing[t], s) /\ RefersAs(doing[t], s)
  BY <1>2, <1>4 DEF CountsAs, RefersAs, Counts, Refers, Binding
<1>8. StepInv' /\ RealInv'
  BY <1>1, <1>2, <1>4, <1>6, StepFrame, RealFrame
<1>9. CountInv' /\ RefInv'
  BY <1>1, <1>2, <1>4, <1>7, CountFrame, RefFrame
<1>10. LifeInv' /\ BoundInv'
  BY <1>1, <1>2, <1>4, LifeFrame, BoundFrame
<1>11. EglInv'
  <2>1. Storing' = Storing \union {t} /\ t \notin Storing
    BY <1>2, <1>4 DEF Storing, Goes
  <2>2. \A u \in Storing : doing'[u] = doing[u] /\ u \in GlxThreads
    BY <1>2, <1>4 DEF Storing, Goes
  <2>3. doing'[t] = s
    BY <1>4 DEF Goes
  <2>4. \A u \in Storing : doing[u].ctx # s.ctx
    BY <1>4, <2>1 DEF NoneElse, Storing
  <2>5. \A e \in eglContexts' : \/ \E c \in GLXContexts : egl[c] = e
                                \/ \E u \in Storing' : doing'[u].name = e
    BY <1>1, <1>4, <2>1, <2>2, <2>3 DEF EglInv
  <2>6. \A u \in Storing' : egl[doing'[u].ctx] = NoName /\ doing'[u].name \in eglContexts'
    BY <1>1, <1>4, <2>1, <2>2, <2>3 DEF EglInv
  <2>7. \A u \in Storing', c \in GLXContexts : egl[c] # doing'[u].name
    BY <1>1, <1>3, <1>4, <2>1, <2>2, <2>3 DEF EglInv
  <2>8. \A u, v \in Storing' :
          doing'[u].name = doing'[v].name \/ doing'[u].ctx = doing'[v].ctx => u = v
    BY <1>1, <1>3, <1>4, <2>1, <2>2, <2>3, <2>4 DEF EglInv
  <2>9. NoName \notin eglContexts' /\ \A c \in GLXContexts : egl[c] \in eglContexts' \union {NoName}
    BY <1>1, <1>3 DEF EglInv
  <2> QED BY <1>1, <1>2, <2>5, <2>6, <2>7, <2>8, <2>9 DEF EglInv
<1> QED BY <1>5, <1>8, <1>9, <1>10, <1>11 DEF GlxInv

(* realizeLazyContext, which finds it realized or makes EGL's context.      *)
LEMMA RealizeInv ==
  ASSUME GlxInv, ~scene.together, NEW t \in GlxThreads, realizeLazyContext(t)
  PROVE  GlxInv'
<1>1. /\ Steps(t, "realize")
      /\ UNCHANGED <<recordVars, eglCurrent, threadVars, surfaceVars>>
  BY DEF realizeLazyContext
<1>2. CASE /\ egl[doing[t].ctx] # NoName /\ MovesTo(t, Realized(t))
           /\ eglContexts' = eglContexts
  BY <1>1, <1>2, RealizedInv
<1>3. CASE /\ egl[doing[t].ctx] = NoName /\ NoneElse(t, "store", doing[t].ctx)
           /\ eglContexts' = eglContexts \union {NewName} /\ Named(t, "store", NewName)
  BY <1>1, <1>3, RealizesInv
<1> QED BY <1>2, <1>3 DEF realizeLazyContext, Named

(* And stores it.                                                           *)
LEMMA StoreInv ==
  ASSUME GlxInv, NEW t \in GlxThreads, StoreRealized(t)
  PROVE  GlxInv'
<1>1. /\ GlxTypes /\ StepInv /\ CountInv /\ RefInv /\ LifeInv /\ EglInv /\ RealInv
      /\ BoundInv
  BY DEF GlxInv
<1> DEFINE c == doing[t].ctx
           n == doing[t].name
<1>2. /\ doing[t].at = "store" /\ scene' = scene /\ egl' = [egl EXCEPT ![c] = n]
      /\ MovesTo(t, Realized(t))
      /\ UNCHANGED <<contexts, handles, share, sharesEgl, counts, currentCount, shareRefs,
                     destroyPending, eglContexts, eglCurrent, threadVars, currentContext,
                     currentDrawable, currentDrawSurface, drawableSurfaces, size>>
  BY DEF StoreRealized, Steps, At, counts, eglVars, threadVars, surfaceVars
<1>3. doing[t].for \in {"bind", "create"} /\ c \in GLXContexts /\ n \in Nat
  BY <1>2, StepFacts, StepTypes DEF FormOK, StepForm, Realizes
<1>4. Realized(t) \in {"create", "refresh"} /\ (Realized(t) = "create" <=> doing[t].for = "create")
  BY DEF Realized
<1>5. PICK s \in StepType :
        /\ Goes(t, s) /\ s.at = Realized(t) /\ s.for = doing[t].for
        /\ s.ctx = c /\ s.d = doing[t].d
  <2>1. Realized(t) \in Labels
    BY <1>4 DEF Labels, Binding
  <2> QED BY <1>1, <1>2, <2>1, MovesToGoes
<1>6. t \in Storing
  BY <1>2 DEF Storing
<1>7. /\ egl[c] = NoName /\ n \in eglContexts /\ n # NoName
      /\ \A x \in GLXContexts : egl[x] # n
      /\ \A u \in Storing : doing[u].name = n \/ doing[u].ctx = c => u = t
  BY <1>1, <1>6 DEF EglInv
<1>8. c = doing[t].ctx /\ n = doing[t].name
  OBVIOUS
<1> HIDE DEF c, n
<1>9. /\ egl' \in [GLXContexts -> Nat] /\ egl'[c] = n
      /\ \A x \in GLXContexts \ {c} : egl'[x] = egl[x]
  BY <1>1, <1>2, <1>3 DEF GlxTypes
<1>10. Grows
  BY <1>7, <1>9 DEF Grows
<1>11. GlxTypes'
  <2>1. doing' \in [GlxThreads -> StepType]
    BY <1>5 DEF Goes
  <2> QED BY <1>1, <1>2, <1>9, <2>1 DEF GlxTypes
<1>12. FormOK(t, s)
  BY <1>2, <1>3, <1>4, <1>5, StepFacts DEF FormOK, StepForm, OfCurrent, Binding, Realizes
<1>13. CountsAs(doing[t], s) /\ RefersAs(doing[t], s)
  BY <1>2, <1>3, <1>4, <1>5, <1>8 DEF CountsAs, RefersAs, Counts, Refers, Binding
<1>14. StepInv'
  BY <1>1, <1>2, <1>5, <1>12, StepFrame
<1>15. CountInv' /\ RefInv'
  BY <1>1, <1>2, <1>5, <1>13, CountFrame, RefFrame
<1>16. LifeInv'
  <2>1. \A x \in GLXContexts, label \in {"claim", "tearDown"} :
          Doing(label, x)' = Doing(label, x)
    <3> SUFFICES ASSUME NEW x \in GLXContexts, NEW label \in {"claim", "tearDown"}
                 PROVE  Doing(label, x)' = Doing(label, x)
      OBVIOUS
    <3>1. t \notin Doing(label, x) /\ s.at # label
      BY <1>2, <1>4, <1>5 DEF Doing
    <3> QED BY <1>5, <3>1, DoingAfter
  <2>2. \A x \in GLXContexts : Kept(x)' = Kept(x)
    BY <1>2 DEF Kept
  <2>3. c \in contexts
    <3>1. t \in Counters(c) \/ t \in Referrers(c)
      BY <1>2, <1>3, <1>8 DEF Counters, Referrers, Counts, Refers
    <3> QED BY <1>3, <3>1, HeldFacts DEF Kept
  <2> QED BY <1>1, <1>2, <1>9, <2>1, <2>2, <2>3 DEF LifeInv
<1>17. EglInv'
  <2>1. Storing' = Storing \ {t} /\ \A u \in Storing \ {t} : doing'[u] = doing[u]
    BY <1>4, <1>5 DEF Storing, Goes
  <2>2. \A u \in Storing \ {t} : doing[u].ctx # c /\ doing[u].ctx \in GLXContexts
    BY <1>7, StepFacts DEF Storing, FormOK, StepForm
  <2>3. ASSUME NEW e \in eglContexts
        PROVE  \/ \E x \in GLXContexts : egl'[x] = e
               \/ \E u \in Storing \ {t} : doing[u].name = e
    <3>1. e # NoName
      BY <1>1 DEF EglInv
    <3>2. CASE e = n
      BY <1>3, <1>9, <3>2
    <3>3. CASE e # n
      <4>1. \/ \E x \in GLXContexts : egl[x] = e
            \/ \E u \in Storing : doing[u].name = e
        BY <1>1 DEF EglInv
      <4> QED BY <1>7, <1>8, <1>9, <3>1, <3>3, <4>1
    <3> QED BY <3>2, <3>3
  <2>4. \A x \in GLXContexts : egl'[x] \in eglContexts \union {NoName}
    BY <1>1, <1>7, <1>9 DEF EglInv
  <2>5. \A x, y \in GLXContexts : egl'[x] = egl'[y] /\ egl'[x] # NoName => x = y
    BY <1>1, <1>7, <1>9 DEF EglInv
  <2>6. \A u \in Storing \ {t} : egl'[doing[u].ctx] = NoName /\ doing[u].name \in eglContexts
    BY <1>1, <1>9, <2>2 DEF EglInv
  <2>7. \A u \in Storing \ {t}, x \in GLXContexts : egl'[x] # doing[u].name
    BY <1>1, <1>7, <1>9 DEF EglInv
  <2> QED BY <1>1, <1>2, <2>1, <2>3, <2>4, <2>5, <2>6, <2>7 DEF EglInv
<1>18. RealInv'
  <2>1. \A x \in GLXContexts : share[x] # NoContext =>
          egl'[share[x]] # NoName /\ sharesEgl[x] = egl'[share[x]]
    <3>1. \A x \in GLXContexts : share[x] # NoContext =>
            /\ egl[share[x]] # NoName /\ sharesEgl[x] = egl[share[x]]
            /\ share[x] \in GLXContexts
      BY <1>1 DEF RealInv, GlxTypes
    <3> QED BY <1>10, <3>1 DEF Grows
  <2> QED BY <1>2, <1>5, <1>7, <1>9, <1>10, <2>1, RealGrows
<1>19. BoundInv'
  <2>1. "install" \notin {doing[t].at, s.at}
    BY <1>2, <1>4, <1>5
  <2> QED BY <1>2, <1>5, <1>10, <2>1, BoundGrows
<1> QED BY <1>11, <1>14, <1>15, <1>16, <1>17, <1>18, <1>19 DEF GlxInv

-----------------------------------------------------------------------------
(* A bind begins: the context is counted at once.                           *)
LEMMA BindInv ==
  ASSUME GlxInv, NEW t \in GlxThreads, NEW c \in GLXContexts, NEW d \in Drawables,
         glXMakeContextCurrent(t, c, d)
  PROVE  GlxInv'
<1>1. /\ GlxTypes /\ StepInv /\ CountInv /\ RefInv /\ LifeInv /\ EglInv /\ RealInv
      /\ BoundInv
  BY DEF GlxInv
<1>2. /\ doing[t] = Rest /\ c \in handles
      /\ currentCount' = [currentCount EXCEPT ![c] = @ + 1]
      /\ UNCHANGED <<scene, contexts, handles, egl, share, sharesEgl, shareRefs,
                     destroyPending, eglContexts, eglCurrent, threadVars,
                     currentContext, currentDrawable, currentDrawSurface,
                     drawableSurfaces, size>>
  BY DEF glXMakeContextCurrent, Calls, eglVars, threadVars, surfaceVars
<1>3. PICK s \in StepType :
        Goes(t, s) /\ s.at = "realize" /\ s.for = "bind" /\ s.ctx = c /\ s.d = d
  <2>1. Called(t, "realize", "bind", c, d) /\ "realize" \in Labels
    BY DEF glXMakeContextCurrent, Called, Labels
  <2> QED BY <1>1, <2>1, CallGoes
<1>4. /\ currentCount' \in [GLXContexts -> Nat] /\ currentCount'[c] = currentCount[c] + 1
      /\ \A o \in GLXContexts \ {c} : currentCount'[o] = currentCount[o]
  BY <1>1, <1>2 DEF GlxTypes
<1>5. GlxTypes'
  <2>1. doing' \in [GlxThreads -> StepType]
    BY <1>3 DEF Goes
  <2> QED BY <1>1, <1>2, <1>4, <2>1 DEF GlxTypes
<1>6. FormOK(t, s) /\ Real(s) /\ Counts(s) /\ ~Refers(s)
  BY <1>3 DEF FormOK, StepForm, OfCurrent, Real, Counts, Refers, Binding, Realizes
<1>7. StepInv' /\ RealInv'
  BY <1>1, <1>2, <1>3, <1>6, StepFrame, RealFrame
<1>8. EglInv' /\ BoundInv'
  <2>1. {"store", "install"} \intersect {doing[t].at, s.at} = {}
    BY <1>2, <1>3, RestFacts
  <2> QED BY <1>1, <1>2, <1>3, <2>1, EglFrame, BoundFrame
<1>9. RefInv'
  <2>1. RefersAs(doing[t], s)
    BY <1>2, <1>6, RestFacts DEF RefersAs
  <2> QED BY <1>1, <1>2, <1>3, <2>1, RefFrame
<1>10. CountInv'
  <2> SUFFICES ASSUME NEW o \in GLXContexts
               PROVE  currentCount'[o] = Cardinality(Currents(o)') + Cardinality(Counters(o)')
    BY DEF CountInv
  <2>1. Currents(o)' = Currents(o)
    BY <1>2 DEF Currents
  <2>2. t \notin Counters(o)
    BY <1>2, RestFacts DEF Counters
  <2>3. Counters(o)' = IF o = c THEN Counters(o) \union {t} ELSE Counters(o)
    BY <1>3, <1>6, <2>2, CountersAfter
  <2>4. /\ currentCount[o] = Cardinality(Currents(o)) + Cardinality(Counters(o))
        /\ Cardinality(Currents(o)) \in Nat /\ Cardinality(Counters(o)) \in Nat
        /\ Cardinality(Counters(o) \union {t}) = Cardinality(Counters(o)) + 1
    <3>1. Currents(o) \subseteq GlxThreads /\ Counters(o) \subseteq GlxThreads
      BY DEF Currents, Counters
    <3> QED BY <1>1, <2>2, <3>1, SetFacts DEF CountInv
  <2>5. currentCount'[o] = IF o = c THEN currentCount[o] + 1 ELSE currentCount[o]
    BY <1>4
  <2> QED BY <2>1, <2>3, <2>4, <2>5
<1>11. LifeInv'
  <2>1. \A o \in GLXContexts, label \in {"claim", "tearDown"} :
          Doing(label, o)' = Doing(label, o)
    <3> SUFFICES ASSUME NEW o \in GLXContexts, NEW label \in {"claim", "tearDown"}
                 PROVE  Doing(label, o)' = Doing(label, o)
      OBVIOUS
    <3>1. t \notin Doing(label, o) /\ s.at # label
      BY <1>2, <1>3, RestFacts DEF Doing
    <3> QED BY <1>3, <3>1, DoingAfter
  <2>2. \A o \in GLXContexts \ {c} : Kept(o)' = Kept(o)
    BY <1>2, <1>4 DEF Kept
  <2>3. c \in contexts /\ ~destroyPending[c] /\ Doing("tearDown", c) = {}
    BY <1>1, <1>2 DEF LifeInv, GlxTypes
  <2> QED BY <1>1, <1>2, <2>1, <2>2, <2>3 DEF LifeInv
<1> QED BY <1>5, <1>7, <1>8, <1>9, <1>10, <1>11 DEF GlxInv

(* EGL binds the context and the surface.                                   *)
LEMMA AttachInv ==
  ASSUME GlxInv, NEW t \in GlxThreads, Steps(t, "attach"),
         eglCurrent' = [eglCurrent EXCEPT ![t] =
           [egl |-> egl[doing[t].ctx], surface |-> doing[t].name]],
         IF doing[t].for = "swap"
           THEN /\ MovesTo(t, "swap")
                /\ currentDrawSurface' = [currentDrawSurface EXCEPT ![t] = doing[t].name]
           ELSE MovesTo(t, "install") /\ UNCHANGED currentDrawSurface,
         UNCHANGED <<recordVars, eglContexts, currentContext, currentDrawable,
                     surfaceVars>>
  PROVE  GlxInv'
<1>1. /\ GlxTypes /\ StepInv /\ CountInv /\ RefInv /\ LifeInv /\ EglInv /\ RealInv
      /\ BoundInv
  BY DEF GlxInv
<1>2. /\ doing[t].at = "attach" /\ scene' = scene
      /\ UNCHANGED <<contexts, handles, egl, share, sharesEgl, counts, currentCount,
                     shareRefs, destroyPending, eglContexts, currentContext,
                     currentDrawable, drawableSurfaces, size>>
  BY DEF Steps, At, recordVars, counts, surfaceVars
<1>3. /\ doing[t].for \in {"bind", "swap"} /\ doing[t].ctx \in GLXContexts
      /\ doing[t].name \in Nat /\ doing[t].d \in Drawables /\ egl[doing[t].ctx] # NoName
      /\ doing[t].for = "swap" => doing[t].ctx = currentContext[t]
  BY <1>2, StepFacts, StepTypes, ScenesAssumption
  DEF FormOK, StepForm, OfCurrent, Real, Binding, Realizes
<1> DEFINE label == IF doing[t].for = "swap" THEN "swap" ELSE "install"
<1>4. PICK s \in StepType :
        /\ Goes(t, s) /\ s.at = label /\ s.for = doing[t].for /\ s.ctx = doing[t].ctx
        /\ s.d = doing[t].d /\ s.name = doing[t].name
  <2>1. label \in Labels /\ MovesTo(t, label)
    BY DEF Labels
  <2> HIDE DEF label
  <2> QED BY <1>1, <2>1, MovesToGoes
<1>5. /\ eglCurrent' \in [GlxThreads -> [egl : Nat, surface : Nat]]
      /\ eglCurrent'[t] = [egl |-> egl[s.ctx], surface |-> s.name]
      /\ \A u \in GlxThreads \ {t} : eglCurrent'[u] = eglCurrent[u]
  <2>1. [egl |-> egl[doing[t].ctx], surface |-> doing[t].name] \in [egl : Nat, surface : Nat]
    BY <1>1, <1>3 DEF GlxTypes
  <2> QED BY <1>1, <1>4, <2>1 DEF GlxTypes
<1>6. /\ currentDrawSurface' \in [GlxThreads -> Nat]
      /\ s.at = "swap" => currentDrawSurface'[t] = s.name
      /\ \A u \in GlxThreads \ {t} : currentDrawSurface'[u] = currentDrawSurface[u]
  BY <1>1, <1>3, <1>4 DEF GlxTypes
<1>7. GlxTypes'
  <2>1. doing' \in [GlxThreads -> StepType]
    BY <1>4 DEF Goes
  <2> QED BY <1>1, <1>2, <1>5, <1>6, <2>1 DEF GlxTypes
<1>8. /\ StepForm(s) /\ Real(s) /\ (OfCurrent(s) => s.ctx = currentContext[t])
      /\ s.at \in {"swap", "install"} /\ (s.at = "swap" <=> doing[t].for = "swap")
  BY <1>3, <1>4 DEF StepForm, OfCurrent, Real, Binding, Realizes
<1>9. StepInv'
  <2>1. currentContext[t] = NoContext <=> currentDrawable[t] = NoDrawable
    BY StepFacts
  <2> QED BY <1>1, <1>2, <1>4, <1>6, <1>8, <2>1, StepOwn
<1>10. CountInv' /\ RefInv'
  <2>1. CountsAs(doing[t], s) /\ RefersAs(doing[t], s)
    BY <1>2, <1>3, <1>4, <1>8 DEF CountsAs, RefersAs, Counts, Refers, Binding
  <2> QED BY <1>1, <1>2, <1>4, <2>1, CountFrame, RefFrame
<1>11. LifeInv'
  <2>1. {doing[t].at, s.at} \intersect {"claim", "tearDown"} = {}
    BY <1>2, <1>8
  <2> QED BY <1>1, <1>2, <1>4, <2>1, LifeFrame
<1>12. EglInv'
  <2>1. "store" \notin {doing[t].at, s.at}
    BY <1>2, <1>8
  <2> QED BY <1>1, <1>2, <1>4, <2>1, EglFrame
<1>13. RealInv'
  BY <1>1, <1>2, <1>4, <1>8, RealFrame
<1>14. BoundInv'
  <2>1. s.at = "swap" => s.ctx = currentContext[t] /\ currentContext[t] # NoContext
    BY <1>3, <1>4, <1>8, ScenesAssumption
  <2>2. eglCurrent'[t] =
          IF s.at = "install" THEN [egl |-> egl[s.ctx], surface |-> s.name]
          ELSE IF currentContext'[t] = NoContext THEN Unbound
          ELSE [egl |-> egl[currentContext'[t]], surface |-> currentDrawSurface'[t]]
    BY <1>2, <1>5, <1>6, <1>8, <2>1
  <2> QED BY <1>1, <1>2, <1>4, <1>5, <1>6, <2>2, BoundOwn
<1> QED BY <1>7, <1>9, <1>10, <1>11, <1>12, <1>13, <1>14 DEF GlxInv

(* Either the thread has bound it, or EGL does now.                         *)
LEMMA MakeCurrentInv ==
  ASSUME GlxInv, NEW t \in GlxThreads, MakeCurrent(t)
  PROVE  GlxInv'
<1>1. /\ Steps(t, "attach")
      /\ UNCHANGED <<recordVars, eglContexts, currentContext, currentDrawable, surfaceVars>>
  BY DEF MakeCurrent
<1>2. CASE /\ doing[t].for = "swap" /\ ~mustRebind(t, doing[t].name)
           /\ MovesTo(t, "swap") /\ UNCHANGED <<eglCurrent, currentDrawSurface>>
  <2>1. UNCHANGED <<eglVars, threadVars>>
    BY <1>1, <1>2 DEF eglVars, threadVars
  <2> QED BY <1>1, <1>2, <2>1, SameSurfaceInv
<1>3. CASE /\ eglCurrent' = [eglCurrent EXCEPT ![t] =
                [egl |-> egl[doing[t].ctx], surface |-> doing[t].name]]
           /\ IF doing[t].for = "swap"
                THEN /\ MovesTo(t, "swap")
                     /\ currentDrawSurface' =
                          [currentDrawSurface EXCEPT ![t] = doing[t].name]
                ELSE MovesTo(t, "install") /\ UNCHANGED currentDrawSurface
  BY <1>1, <1>3, AttachInv
<1> QED BY <1>2, <1>3 DEF MakeCurrent

(* The bind is installed: what it changes of the thread.                    *)
LEMMA InstallThread ==
  ASSUME GlxInv, NEW t \in GlxThreads, InstallCurrent(t), NEW s \in StepType,
         Goes(t, s), StepForm(s), s.at \in {"rest", "tearDown"},
         UNCHANGED <<egl, share, sharesEgl>>
  PROVE  /\ doing[t].at = "install" /\ doing[t].ctx \in GLXContexts
         /\ currentContext' \in [GlxThreads -> GLXContexts \union {NoContext}]
         /\ currentDrawable' \in [GlxThreads -> Drawables \union {NoDrawable}]
         /\ currentDrawSurface' \in [GlxThreads -> Nat]
         /\ currentContext'[t] = doing[t].ctx
         /\ \A u \in GlxThreads \ {t} : currentContext'[u] = currentContext[u]
         /\ StepInv' /\ RealInv' /\ BoundInv' /\ EglInv'
<1>1. /\ GlxTypes /\ StepInv /\ EglInv /\ RealInv /\ BoundInv
  BY DEF GlxInv
<1>2. /\ doing[t].at = "install" /\ UNCHANGED <<eglContexts, eglCurrent>>
      /\ currentContext' = [currentContext EXCEPT ![t] = doing[t].ctx]
      /\ currentDrawable' = [currentDrawable EXCEPT ![t] = doing[t].d]
      /\ currentDrawSurface' = [currentDrawSurface EXCEPT ![t] = doing[t].name]
  BY DEF InstallCurrent, Steps, At, eglVars
<1>3. /\ doing[t].ctx \in GLXContexts /\ doing[t].d \in Drawables /\ doing[t].name \in Nat
      /\ egl[doing[t].ctx] # NoName
  BY <1>2, StepFacts, StepTypes, ScenesAssumption DEF FormOK, StepForm, Real
<1>4. /\ currentContext' \in [GlxThreads -> GLXContexts \union {NoContext}]
      /\ currentDrawable' \in [GlxThreads -> Drawables \union {NoDrawable}]
      /\ currentDrawSurface' \in [GlxThreads -> Nat]
      /\ currentContext'[t] = doing[t].ctx /\ currentDrawable'[t] = doing[t].d
      /\ currentDrawSurface'[t] = doing[t].name
      /\ \A u \in GlxThreads \ {t} : /\ currentContext'[u] = currentContext[u]
                                     /\ currentDrawable'[u] = currentDrawable[u]
                                     /\ currentDrawSurface'[u] = currentDrawSurface[u]
  BY <1>1, <1>2, <1>3 DEF GlxTypes
<1>5. ~OfCurrent(s) /\ Real(s) /\ s.at \notin {"swap", "install", "store"}
  BY DEF OfCurrent, Real, Binding
<1>6. StepInv'
  <2>1. currentContext'[t] # NoContext /\ currentDrawable'[t] # NoDrawable
    BY <1>3, <1>4, ScenesAssumption
  <2> QED BY <1>1, <1>4, <1>5, <2>1, StepOwn
<1>7. RealInv'
  BY <1>1, <1>3, <1>4, <1>5, RealOwn
<1>8. BoundInv'
  <2>1. eglCurrent[t] = [egl |-> egl[doing[t].ctx], surface |-> doing[t].name]
    BY <1>1, <1>2 DEF BoundInv
  <2>2. currentContext'[t] # NoContext
    BY <1>3, <1>4, ScenesAssumption
  <2>3. eglCurrent'[t] =
          IF s.at = "install" THEN [egl |-> egl[s.ctx], surface |-> s.name]
          ELSE IF currentContext'[t] = NoContext THEN Unbound
          ELSE [egl |-> egl[currentContext'[t]], surface |-> currentDrawSurface'[t]]
    BY <1>2, <1>4, <1>5, <2>1, <2>2
  <2> QED BY <1>1, <1>2, <1>4, <2>3, BoundOwn
<1>9. EglInv'
  BY <1>1, <1>2, <1>5, EglFrame
<1> QED BY <1>2, <1>3, <1>4, <1>6, <1>7, <1>8, <1>9

(* And the counts.                                                          *)
LEMMA InstallInv ==
  ASSUME GlxInv, ~scene.together, NEW t \in GlxThreads, InstallCurrent(t)
  PROVE  GlxInv'
<1>1. /\ GlxTypes /\ CountInv /\ RefInv /\ LifeInv
  BY DEF GlxInv
<1> DEFINE old == currentContext[t]
           new == doing[t].ctx
<1>2. /\ doing[t].at = "install" /\ scene' = scene
      /\ UNCHANGED <<eglContexts, eglCurrent, drawableSurfaces, size>>
  BY DEF InstallCurrent, Steps, At, eglVars, surfaceVars
<1>3. doing[t].for = "bind" /\ new \in GLXContexts /\ old \in GLXContexts \union {NoContext}
  BY <1>1, <1>2, StepFacts DEF FormOK, StepForm, GlxTypes
<1>4. Counts(doing[t]) /\ ~Refers(doing[t])
  BY <1>2, <1>3 DEF Counts, Refers
<1>5. /\ UNCHANGED <<contexts, handles, egl, share, sharesEgl>>
      /\ currentCount' \in [GLXContexts -> Nat] /\ shareRefs' \in [GLXContexts -> Nat]
      /\ destroyPending' \in [GLXContexts -> BOOLEAN]
      /\ \A o \in GLXContexts :
           /\ currentCount'[o] = (IF o = old THEN currentCount[o] - 1 ELSE currentCount[o])
           /\ shareRefs'[o] = shareRefs[o]
      /\ LifeInv'
      /\ \E s \in StepType : Goes(t, s) /\ StepForm(s) /\ s.at \in {"rest", "tearDown"}
                               /\ s.for = "none"
  <2>1. CASE old = NoContext
    <3>1. Moves(t, Rest)
      BY <2>1 DEF InstallCurrent
    <3>2. /\ UNCHANGED <<contexts, handles, egl, share, sharesEgl, counts, currentCount,
                         shareRefs, destroyPending>>
      BY <2>1 DEF InstallCurrent, recordVars, counts
    <3>3. Goes(t, Rest) /\ Rest \in StepType
      BY <1>1, <3>1, MovesGoes, StepTypes
    <3>4. LifeInv'
      <4>1. {doing[t].at, Rest.at} \intersect {"claim", "tearDown"} = {}
        BY <1>2, RestFacts
      <4> QED BY <1>1, <3>2, <3>3, <4>1, LifeFrame
    <3>5. \A o \in GLXContexts : o # old
      BY <2>1, ScenesAssumption
    <3> QED BY <1>1, <3>2, <3>3, <3>4, <3>5, RestFacts DEF GlxTypes
  <2>2. CASE old # NoContext
    <3>1. LetsGo(t, old, 1, 0)
      BY <2>2 DEF InstallCurrent
    <3>2. old \in GLXContexts /\ t \in Currents(old)
      BY <1>3, <2>2 DEF Currents
    <3>3. currentCount[old] > 0
      BY <3>2, HeldFacts
    <3>4. old \in contexts /\ Doing("tearDown", old) = {}
      BY <3>2, <3>3, HeldFacts DEF Kept
    <3>5. currentCount[old] >= 1 /\ shareRefs[old] >= 0
      BY <1>1, <3>2, <3>3 DEF GlxTypes
    <3>6. UNCHANGED <<contexts, handles, egl, share, sharesEgl>>
      BY <3>1 DEF LetsGo
    <3> HIDE DEF old
    <3>7. /\ LifeInv'
          /\ currentCount' \in [GLXContexts -> Nat] /\ shareRefs' \in [GLXContexts -> Nat]
          /\ destroyPending' \in [GLXContexts -> BOOLEAN]
          /\ \A o \in GLXContexts :
               /\ currentCount'[o] = IF o = old THEN currentCount[old] - 1 ELSE currentCount[o]
               /\ shareRefs'[o] = IF o = old THEN shareRefs[old] - 0 ELSE shareRefs[o]
          /\ \E s \in StepType :
               /\ Goes(t, s) /\ s.for = "none" /\ StepForm(s)
               /\ s.at = "rest" \/ s.at = "tearDown"
      <4>1. 1 \in 0..1 /\ 0 \in 0..1 /\ doing[t].at \notin {"tearDown", "claim"}
        BY <1>2
      <4> QED BY <3>1, <3>4, <3>5, <4>1, LetsGoInv
    <3>8. \A o \in GLXContexts : shareRefs'[o] = shareRefs[o]
      BY <1>1, <3>7 DEF GlxTypes
    <3> QED BY <3>6, <3>7, <3>8
  <2> QED BY <2>1, <2>2
<1>6. PICK s \in StepType :
        Goes(t, s) /\ StepForm(s) /\ s.at \in {"rest", "tearDown"} /\ s.for = "none"
  BY <1>5
<1>7. /\ currentContext' \in [GlxThreads -> GLXContexts \union {NoContext}]
      /\ currentDrawable' \in [GlxThreads -> Drawables \union {NoDrawable}]
      /\ currentDrawSurface' \in [GlxThreads -> Nat]
      /\ currentContext'[t] = new
      /\ \A u \in GlxThreads \ {t} : currentContext'[u] = currentContext[u]
      /\ StepInv' /\ RealInv' /\ BoundInv' /\ EglInv'
  BY <1>5, <1>6, InstallThread
<1>8. GlxTypes'
  <2>1. doing' \in [GlxThreads -> StepType]
    BY <1>6 DEF Goes
  <2> QED BY <1>1, <1>2, <1>5, <1>7, <2>1 DEF GlxTypes
<1>9. ~Counts(s) /\ ~Refers(s)
  BY <1>6 DEF Counts, Refers, Binding
<1> HIDE DEF old, new
<1>10. CountInv'
  <2> SUFFICES ASSUME NEW o \in GLXContexts
               PROVE  currentCount'[o] = Cardinality(Currents(o)') + Cardinality(Counters(o)')
    BY DEF CountInv
  <2>1. Counters(o)' = Counters(o) \ {t} /\ (t \in Counters(o) <=> o = new)
    <3>1. Counters(o)' = Counters(o) \ {t}
      BY <1>6, <1>9, CountersAfter
    <3>2. t \in Counters(o) <=> o = new
      BY <1>4 DEF Counters, new
    <3> QED BY <3>1, <3>2
  <2>2. /\ t \in Currents(o) <=> o = old
        /\ Currents(o)' = IF o = new THEN Currents(o) \union {t} ELSE Currents(o) \ {t}
    <3>1. t \in Currents(o) <=> o = old
      BY DEF Currents, old
    <3>2. Currents(o)' = IF o = new THEN Currents(o) \union {t} ELSE Currents(o) \ {t}
      BY <1>7 DEF Currents
    <3> QED BY <3>1, <3>2
  <2>3. /\ currentCount[o] = Cardinality(Currents(o)) + Cardinality(Counters(o))
        /\ Cardinality(Currents(o)) \in Nat /\ Cardinality(Counters(o)) \in Nat
        /\ t \in Counters(o) => Cardinality(Counters(o) \ {t}) = Cardinality(Counters(o)) - 1
        /\ t \notin Counters(o) => Counters(o) \ {t} = Counters(o)
        /\ t \in Currents(o) => Cardinality(Currents(o) \ {t}) = Cardinality(Currents(o)) - 1
        /\ t \notin Currents(o) => Currents(o) \ {t} = Currents(o)
        /\ t \in Currents(o) => Currents(o) \union {t} = Currents(o)
        /\ t \notin Currents(o) => Cardinality(Currents(o) \union {t}) = Cardinality(Currents(o)) + 1
    <3>1. Currents(o) \subseteq GlxThreads /\ Counters(o) \subseteq GlxThreads
      BY DEF Currents, Counters
    <3> QED BY <1>1, <3>1, SetFacts DEF CountInv
  <2>4. currentCount'[o] = IF o = old THEN currentCount[o] - 1 ELSE currentCount[o]
    BY <1>5
  <2>5. CASE o = new /\ o = old
    <3>1. currentCount'[o] = currentCount[o] - 1
      BY <2>4, <2>5
    <3>2. Currents(o)' = Currents(o)
      BY <2>2, <2>3, <2>5
    <3>3. Cardinality(Counters(o)') = Cardinality(Counters(o)) - 1
      BY <2>1, <2>3, <2>5
    <3> QED BY <2>3, <3>1, <3>2, <3>3
  <2>6. CASE o = new /\ o # old
    BY <2>1, <2>2, <2>3, <2>4, <2>6
  <2>7. CASE o # new /\ o = old
    <3>1. currentCount'[o] = currentCount[o] - 1
      BY <2>4, <2>7
    <3>2. Counters(o)' = Counters(o)
      BY <2>1, <2>3, <2>7
    <3>3. Cardinality(Currents(o)') = Cardinality(Currents(o)) - 1
      BY <2>2, <2>3, <2>7
    <3> QED BY <2>3, <3>1, <3>2, <3>3
  <2>8. CASE o # new /\ o # old
    BY <2>1, <2>2, <2>3, <2>4, <2>8
  <2> QED BY <2>5, <2>6, <2>7, <2>8
<1>11. RefInv'
  <2> SUFFICES ASSUME NEW o \in GLXContexts
               PROVE  shareRefs'[o] = Cardinality(Sharers(o)') + Cardinality(Referrers(o)')
    BY DEF RefInv
  <2>1. Sharers(o)' = Sharers(o)
    BY <1>5 DEF Sharers
  <2>2. Referrers(o)' = Referrers(o)
    <3>1. t \notin Referrers(o)
      BY <1>4 DEF Referrers
    <3> QED BY <1>6, <1>9, <3>1, ReferrersAfter
  <2> QED BY <1>1, <1>5, <2>1, <2>2 DEF RefInv
<1> QED BY <1>5, <1>7, <1>8, <1>10, <1>11 DEF GlxInv

(* A drawable is resized.                                                   *)
LEMMA ResizedInv ==
  ASSUME GlxInv, NEW d \in Drawables, DrawableResized(d)
  PROVE  GlxInv'
<1>1. size' \in [Drawables -> 1..2]
  <2>1. size \in [Drawables -> 1..2] /\ size' = [size EXCEPT ![d] = 3 - @]
    BY DEF GlxInv, GlxTypes, DrawableResized
  <2>2. 3 - size[d] \in 1..2
    BY <2>1
  <2> QED BY <2>1, <2>2
<1>2. UNCHANGED <<scene, contexts, handles, egl, share, sharesEgl, currentCount, shareRefs,
                  destroyPending, eglContexts, eglCurrent, currentContext, currentDrawable,
                  currentDrawSurface, drawableSurfaces, doing>>
  BY DEF DrawableResized, recordVars, counts, eglVars, threadVars
<1>3. GlxTypes'
  BY <1>1, <1>2 DEF GlxInv, GlxTypes
<1>4. StepInv' /\ EglInv' /\ RealInv' /\ BoundInv'
  BY <1>2 DEF GlxInv, StepInv, StepForm, OfCurrent, EglInv, Storing, RealInv, BoundInv
<1>5. CountInv' /\ RefInv'
  BY <1>2 DEF GlxInv, CountInv, RefInv, Currents, Counters, Counts, Sharers, Referrers, Refers
<1>6. LifeInv'
  BY <1>2 DEF GlxInv, LifeInv, Doing, Kept
<1> QED BY <1>3, <1>4, <1>5, <1>6 DEF GlxInv

-----------------------------------------------------------------------------
(* Every step keeps the invariant, where a client destroys a context only    *)
(* with luck (see Scenes).                                                  *)
LEMMA GlxStepInv == GlxInv /\ ~scene.together /\ [GlxNext]_glxVars => GlxInv'
<1> SUFFICES ASSUME GlxInv, ~scene.together, [GlxNext]_glxVars PROVE GlxInv'
  OBVIOUS
<1>1. CASE UNCHANGED glxVars
  <2>1. UNCHANGED <<scene, contexts, handles, egl, share, sharesEgl, currentCount,
                    shareRefs, destroyPending, eglContexts, eglCurrent, currentContext,
                    currentDrawable, currentDrawSurface, drawableSurfaces, size, doing>>
    BY <1>1 DEF glxVars, recordVars, counts, eglVars, threadVars, surfaceVars
  <2>2. GlxTypes'
    BY <2>1 DEF GlxInv, GlxTypes
  <2>3. StepInv' /\ EglInv' /\ RealInv' /\ BoundInv'
    BY <2>1 DEF GlxInv, StepInv, StepForm, OfCurrent, EglInv, Storing, RealInv, BoundInv
  <2>4. CountInv' /\ RefInv'
    BY <2>1 DEF GlxInv, CountInv, RefInv, Currents, Counters, Counts, Sharers, Referrers,
                Refers
  <2>5. LifeInv'
    BY <2>1 DEF GlxInv, LifeInv, Doing, Kept
  <2> QED BY <2>2, <2>3, <2>4, <2>5 DEF GlxInv
<1>2. ASSUME NEW t \in GlxThreads,
             \/ Uncount(t) \/ releaseShareRef(t) \/ tearDownContextChain(t) \/ Drop(t)
             \/ ReleaseCurrent(t) \/ ClaimDestroyed(t)
             \/ createEglContext(t) \/ CreateFails(t)
             \/ realizeLazyContext(t) \/ RealizeFails(t) \/ StoreRealized(t)
      PROVE  GlxInv'
  BY <1>2, UncountInv, UnshareInv, TearDownInv, DropInv, ClaimInv, CreateEglInv,
     CreateFailsInv, RealizeInv, RealizeFailsInv, StoreInv
<1>3. ASSUME NEW t \in GlxThreads,
             \/ glXSwapBuffers(t) \/ refreshDrawableSurfaceIfResized(t)
             \/ surfaceForDrawable(t) \/ SurfaceFails(t) \/ registerDrawableSurface(t)
             \/ MakeCurrent(t) \/ MakeCurrentFails(t) \/ InstallCurrent(t) \/ SwapEnds(t)
             \/ glXCreateContext(t) \/ createContextFromConfig(t, NoContext)
      PROVE  GlxInv'
  BY <1>3, SwapInv, RefreshInv, FindInv, SurfaceFailsInv, RegisterInv, MakeCurrentInv,
     MakeCurrentFailsInv, InstallInv, SwapEndsInv, CreateInv, CreateFromInv
<1>4. ASSUME NEW t \in GlxThreads, NEW c \in GLXContexts,
             \/ glXDestroyContext(t, c) \/ createContextFromConfig(t, c)
             \/ \E d \in Drawables : glXMakeContextCurrent(t, c, d)
      PROVE  GlxInv'
  BY <1>4, DestroyInv, CreateFromInv, BindInv
<1>5. ASSUME NEW t \in GlxThreads, NEW d \in Drawables, glxDrawableDestroyed(t, d)
      PROVE  GlxInv'
  BY <1>5, DestroyedInv
<1>6. ASSUME NEW d \in Drawables, DrawableResized(d) PROVE GlxInv'
  BY <1>6, ResizedInv
<1> QED BY <1>1, <1>2, <1>3, <1>4, <1>5, <1>6 DEF GlxNext

(* The contexts there are from the start have names of their own.           *)
LEMMA NameOfFacts ==
  ASSUME NEW ready, ready \subseteq GLXContexts
  PROVE  /\ NameOf(ready) \in Bijection(ready, 1..Cardinality(ready))
         /\ Cardinality(ready) \in Nat
<1> DEFINE k == Cardinality(ready)
<1>1. IsFiniteSet(ready) /\ k \in Nat
  BY ScenesAssumption, FS_Subset, FS_CardinalityType
<1>2. IsFiniteSet(1..k) /\ Cardinality(1..k) = k
  BY <1>1, FS_Interval
<1>3. ExistsBijection(ready, 1..k)
  BY <1>1, <1>2, FS_SameCardinalityBij
<1>4. \E f \in [ready -> 1..k] : \A c, o \in ready : f[c] = f[o] => c = o
  BY <1>3 DEF ExistsBijection, Bijection, Injection, IsInjective
<1>5. /\ NameOf(ready) \in [ready -> 1..k]
      /\ \A c, o \in ready : NameOf(ready)[c] = NameOf(ready)[o] => c = o
  BY <1>4 DEF NameOf
<1>6. NameOf(ready) \in Injection(ready, 1..k)
  BY <1>5 DEF Injection, IsInjective
<1>7. NameOf(ready) \in Surjection(ready, 1..k)
  BY <1>1, <1>2, <1>6, FS_Injection
<1> QED BY <1>1, <1>6, <1>7 DEF Bijection

(* The invariant holds at the start.                                        *)
LEMMA GlxInitInv == GlxInit => GlxInv
<1> SUFFICES ASSUME GlxInit PROVE GlxInv
  OBVIOUS
<1> DEFINE ready == scene.ready
           k == Cardinality(ready)
           name == NameOf(ready)
<1>1. scene \in Scenes /\ ready \subseteq GLXContexts
  BY ScenesAssumption DEF GlxInit
<1>2. k \in Nat /\ name \in [ready -> 1..k]
  BY <1>1, NameOfFacts DEF Bijection, Injection
<1>3. \A c, o \in ready : name[c] = name[o] => c = o
  BY <1>1, NameOfFacts DEF Bijection, Injection, IsInjective
<1>4. \A e \in 1..k : \E c \in ready : name[c] = e
  BY <1>1, NameOfFacts DEF Bijection, Surjection
<1>5. /\ contexts = ready /\ handles = ready /\ eglContexts = 1..k
      /\ egl = [c \in GLXContexts |-> IF c \in ready THEN name[c] ELSE NoName]
  BY DEF GlxInit
<1> HIDE DEF ready, k, name
<1>6. /\ egl \in [GLXContexts -> Nat] /\ \A c \in ready : egl[c] = name[c] /\ egl[c] \in 1..k
      /\ \A c \in GLXContexts \ ready : egl[c] = NoName
  BY <1>1, <1>2, <1>5 DEF NoName
<1>7. eglContexts \subseteq Nat /\ IsFiniteSet(eglContexts) /\ NoName \notin eglContexts
  BY <1>2, <1>5, FS_Interval DEF NoName
<1>8. GlxTypes
  <2>1. doing \in [GlxThreads -> StepType]
    BY StepTypes DEF GlxInit
  <2>2. /\ eglCurrent \in [GlxThreads -> [egl : Nat, surface : Nat]]
        /\ drawableSurfaces \in [Drawables -> [surface : Nat, size : Nat]]
        /\ currentDrawSurface \in [GlxThreads -> Nat]
        /\ sharesEgl \in [GLXContexts -> Nat]
    BY DEF GlxInit, Unbound, NoSurface, NoName
  <2> QED BY <1>1, <1>5, <1>6, <1>7, <2>1, <2>2 DEF GlxInit, GlxTypes
<1>9. \A t \in GlxThreads : doing[t] = Rest /\ currentContext[t] = NoContext
                              /\ currentDrawable[t] = NoDrawable
  BY DEF GlxInit
<1>10. StepInv
  BY <1>9, RestFacts DEF StepInv
<1>11. \A c \in GLXContexts :
         /\ Currents(c) = {} /\ Counters(c) = {} /\ Sharers(c) = {} /\ Referrers(c) = {}
         /\ Doing("claim", c) = {} /\ Doing("tearDown", c) = {}
         /\ share[c] = NoContext /\ ~Kept(c) /\ ~destroyPending[c]
         /\ currentCount[c] = 0 /\ shareRefs[c] = 0
  <2>1. \A c \in GLXContexts : /\ share[c] = NoContext /\ ~destroyPending[c]
                               /\ currentCount[c] = 0 /\ shareRefs[c] = 0
    BY DEF GlxInit
  <2> QED BY <1>9, <2>1, RestFacts, ScenesAssumption
          DEF Currents, Counters, Sharers, Referrers, Doing, Kept
<1>12. CountInv /\ RefInv
  <2>1. Cardinality({}) = 0
    BY FS_EmptySet
  <2>2. ASSUME NEW c \in GLXContexts
        PROVE  currentCount[c] = Cardinality(Currents(c)) + Cardinality(Counters(c))
    <3>1. Cardinality(Currents(c)) = 0 /\ Cardinality(Counters(c)) = 0
      BY <1>11, <2>1
    <3>2. currentCount[c] = 0
      BY <1>11
    <3> QED BY <3>1, <3>2
  <2>3. ASSUME NEW c \in GLXContexts
        PROVE  shareRefs[c] = Cardinality(Sharers(c)) + Cardinality(Referrers(c))
    <3>1. Cardinality(Sharers(c)) = 0 /\ Cardinality(Referrers(c)) = 0
      BY <1>11, <2>1
    <3>2. shareRefs[c] = 0
      BY <1>11
    <3> QED BY <3>1, <3>2
  <2> QED BY <2>2, <2>3 DEF CountInv, RefInv
<1>13. LifeInv
  BY <1>5, <1>6, <1>11 DEF LifeInv
<1>14. Storing = {}
  BY <1>9, RestFacts DEF Storing
<1>15. EglInv
  <2>1. \A e \in eglContexts : \E c \in GLXContexts : egl[c] = e
    BY <1>1, <1>4, <1>5, <1>6
  <2>2. \A c, o \in GLXContexts : egl[c] = egl[o] /\ egl[c] # NoName => c = o
    BY <1>3, <1>6
  <2>3. \A c \in GLXContexts : egl[c] \in eglContexts \union {NoName}
    BY <1>5, <1>6
  <2> QED BY <1>7, <1>14, <2>1, <2>2, <2>3 DEF EglInv
<1>16. RealInv
  BY <1>9, <1>11, RestFacts DEF RealInv, Binding
<1>17. BoundInv
  BY <1>9, RestFacts DEF BoundInv, GlxInit
<1> QED BY <1>8, <1>10, <1>12, <1>13, <1>15, <1>16, <1>17 DEF GlxInv

(* The scene is never changed.                                              *)
LEMMA SceneStays == [GlxNext]_glxVars => scene' = scene
<1> SUFFICES ASSUME [GlxNext]_glxVars PROVE scene' = scene
  OBVIOUS
<1>1. ASSUME NEW t \in GlxThreads,
             \/ \E label : At(t, label)
             \/ \E call : Calls(t, call)
      PROVE  scene' = scene
  BY <1>1 DEF At, Calls
<1>2. ASSUME NEW t \in GlxThreads,
             \/ Uncount(t) \/ releaseShareRef(t) \/ tearDownContextChain(t) \/ Drop(t)
             \/ ReleaseCurrent(t) \/ ClaimDestroyed(t)
             \/ createEglContext(t) \/ CreateFails(t)
             \/ realizeLazyContext(t) \/ RealizeFails(t) \/ StoreRealized(t)
      PROVE  scene' = scene
  BY <1>1, <1>2 DEF Uncount, releaseShareRef, tearDownContextChain, Drop, ReleaseCurrent,
     ClaimDestroyed, createEglContext, CreateFails, realizeLazyContext, RealizeFails,
     StoreRealized, Steps
<1>3. ASSUME NEW t \in GlxThreads,
             \/ glXSwapBuffers(t) \/ refreshDrawableSurfaceIfResized(t)
             \/ surfaceForDrawable(t) \/ SurfaceFails(t) \/ registerDrawableSurface(t)
             \/ MakeCurrent(t) \/ MakeCurrentFails(t) \/ InstallCurrent(t) \/ SwapEnds(t)
             \/ glXCreateContext(t) \/ createContextFromConfig(t, NoContext)
      PROVE  scene' = scene
  BY <1>1, <1>3 DEF glXSwapBuffers, refreshDrawableSurfaceIfResized, surfaceForDrawable,
     SurfaceFails, registerDrawableSurface, MakeCurrent, MakeCurrentFails, InstallCurrent,
     SwapEnds, glXCreateContext, createContextFromConfig, Steps
<1>4. ASSUME NEW t \in GlxThreads, NEW c \in GLXContexts,
             \/ glXDestroyContext(t, c) \/ createContextFromConfig(t, c)
             \/ \E d \in Drawables : glXMakeContextCurrent(t, c, d)
      PROVE  scene' = scene
  BY <1>1, <1>4 DEF glXDestroyContext, createContextFromConfig, glXMakeContextCurrent
<1>5. ASSUME NEW t \in GlxThreads, NEW d \in Drawables, glxDrawableDestroyed(t, d)
      PROVE  scene' = scene
  BY <1>1, <1>5 DEF glxDrawableDestroyed
<1>6. ASSUME NEW d \in Drawables, DrawableResized(d) PROVE scene' = scene
  BY <1>6 DEF DrawableResized
<1>7. CASE UNCHANGED glxVars
  BY <1>7 DEF glxVars
<1> QED BY <1>2, <1>3, <1>4, <1>5, <1>6, <1>7 DEF GlxNext

(* GlxInv is an invariant of every scene but those in which a context may be  *)
(* let go of, or realized, by two threads at a time.                         *)
THEOREM GlxInvariant == GlxSpec => [](~scene.together => GlxInv)
<1>1. GlxInit => (~scene.together => GlxInv)
  BY GlxInitInv
<1>2. (~scene.together => GlxInv) /\ [GlxNext]_glxVars => (~scene.together => GlxInv)'
  BY GlxStepInv, SceneStays
<1> QED BY <1>1, <1>2, PTL DEF GlxSpec

(* What the invariant says of the contexts.                                 *)
LEMMA ContextsFollow == GlxInv => ContextsOutliveUse
<1> SUFFICES ASSUME GlxInv PROVE ContextsOutliveUse
  OBVIOUS
<1>1. /\ GlxTypes /\ StepInv /\ CountInv /\ RefInv /\ LifeInv /\ EglInv /\ RealInv
      /\ BoundInv
  BY DEF GlxInv
<1>2. \A c \in GLXContexts :
        Currents(c) # {} \/ Counters(c) # {} \/ Sharers(c) # {} \/ Referrers(c) # {}
          => c \in contexts
  BY HeldFacts DEF Kept
<1>3. GlxTypeOK
  BY <1>1 DEF GlxTypeOK, GlxTypes, StepInv, EglInv
<1>4. \A t \in GlxThreads : currentContext[t] \in contexts \union {NoContext}
  BY <1>1, <1>2 DEF GlxTypes, Currents
<1>5. ASSUME NEW t \in GlxThreads PROVE doing[t].ctx \in contexts \union {NoContext}
  <2>1. doing[t].at \in Labels /\ doing[t].ctx \in GLXContexts \union {NoContext}
        /\ FormOK(t, doing[t])
    BY StepFacts, StepTypes
  <2>2. CASE Counts(doing[t]) \/ Refers(doing[t])
    BY <1>2, <2>1, <2>2 DEF Counters, Referrers
  <2>3. CASE OfCurrent(doing[t])
    BY <1>4, <2>1, <2>3 DEF FormOK
  <2>4. CASE doing[t].at \in {"claim", "tearDown"}
    <3>1. doing[t].ctx \in GLXContexts
      BY <2>1, <2>4 DEF FormOK, StepForm
    <3>2. t \in Doing("claim", doing[t].ctx) \/ t \in Doing("tearDown", doing[t].ctx)
      BY <2>4 DEF Doing
    <3> QED BY <1>1, <3>1, <3>2 DEF LifeInv
  <2>5. CASE doing[t].at = "rest"
    BY <2>1, <2>5, RestFacts DEF FormOK, StepForm
  <2> QED BY <2>1, <2>2, <2>3, <2>4, <2>5
          DEF Labels, Binding, Counts, Refers, OfCurrent, FormOK, StepForm, Realizes
<1>6. ASSUME NEW c \in contexts, share[c] # NoContext
      PROVE  share[c] \in contexts /\ sharesEgl[c] = egl[share[c]]
  <2>1. c \in GLXContexts /\ share[c] \in GLXContexts
    BY <1>1, <1>6 DEF GlxTypes
  <2>2. c \in Sharers(share[c])
    BY <2>1 DEF Sharers
  <2> QED BY <1>1, <1>2, <1>6, <2>1, <2>2 DEF RealInv
<1>7. ASSUME NEW t \in GlxThreads, NEW u \in GlxThreads, t # u,
             doing[t].at = "tearDown", doing[u].at = "tearDown"
      PROVE  doing[t].ctx # doing[u].ctx
  <2>1. doing[t].ctx \in GLXContexts
    BY <1>7, StepFacts DEF FormOK, StepForm
  <2> QED BY <1>1, <1>7, <2>1 DEF LifeInv, Doing
<1>8. ASSUME AllAtRest
      PROVE  /\ contexts \subseteq Needed
             /\ eglContexts = {egl[c] : c \in contexts} \ {NoName}
             /\ \A t \in GlxThreads :
                  eglCurrent[t].egl = IF currentContext[t] = NoContext THEN NoName
                                      ELSE egl[currentContext[t]]
  <2>1. \A t \in GlxThreads : doing[t].at = "rest" /\ ~Counts(doing[t]) /\ ~Refers(doing[t])
    BY <1>8, RestFacts DEF AllAtRest
  <2>2. ASSUME NEW c \in contexts PROVE c \in Needed
    <3>1. c \in GLXContexts
      BY <1>1 DEF GlxTypes
    <3>2. CASE c \in handles
      BY <3>2 DEF Needed
    <3>3. CASE c \notin handles
      <4>1. Doing("tearDown", c) = {} /\ Doing("claim", c) = {}
        BY <2>1 DEF Doing
      <4>2. Kept(c)
        BY <1>1, <3>1, <3>3, <4>1 DEF LifeInv
      <4>3. Counters(c) = {} /\ Referrers(c) = {}
        BY <2>1 DEF Counters, Referrers
      <4>4. Currents(c) # {} \/ Sharers(c) # {}
        <5>1. /\ currentCount[c] = Cardinality(Currents(c)) + Cardinality({})
              /\ shareRefs[c] = Cardinality(Sharers(c)) + Cardinality({})
          BY <1>1, <3>1, <4>3 DEF CountInv, RefInv
        <5>2. Cardinality({}) = 0
          BY FS_EmptySet
        <5> QED BY <4>2, <5>1, <5>2 DEF Kept
      <4>5. \A o \in GLXContexts : share[o] = c => o \in contexts
        BY <1>1, <3>1, ScenesAssumption DEF LifeInv
      <4> QED BY <4>4, <4>5 DEF Needed, Currents, Sharers
    <3> QED BY <3>2, <3>3
  <2>3. eglContexts = {egl[c] : c \in contexts} \ {NoName}
    <3>1. Storing = {}
      BY <2>1 DEF Storing
    <3>2. \A e \in eglContexts : \E c \in contexts : egl[c] = e
      BY <1>1, <3>1 DEF EglInv, LifeInv
    <3>3. contexts \subseteq GLXContexts
      BY <1>1 DEF GlxTypes
    <3> QED BY <1>1, <3>2, <3>3 DEF EglInv
  <2>4. \A t \in GlxThreads :
          eglCurrent[t].egl = IF currentContext[t] = NoContext THEN NoName
                              ELSE egl[currentContext[t]]
    <3> SUFFICES ASSUME NEW t \in GlxThreads
                 PROVE  eglCurrent[t].egl = IF currentContext[t] = NoContext THEN NoName
                                            ELSE egl[currentContext[t]]
      OBVIOUS
    <3>1. doing[t].at = "rest"
      BY <2>1
    <3>2. eglCurrent[t] =
            IF currentContext[t] = NoContext THEN Unbound
            ELSE [egl |-> egl[currentContext[t]], surface |-> currentDrawSurface[t]]
      BY <1>1, <3>1 DEF BoundInv
    <3>3. CASE currentContext[t] = NoContext
      BY <3>2, <3>3 DEF Unbound
    <3>4. CASE currentContext[t] # NoContext
      BY <3>2, <3>4
    <3> QED BY <3>3, <3>4
  <2> QED BY <2>2, <2>3, <2>4
<1> QED BY <1>3, <1>4, <1>5, <1>6, <1>7, <1>8 DEF ContextsOutliveUse

(* And of the surface that is swapped.                                      *)
LEMMA SwapFollows == GlxInv => SwapsWhatWasDrawn
<1> SUFFICES ASSUME GlxInv, NEW t \in GlxThreads, doing[t].at = "swap"
             PROVE  eglCurrent[t] = [egl |-> egl[currentContext[t]], surface |-> doing[t].name]
  BY DEF SwapsWhatWasDrawn
<1>1. doing[t].name = currentDrawSurface[t] /\ doing[t].ctx = currentContext[t]
      /\ doing[t].ctx \in GLXContexts
  BY StepFacts DEF FormOK, StepForm, OfCurrent
<1> QED BY <1>1, ScenesAssumption DEF GlxInv, BoundInv

(* A context is there while a thread has it current, another shares with it,  *)
(* a call works on it or the client can name it, and is torn down once.      *)
THEOREM ContextsTheorem == GlxSpec => [](~scene.together => ContextsOutliveUse)
<1>1. (~scene.together => GlxInv) => (~scene.together => ContextsOutliveUse)
  BY ContextsFollow
<1> QED BY <1>1, GlxInvariant, PTL

(* A swap shows the surface that is bound with the thread's own context.     *)
THEOREM SwapsTheorem == GlxSpec => [](~scene.together => SwapsWhatWasDrawn)
<1>1. (~scene.together => GlxInv) => (~scene.together => SwapsWhatWasDrawn)
  BY SwapFollows
<1> QED BY <1>1, GlxInvariant, PTL

(* The second look of glXDestroyContext finds the context.                  *)
THEOREM DestroyerTheorem == GlxSpec => [](~scene.together => DestroyerFindsContext)
<1>1. (~scene.together => GlxInv) => (~scene.together => DestroyerFindsContext)
  <2> SUFFICES ASSUME GlxInv, NEW t \in GlxThreads, doing[t].at = "claim"
               PROVE  doing[t].ctx \in contexts
    BY DEF DestroyerFindsContext
  <2>1. doing[t].ctx \in GLXContexts /\ t \in Doing("claim", doing[t].ctx)
    BY StepFacts DEF FormOK, StepForm, Doing
  <2> QED BY <2>1 DEF GlxInv, LifeInv
<1> QED BY <1>1, GlxInvariant, PTL

-----------------------------------------------------------------------------
(* Shared-memory segments.                                                  *)

(* An attachment exists while XShmDetach can find it or a thread pins it;   *)
(* inUse counts the threads that do.                                        *)
Pinners(e) == {t \in ShmThreads : copying[t].pinned = e}
Live(e) == e \in shmAttachments \/ \E t \in ShmThreads : copying[t].pinned = e

(* A freed attachment is blank; one that is there maps its segment, at an   *)
(* address of its own unless the client's is shared.                        *)
AttachmentInv ==
  \A e \in Attachments :
    /\ ~Live(e) => attachment[e] = Freed
    /\ Live(e) => /\ attachment[e].addr \in Addresses /\ attachment[e].info \in Segments
                  /\ attachment[e].attachedHere <=> attachment[e].addr \notin clientMapped
    /\ e \in shmAttachments <=> Live(e) /\ ~attachment[e].pendingDetach
    /\ attachment[e].inUse = Cardinality(Pinners(e))

OwnMappings ==
  \A e, o \in Attachments :
    (/\ Live(e) /\ Live(o) /\ attachment[e].attachedHere /\ attachment[o].attachedHere
     /\ attachment[e].addr = attachment[o].addr) => e = o

(* The client sees a segment where its attachment maps it.                  *)
SegmentInv ==
  /\ \A e \in shmAttachments : shmaddr[attachment[e].info] = attachment[e].addr
  /\ \A e, o \in shmAttachments : attachment[e].info = attachment[o].info => e = o
  /\ \A s \in Segments : \/ shmaddr[s] \in clientMapped \union {Unmapped}
                         \/ \E e \in shmAttachments : attachment[e].info = s

(* A thread copies from the mapping it pins, or from one of the client's.   *)
CopyInv ==
  \A t \in ShmThreads :
    IF copying[t].pinned \in Attachments
      THEN /\ attachment[copying[t].pinned].attachedHere
           /\ copying[t].data = attachment[copying[t].pinned].addr
      ELSE copying[t].data \in clientMapped \union {Unmapped}

(* The kernel maps what the client mapped and what an attachment maps.      *)
MappingInv ==
  /\ clientMapped \subseteq mapped
  /\ \A e \in Attachments : Live(e) => attachment[e].addr \in mapped
  /\ \A a \in mapped : \/ a \in clientMapped
                       \/ \E e \in Attachments : Live(e) /\ attachment[e].addr = a

ShmInv ==
  ShmTypeOK /\ AttachmentInv /\ OwnMappings /\ SegmentInv /\ CopyInv /\ MappingInv

Records ==
  [info : Segments \union {"none"}, addr : Addresses \union {Unmapped},
   attachedHere : BOOLEAN, inUse : 0..Cardinality(ShmThreads), pendingDetach : BOOLEAN]

(* The count of a set of threads.                                           *)
LEMMA PinnersFacts ==
  ASSUME NEW S, S \subseteq ShmThreads
  PROVE  /\ IsFiniteSet(S) /\ Cardinality(S) \in 0..Cardinality(ShmThreads)
         /\ Cardinality(S) = 0 <=> S = {}
         /\ \A t : /\ t \notin S => Cardinality(S \union {t}) = Cardinality(S) + 1
                   /\ t \in S => Cardinality(S \ {t}) = Cardinality(S) - 1
<1>1. IsFiniteSet(S) /\ Cardinality(S) <= Cardinality(ShmThreads)
  BY SegmentsAssumption, FS_Subset
<1>2. Cardinality(S) \in Nat /\ Cardinality(ShmThreads) \in Nat
  BY <1>1, SegmentsAssumption, FS_CardinalityType
<1>3. Cardinality(S) = 0 <=> S = {}
  BY <1>1, FS_EmptySet
<1>4. ASSUME NEW t, t \notin S PROVE Cardinality(S \union {t}) = Cardinality(S) + 1
  BY <1>1, <1>4, FS_AddElement
<1>5. ASSUME NEW t, t \in S PROVE Cardinality(S \ {t}) = Cardinality(S) - 1
  BY <1>1, <1>5, FS_RemoveElement
<1> QED BY <1>1, <1>2, <1>3, <1>4, <1>5

(* A freed attachment is one of the records.                                *)
LEMMA FreedIsRecord ==
  /\ Freed \in Records /\ Freed.addr = Unmapped /\ Freed.inUse = 0
  /\ ~Freed.pendingDetach /\ ~Freed.attachedHere
<1>1. 0 \in 0..Cardinality(ShmThreads)
  BY PinnersFacts
<1> QED BY <1>1 DEF Freed, Records

(* The invariant holds at the start.                                        *)
LEMMA ShmInitInv == ShmInit => ShmInv
<1> SUFFICES ASSUME ShmInit PROVE ShmInv
  OBVIOUS
<1>1. /\ \A t \in ShmThreads : copying[t].pinned = NoAttachment /\ copying[t].data = Unmapped
      /\ \A e \in Attachments : attachment[e] = Freed
  BY DEF ShmInit, NotCopying
<1>2. ShmTypeOK
  <2>1. attachment \in [Attachments -> Records]
    BY FreedIsRecord DEF ShmInit
  <2>2. /\ copying \in [ShmThreads -> [pinned : Attachments \union {NoAttachment},
                                       data : Addresses \union {Unmapped}]]
    BY DEF ShmInit, NotCopying
  <2>3. clientMapped \subseteq Addresses
    BY DEF ShmInit
  <2> QED BY <2>1, <2>2, <2>3 DEF ShmTypeOK, ShmInit, Records
<1>3. \A e \in Attachments : ~Live(e) /\ Pinners(e) = {}
  BY <1>1, SegmentsAssumption DEF Live, Pinners, ShmInit
<1>4. AttachmentInv
  <2>1. Cardinality({}) = 0
    BY FS_EmptySet
  <2> QED BY <1>1, <1>3, <2>1, FreedIsRecord DEF AttachmentInv, ShmInit
<1>5. OwnMappings
  BY <1>3 DEF OwnMappings
<1>6. SegmentInv
  BY DEF SegmentInv, ShmInit
<1>7. CopyInv
  BY <1>1, SegmentsAssumption DEF CopyInv
<1>8. MappingInv
  BY <1>3 DEF MappingInv, ShmInit
<1> QED BY <1>2, <1>4, <1>5, <1>6, <1>7, <1>8 DEF ShmInv

(* A new attachment: the library maps the segment where nothing is mapped,   *)
(* or records the client's mapping.                                         *)
LEMMA XShmAttachInv ==
  ASSUME ShmInv, NEW s \in Segments, XShmAttach(s)
  PROVE  ShmInv'
<1>0. /\ ShmTypeOK /\ AttachmentInv /\ OwnMappings /\ SegmentInv /\ CopyInv /\ MappingInv
      /\ UNCHANGED <<clientMapped, copying>>
      /\ \A e \in shmAttachments : attachment[e].info # s
  BY DEF ShmInv, XShmAttach, findAttachment
<1>1. Calloced \in Attachments /\ attachment[Calloced] = Freed
  BY DEF XShmAttach, Calloced
<1>2. SUFFICES ASSUME NEW n \in Attachments, n = Calloced,
                      NEW here, here = (shmaddr[s] = Unmapped),
                      NEW a, a = IF here THEN Shmat ELSE shmaddr[s]
               PROVE  ShmInv'
  BY <1>1
<1>3. /\ attachment[n] = Freed
      /\ attachment' = [attachment EXCEPT ![n] =
                          [Freed EXCEPT !.info = s, !.addr = a, !.attachedHere = here]]
      /\ shmAttachments' = shmAttachments \union {n}
      /\ shmaddr' = [shmaddr EXCEPT ![s] = a]
      /\ mapped' = mapped \union {a}
  BY <1>1, <1>2 DEF XShmAttach
<1>4. here \in BOOLEAN
  BY <1>2
<1>5. /\ a \in Addresses
      /\ here <=> a \notin clientMapped
      /\ here => a \notin mapped
  <2>1. CASE here
    <3>1. mapped # Addresses /\ mapped \subseteq Addresses
      BY <1>0, <1>2, <2>1 DEF XShmAttach, ShmTypeOK
    <3>2. Shmat \in Addresses /\ Shmat \notin mapped
      BY <3>1 DEF Shmat
    <3> QED BY <1>0, <1>2, <2>1, <3>2 DEF MappingInv
  <2>2. CASE ~here
    <3>1. shmaddr[s] \in clientMapped
      BY <1>0, <1>2, <2>2 DEF SegmentInv
    <3> QED BY <1>0, <1>2, <2>2, <3>1 DEF ShmTypeOK
  <2> QED BY <1>4, <2>1, <2>2
<1>6. ~Live(n) /\ n \notin shmAttachments
  BY <1>0, <1>3, FreedIsRecord, SegmentsAssumption DEF AttachmentInv, Live
<1>7. /\ attachment'[n].info = s /\ attachment'[n].addr = a
      /\ attachment'[n].attachedHere = here /\ attachment'[n].inUse = 0
      /\ ~attachment'[n].pendingDetach
      /\ attachment' \in [Attachments -> Records]
      /\ \A e \in Attachments : e # n => attachment'[e] = attachment[e]
  <2>1. SUFFICES ASSUME NEW r, r = [Freed EXCEPT !.info = s, !.addr = a,
                                                 !.attachedHere = here]
                 PROVE  /\ r.info = s /\ r.addr = a /\ r.attachedHere = here
                        /\ r.inUse = 0 /\ ~r.pendingDetach /\ r \in Records
    BY <1>0, <1>3 DEF ShmTypeOK, Records
  <2>2. 0 \in 0..Cardinality(ShmThreads)
    BY PinnersFacts
  <2> QED BY <1>4, <1>5, <2>1, <2>2 DEF Freed, Records
<1>8. ShmTypeOK'
  BY <1>0, <1>3, <1>5, <1>7 DEF ShmTypeOK, Records
<1>9. \A e \in Attachments : /\ Live(e)' <=> Live(e) \/ e = n
                             /\ Pinners(e)' = Pinners(e)
  BY <1>0, <1>3 DEF Live, Pinners
<1>10. AttachmentInv'
  <2>1. Cardinality(Pinners(n)) = 0
    BY <1>0, <1>3, FreedIsRecord DEF AttachmentInv
  <2> QED BY <1>0, <1>3, <1>5, <1>6, <1>7, <1>9, <2>1 DEF AttachmentInv
<1>11. OwnMappings'
  BY <1>0, <1>4, <1>5, <1>6, <1>7, <1>9 DEF OwnMappings, MappingInv
<1>12. SegmentInv'
  <2>1. \A e \in shmAttachments : e # n /\ e \in Attachments /\ attachment'[e] = attachment[e]
    BY <1>0, <1>6, <1>7 DEF ShmTypeOK
  <2>2. \A o \in Segments : shmaddr'[o] = IF o = s THEN a ELSE shmaddr[o]
    BY <1>0, <1>3 DEF ShmTypeOK
  <2>3. \A e \in shmAttachments : attachment[e].info \in Segments
    BY <1>0, <2>1 DEF AttachmentInv, Live
  <2>4. \A e \in shmAttachments' : shmaddr'[attachment'[e].info] = attachment'[e].addr
    BY <1>0, <1>3, <1>7, <2>1, <2>2, <2>3 DEF SegmentInv
  <2>5. \A e, o \in shmAttachments' : attachment'[e].info = attachment'[o].info => e = o
    BY <1>0, <1>3, <1>7, <2>1 DEF SegmentInv
  <2>6. \A o \in Segments : \/ shmaddr'[o] \in clientMapped' \union {Unmapped}
                            \/ \E e \in shmAttachments' : attachment'[e].info = o
    BY <1>0, <1>3, <1>7, <2>1, <2>2 DEF SegmentInv
  <2> QED BY <2>4, <2>5, <2>6 DEF SegmentInv
<1>13. CopyInv'
  <2>1. \A t \in ShmThreads : copying[t].pinned # n
    BY <1>6 DEF Live
  <2> QED BY <1>0, <1>7, <2>1 DEF CopyInv
<1>14. MappingInv'
  BY <1>0, <1>3, <1>5, <1>6, <1>7, <1>9 DEF MappingInv
<1> QED BY <1>8, <1>10, <1>11, <1>12, <1>13, <1>14 DEF ShmInv

(* What a step that moves the attachment e alone leaves to show.            *)
LEMMA ShmFacts ==
  ASSUME ShmInv
  PROVE  /\ ShmTypeOK /\ AttachmentInv /\ OwnMappings /\ SegmentInv /\ CopyInv /\ MappingInv
         /\ attachment \in [Attachments -> Records]
         /\ \A e \in Attachments :
              /\ attachment[e] \in Records
              /\ (Pinners(e) # {}) <=> (\E t \in ShmThreads : copying[t].pinned = e)
              /\ attachment[e].inUse > 0 <=> Pinners(e) # {}
              /\ attachment[e].inUse \in Nat
<1>1. /\ ShmTypeOK /\ AttachmentInv /\ OwnMappings /\ SegmentInv /\ CopyInv /\ MappingInv
      /\ attachment \in [Attachments -> Records]
  BY DEF ShmInv, ShmTypeOK, Records
<1>2. ASSUME NEW e \in Attachments
      PROVE  /\ attachment[e] \in Records
             /\ (Pinners(e) # {}) <=> (\E t \in ShmThreads : copying[t].pinned = e)
             /\ attachment[e].inUse > 0 <=> Pinners(e) # {}
             /\ attachment[e].inUse \in Nat
  <2>1. Pinners(e) \subseteq ShmThreads
    BY DEF Pinners
  <2>2. attachment[e].inUse = Cardinality(Pinners(e))
    BY <1>1 DEF AttachmentInv
  <2>3. Cardinality(Pinners(e)) \in Nat /\ (Cardinality(Pinners(e)) = 0 <=> Pinners(e) = {})
    <3>1. /\ Cardinality(Pinners(e)) \in 0..Cardinality(ShmThreads)
          /\ Cardinality(Pinners(e)) = 0 <=> Pinners(e) = {}
      BY <2>1, PinnersFacts
    <3> QED BY <3>1
  <2>4. (Pinners(e) # {}) <=> (\E t \in ShmThreads : copying[t].pinned = e)
    BY DEF Pinners
  <2>5. attachment[e] \in Records
    BY <1>1
  <2> QED BY <2>2, <2>3, <2>4, <2>5
<1> QED BY <1>1, <1>2

(* XShmDetach of an attachment that a thread has pinned only unlists it.    *)
LEMMA DetachPinnedInv ==
  ASSUME ShmInv, NEW s \in Segments, NEW e \in findAttachment(s),
         shmAttachments' = shmAttachments \ {e},
         shmaddr' = IF attachment[e].attachedHere
                      THEN [shmaddr EXCEPT ![s] = Unmapped] ELSE shmaddr,
         attachment[e].inUse > 0,
         attachment' = [attachment EXCEPT ![e].pendingDetach = TRUE],
         UNCHANGED <<mapped, clientMapped, copying>>
  PROVE  ShmInv'
<1>0. /\ ShmTypeOK /\ AttachmentInv /\ OwnMappings /\ SegmentInv /\ CopyInv /\ MappingInv
      /\ e \in Attachments /\ e \in shmAttachments /\ attachment[e].info = s
  BY ShmFacts DEF findAttachment, ShmTypeOK
<1>1. \E t \in ShmThreads : copying[t].pinned = e
  BY <1>0, ShmFacts
<1>2. attachment[e].attachedHere
  BY <1>0, <1>1 DEF CopyInv
<1>3. /\ attachment' \in [Attachments -> Records]
      /\ \A o \in Attachments : o # e => attachment'[o] = attachment[o]
      /\ attachment'[e].info = s /\ attachment'[e].addr = attachment[e].addr
      /\ attachment'[e].attachedHere /\ attachment'[e].inUse = attachment[e].inUse
      /\ attachment'[e].pendingDetach
  <2>1. SUFFICES ASSUME NEW r, r = [attachment[e] EXCEPT !.pendingDetach = TRUE]
                 PROVE  /\ r \in Records /\ r.info = s /\ r.addr = attachment[e].addr
                        /\ r.attachedHere /\ r.inUse = attachment[e].inUse
                        /\ r.pendingDetach
    BY <1>0, ShmFacts
  <2> QED BY ZenonT(60), <1>0, <1>2, <2>1, ShmFacts DEF Records
<1>4. \A o \in Attachments : (Live(o)' <=> Live(o)) /\ Pinners(o)' = Pinners(o)
  BY <1>1 DEF Live, Pinners
<1>5. \A o \in Segments : shmaddr'[o] = IF o = s THEN Unmapped ELSE shmaddr[o]
  BY <1>0, <1>2 DEF ShmTypeOK
<1>6. ShmTypeOK'
  BY <1>0, <1>2, <1>3 DEF ShmTypeOK, Records
<1>7. AttachmentInv'
  BY <1>0, <1>1, <1>2, <1>3, <1>4 DEF AttachmentInv, Live
<1>8. OwnMappings'
  BY <1>0, <1>2, <1>3, <1>4 DEF OwnMappings
<1>9. SegmentInv'
  BY <1>0, <1>3, <1>5 DEF SegmentInv, ShmTypeOK, AttachmentInv, Live
<1>10. CopyInv'
  BY <1>0, <1>3 DEF CopyInv
<1>11. MappingInv'
  BY <1>0, <1>3, <1>4 DEF MappingInv
<1> QED BY <1>6, <1>7, <1>8, <1>9, <1>10, <1>11 DEF ShmInv

(* An attachment is freed and its mapping undone, if it is the library's,    *)
(* once it is off the list and nobody has it pinned.                        *)
LEMMA FreeInv ==
  ASSUME ShmInv, NEW e \in Attachments, Live(e), Free(e),
         shmAttachments' = shmAttachments \ {e},
         \A o \in Attachments \ {e} : Pinners(o)' = Pinners(o),
         Pinners(e)' = {},
         \A t \in ShmThreads : copying'[t] \in {copying[t], NotCopying},
         copying' \in [ShmThreads -> [pinned : Attachments \union {NoAttachment},
                                      data : Addresses \union {Unmapped}]],
         mapped' = IF attachment[e].attachedHere
                     THEN mapped \ {attachment[e].addr} ELSE mapped,
         e \in shmAttachments =>
           shmaddr' = IF attachment[e].attachedHere
                        THEN [shmaddr EXCEPT ![attachment[e].info] = Unmapped] ELSE shmaddr,
         e \notin shmAttachments => UNCHANGED shmaddr,
         UNCHANGED clientMapped
  PROVE  ShmInv'
<1>0. /\ ShmTypeOK /\ AttachmentInv /\ OwnMappings /\ SegmentInv /\ CopyInv /\ MappingInv
  BY ShmFacts
<1>1. /\ attachment' \in [Attachments -> Records] /\ attachment'[e] = Freed
      /\ \A o \in Attachments : o # e => attachment'[o] = attachment[o]
  BY ShmFacts, FreedIsRecord DEF Free
<1>2. /\ Freed.addr = Unmapped /\ Freed.inUse = 0 /\ ~Freed.pendingDetach
      /\ ~Freed.attachedHere
  BY FreedIsRecord
<1>3. ~Live(e)' /\ \A o \in Attachments : o # e => (Live(o)' <=> Live(o))
  BY DEF Live, Pinners
<1>4. attachment[e].info \in Segments /\ attachment[e].addr \in Addresses
  BY <1>0 DEF AttachmentInv
<1>5. /\ shmaddr' \in [Segments -> Addresses \union {Unmapped}]
      /\ \A s \in Segments : s # attachment[e].info => shmaddr'[s] = shmaddr[s]
      /\ e \notin shmAttachments => shmaddr' = shmaddr
      /\ e \in shmAttachments =>
           shmaddr'[attachment[e].info] \in clientMapped \union {Unmapped}
  <2>1. CASE e \in shmAttachments /\ attachment[e].attachedHere
    BY <1>0, <1>4, <2>1 DEF ShmTypeOK
  <2>2. CASE e \in shmAttachments /\ ~attachment[e].attachedHere
    BY <1>0, <1>4, <2>2 DEF ShmTypeOK, SegmentInv, AttachmentInv
  <2>3. CASE e \notin shmAttachments
    BY <1>0, <2>3 DEF ShmTypeOK
  <2> QED BY <2>1, <2>2, <2>3
<1>6. ShmTypeOK'
  BY <1>0, <1>1, <1>5 DEF ShmTypeOK, Records
<1>7. AttachmentInv'
  <2>1. Cardinality({}) = 0
    BY FS_EmptySet
  <2>2. attachment'[e].inUse = Cardinality(Pinners(e)')
    BY <1>1, <1>2, <2>1
  <2> QED BY ZenonT(60), <1>0, <1>1, <1>2, <1>3, <2>2 DEF AttachmentInv
<1>8. OwnMappings'
  BY <1>0, <1>1, <1>3 DEF OwnMappings
<1>9. SegmentInv'
  <2>1. \A o \in shmAttachments' : /\ o \in shmAttachments /\ o \in Attachments
                                   /\ attachment'[o] = attachment[o]
                                   /\ attachment[o].info \in Segments
    BY <1>0, <1>1 DEF ShmTypeOK, AttachmentInv, Live
  <2>2. \A o \in shmAttachments' : e \in shmAttachments => attachment[o].info # attachment[e].info
    BY <1>0, <2>1 DEF SegmentInv
  <2>3. \A o \in shmAttachments' : shmaddr'[attachment'[o].info] = attachment'[o].addr
    BY <1>0, <1>5, <2>1, <2>2 DEF SegmentInv
  <2>4. \A s \in Segments : \/ shmaddr'[s] \in clientMapped \union {Unmapped}
                            \/ \E o \in shmAttachments' : attachment'[o].info = s
    <3>1. SUFFICES ASSUME NEW s \in Segments, shmaddr'[s] \notin clientMapped \union {Unmapped}
                   PROVE  \E o \in shmAttachments' : attachment'[o].info = s
      OBVIOUS
    <3>2. shmaddr'[s] = shmaddr[s]
      BY <1>5, <3>1
    <3>3. PICK o \in shmAttachments : attachment[o].info = s
      BY <1>0, <3>1, <3>2 DEF SegmentInv
    <3>4. o # e
      BY <1>5, <3>1, <3>3
    <3> QED BY <2>1, <3>3, <3>4
  <2> QED BY <1>0, <2>1, <2>3, <2>4 DEF SegmentInv
<1>10. CopyInv'
  <2>1. SUFFICES ASSUME NEW t \in ShmThreads
                 PROVE  IF copying'[t].pinned \in Attachments
                          THEN /\ attachment'[copying'[t].pinned].attachedHere
                               /\ copying'[t].data = attachment'[copying'[t].pinned].addr
                          ELSE copying'[t].data \in clientMapped \union {Unmapped}
    BY DEF CopyInv
  <2>2. copying'[t].pinned # e
    BY DEF Pinners
  <2>3. CASE copying'[t] = NotCopying
    BY <2>3, SegmentsAssumption DEF NotCopying
  <2>4. CASE copying'[t] = copying[t]
    BY <1>0, <1>1, <2>2, <2>4 DEF CopyInv
  <2> QED BY <2>3, <2>4
<1>11. MappingInv'
  <2>1. ASSUME attachment[e].attachedHere
        PROVE  /\ attachment[e].addr \notin clientMapped
               /\ \A o \in Attachments : o # e /\ Live(o) =>
                    attachment[o].addr # attachment[e].addr
    BY <1>0, <2>1 DEF AttachmentInv, OwnMappings
  <2>2. ASSUME ~attachment[e].attachedHere
        PROVE  attachment[e].addr \in clientMapped
    BY <1>0, <2>2 DEF AttachmentInv
  <2>3. \A o \in Attachments : Live(o)' => attachment'[o].addr \in mapped'
    BY <1>0, <1>1, <1>3, <2>1 DEF MappingInv
  <2>4. ASSUME NEW a \in mapped'
        PROVE  a \in clientMapped \/ \E o \in Attachments : Live(o)' /\ attachment'[o].addr = a
    <3>1. a \in mapped /\ (attachment[e].attachedHere => a # attachment[e].addr)
      BY <2>4
    <3>2. SUFFICES ASSUME a \notin clientMapped
                   PROVE  \E o \in Attachments : Live(o)' /\ attachment'[o].addr = a
      OBVIOUS
    <3>3. PICK o \in Attachments : Live(o) /\ attachment[o].addr = a
      BY <1>0, <3>1, <3>2 DEF MappingInv
    <3>4. o # e
      BY <2>2, <3>1, <3>2, <3>3
    <3> QED BY <1>1, <1>3, <3>3, <3>4
  <2>5. clientMapped \subseteq mapped'
    BY <1>0, <2>1 DEF MappingInv
  <2> QED BY <2>3, <2>4, <2>5 DEF MappingInv
<1> QED BY <1>6, <1>7, <1>8, <1>9, <1>10, <1>11 DEF ShmInv

(* XShmDetach, of an attachment that is pinned or not.                      *)
LEMMA XShmDetachInv ==
  ASSUME ShmInv, NEW s \in Segments, XShmDetach(s)
  PROVE  ShmInv'
<1>1. PICK e \in findAttachment(s) :
        /\ shmAttachments' = shmAttachments \ {e}
        /\ shmaddr' = IF attachment[e].attachedHere
                        THEN [shmaddr EXCEPT ![s] = Unmapped] ELSE shmaddr
        /\ IF attachment[e].inUse > 0
             THEN /\ attachment' = [attachment EXCEPT ![e].pendingDetach = TRUE]
                  /\ UNCHANGED mapped
             ELSE /\ Free(e)
                  /\ mapped' = IF attachment[e].attachedHere
                                 THEN mapped \ {attachment[e].addr} ELSE mapped
        /\ UNCHANGED <<clientMapped, copying>>
  BY DEF XShmDetach
<1>2. e \in shmAttachments /\ e \in Attachments /\ attachment[e].info = s
  BY ShmFacts DEF findAttachment, ShmTypeOK
<1>3. CASE attachment[e].inUse > 0
  BY <1>1, <1>3, DetachPinnedInv
<1>4. CASE ~(attachment[e].inUse > 0)
  <2>1. Pinners(e) = {} /\ Live(e)
    BY <1>2, <1>4, ShmFacts DEF Live
  <2>2. \A o \in Attachments : Pinners(o)' = Pinners(o)
    BY <1>1 DEF Pinners
  <2>3. copying' \in [ShmThreads -> [pinned : Attachments \union {NoAttachment},
                                     data : Addresses \union {Unmapped}]]
    BY <1>1, ShmFacts DEF ShmTypeOK
  <2>4. \A t \in ShmThreads : copying'[t] \in {copying[t], NotCopying}
    BY <1>1
  <2> QED BY <1>1, <1>2, <1>4, <2>1, <2>2, <2>3, <2>4, FreeInv
<1> QED BY <1>3, <1>4

(* A copy begins: a mapping of the library's is pinned, the client's is not. *)
LEMMA PinInv ==
  ASSUME ShmInv, NEW t \in ShmThreads, NEW s \in Segments, pinAttachmentLocked(t, s)
  PROVE  ShmInv'
<1>0. /\ ShmTypeOK /\ AttachmentInv /\ OwnMappings /\ SegmentInv /\ CopyInv /\ MappingInv
      /\ copying[t] = NotCopying
      /\ UNCHANGED <<shmAttachments, shmaddr, mapped, clientMapped>>
  BY ShmFacts DEF pinAttachmentLocked
<1>1. PICK e \in findAttachment(s) :
        /\ copying' = [copying EXCEPT ![t] =
             [pinned |-> IF attachment[e].attachedHere THEN e ELSE NoAttachment,
              data |-> shmaddr[s]]]
        /\ attachment' = IF attachment[e].attachedHere
                           THEN [attachment EXCEPT ![e].inUse = @ + 1]
                           ELSE attachment
  BY DEF pinAttachmentLocked
<1>2. /\ e \in shmAttachments /\ e \in Attachments /\ attachment[e].info = s
      /\ Live(e) /\ ~attachment[e].pendingDetach
      /\ shmaddr[s] = attachment[e].addr /\ attachment[e].addr \in Addresses
  BY <1>0 DEF findAttachment, ShmTypeOK, AttachmentInv, SegmentInv, Live
<1>3. copying[t].pinned \notin Attachments /\ copying[t].pinned = NoAttachment
  BY <1>0, SegmentsAssumption DEF NotCopying
<1>4. SUFFICES ASSUME NEW c, c = [pinned |-> IF attachment[e].attachedHere
                                               THEN e ELSE NoAttachment,
                                  data |-> attachment[e].addr]
               PROVE  ShmInv'
  OBVIOUS
<1>5. /\ copying' = [copying EXCEPT ![t] = c] /\ c.data = attachment[e].addr
      /\ attachment[e].attachedHere => c.pinned = e
      /\ ~attachment[e].attachedHere => c.pinned = NoAttachment
      /\ c \in [pinned : Attachments \union {NoAttachment},
                data : Addresses \union {Unmapped}]
  BY <1>1, <1>2, <1>4
<1>6. /\ copying' \in [ShmThreads -> [pinned : Attachments \union {NoAttachment},
                                      data : Addresses \union {Unmapped}]]
      /\ copying'[t] = c /\ \A u \in ShmThreads : u # t => copying'[u] = copying[u]
  BY <1>0, <1>5 DEF ShmTypeOK
<1>7. CASE ~attachment[e].attachedHere
  <2>1. /\ attachment' = attachment /\ c.pinned = NoAttachment
        /\ attachment[e].addr \in clientMapped
    BY <1>0, <1>1, <1>2, <1>5, <1>7 DEF AttachmentInv
  <2>2. \A o \in Attachments : (Live(o)' <=> Live(o)) /\ Pinners(o)' = Pinners(o)
    BY <1>0, <1>3, <1>6, <2>1, SegmentsAssumption DEF Live, Pinners
  <2>3. ShmTypeOK'
    BY <1>0, <1>6, <2>1 DEF ShmTypeOK
  <2>4. AttachmentInv' /\ OwnMappings' /\ MappingInv' /\ SegmentInv'
    BY <1>0, <2>1, <2>2 DEF AttachmentInv, OwnMappings, MappingInv, SegmentInv
  <2>5. CopyInv'
    BY <1>0, <1>5, <1>6, <2>1, SegmentsAssumption DEF CopyInv
  <2> QED BY <2>3, <2>4, <2>5 DEF ShmInv
<1>8. CASE attachment[e].attachedHere
  <2>0. /\ attachment' = [attachment EXCEPT ![e].inUse = @ + 1] /\ c.pinned = e
    BY <1>1, <1>5, <1>8
  <2>1. /\ \A o \in Attachments \ {e} : Pinners(o)' = Pinners(o)
        /\ Pinners(e)' = Pinners(e) \union {t} /\ t \notin Pinners(e)
    BY <1>2, <1>3, <1>6, <2>0 DEF Pinners
  <2>2. \A o \in Attachments : Live(o)' <=> Live(o)
    BY <1>0, <1>2, <1>3, <1>6, <2>0 DEF Live
  <2>3. /\ Cardinality(Pinners(e)') = attachment[e].inUse + 1
        /\ attachment[e].inUse + 1 \in 0..Cardinality(ShmThreads)
    <3>1. Pinners(e) \subseteq ShmThreads /\ Pinners(e) \union {t} \subseteq ShmThreads
      BY DEF Pinners
    <3>2. /\ Cardinality(Pinners(e) \union {t}) = Cardinality(Pinners(e)) + 1
          /\ Cardinality(Pinners(e) \union {t}) \in 0..Cardinality(ShmThreads)
      BY <2>1, <3>1, PinnersFacts
    <3>3. attachment[e].inUse = Cardinality(Pinners(e))
      BY <1>0, <1>2 DEF AttachmentInv
    <3> QED BY <2>1, <3>2, <3>3
  <2>4. /\ attachment' \in [Attachments -> Records]
        /\ \A o \in Attachments : o # e => attachment'[o] = attachment[o]
        /\ attachment'[e].info = s /\ attachment'[e].addr = attachment[e].addr
        /\ attachment'[e].attachedHere /\ attachment'[e].inUse = attachment[e].inUse + 1
        /\ ~attachment'[e].pendingDetach
    <3>1. SUFFICES ASSUME NEW r, r = [attachment[e] EXCEPT !.inUse = @ + 1]
                   PROVE  /\ r \in Records /\ r.info = s /\ r.addr = attachment[e].addr
                          /\ r.attachedHere /\ r.inUse = attachment[e].inUse + 1
                          /\ ~r.pendingDetach
      BY <1>2, <2>0, ShmFacts
    <3>2. attachment[e] \in Records
      BY <1>2, ShmFacts
    <3> QED BY <1>2, <1>8, <2>3, <3>1, <3>2 DEF Records
  <2>5. ShmTypeOK'
    BY <1>0, <1>6, <2>4 DEF ShmTypeOK, Records
  <2>6. AttachmentInv'
    BY ZenonT(60), <1>0, <1>2, <1>8, <2>1, <2>2, <2>3, <2>4 DEF AttachmentInv
  <2>7. OwnMappings'
    BY <1>0, <1>8, <2>2, <2>4 DEF OwnMappings
  <2>8. SegmentInv'
    <3>1. \A o \in shmAttachments : /\ attachment'[o].info = attachment[o].info
                                    /\ attachment'[o].addr = attachment[o].addr
      BY <1>0, <1>2, <2>4 DEF ShmTypeOK
    <3> QED BY <1>0, <3>1 DEF SegmentInv
  <2>9. CopyInv'
    BY <1>0, <1>2, <1>5, <1>6, <2>0, <2>4 DEF CopyInv
  <2>10. MappingInv'
    BY <1>0, <2>2, <2>4 DEF MappingInv
  <2> QED BY <2>5, <2>6, <2>7, <2>8, <2>9, <2>10 DEF ShmInv
<1> QED BY <1>7, <1>8

(* A copy ends.  The last reader of a detached attachment frees it.         *)
LEMMA UnpinInv ==
  ASSUME ShmInv, NEW t \in ShmThreads, unpinAttachment(t)
  PROVE  ShmInv'
<1>0. /\ ShmTypeOK /\ AttachmentInv /\ OwnMappings /\ SegmentInv /\ CopyInv /\ MappingInv
      /\ copying' = [copying EXCEPT ![t] = NotCopying]
      /\ UNCHANGED <<shmAttachments, shmaddr, clientMapped>>
  BY ShmFacts DEF unpinAttachment
<1>1. /\ copying' \in [ShmThreads -> [pinned : Attachments \union {NoAttachment},
                                      data : Addresses \union {Unmapped}]]
      /\ copying'[t] = NotCopying /\ \A u \in ShmThreads : u # t => copying'[u] = copying[u]
      /\ NotCopying.pinned \notin Attachments /\ NotCopying.data = Unmapped
  BY <1>0, SegmentsAssumption DEF ShmTypeOK, NotCopying
<1>2. SUFFICES ASSUME NEW e, e = copying[t].pinned PROVE ShmInv'
  OBVIOUS
<1>3. e \in Attachments \union {NoAttachment}
  BY <1>0, <1>2 DEF ShmTypeOK
<1>4. \A o \in Attachments \ {e} : (Live(o)' <=> Live(o)) /\ Pinners(o)' = Pinners(o)
  BY <1>0, <1>1, <1>2 DEF Live, Pinners
<1>5. CASE e = NoAttachment
  <2>1. UNCHANGED <<attachment, mapped>>
    BY <1>2, <1>5 DEF unpinAttachment
  <2>2. \A o \in Attachments : (Live(o)' <=> Live(o)) /\ Pinners(o)' = Pinners(o)
    BY <1>4, <1>5, SegmentsAssumption
  <2>3. ShmTypeOK'
    BY <1>0, <1>1, <2>1 DEF ShmTypeOK
  <2>4. AttachmentInv' /\ OwnMappings' /\ MappingInv' /\ SegmentInv'
    BY <1>0, <2>1, <2>2 DEF AttachmentInv, OwnMappings, MappingInv, SegmentInv
  <2>5. CopyInv'
    BY <1>0, <1>1, <2>1 DEF CopyInv
  <2> QED BY <2>3, <2>4, <2>5 DEF ShmInv
<1>6. CASE e # NoAttachment
  <2>0. /\ e \in Attachments /\ t \in Pinners(e) /\ Live(e)
        /\ attachment[e].attachedHere
        /\ attachment[e].inUse = Cardinality(Pinners(e))
    BY <1>0, <1>2, <1>3, <1>6 DEF Pinners, Live, CopyInv, AttachmentInv
  <2>1. Pinners(e)' = Pinners(e) \ {t}
    BY <1>0, <1>1, <1>2, <1>3, <1>6 DEF Pinners
  <2>2. /\ Cardinality(Pinners(e)') = attachment[e].inUse - 1
        /\ attachment[e].inUse - 1 \in 0..Cardinality(ShmThreads)
        /\ attachment[e].inUse - 1 = 0 <=> Pinners(e)' = {}
    <3>1. Pinners(e) \subseteq ShmThreads /\ Pinners(e) \ {t} \subseteq ShmThreads
      BY DEF Pinners
    <3>2. /\ Cardinality(Pinners(e) \ {t}) = Cardinality(Pinners(e)) - 1
          /\ Cardinality(Pinners(e) \ {t}) \in 0..Cardinality(ShmThreads)
          /\ Cardinality(Pinners(e) \ {t}) = 0 <=> Pinners(e) \ {t} = {}
      BY <2>0, <3>1, PinnersFacts
    <3> QED BY <2>0, <2>1, <3>2
  <2>3. CASE LastReader(attachment[e]) /\ attachment[e].pendingDetach
    <3>1. Free(e) /\ mapped' = mapped \ {attachment[e].addr}
      BY <1>2, <1>6, <2>3 DEF unpinAttachment
    <3>2. Pinners(e)' = {}
      BY <2>2, <2>3 DEF LastReader
    <3>3. e \notin shmAttachments
      BY <1>0, <2>0, <2>3 DEF AttachmentInv
    <3>4. shmAttachments' = shmAttachments \ {e}
      BY <1>0, <3>3
    <3>5. \A u \in ShmThreads : copying'[u] \in {copying[u], NotCopying}
      BY <1>1
    <3> QED BY <1>0, <1>1, <1>4, <2>0, <3>1, <3>2, <3>3, <3>4, <3>5, FreeInv
  <2>4. CASE ~(LastReader(attachment[e]) /\ attachment[e].pendingDetach)
    <3>1. attachment' = [attachment EXCEPT ![e].inUse = @ - 1] /\ UNCHANGED mapped
      BY <1>2, <1>6, <2>4 DEF unpinAttachment
    <3>2. /\ attachment' \in [Attachments -> Records]
          /\ \A o \in Attachments : o # e => attachment'[o] = attachment[o]
          /\ attachment'[e].info = attachment[e].info
          /\ attachment'[e].addr = attachment[e].addr
          /\ attachment'[e].attachedHere
          /\ attachment'[e].inUse = attachment[e].inUse - 1
          /\ attachment'[e].pendingDetach = attachment[e].pendingDetach
      <4>1. SUFFICES ASSUME NEW r, r = [attachment[e] EXCEPT !.inUse = @ - 1]
                     PROVE  /\ r \in Records /\ r.info = attachment[e].info
                            /\ r.addr = attachment[e].addr
                            /\ r.attachedHere /\ r.inUse = attachment[e].inUse - 1
                            /\ r.pendingDetach = attachment[e].pendingDetach
        BY <2>0, <3>1, ShmFacts
      <4>2. attachment[e] \in Records
        BY <2>0, ShmFacts
      <4> QED BY <2>0, <2>2, <4>1, <4>2 DEF Records
    <3>3. Live(e)'
      <4>1. CASE e \in shmAttachments
        BY <1>0, <4>1 DEF Live
      <4>2. CASE e \notin shmAttachments
        <5>1. attachment[e].pendingDetach
          BY <1>0, <2>0, <4>2 DEF AttachmentInv
        <5>2. Pinners(e)' # {}
          BY <2>2, <2>4, <5>1, <2>0, ShmFacts DEF LastReader
        <5> QED BY <5>2 DEF Live, Pinners
      <4> QED BY <4>1, <4>2
    <3>4. \A o \in Attachments : Live(o)' <=> Live(o)
      BY <1>4, <2>0, <3>3
    <3>5. ShmTypeOK'
      BY <1>0, <1>1, <3>1, <3>2 DEF ShmTypeOK, Records
    <3>6. AttachmentInv'
      BY <1>0, <1>4, <2>0, <2>2, <3>2, <3>4 DEF AttachmentInv
    <3>7. OwnMappings'
      BY <1>0, <2>0, <3>2, <3>4 DEF OwnMappings
    <3>8. SegmentInv'
      <4>1. \A o \in shmAttachments : /\ attachment'[o].info = attachment[o].info
                                      /\ attachment'[o].addr = attachment[o].addr
        BY <1>0, <3>2 DEF ShmTypeOK
      <4> QED BY <1>0, <4>1 DEF SegmentInv
    <3>9. CopyInv'
      BY <1>0, <1>1, <3>2 DEF CopyInv
    <3>10. MappingInv'
      BY <1>0, <3>1, <3>2, <3>4 DEF MappingInv
    <3> QED BY <3>5, <3>6, <3>7, <3>8, <3>9, <3>10 DEF ShmInv
  <2> QED BY <2>3, <2>4
<1> QED BY <1>5, <1>6

(* Whoever attaches, detaches or copies, and in whatever order.             *)
THEOREM ShmInvariant == ShmSpec => []ShmInv
<1>1. ShmInit => ShmInv
  BY ShmInitInv
<1>2. ShmInv /\ [ShmNext]_shmVars => ShmInv'
  <2>1. ASSUME ShmInv, UNCHANGED shmVars PROVE ShmInv'
    <3>1. \A e \in Attachments : (Live(e)' <=> Live(e)) /\ Pinners(e)' = Pinners(e)
      BY <2>1 DEF shmVars, Live, Pinners
    <3>2. ShmTypeOK' /\ SegmentInv' /\ CopyInv'
      BY <2>1 DEF shmVars, ShmInv, ShmTypeOK, SegmentInv, CopyInv
    <3>3. AttachmentInv' /\ OwnMappings' /\ MappingInv'
      BY <2>1, <3>1 DEF shmVars, ShmInv, AttachmentInv, OwnMappings, MappingInv
    <3> QED BY <3>2, <3>3 DEF ShmInv
  <2> QED BY <2>1, XShmAttachInv, XShmDetachInv, PinInv, UnpinInv DEF ShmNext
<1> QED BY <1>1, <1>2, PTL DEF ShmSpec

(* XShmPutImage and XShmGetImage copy from or into memory that is mapped,   *)
(* whoever detaches the segment, or attaches it again, meanwhile; nothing   *)
(* the client mapped is undone, and nothing of the library's stays mapped   *)
(* once its segment is detached and its last reader gone (xshm.c:84, 100).  *)
THEOREM ShmMappedWhileCopied == ShmSpec => []MappedWhileCopied
<1>1. ASSUME ShmInv PROVE MappedWhileCopied
  <2>0. /\ ShmTypeOK /\ AttachmentInv /\ OwnMappings /\ SegmentInv /\ CopyInv /\ MappingInv
    BY <1>1, ShmFacts
  <2>1. ASSUME NEW t \in ShmThreads, copying[t] # NotCopying
        PROVE  copying[t].data \in mapped
    <3>1. copying[t].pinned \in Attachments \union {NoAttachment}
      BY <2>0 DEF ShmTypeOK
    <3>2. CASE copying[t].pinned \in Attachments
      BY <2>0, <3>2 DEF CopyInv, MappingInv, Live
    <3>3. CASE copying[t].pinned = NoAttachment
      <4>1. copying[t].data # Unmapped
        BY <2>0, <2>1, <3>3 DEF ShmTypeOK, NotCopying
      <4> QED BY <2>0, <3>3, <4>1, SegmentsAssumption DEF CopyInv, MappingInv
    <3> QED BY <3>1, <3>2, <3>3
  <2>2. ASSUME NEW s \in Segments, shmaddr[s] # Unmapped
        PROVE  shmaddr[s] \in mapped
    BY <2>0, <2>2 DEF SegmentInv, MappingInv, Live, ShmTypeOK
  <2>3. mapped = clientMapped
          \union {attachment[e].addr :
                    e \in (shmAttachments \union {copying[t].pinned : t \in ShmThreads})
                            \ {NoAttachment}}
    <3>1. \A e : e \in (shmAttachments \union {copying[t].pinned : t \in ShmThreads})
                         \ {NoAttachment} <=> e \in Attachments /\ Live(e)
      BY <2>0, SegmentsAssumption DEF ShmTypeOK, Live
    <3> QED BY <2>0, <3>1 DEF MappingInv
  <2> QED BY <2>0, <2>1, <2>2, <2>3 DEF MappedWhileCopied, SegmentInv
<1> QED BY <1>1, ShmInvariant, PTL
=============================================================================
