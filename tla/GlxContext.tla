----------------------------- MODULE GlxContext -----------------------------
(***************************************************************************)
(* GLX contexts and the surfaces they draw on (src/src/glx.c).  A context   *)
(* outlives its glXDestroyContext while a thread has it current, while      *)
(* another context shares its objects and while a call is at work on it;    *)
(* whoever lets go of it last frees it, and with it perhaps the context it  *)
(* shares with.  A context made from a visual gets its EGL context when it  *)
(* is first needed, a drawable its surface when it is first bound, and a    *)
(* new one when it has been resized.  A step is one hold of glxLock or one  *)
(* call of EGL, with what the thread does for itself.                       *)
(***************************************************************************)
EXTENDS Naturals, FiniteSets

CONSTANTS GlxThreads,
          GLXContexts,   \* addresses of a GLXContext
          NoContext,
          Drawables, NoDrawable,
          Scenes         \* the programs to explore, each of them a record:
                         \*  does     what the threads call, of GlxCalls
                         \*  draws    the drawables each thread draws on
                         \*  ready    contexts there are from the start
                         \*  together may a context be let go of between the
                         \*           two looks of glXDestroyContext at it, or
                         \*           realized by two threads at a time?
                         \*  resizes  are drawables resized?
                         \*  calls, failures   bounds

GlxCalls == {"create", "destroy", "bind", "release", "swap", "remove"}

ASSUME ScenesAssumption ==
  /\ NoContext \notin GLXContexts /\ NoDrawable \notin Drawables
  /\ \A S \in {GlxThreads, GLXContexts, Drawables} : IsFiniteSet(S)
  /\ Scenes \subseteq
       [does : SUBSET GlxCalls, draws : [GlxThreads -> SUBSET Drawables],
        ready : SUBSET GLXContexts, together : BOOLEAN, resizes : BOOLEAN,
        calls : Nat, failures : Nat]

VARIABLES scene,          \* one of Scenes, never changed
          contexts,       \* the GLXContexts that have not been freed
          handles,        \* those the client has not destroyed
          egl,            \* the EGL context of each, 0 until it is realized
          share,          \* the context each shares its objects with
          sharesEgl,      \* and the EGL context it was made to share with
          currentCount, shareRefs, destroyPending,
          eglContexts,    \* EGL: its contexts
          eglCurrent,     \* EGL: the context and surface bound in each thread
          currentContext, currentDrawable, currentDrawSurface, \* per thread
          drawableSurfaces, \* per drawable: its surface and the size of that
          size,           \* of each drawable
          removed,        \* the drawables that are gone
          doing,          \* where each thread is
          glxCalls, glxFailures

counts == <<currentCount, shareRefs, destroyPending>>
eglVars == <<eglContexts, eglCurrent>>
threadVars == <<currentContext, currentDrawable, currentDrawSurface>>
surfaceVars == <<drawableSurfaces, size, removed>>
recordVars == <<contexts, handles, egl, share, sharesEgl, counts>>
glxVars == <<scene, recordVars, eglVars, threadVars, surfaceVars, doing,
             glxCalls, glxFailures>>

NoName == 0
Unbound == [egl |-> NoName, surface |-> NoName]
NoSurface == [surface |-> NoName, size |-> 0]
Rest == [at |-> "rest", for |-> "none", ctx |-> NoContext, d |-> NoDrawable,
         name |-> NoName, size |-> 0]

NameOf(ready) ==
  CHOOSE name \in [ready -> 1..Cardinality(ready)] :
    \A c, o \in ready : name[c] = name[o] => c = o

(* A context that is there from the start has been realized.                *)
GlxInit ==
  /\ scene \in Scenes
  /\ contexts = scene.ready /\ handles = scene.ready
  /\ egl = [c \in GLXContexts |-> IF c \in scene.ready THEN NameOf(scene.ready)[c]
                                                        ELSE NoName]
  /\ eglContexts = 1..Cardinality(scene.ready)
  /\ share = [c \in GLXContexts |-> NoContext]
  /\ sharesEgl = [c \in GLXContexts |-> NoName]
  /\ currentCount = [c \in GLXContexts |-> 0]
  /\ shareRefs = [c \in GLXContexts |-> 0]
  /\ destroyPending = [c \in GLXContexts |-> FALSE]
  /\ eglCurrent = [t \in GlxThreads |-> Unbound]
  /\ currentContext = [t \in GlxThreads |-> NoContext]
  /\ currentDrawable = [t \in GlxThreads |-> NoDrawable]
  /\ currentDrawSurface = [t \in GlxThreads |-> NoName]
  /\ drawableSurfaces = [d \in Drawables |-> NoSurface]
  /\ size = [d \in Drawables |-> 1] /\ removed = {}
  /\ doing = [t \in GlxThreads |-> Rest]
  /\ glxCalls = 0 /\ glxFailures = 0

-----------------------------------------------------------------------------
Calls(t, call) ==
  /\ doing[t] = Rest /\ call \in scene.does /\ glxCalls < scene.calls
  /\ glxCalls' = glxCalls + 1
  /\ UNCHANGED <<scene, glxFailures>>

At(t, label) == doing[t].at = label /\ UNCHANGED <<scene, glxCalls>>
Steps(t, label) == At(t, label) /\ UNCHANGED glxFailures

EglFails ==
  /\ glxFailures < scene.failures
  /\ glxFailures' = glxFailures + 1

Moves(t, step) == doing' = [doing EXCEPT ![t] = step]
MovesTo(t, label) == Moves(t, [doing[t] EXCEPT !.at = label])

(* What a client does only with luck: see Scenes.                           *)
NoneElse(t, label, c) ==
  scene.together
    \/ \A u \in GlxThreads \ {t} : ~(doing[u].at = label /\ doing[u].ctx = c)

-----------------------------------------------------------------------------
(* Letting go of a context: one hold of glxLock, in which the last one to   *)
(* let go claims the teardown, and the claim consumes the flag.             *)
sharesForgotten(pending, current, shares) == pending /\ current = 0

claimContextTeardown(pending, current, shares) ==
  pending /\ current = 0 /\ shares = 0

LetsGo(t, c, current, shares) ==
  /\ NoneElse(t, "claim", c)
  /\ currentCount' = [currentCount EXCEPT ![c] = @ - current]
  /\ shareRefs' = [shareRefs EXCEPT ![c] = @ - shares]
  /\ \E claimed \in BOOLEAN :
       /\ claimed = claimContextTeardown(destroyPending[c], currentCount'[c],
                                         shareRefs'[c])
       /\ destroyPending' = [destroyPending EXCEPT ![c] = @ /\ ~claimed]
       /\ Moves(t, IF claimed THEN [Rest EXCEPT !.at = "tearDown", !.ctx = c]
                             ELSE Rest)
  /\ UNCHANGED <<contexts, handles, egl, share, sharesEgl>>

Uncount(t) ==
  /\ Steps(t, "uncount")
  /\ LetsGo(t, doing[t].ctx, 1, 0)
  /\ UNCHANGED <<eglVars, threadVars, surfaceVars>>

releaseShareRef(t) ==
  /\ Steps(t, "unshare")
  /\ LetsGo(t, doing[t].ctx, 0, 1)
  /\ UNCHANGED <<eglVars, threadVars, surfaceVars>>

(* tearDownContext, and then up to the context it shares with.              *)
tearDownContextChain(t) ==
  /\ Steps(t, "tearDown")
  /\ \E c \in {doing[t].ctx} :
       /\ eglContexts' = eglContexts \ {egl[c]}
       /\ contexts' = contexts \ {c}
       /\ egl' = [egl EXCEPT ![c] = NoName]
       /\ share' = [share EXCEPT ![c] = NoContext]
       /\ sharesEgl' = [sharesEgl EXCEPT ![c] = NoName]
       /\ Moves(t, IF share[c] = NoContext THEN Rest
                  ELSE [Rest EXCEPT !.at = "unshare", !.ctx = share[c]])
  /\ UNCHANGED <<handles, counts, eglCurrent, threadVars, surfaceVars>>

(* The thread's binding goes, and then its count.                           *)
Unbinds(t) ==
  /\ eglCurrent' = [eglCurrent EXCEPT ![t] = Unbound]
  /\ currentContext' = [currentContext EXCEPT ![t] = NoContext]
  /\ currentDrawable' = [currentDrawable EXCEPT ![t] = NoDrawable]
  /\ currentDrawSurface' = [currentDrawSurface EXCEPT ![t] = NoName]
  /\ Moves(t, [Rest EXCEPT !.at = "uncount", !.ctx = currentContext[t]])
  /\ UNCHANGED <<recordVars, eglContexts, surfaceVars>>

Drop(t) == Steps(t, "drop") /\ Unbinds(t)

ReleaseCurrent(t) ==
  Calls(t, "release") /\ currentContext[t] # NoContext /\ Unbinds(t)

(* The first look at it marks the context, the second claims it if nobody   *)
(* has it any more.                                                         *)
glXDestroyContext(t, c) ==
  /\ Calls(t, "destroy") /\ c \in handles
  /\ handles' = handles \ {c}
  /\ destroyPending' = [destroyPending EXCEPT ![c] = TRUE]
  /\ Moves(t, [Rest EXCEPT !.at = IF currentContext[t] = c THEN "drop" ELSE "claim",
                          !.ctx = c])
  /\ UNCHANGED <<contexts, egl, share, sharesEgl, currentCount, shareRefs, eglVars,
                 threadVars, surfaceVars>>

ClaimDestroyed(t) ==
  /\ Steps(t, "claim")
  /\ LetsGo(t, doing[t].ctx, 0, 0)
  /\ UNCHANGED <<eglVars, threadVars, surfaceVars>>

-----------------------------------------------------------------------------
(* Making one.  From a visual it has no EGL context yet.  calloc gives any   *)
(* address that is free: they are all alike.                                *)
Calloc == CHOOSE c \in GLXContexts : c \notin contexts

glXCreateContext(t) ==
  /\ Calls(t, "create") /\ GLXContexts # contexts
  /\ contexts' = contexts \union {Calloc} /\ handles' = handles \union {Calloc}
  /\ UNCHANGED <<egl, share, sharesEgl, counts, eglVars, threadVars, surfaceVars,
                 doing>>

(* With a configuration, or sharing, it gets one now; the reference on the  *)
(* other context comes first.                                               *)
createContextFromConfig(t, s) ==
  /\ Calls(t, "create") /\ s \in handles \union {NoContext}
  /\ IF s = NoContext
       THEN UNCHANGED shareRefs /\ Moves(t, [Rest EXCEPT !.at = "create"])
       ELSE /\ shareRefs' = [shareRefs EXCEPT ![s] = @ + 1]
            /\ Moves(t, [Rest EXCEPT !.at = "realize", !.for = "create", !.ctx = s])
  /\ UNCHANGED <<contexts, handles, egl, share, sharesEgl, currentCount,
                 destroyPending, eglVars, threadVars, surfaceVars>>

(* EGL names what it makes by a handle that nothing has any more.           *)
InUse ==
  {NoName} \union eglContexts
    \union {sharesEgl[c] : c \in contexts}
    \union {drawableSurfaces[d].surface : d \in Drawables}
    \union UNION {{eglCurrent[u].surface, currentDrawSurface[u], doing[u].name} :
                  u \in GlxThreads}

NewName == CHOOSE n \in 1..Cardinality(InUse) : n \notin InUse

createEglContext(t) ==
  /\ Steps(t, "create")
  /\ eglContexts' = eglContexts \union {NewName}
  /\ GLXContexts # contexts
  /\ \E c \in {Calloc}, s \in {doing[t].ctx} :
       /\ contexts' = contexts \union {c} /\ handles' = handles \union {c}
       /\ egl' = [egl EXCEPT ![c] = NewName]
       /\ share' = [share EXCEPT ![c] = s]
       /\ sharesEgl' = [sharesEgl EXCEPT ![c] =
                          IF s = NoContext THEN NoName ELSE egl[s]]
  /\ Moves(t, Rest)
  /\ UNCHANGED <<counts, eglCurrent, threadVars, surfaceVars>>

CreateFails(t) ==
  /\ At(t, "create") /\ EglFails
  /\ IF doing[t].ctx = NoContext THEN Moves(t, Rest) ELSE MovesTo(t, "unshare")
  /\ UNCHANGED <<recordVars, eglVars, threadVars, surfaceVars>>

(* realizeLazyContext, which holds no lock: a look, EGL's work, a store.    *)
Realized(t) == IF doing[t].for = "create" THEN "create" ELSE "refresh"

realizeLazyContext(t) ==
  /\ Steps(t, "realize")
  /\ \/ /\ egl[doing[t].ctx] # NoName
        /\ MovesTo(t, Realized(t))
        /\ UNCHANGED eglContexts
     \/ /\ egl[doing[t].ctx] = NoName
        /\ NoneElse(t, "store", doing[t].ctx)
        /\ eglContexts' = eglContexts \union {NewName}
        /\ Moves(t, [doing[t] EXCEPT !.at = "store", !.name = NewName])
  /\ UNCHANGED <<recordVars, eglCurrent, threadVars, surfaceVars>>

RealizeFails(t) ==
  /\ At(t, "realize") /\ egl[doing[t].ctx] = NoName /\ EglFails
  /\ MovesTo(t, IF doing[t].for = "create" THEN "unshare" ELSE "uncount")
  /\ UNCHANGED <<recordVars, eglVars, threadVars, surfaceVars>>

StoreRealized(t) ==
  /\ Steps(t, "store")
  /\ egl' = [egl EXCEPT ![doing[t].ctx] = doing[t].name]
  /\ MovesTo(t, Realized(t))
  /\ UNCHANGED <<contexts, handles, share, sharesEgl, counts, eglVars, threadVars,
                 surfaceVars>>

-----------------------------------------------------------------------------
(* Binding one, and swapping, which looks at the drawable once more.        *)
glXMakeContextCurrent(t, c, d) ==
  /\ Calls(t, "bind") /\ c \in handles /\ d \in scene.draws[t] \ removed
  /\ currentCount' = [currentCount EXCEPT ![c] = @ + 1]
  /\ Moves(t, [Rest EXCEPT !.at = "realize", !.for = "bind", !.ctx = c, !.d = d])
  /\ UNCHANGED <<contexts, handles, egl, share, sharesEgl, shareRefs,
                 destroyPending, eglVars, threadVars, surfaceVars>>

glXSwapBuffers(t) ==
  /\ Calls(t, "swap") /\ currentContext[t] # NoContext
  /\ Moves(t, [Rest EXCEPT !.at = "refresh", !.for = "swap",
                          !.ctx = currentContext[t], !.d = currentDrawable[t]])
  /\ UNCHANGED <<recordVars, eglVars, threadVars, surfaceVars>>

refreshDrawableSurfaceIfResized(t) ==
  /\ Steps(t, "refresh")
  /\ \E d \in {doing[t].d} :
       drawableSurfaces' =
         IF d \notin removed /\ drawableSurfaces[d].size # size[d]
           THEN [drawableSurfaces EXCEPT ![d] = NoSurface] ELSE drawableSurfaces
  /\ MovesTo(t, "find")
  /\ UNCHANGED <<recordVars, eglVars, threadVars, size, removed>>

surfaceForDrawable(t) ==
  /\ Steps(t, "find")
  /\ \E d \in {doing[t].d} :
       \/ /\ drawableSurfaces[d] # NoSurface
          /\ Moves(t, [doing[t] EXCEPT !.at = "attach",
                                      !.name = drawableSurfaces[d].surface])
       \/ /\ drawableSurfaces[d] = NoSurface /\ d \notin removed
          /\ Moves(t, [doing[t] EXCEPT !.at = "register", !.name = NewName,
                                      !.size = size[d]])
  /\ UNCHANGED <<recordVars, eglVars, threadVars, surfaceVars>>

Abandons(t) == MovesTo(t, IF doing[t].for = "bind" THEN "uncount" ELSE "drop")

SurfaceFails(t) ==
  /\ At(t, "find")
  /\ drawableSurfaces[doing[t].d] = NoSurface
  /\ IF doing[t].d \in removed THEN UNCHANGED glxFailures ELSE EglFails
  /\ Abandons(t)
  /\ UNCHANGED <<recordVars, eglVars, threadVars, surfaceVars>>

(* Another thread may have been quicker.                                    *)
registerDrawableSurface(t) ==
  /\ Steps(t, "register")
  /\ \E d \in {doing[t].d} :
       /\ drawableSurfaces' =
            IF drawableSurfaces[d] # NoSurface THEN drawableSurfaces
            ELSE [drawableSurfaces EXCEPT ![d] =
                    [surface |-> doing[t].name, size |-> doing[t].size]]
       /\ Moves(t, [doing[t] EXCEPT !.at = "attach",
                                   !.name = drawableSurfaces'[d].surface])
  /\ UNCHANGED <<recordVars, eglVars, threadVars, size, removed>>

(* A context, or a surface, is current in one thread at a time.             *)
Accepts(t, e, surface) ==
  \A u \in GlxThreads \ {t} :
    eglCurrent[u].egl # e /\ eglCurrent[u].surface # surface

mustRebind(t, surface) == surface # currentDrawSurface[t]

MakeCurrent(t) ==
  /\ Steps(t, "attach")
  /\ \/ /\ doing[t].for = "swap" /\ ~mustRebind(t, doing[t].name)
        /\ MovesTo(t, "swap")
        /\ UNCHANGED <<eglCurrent, currentDrawSurface>>
     \/ /\ doing[t].for = "bind" \/ mustRebind(t, doing[t].name)
        /\ Accepts(t, egl[doing[t].ctx], doing[t].name)
        /\ eglCurrent' = [eglCurrent EXCEPT ![t] =
             [egl |-> egl[doing[t].ctx], surface |-> doing[t].name]]
        /\ IF doing[t].for = "swap"
             THEN /\ MovesTo(t, "swap")
                  /\ currentDrawSurface' =
                       [currentDrawSurface EXCEPT ![t] = doing[t].name]
             ELSE MovesTo(t, "install") /\ UNCHANGED currentDrawSurface
  /\ UNCHANGED <<recordVars, eglContexts, currentContext, currentDrawable,
                 surfaceVars>>

(* Nothing of the thread's own changes when a bind fails.                   *)
surfaceSetTooSoon(t) == [currentDrawSurface EXCEPT ![t] = doing[t].name]

surfaceAfterFailure(t) == currentDrawSurface

MakeCurrentFails(t) ==
  /\ At(t, "attach")
  /\ doing[t].for = "bind" \/ mustRebind(t, doing[t].name)
  /\ IF Accepts(t, egl[doing[t].ctx], doing[t].name) THEN EglFails
                                                     ELSE UNCHANGED glxFailures
  /\ Abandons(t)
  /\ currentDrawSurface' = surfaceAfterFailure(t)
  /\ UNCHANGED <<recordVars, eglVars, currentContext, currentDrawable, surfaceVars>>

(* The context that was current goes, or the duplicate of the same.         *)
InstallCurrent(t) ==
  /\ Steps(t, "install")
  /\ currentContext' = [currentContext EXCEPT ![t] = doing[t].ctx]
  /\ currentDrawable' = [currentDrawable EXCEPT ![t] = doing[t].d]
  /\ currentDrawSurface' = [currentDrawSurface EXCEPT ![t] = doing[t].name]
  /\ IF currentContext[t] = NoContext
       THEN Moves(t, Rest) /\ UNCHANGED recordVars
       ELSE LetsGo(t, currentContext[t], 1, 0)
  /\ UNCHANGED <<eglVars, surfaceVars>>

SwapEnds(t) ==
  /\ Steps(t, "swap") /\ Moves(t, Rest)
  /\ UNCHANGED <<recordVars, eglVars, threadVars, surfaceVars>>

-----------------------------------------------------------------------------
(* glXDestroyWindow takes the surface only, XDestroyWindow the drawable     *)
(* too.  No other thread uses it ("an application error").                  *)
glxDrawableDestroyed(t, d) ==
  /\ Calls(t, "remove") /\ d \in scene.draws[t] \ removed
  /\ \A u \in GlxThreads \ {t} : d \notin {currentDrawable[u], doing[u].d}
  /\ removed' \in {removed, removed \union {d}}
  /\ drawableSurfaces' = [drawableSurfaces EXCEPT ![d] = NoSurface]
  /\ IF drawableSurfaces[d] # NoSurface /\ currentDrawable[t] = d
       THEN Moves(t, [Rest EXCEPT !.at = "drop", !.ctx = currentContext[t]])
       ELSE UNCHANGED doing
  /\ UNCHANGED <<recordVars, eglVars, threadVars, size>>

DrawableResized(d) ==
  /\ scene.resizes /\ d \in UNION {scene.draws[t] : t \in GlxThreads} \ removed
  /\ size' = [size EXCEPT ![d] = 3 - @]
  /\ UNCHANGED <<scene, recordVars, eglVars, threadVars, drawableSurfaces, removed,
                 doing, glxCalls, glxFailures>>

GlxNext ==
  \/ \E t \in GlxThreads :
       \/ Uncount(t) \/ releaseShareRef(t) \/ tearDownContextChain(t) \/ Drop(t)
       \/ ReleaseCurrent(t) \/ ClaimDestroyed(t)
       \/ createEglContext(t) \/ CreateFails(t)
       \/ realizeLazyContext(t) \/ RealizeFails(t) \/ StoreRealized(t)
       \/ glXSwapBuffers(t) \/ refreshDrawableSurfaceIfResized(t)
       \/ surfaceForDrawable(t) \/ SurfaceFails(t) \/ registerDrawableSurface(t)
       \/ MakeCurrent(t) \/ MakeCurrentFails(t) \/ InstallCurrent(t) \/ SwapEnds(t)
       \/ glXCreateContext(t) \/ createContextFromConfig(t, NoContext)
       \/ \E c \in GLXContexts :
            \/ glXDestroyContext(t, c) \/ createContextFromConfig(t, c)
            \/ \E d \in Drawables : glXMakeContextCurrent(t, c, d)
       \/ \E d \in Drawables : glxDrawableDestroyed(t, d)
  \/ \E d \in Drawables : DrawableResized(d)

GlxSpec == GlxInit /\ [][GlxNext]_glxVars

-----------------------------------------------------------------------------
(* Types.                                                                   *)
GlxTypeOK ==
  /\ contexts \subseteq GLXContexts /\ handles \subseteq contexts
  /\ \A c \in GLXContexts :
       /\ currentCount[c] \in Nat /\ shareRefs[c] \in Nat
       /\ egl[c] \in eglContexts \union {NoName}
  /\ \A t \in GlxThreads :
       currentContext[t] = NoContext <=> currentDrawable[t] = NoDrawable

AllAtRest == \A t \in GlxThreads : doing[t] = Rest

Needed ==
  handles \union {currentContext[t] : t \in GlxThreads}
          \union {share[c] : c \in contexts}

(* A context is there as long as a thread has it current, another context   *)
(* shares with it, a call works on it or the client may still name it, and  *)
(* no longer; one thread tears it down; and it has one EGL context, the one *)
(* that is bound where it is current and that those which share with it     *)
(* were made to share with (glx.c:143, 644, 823).                           *)
ContextsOutliveUse ==
  /\ GlxTypeOK
  /\ \A t \in GlxThreads : {currentContext[t], doing[t].ctx} \subseteq
                              contexts \union {NoContext}
  /\ \A c \in contexts : share[c] # NoContext =>
       share[c] \in contexts /\ sharesEgl[c] = egl[share[c]]
  /\ \A t, u \in GlxThreads : t # u /\ doing[t].at = "tearDown"
                                /\ doing[u].at = "tearDown"
                              => doing[t].ctx # doing[u].ctx
  /\ AllAtRest =>
       /\ contexts \subseteq Needed
       /\ eglContexts = {egl[c] : c \in contexts} \ {NoName}
       /\ \A t \in GlxThreads :
            eglCurrent[t].egl = IF currentContext[t] = NoContext THEN NoName
                                ELSE egl[currentContext[t]]

(* The frame that is swapped is one that was drawn: the surface swapped is  *)
(* the one bound with the thread's context, whoever has resized, rebound or *)
(* failed to rebind the drawable since (glx.c:1461).                        *)
SwapsWhatWasDrawn ==
  \A t \in GlxThreads : doing[t].at = "swap" =>
    eglCurrent[t] = [egl |-> egl[currentContext[t]], surface |-> doing[t].name]

(* The context that glXDestroyContext looks at again is still there: who    *)
(* lets go of it meanwhile does not free it ("exactly one caller reclaims   *)
(* it; the consumed flag stops any other path from freeing it too").        *)
DestroyerFindsContext ==
  \A t \in GlxThreads : doing[t].at = "claim" => doing[t].ctx \in contexts
=============================================================================
