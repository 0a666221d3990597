------------------------- MODULE ControllerIncarnation -------------------------
(***************************************************************************)
(* A WebApp deleted and created again under its name is another WebApp.    *)
(* This module proves, for every value of the constants, that a lagging    *)
(* cache and a pass in flight never confuse the two: the worker syncs only *)
(* for the live one, nothing is owned before its finalizer is stored, and  *)
(* what a WebApp that is gone leaves behind is only what its finalize pass *)
(* could not see.                                                          *)
(***************************************************************************)
EXTENDS ControllerTypes

FinalizeSteps == {"finalize", "release"}

\* Every uid in sight was handed out before.
UidsUsed ==
  /\ webapp # None => webapp.uid < nextUid
  /\ cachedApp # None => cachedApp.uid < nextUid
  /\ app # None => app.uid < nextUid
  /\ \A k \in Kinds : OwnedByWebApp(objs[k]) => objs[k].owner < nextUid

\* A cached WebApp with its finalizer and no deletion is still alive, because
\* only a pass that saw the deletion removes the finalizer; and a deletion that
\* was seen is not taken back.
CacheTrails ==
  cachedApp # None =>
    /\ (cachedApp.fin /\ ~cachedApp.deleting) =>
         webapp # None /\ webapp.uid = cachedApp.uid /\ webapp.fin
    /\ (cachedApp.deleting /\ webapp # None /\ webapp.uid = cachedApp.uid) =>
         webapp.deleting

\* A finalize pass works for a WebApp whose deletion the cache has seen.
FinalizesDeleted ==
  pc \in FinalizeSteps =>
    /\ app.deleting
    /\ (webapp # None /\ webapp.uid = app.uid) => webapp.deleting
    /\ (cachedApp # None /\ cachedApp.uid = app.uid) => cachedApp.deleting

\* The kinds a finalize pass has been through.
Finalized ==
  IF pc = "release" THEN Kinds
  ELSE CASE kind = "Ingress" -> {}
         [] kind = "HPA" -> {"Ingress"}
         [] kind = "Service" -> {"Ingress", "HPA"}
         [] kind = "Deployment" -> {"Ingress", "HPA", "Service"}

FinalizeProgress ==
  pc \in FinalizeSteps =>
    \A k \in Finalized : ControlledBy(objs[k], app.uid) => <<app.uid, k>> \in skipped

Incarnations ==
  /\ UidsUsed
  /\ CacheTrails
  /\ FinalizesDeleted
  /\ FinalizeProgress
  /\ WorksOnLiveIncarnation
  /\ FinalizerCoversOwned
  /\ OrphansOnlySkipped

LEMMA OwnerKinds ==
  ASSUME TypeOK
  PROVE  /\ webapp # None => webapp \in WebApp /\ webapp.uid \in Nat
         /\ cachedApp # None => cachedApp \in WebApp /\ cachedApp.uid \in Nat
         /\ app # None => app \in WebApp /\ app.uid \in Nat
         /\ None \notin Nat /\ Other \notin Nat /\ None # Other
         /\ nextUid \in Nat
BY ResourceAssumption, OtherAssumption DEF TypeOK, WebApp

-------------------------------------------------------------------------------
(* Steps that leave the WebApp and the objects alone *)

\* A pass that goes on with its sync, or ends, disturbs nothing.
LEMMA QuietStep ==
  ASSUME TypeOK, Incarnations,
         UNCHANGED <<webapp, cachedApp, nextUid, objs, skipped>>,
         \/ pc' = "idle" /\ app' = None
         \/ pc \in SyncSteps /\ pc' \in SyncSteps /\ UNCHANGED app
  PROVE  Incarnations'
<1>1. UidsUsed'
  BY DEF Incarnations, UidsUsed
<1>2. CacheTrails' /\ FinalizerCoversOwned' /\ OrphansOnlySkipped'
  BY DEF Incarnations, CacheTrails, FinalizerCoversOwned, OrphansOnlySkipped
<1>3. pc' \notin FinalizeSteps
  BY DEF FinalizeSteps, SyncSteps
<1>4. FinalizesDeleted' /\ FinalizeProgress'
  BY <1>3 DEF FinalizesDeleted, FinalizeProgress
<1>5. WorksOnLiveIncarnation'
  BY DEF Incarnations, WorksOnLiveIncarnation, SyncSteps
<1> QED
  BY <1>1, <1>2, <1>4, <1>5 DEF Incarnations

\* Nothing the invariant speaks of changes.
LEMMA SameStep ==
  ASSUME Incarnations,
         UNCHANGED <<webapp, cachedApp, nextUid, objs, skipped, pc, kind, app>>
  PROVE  Incarnations'
BY DEF Incarnations, UidsUsed, CacheTrails, FinalizesDeleted, FinalizeProgress,
       Finalized, WorksOnLiveIncarnation, FinalizerCoversOwned, OrphansOnlySkipped

LEMMA EnforceScalePolicyKeeps ==
  ASSUME TypeOK, Incarnations, EnforceScalePolicy
  PROVE  Incarnations'
<1>1. UNCHANGED <<webapp, cachedApp, nextUid, objs, skipped>>
  BY DEF EnforceScalePolicy, serverVars, objectVars, cacheVars, recordVars
<1>2. pc \in SyncSteps /\ pc' \in SyncSteps /\ UNCHANGED app
  BY DEF EnforceScalePolicy, Fail, SyncSteps
<1> QED
  BY <1>1, <1>2, QuietStep

LEMMA AssertAdoptableKeeps ==
  ASSUME TypeOK, Incarnations, AssertAdoptable
  PROVE  Incarnations'
<1>1. UNCHANGED <<webapp, cachedApp, nextUid, objs, skipped>>
  BY DEF AssertAdoptable, serverVars, objectVars, cacheVars, recordVars
<1>2. pc \in SyncSteps /\ pc' \in SyncSteps /\ UNCHANGED app
  BY DEF AssertAdoptable, Fail, Goto, SyncSteps
<1> QED
  BY <1>1, <1>2, QuietStep

LEMMA ObserveKeeps ==
  ASSUME TypeOK, Incarnations, Observe
  PROVE  Incarnations'
<1>1. UNCHANGED <<webapp, cachedApp, nextUid, objs, skipped>>
  BY DEF Observe, serverVars, objectVars, cacheVars, recordVars
<1>2. pc \in SyncSteps /\ pc' \in SyncSteps /\ UNCHANGED app
  BY DEF Observe, SyncSteps
<1> QED
  BY <1>1, <1>2, QuietStep

LEMMA CallFailsKeeps ==
  ASSUME TypeOK, Incarnations, CallFails
  PROVE  Incarnations'
<1>1. UNCHANGED <<webapp, cachedApp, nextUid, objs, skipped>>
  BY DEF CallFails, serverVars, objectVars, cacheVars
<1>2. \/ pc' = "idle" /\ app' = None
      \/ pc \in SyncSteps /\ pc' \in SyncSteps /\ UNCHANGED app
  BY DEF CallFails, CallError, EndPass, Fail, SyncSteps
<1> QED
  BY <1>1, <1>2, QuietStep

-------------------------------------------------------------------------------
(* Steps of the worker that read or write the WebApp *)

\* A pass starts from a cached copy, which CacheTrails ties to the live WebApp.
LEMMA BeginPassKeeps ==
  ASSUME TypeOK, Incarnations, BeginPass
  PROVE  Incarnations'
<1>1. UNCHANGED <<webapp, cachedApp, nextUid, objs, skipped>>
  BY DEF BeginPass, serverVars, objectVars, cacheVars
<1>2. CASE cachedApp = None \/ (cachedApp.deleting /\ ~cachedApp.fin)
  <2>1. UNCHANGED <<pc, kind, app>>
    BY <1>2 DEF BeginPass, passVars
  <2> QED
    BY <1>1, <2>1, SameStep
<1>3. CASE ~(cachedApp = None \/ (cachedApp.deleting /\ ~cachedApp.fin))
  <2>1. /\ app' = cachedApp /\ cachedApp # None
        /\ pc' = IF cachedApp.deleting THEN "finalize"
                 ELSE IF cachedApp.fin THEN "policy" ELSE "addFinalizer"
        /\ kind' = IF cachedApp.deleting THEN "Ingress" ELSE "Deployment"
    BY <1>3 DEF BeginPass
  <2>2. UidsUsed'
    BY <1>1, <2>1 DEF Incarnations, UidsUsed
  <2>3. CacheTrails' /\ FinalizerCoversOwned' /\ OrphansOnlySkipped'
    BY <1>1 DEF Incarnations, CacheTrails, FinalizerCoversOwned, OrphansOnlySkipped
  <2>4. FinalizesDeleted'
    BY <1>1, <2>1 DEF Incarnations, CacheTrails, FinalizesDeleted, FinalizeSteps
  <2>5. FinalizeProgress'
    BY <2>1 DEF FinalizeProgress, FinalizeSteps, Finalized
  <2>6. WorksOnLiveIncarnation'
    BY <1>1, <2>1 DEF Incarnations, CacheTrails, WorksOnLiveIncarnation, SyncSteps
  <2> QED
    BY <2>2, <2>3, <2>4, <2>5, <2>6 DEF Incarnations
<1> QED
  BY <1>2, <1>3

\* The Update succeeds only for the copy that is the live WebApp.
LEMMA AddFinalizerKeeps ==
  ASSUME TypeOK, VersionsExact, Incarnations, AddFinalizer
  PROVE  Incarnations'
<1>1. pc = "addFinalizer" /\ UNCHANGED <<cachedApp, nextUid, objs, skipped>>
  BY DEF AddFinalizer, objectVars, recordVars
<1>2. CASE ~fresh
  <2>1. UNCHANGED webapp /\ pc' = "idle" /\ app' = None
    BY <1>2 DEF AddFinalizer, EndPass
  <2> QED
    BY <1>1, <2>1, QuietStep
<1>3. CASE fresh
  <2>1. webapp = app /\ webapp \in WebApp
    BY <1>3 DEF VersionsExact, TypeOK
  <2>2. /\ webapp' = [webapp EXCEPT !.fin = TRUE]
        /\ \/ app' = [app EXCEPT !.fin = TRUE] /\ pc' = "policy"
           \/ app' = None /\ pc' = "idle"
    BY <1>1, <1>3 DEF AddFinalizer, CallError, EndPass
  <2>3. /\ webapp' \in WebApp /\ webapp' # None /\ webapp # None
        /\ webapp'.uid = webapp.uid /\ webapp'.deleting = webapp.deleting
        /\ webapp'.fin
        /\ app' # None => app' = webapp'
    BY <2>1, <2>2, NoneAssumption DEF WebApp
  <2>4. UidsUsed'
    BY <1>1, <2>1, <2>3 DEF Incarnations, UidsUsed
  <2>5. CacheTrails'
    BY <1>1, <2>3 DEF Incarnations, CacheTrails
  <2>6. FinalizerCoversOwned' /\ OrphansOnlySkipped'
    BY <1>1, <2>3 DEF Incarnations, FinalizerCoversOwned, OrphansOnlySkipped
  <2>7. FinalizesDeleted' /\ FinalizeProgress'
    BY <2>2 DEF FinalizesDeleted, FinalizeProgress, FinalizeSteps
  <2>8. WorksOnLiveIncarnation'
    <3>1. CASE app' # None
      BY <2>3, <3>1 DEF WorksOnLiveIncarnation
    <3>2. CASE app' = None
      <4>1. app \in WebApp
        BY <2>1
      <4>2. [app EXCEPT !.fin = TRUE] # None
        BY <4>1, NoneAssumption DEF WebApp
      <4>3. pc' = "idle"
        BY <2>2, <3>2, <4>2
      <4> QED
        BY <4>3 DEF WorksOnLiveIncarnation, SyncSteps
    <3> QED
      BY <3>1, <3>2
  <2> QED
    BY <2>4, <2>5, <2>6, <2>7, <2>8 DEF Incarnations
<1> QED
  BY <1>2, <1>3

\* The status patch changes neither the uid nor the finalizer.
LEMMA UpdateStatusKeeps ==
  ASSUME TypeOK, Incarnations, UpdateStatus
  PROVE  Incarnations'
<1>1. pc' = "idle" /\ app' = None /\ UNCHANGED <<cachedApp, nextUid, objs, skipped>>
  BY DEF UpdateStatus, Reply, CallError, EndPass, objectVars
<1>2. CASE webapp' = webapp
  BY <1>1, <1>2, QuietStep
<1>3. CASE webapp' # webapp
  <2> DEFINE status == MergePatch(webapp.status, app.status, want)
  <2>1. webapp # None /\ webapp' = [webapp EXCEPT !.status = status]
    BY <1>3 DEF UpdateStatus
  <2> HIDE DEF status
  <2>2. /\ webapp' # None
        /\ webapp'.uid = webapp.uid /\ webapp'.fin = webapp.fin
        /\ webapp'.deleting = webapp.deleting
    <3>0. app # None
      BY DEF TypeOK, UpdateStatus
    <3>1. webapp \in WebApp
      BY <2>1 DEF TypeOK
    <3>2. webapp'.uid = webapp.uid /\ webapp'.fin = webapp.fin
          /\ webapp'.deleting = webapp.deleting
      BY <2>1, <3>1 DEF WebApp
    <3>3. webapp' # None
      BY <2>1, <3>0, PatchedType, NoneAssumption DEF status
    <3> QED
      BY <3>2, <3>3
  <2>3. UidsUsed'
    BY <1>1, <2>1, <2>2 DEF Incarnations, UidsUsed
  <2>4. CacheTrails'
    BY <1>1, <2>1, <2>2 DEF Incarnations, CacheTrails
  <2>5. FinalizerCoversOwned' /\ OrphansOnlySkipped'
    BY <1>1, <2>1, <2>2 DEF Incarnations, FinalizerCoversOwned, OrphansOnlySkipped
  <2>6. FinalizesDeleted' /\ FinalizeProgress' /\ WorksOnLiveIncarnation'
    BY <1>1 DEF FinalizesDeleted, FinalizeProgress, FinalizeSteps,
                WorksOnLiveIncarnation, SyncSteps
  <2> QED
    BY <2>3, <2>4, <2>5, <2>6 DEF Incarnations
<1> QED
  BY <1>2, <1>3

\* The finalizer goes only from the copy that is the live WebApp, after every
\* kind has been through finalize.
LEMMA RemoveFinalizerKeeps ==
  ASSUME TypeOK, VersionsExact, Incarnations, RemoveFinalizer
  PROVE  Incarnations'
<1>1. /\ pc = "release" /\ pc' = "idle" /\ app' = None
      /\ UNCHANGED <<cachedApp, nextUid, objs, skipped>>
  BY DEF RemoveFinalizer, Reply, CallError, EndPass, objectVars
<1>2. CASE ~fresh
  BY <1>1, <1>2, QuietStep DEF RemoveFinalizer
<1>3. CASE fresh
  <2>1. webapp = app /\ app # None /\ webapp' = None
    BY <1>3 DEF VersionsExact, RemoveFinalizer
  <2>2. UidsUsed'
    BY <1>1, <2>1 DEF Incarnations, UidsUsed
  <2>3. CacheTrails'
    BY <1>1, <2>1 DEF Incarnations, CacheTrails, FinalizesDeleted, FinalizeSteps
  <2>4. FinalizerCoversOwned'
    BY <2>1 DEF FinalizerCoversOwned
  <2>5. OrphansOnlySkipped'
    <3> SUFFICES ASSUME NEW k \in Kinds, OwnedByWebApp(objs[k])
                 PROVE  <<objs[k].owner, k>> \in skipped
      BY <1>1 DEF OrphansOnlySkipped
    <3>1. CASE webapp.uid # objs[k].owner
      BY <3>1 DEF Incarnations, OrphansOnlySkipped
    <3>2. CASE webapp.uid = objs[k].owner
      <4>1. ControlledBy(objs[k], app.uid)
        BY <2>1, <3>2 DEF ControlledBy, OwnedByWebApp
      <4> QED
        BY <1>1, <2>1, <3>2, <4>1
        DEF Incarnations, FinalizeProgress, FinalizeSteps, Finalized
    <3> QED
      BY <3>1, <3>2
  <2>6. FinalizesDeleted' /\ FinalizeProgress' /\ WorksOnLiveIncarnation'
    BY <1>1 DEF FinalizesDeleted, FinalizeProgress, FinalizeSteps,
                WorksOnLiveIncarnation, SyncSteps
  <2> QED
    BY <2>2, <2>3, <2>4, <2>5, <2>6 DEF Incarnations
<1> QED
  BY <1>2, <1>3

-------------------------------------------------------------------------------
(* Steps that write the objects *)

\* An object is gone, or is as much owned as it was, or is owned by no WebApp.
NoNewOwner ==
  \A k \in Kinds : OwnedByWebApp(objs'[k]) =>
    OwnedByWebApp(objs[k]) /\ objs'[k].owner = objs[k].owner

LEMMA NoNewOwnerKeeps ==
  ASSUME TypeOK, Incarnations, NoNewOwner,
         UNCHANGED <<webapp, cachedApp, nextUid, skipped, pc, kind, app>>
  PROVE  Incarnations'
<1>1. UidsUsed'
  BY DEF Incarnations, UidsUsed, NoNewOwner
<1>2. CacheTrails' /\ FinalizesDeleted' /\ WorksOnLiveIncarnation'
  BY DEF Incarnations, CacheTrails, FinalizesDeleted, WorksOnLiveIncarnation
<1>3. ASSUME NEW k \in Kinds, NEW u \in Nat, ControlledBy(objs'[k], u)
      PROVE  ControlledBy(objs[k], u)
  BY <1>3 DEF NoNewOwner, ControlledBy, OwnedByWebApp
<1>4. FinalizeProgress'
  <2> SUFFICES ASSUME pc \in FinalizeSteps, NEW k \in Finalized,
                      ControlledBy(objs'[k], app.uid)
               PROVE  <<app.uid, k>> \in skipped
    BY DEF FinalizeProgress, Finalized
  <2>1. k \in Kinds
    BY DEF Finalized, Kinds, TypeOK
  <2>2. app # None
    BY DEF TypeOK, FinalizeSteps
  <2> QED
    BY <1>3, <2>1, <2>2, OwnerKinds DEF Incarnations, FinalizeProgress
<1>5. FinalizerCoversOwned'
  BY <1>3, OwnerKinds DEF Incarnations, FinalizerCoversOwned
<1>6. OrphansOnlySkipped'
  BY DEF Incarnations, OrphansOnlySkipped, NoNewOwner
<1> QED
  BY <1>1, <1>2, <1>4, <1>5, <1>6 DEF Incarnations

\* An apply is made for the live WebApp, which holds its finalizer.
LEMMA ApplyKeeps ==
  ASSUME TypeOK, Incarnations, Apply
  PROVE  Incarnations'
<1>1. /\ pc = "apply" /\ kind \in Kinds
      /\ UNCHANGED <<webapp, cachedApp, nextUid, skipped>>
  BY DEF Apply, cacheVars, recordVars, TypeOK
<1>2. pc' \in SyncSteps /\ UNCHANGED app
  BY <1>1 DEF Apply, Reply, AfterObject, SyncKind, CallError, Fail, Goto, SyncSteps,
              Kinds
<1>3. webapp # None /\ webapp.uid = app.uid /\ webapp.fin
  BY <1>1 DEF Incarnations, WorksOnLiveIncarnation, SyncSteps
<1>4. \A k \in Kinds : objs'[k] = objs[k] \/ (objs'[k] # None /\ objs'[k].owner = app.uid)
  <2>1. app.uid \in Nat
    BY <1>1, OwnerKinds DEF TypeOK
  <2> DEFINE o == [owner |-> app.uid, labelled |-> TRUE,
                   content |-> Content(kind, app.spec)]
  <2>2. o # None
    <3>1. app \in WebApp /\ app.spec \in WebAppSpec
      BY <1>1, ControllerAssumption DEF TypeOK, WebApp
    <3>2. o \in Object
      BY <2>1, <3>1, ContentType DEF Object, Owners
    <3> QED
      BY <3>2, NoneAssumption
  <2>3. o.owner = app.uid
    OBVIOUS
  <2>4. objs' = objs \/ objs' = [objs EXCEPT ![kind] = o]
    BY DEF Apply
  <2> HIDE DEF o
  <2> QED
    BY <2>2, <2>3, <2>4 DEF TypeOK
<1>5. UidsUsed'
  BY <1>1, <1>2, <1>3, <1>4 DEF Incarnations, UidsUsed, OwnedByWebApp
<1>6. CacheTrails' /\ FinalizesDeleted' /\ FinalizeProgress' /\ FinalizerCoversOwned'
  BY <1>1, <1>2, <1>3
  DEF Incarnations, CacheTrails, FinalizesDeleted, FinalizeProgress, FinalizeSteps,
      SyncSteps, FinalizerCoversOwned
<1>7. OrphansOnlySkipped'
  BY <1>1, <1>3, <1>4 DEF Incarnations, OrphansOnlySkipped, OwnedByWebApp
<1>8. WorksOnLiveIncarnation'
  BY <1>1, <1>2, <1>3 DEF WorksOnLiveIncarnation
<1> QED
  BY <1>5, <1>6, <1>7, <1>8 DEF Incarnations

\* An object that a pass deletes is gone for every owner; one that finalize does
\* not see is remembered before it goes on.
LEMMA DeleteOwnedKeeps ==
  ASSUME TypeOK, Incarnations, DeleteOwned
  PROVE  Incarnations'
<1>1. /\ pc \in {"prune", "finalize"} /\ kind \in Kinds /\ app # None
      /\ UNCHANGED <<webapp, cachedApp, nextUid>>
  BY DEF DeleteOwned, cacheVars, TypeOK
<1>2. \/ objs'[kind] = None /\ \A k \in Kinds \ {kind} : objs'[k] = objs[k]
      \/ objs' = objs
  BY DEF DeleteOwned, TypeOK
<1>3. /\ skipped \subseteq skipped'
      /\ pc = "finalize" => objs'[kind] = None \/ <<app.uid, kind>> \in skipped'
  BY <1>1 DEF DeleteOwned, TypeOK
<1>4. NoNewOwner
  BY <1>2 DEF NoNewOwner, OwnedByWebApp
<1>5. UidsUsed'
  <2>1. app' = app \/ app' = None
    BY <1>1 DEF DeleteOwned, Reply, AfterPrune, AfterFinalized, AfterObject, SyncKind,
                CallError, Fail, EndPass, Goto, Kinds
  <2> QED
    BY <1>1, <1>4, <2>1 DEF Incarnations, UidsUsed, NoNewOwner
<1>6. CacheTrails'
  BY <1>1 DEF Incarnations, CacheTrails
<1>7. FinalizerCoversOwned'
  BY <1>1, <1>2 DEF Incarnations, FinalizerCoversOwned, ControlledBy
<1>8. OrphansOnlySkipped'
  BY <1>1, <1>2, <1>3 DEF Incarnations, OrphansOnlySkipped, OwnedByWebApp
<1>9. CASE pc = "prune"
  <2>1. pc' \in SyncSteps /\ UNCHANGED app
    BY <1>1, <1>9 DEF DeleteOwned, Reply, AfterPrune, AfterObject, SyncKind, CallError,
                      Fail, Goto, SyncSteps, Kinds
  <2>2. WorksOnLiveIncarnation'
    BY <1>1, <1>9, <2>1 DEF Incarnations, WorksOnLiveIncarnation, SyncSteps
  <2>3. FinalizesDeleted' /\ FinalizeProgress'
    BY <2>1 DEF FinalizesDeleted, FinalizeProgress, FinalizeSteps, SyncSteps
  <2> QED
    BY <1>5, <1>6, <1>7, <1>8, <2>2, <2>3 DEF Incarnations
<1>10. CASE pc = "finalize"
  <2>1. CASE pc' = "idle"
    BY <1>5, <1>6, <1>7, <1>8, <2>1
    DEF Incarnations, FinalizesDeleted, FinalizeProgress, FinalizeSteps,
        WorksOnLiveIncarnation, SyncSteps
  <2>2. CASE pc' # "idle"
    <3>1. AfterFinalized
      BY <1>10, <2>2 DEF DeleteOwned, Reply, CallError, EndPass, AfterPrune
    <3>2. UNCHANGED app /\ pc' \in FinalizeSteps
      BY <1>1, <3>1 DEF AfterFinalized, Goto, FinalizeSteps, Kinds
    <3>3. Finalized' = Finalized \cup {kind}
      BY <1>1, <1>10, <3>1 DEF AfterFinalized, Goto, Finalized, Kinds
    <3>4. WorksOnLiveIncarnation'
      BY <3>2 DEF WorksOnLiveIncarnation, FinalizeSteps, SyncSteps
    <3>5. FinalizesDeleted'
      BY <1>1, <1>10, <3>2 DEF Incarnations, FinalizesDeleted, FinalizeSteps
    <3>6. FinalizeProgress'
      <4> SUFFICES ASSUME NEW k \in Finalized \cup {kind},
                          ControlledBy(objs'[k], app.uid)
                   PROVE  <<app.uid, k>> \in skipped'
        BY <3>2, <3>3 DEF FinalizeProgress
      <4>1. CASE k = kind
        BY <1>3, <1>10, <4>1 DEF ControlledBy
      <4>2. CASE k # kind
        <5>1. k \in Kinds /\ k \in Finalized
          BY <1>1, <1>10, <4>2 DEF Finalized, Kinds
        <5>2. ControlledBy(objs[k], app.uid)
          BY <1>2, <4>2, <5>1
        <5> QED
          BY <1>3, <1>10, <5>1, <5>2 DEF Incarnations, FinalizeProgress, FinalizeSteps
      <4> QED
        BY <4>1, <4>2
    <3> QED
      BY <1>5, <1>6, <1>7, <1>8, <3>4, <3>5, <3>6 DEF Incarnations
  <2> QED
    BY <2>1, <2>2
<1> QED
  BY <1>1, <1>9, <1>10

LEMMA OutsideObjectsKeeps ==
  ASSUME TypeOK, Incarnations,
         OutsideObjects \/ \E ps \in PolicySets : ChangePolicies(ps)
  PROVE  Incarnations'
<1>1. OutsideChange
  BY DEF OutsideObjects, Foreign, Remove, Gone, Collect, Drift, Strip, Autoscale,
         Rollout, ChangePolicies
<1>2. UNCHANGED <<webapp, cachedApp, nextUid, skipped, pc, kind, app>>
  BY <1>1 DEF OutsideChange, cacheVars, passVars, recordVars
<1>3. NoNewOwner
  <2>1. ASSUME NEW k \in Kinds, NEW owner \in {None, Other}, Foreign(k, owner)
        PROVE  NoNewOwner
    <3>1. /\ objs' = [objs EXCEPT ![k] =
               [owner |-> owner, labelled |-> FALSE, content |-> None]]
          /\ owner \notin Nat
      BY <2>1, OwnerKinds DEF Foreign
    <3> QED
      BY <3>1 DEF NoNewOwner, OwnedByWebApp, TypeOK
  <2>2. ASSUME NEW k \in Kinds, Gone(k)
        PROVE  NoNewOwner
    BY <2>2 DEF Gone, NoNewOwner, OwnedByWebApp, TypeOK
  <2>3. ASSUME NEW k \in Kinds, Drift(k) \/ Strip(k)
        PROVE  NoNewOwner
    <3>1. objs[k] \in Object
      BY <2>3 DEF Drift, Strip, TypeOK, Objects
    <3>2. \A j \in Kinds : objs'[j] = objs[j] \/ (j = k /\ objs'[k].owner = objs[k].owner)
      BY <2>3, <3>1 DEF Drift, Strip, TypeOK, Object
    <3>3. objs[k] # None
      BY <2>3 DEF Drift, Strip
    <3> QED
      BY <3>2, <3>3 DEF NoNewOwner, OwnedByWebApp
  <2>4. CASE objs' = objs
    BY <2>4 DEF NoNewOwner
  <2> QED
    BY <2>1, <2>2, <2>3, <2>4
    DEF OutsideObjects, Remove, Collect, Autoscale, Rollout, ChangePolicies
<1> QED
  BY <1>2, <1>3, NoNewOwnerKeeps

-------------------------------------------------------------------------------
(* Users, caches and restarts *)

\* A new WebApp has a uid nothing in sight carries.
LEMMA CreateKeeps ==
  ASSUME TypeOK, Incarnations, NEW s \in Specs, Create(s)
  PROVE  Incarnations'
<1>1. /\ webapp = None /\ nextUid' = nextUid + 1
      /\ webapp'.uid = nextUid /\ ~webapp'.fin /\ ~webapp'.deleting
      /\ UNCHANGED <<cachedApp, objs, skipped, pc, kind, app>>
  BY DEF Create, objectVars, recordVars
<1>2. UidsUsed'
  <2>1. \A k \in Kinds : OwnedByWebApp(objs[k]) => objs[k].owner < nextUid + 1
    BY OwnerKinds DEF Incarnations, UidsUsed, OwnedByWebApp
  <2> QED
    BY <1>1, <2>1, OwnerKinds DEF Incarnations, UidsUsed
<1>3. CacheTrails'
  BY <1>1, OwnerKinds DEF Incarnations, CacheTrails, UidsUsed
<1>4. FinalizesDeleted'
  <2>1. pc \in FinalizeSteps => app # None
    BY DEF FinalizeSteps, TypeOK
  <2> QED
    BY <1>1, <2>1, OwnerKinds DEF Incarnations, FinalizesDeleted, UidsUsed
<1>5. FinalizeProgress'
  BY <1>1 DEF Incarnations, FinalizeProgress, Finalized
<1>6. WorksOnLiveIncarnation'
  BY <1>1 DEF Incarnations, WorksOnLiveIncarnation
<1>7. FinalizerCoversOwned'
  <2>1. \A k \in Kinds : ~ControlledBy(objs[k], nextUid)
    BY OwnerKinds DEF Incarnations, UidsUsed, ControlledBy, OwnedByWebApp
  <2> QED
    BY <1>1, <2>1 DEF FinalizerCoversOwned
<1>8. OrphansOnlySkipped'
  BY <1>1 DEF Incarnations, OrphansOnlySkipped
<1> QED
  BY <1>2, <1>3, <1>4, <1>5, <1>6, <1>7, <1>8 DEF Incarnations

\* An edit, or a deletion that is only recorded, keeps uid and finalizer.
LEMMA RecordKeeps ==
  ASSUME TypeOK, Incarnations, webapp # None, webapp' # None,
         webapp'.uid = webapp.uid, webapp'.fin = webapp.fin,
         webapp.deleting => webapp'.deleting,
         UNCHANGED <<cachedApp, nextUid, objs, skipped, pc, kind, app>>
  PROVE  Incarnations'
<1>1. UidsUsed'
  BY DEF Incarnations, UidsUsed
<1>2. CacheTrails' /\ FinalizesDeleted'
  BY DEF Incarnations, CacheTrails, FinalizesDeleted
<1>3. FinalizeProgress'
  BY DEF Incarnations, FinalizeProgress, Finalized
<1>4. WorksOnLiveIncarnation' /\ FinalizerCoversOwned' /\ OrphansOnlySkipped'
  BY DEF Incarnations, WorksOnLiveIncarnation, FinalizerCoversOwned,
         OrphansOnlySkipped
<1> QED
  BY <1>1, <1>2, <1>3, <1>4 DEF Incarnations

LEMMA EditKeeps ==
  ASSUME TypeOK, ControllerAssumption, Incarnations, NEW s \in Specs, Edit(s)
  PROVE  Incarnations'
<1>1. webapp \in WebApp
  BY DEF Edit, TypeOK
<1>2. webapp' = [webapp EXCEPT !.spec = s, !.gen = webapp.gen + 1]
  BY <1>1 DEF Edit, WebApp
<1>3. webapp' \in WebApp
  <2>1. webapp.gen + 1 \in Nat \ {0}
    BY <1>1 DEF WebApp
  <2> QED
    BY <1>1, <1>2, <2>1 DEF WebApp
<1>4. /\ webapp # None /\ webapp' # None
      /\ webapp'.uid = webapp.uid /\ webapp'.fin = webapp.fin
      /\ webapp'.deleting = webapp.deleting
  BY <1>1, <1>2, <1>3, NoneAssumption DEF WebApp
<1>5. UNCHANGED <<cachedApp, nextUid, objs, skipped, pc, kind, app>>
  BY DEF Edit, objectVars, recordVars
<1> QED
  BY <1>4, <1>5, RecordKeeps

\* Without a finalizer a WebApp goes at once, and FinalizerCoversOwned says that
\* it owned nothing.
LEMMA DeleteKeeps ==
  ASSUME TypeOK, Incarnations, Delete
  PROVE  Incarnations'
<1>1. /\ webapp # None /\ webapp \in WebApp
      /\ UNCHANGED <<cachedApp, nextUid, objs, skipped, pc, kind, app>>
  BY DEF Delete, objectVars, recordVars, TypeOK
<1>2. CASE webapp.fin
  <2>1. webapp' = [webapp EXCEPT !.deleting = TRUE, !.gen = webapp.gen + 1]
    BY <1>1, <1>2 DEF Delete, WebApp
  <2>2. webapp.gen + 1 \in Nat \ {0}
    BY <1>1 DEF WebApp
  <2>3. /\ webapp' \in WebApp
        /\ webapp'.uid = webapp.uid /\ webapp'.fin = webapp.fin /\ webapp'.deleting
    BY <1>1, <2>1, <2>2 DEF WebApp
  <2> QED
    BY <1>1, <2>3, NoneAssumption, RecordKeeps
<1>3. CASE ~webapp.fin
  <2>1. webapp' = None
    BY <1>3 DEF Delete
  <2>2. UidsUsed'
    BY <1>1, <2>1 DEF Incarnations, UidsUsed
  <2>3. CacheTrails' /\ FinalizesDeleted'
    BY <1>1, <1>3, <2>1 DEF Incarnations, CacheTrails, FinalizesDeleted
  <2>4. FinalizeProgress'
    BY <1>1 DEF Incarnations, FinalizeProgress, Finalized
  <2>5. WorksOnLiveIncarnation'
    BY <1>1, <1>3 DEF Incarnations, WorksOnLiveIncarnation
  <2>6. FinalizerCoversOwned'
    BY <2>1 DEF FinalizerCoversOwned
  <2>7. OrphansOnlySkipped'
    BY <1>1, <1>3
    DEF Incarnations, FinalizerCoversOwned, OrphansOnlySkipped, ControlledBy,
        OwnedByWebApp
  <2> QED
    BY <2>2, <2>3, <2>4, <2>5, <2>6, <2>7 DEF Incarnations
<1> QED
  BY <1>2, <1>3

\* The cache jumps to the live WebApp, during a pass or before a new one.
LEMMA RelistKeeps ==
  ASSUME TypeOK, Incarnations, cachedApp' = webapp,
         UNCHANGED <<webapp, nextUid, objs, skipped>>,
         UNCHANGED <<pc, kind, app>> \/ (pc' = "idle" /\ app' = None)
  PROVE  Incarnations'
<1>1. UidsUsed' /\ CacheTrails' /\ FinalizerCoversOwned' /\ OrphansOnlySkipped'
  BY DEF Incarnations, UidsUsed, CacheTrails, FinalizerCoversOwned, OrphansOnlySkipped
<1>2. CASE UNCHANGED <<pc, kind, app>>
  BY <1>1, <1>2
  DEF Incarnations, FinalizesDeleted, FinalizeProgress, Finalized,
      WorksOnLiveIncarnation
<1>3. CASE pc' = "idle" /\ app' = None
  BY <1>1, <1>3
  DEF Incarnations, FinalizesDeleted, FinalizeProgress, FinalizeSteps,
      WorksOnLiveIncarnation, SyncSteps
<1> QED
  BY <1>2, <1>3

LEMMA CacheKeeps ==
  ASSUME TypeOK, Incarnations,
         DeliverApp \/ (\E k \in Kinds : Deliver(k)) \/ TimerFires \/ Crash
  PROVE  Incarnations'
<1>1. CASE DeliverApp
  BY <1>1, RelistKeeps DEF DeliverApp, serverVars, objectVars, passVars, recordVars
<1>2. CASE \E k \in Kinds : Deliver(k)
  BY <1>2, SameStep DEF Deliver, passVars, recordVars
<1>3. CASE TimerFires
  BY <1>3, SameStep
  DEF TimerFires, serverVars, objectVars, cacheVars, passVars, recordVars
<1>4. CASE Crash
  BY <1>4, RelistKeeps DEF Crash
<1> QED
  BY <1>1, <1>2, <1>3, <1>4

-------------------------------------------------------------------------------
(* Together *)

LEMMA IncarnationsStep ==
  ASSUME TypeOK, VersionsExact, Incarnations, Next
  PROVE  Incarnations'
<1>1. CASE Worker
  BY <1>1, BeginPassKeeps, AddFinalizerKeeps, EnforceScalePolicyKeeps,
     AssertAdoptableKeeps, ApplyKeeps, DeleteOwnedKeeps, ObserveKeeps,
     UpdateStatusKeeps, RemoveFinalizerKeeps, CallFailsKeeps
  DEF Worker
<1>2. CASE DeliverApp \/ (\E k \in Kinds : Deliver(k)) \/ TimerFires \/ Crash
  BY <1>2, CacheKeeps
<1>3. CASE (\E s \in Specs : Create(s) \/ Edit(s)) \/ Delete
  BY <1>3, ControllerAssumption, CreateKeeps, EditKeeps, DeleteKeeps
<1>4. CASE OutsideObjects \/ \E ps \in PolicySets : ChangePolicies(ps)
  BY <1>4, OutsideObjectsKeeps
<1> QED
  BY <1>1, <1>2, <1>3, <1>4 DEF Next, Outside, OutsideObjects

\* The inductive invariant behind the theorems that follow.
THEOREM IncarnationsHold == Spec => []Incarnations
<1>1. Init => Incarnations
  BY DEF Init, Incarnations, UidsUsed, CacheTrails, FinalizesDeleted, FinalizeProgress,
         FinalizeSteps, WorksOnLiveIncarnation, SyncSteps, FinalizerCoversOwned,
         OrphansOnlySkipped, OwnedByWebApp, ControlledBy
<1>2. TypeOK /\ VersionsExact /\ Incarnations /\ [Next]_vars => Incarnations'
  <2> SUFFICES ASSUME TypeOK, VersionsExact, Incarnations, [Next]_vars
               PROVE  Incarnations'
    OBVIOUS
  <2>1. CASE Next
    BY <2>1, IncarnationsStep
  <2>2. CASE UNCHANGED vars
    BY <2>2, SameStep
    DEF vars, serverVars, objectVars, cacheVars, passVars, recordVars
  <2> QED
    BY <2>1, <2>2
<1> QED
  BY <1>1, <1>2, TypeCorrect, PTL DEF Spec

\* While a pass is syncing, the WebApp it read is the live one and holds its
\* finalizer, whatever is deleted, created again, delivered late or restarted.
THEOREM SyncsOnlyTheLive == Spec => []WorksOnLiveIncarnation
<1>1. Incarnations => WorksOnLiveIncarnation
  BY DEF Incarnations
<1> QED
  BY <1>1, IncarnationsHold, PTL

\* The live WebApp owns nothing before its finalizer is stored.
THEOREM NothingOwnedUnfinalized == Spec => []FinalizerCoversOwned
<1>1. Incarnations => FinalizerCoversOwned
  BY DEF Incarnations
<1> QED
  BY <1>1, IncarnationsHold, PTL

\* Only what a finalize pass did not see in its cache outlives its WebApp,
\* however often its deletes fail, get lost or are repeated.
THEOREM OnlySkippedAreOrphaned == Spec => []OrphansOnlySkipped
<1>1. Incarnations => OrphansOnlySkipped
  BY DEF Incarnations
<1> QED
  BY <1>1, IncarnationsHold, PTL

===============================================================================
