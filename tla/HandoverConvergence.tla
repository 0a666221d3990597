-------------------------- MODULE HandoverConvergence --------------------------
(***************************************************************************)
(* Two managers at once, for every value of the constants: whatever the    *)
(* old leader still writes, from caches that no longer move, an event of   *)
(* the object or the new version of the WebApp announces it to the new     *)
(* one, so that what ControllerConvergence proves of one manager holds of  *)
(* the new leader all the same.                                            *)
(***************************************************************************)
EXTENDS WebAppHandover, ControllerConvergence

\* The old leader is a controller too, and ControllerTypes proves the types of
\* each of its steps.
OldTypes == INSTANCE ControllerTypes
              WITH pc <- oldPc, kind <- oldKind, app <- oldApp, fresh <- oldFresh,
                   locked <- oldLocked, hold <- oldHold, want <- oldWant,
                   err <- oldErr, metered <- oldMetered,
                   cachedObjs <- oldCachedObjs, cachedScale <- oldCachedScale,
                   cachedApp <- oldCachedApp, appFresh <- oldAppFresh,
                   queued <- oldQueued, delayed <- oldDelayed

\* What both managers share.
SharedOK ==
  /\ webapp \in WebApp \cup {None}
  /\ objs \in [Kinds -> Objects]
  /\ scale \in Scale
  /\ undelivered \subseteq Kinds
  /\ policies \in PolicySets
  /\ nextUid \in Nat
  /\ skipped \subseteq Nat \X Kinds
  /\ budget \in [Events -> Nat]

\* The pass the old leader is in.
OldPassOK ==
  /\ oldPc \in Steps
  /\ oldKind \in Kinds
  /\ oldApp \in WebApp \cup {None}
  /\ (oldPc # "idle") => (oldApp # None)
  /\ oldFresh \in BOOLEAN /\ oldLocked \in BOOLEAN
  /\ oldHold \in Nat \cup {None}
  /\ oldWant \in Status
  /\ oldErr \in Errors
  /\ oldMetered \in BOOLEAN
  /\ oldCachedObjs \in [Kinds -> Objects]
  /\ oldCachedScale \in Scale

\* The queue and the WebApp cache it has no more use for.
OldIdleOK ==
  /\ oldCachedApp \in WebApp \cup {None} /\ oldAppFresh = FALSE
  /\ oldQueued \in BOOLEAN /\ oldDelayed \in BOOLEAN

\* A copy whose resource version is the live one is the live WebApp.
OldExact == oldFresh => (oldApp # None /\ webapp = oldApp)

OldSound == OldPassOK /\ OldIdleOK /\ OldExact

\* The inductive invariant.
HandoverSound == TypeOK /\ VersionsExact /\ Convergence /\ OldSound

-------------------------------------------------------------------------------
(* The old leader as a controller *)

\* The constants are the same, so are the sets made of them.
LEMMA OldSets ==
  /\ OldTypes!Kinds = Kinds /\ OldTypes!Steps = Steps /\ OldTypes!Errors = Errors
  /\ OldTypes!Events = Events /\ OldTypes!Status = Status
  /\ OldTypes!WebApp = WebApp /\ OldTypes!Scale = Scale
  /\ OldTypes!Objects = Objects /\ OldTypes!Object = Object
  /\ OldTypes!Conditions = Conditions
  /\ OldTypes!Policy = Policy /\ OldTypes!WebAppSpec = WebAppSpec
  /\ OldTypes!Managed!WebApp = Managed!WebApp
<1>1. /\ OldTypes!Kinds = Kinds /\ OldTypes!Steps = Steps /\ OldTypes!Errors = Errors
      /\ OldTypes!Events = Events
  BY DEF OldTypes!Kinds, Kinds, OldTypes!Steps, Steps, OldTypes!Errors, Errors,
         OldTypes!Events, Events
<1>2. OldTypes!Conditions = Conditions
  BY DEF OldTypes!Conditions, Conditions, OldTypes!ReadyReasons, ReadyReasons,
         OldTypes!Rollouts, Rollouts
<1>3. OldTypes!Status = Status
  BY <1>2 DEF OldTypes!Status, Status
<1>4. OldTypes!WebApp = WebApp
  BY <1>3 DEF OldTypes!WebApp, WebApp
<1>5. OldTypes!Scale = Scale
  BY DEF OldTypes!Scale, Scale, OldTypes!Managers, Managers, OldTypes!Health, Health
<1>6. OldTypes!Contents = Contents /\ OldTypes!Owners = Owners
  BY DEF OldTypes!Contents, Contents, OldTypes!Owners, Owners
<1>7. OldTypes!Object = Object /\ OldTypes!Objects = Objects
  BY <1>6 DEF OldTypes!Object, Object, OldTypes!Objects, Objects
<1>8. OldTypes!Policy = Policy /\ OldTypes!WebAppSpec = WebAppSpec
  BY DEF OldTypes!Policy, Policy, OldTypes!WebAppSpec, WebAppSpec
<1>9. OldTypes!Managed!WebApp = Managed!WebApp
  BY DEF OldTypes!Managed!WebApp, Managed!WebApp, OldTypes!Managed!Stages, Managed!Stages
<1> QED
  BY <1>1, <1>2, <1>3, <1>4, <1>5, <1>7, <1>8, <1>9

LEMMA OldAssumptions ==
  /\ OldTypes!ResourceAssumption /\ OldTypes!OtherAssumption
  /\ OldTypes!ControllerAssumption /\ OldTypes!NoneAssumption
  /\ OldTypes!ManagedAssumption
BY OldSets, ResourceAssumption, OtherAssumption, ControllerAssumption, NoneAssumption,
   ManagedAssumption
DEF OldTypes!ResourceAssumption, OldTypes!OtherAssumption,
    OldTypes!ControllerAssumption, OldTypes!NoneAssumption,
    OldTypes!ManagedAssumption

LEMMA OldTypeParts ==
  ASSUME oldAppFresh = FALSE
  PROVE  /\ OldTypes!TypeOK <=> SharedOK /\ OldPassOK /\ OldIdleOK
         /\ OldTypes!VersionsExact <=> OldExact
<1>1. OldTypes!TypeOK <=> SharedOK /\ OldPassOK /\ OldIdleOK
  BY OldSets DEF OldTypes!TypeOK, SharedOK, OldPassOK, OldIdleOK
<1>2. OldTypes!VersionsExact <=> OldExact
  BY DEF OldTypes!VersionsExact, OldExact
<1> QED
  BY <1>1, <1>2

\* Each step of the old leader is one of the controller ControllerTypes is about.
LEMMA OldIsController ==
  ASSUME OldStep
  PROVE  OldTypes!Next
<1> USE DEF Old!serverVars, OldTypes!serverVars, Old!objectVars, OldTypes!objectVars,
            Old!cacheVars, OldTypes!cacheVars, Old!queueVars, OldTypes!queueVars,
            Old!recordVars, OldTypes!recordVars, Old!Kinds, OldTypes!Kinds,
            Old!Spend, OldTypes!Spend, Old!Goto, OldTypes!Goto,
            Old!EndPass, OldTypes!EndPass, Old!NoStatus, OldTypes!NoStatus,
            Old!Fail, OldTypes!Fail, Old!IngressURL, OldTypes!IngressURL,
            Old!ApplyReconcileFailure, OldTypes!ApplyReconcileFailure,
            Old!CallError, OldTypes!CallError, Old!Reply, OldTypes!Reply,
            Old!WantsHPA, OldTypes!WantsHPA, Old!Buildable, OldTypes!Buildable,
            Old!ControlledBy, OldTypes!ControlledBy
<1>1. CASE Old!AddFinalizer
  <2>1. OldTypes!AddFinalizer
    BY <1>1 DEF Old!AddFinalizer, OldTypes!AddFinalizer
  <2> QED
    BY <2>1 DEF OldTypes!Next, OldTypes!Worker
<1>2. CASE Old!EnforceScalePolicy
  <2>1. OldTypes!EnforceScalePolicy
    BY <1>2
    DEF Old!EnforceScalePolicy, OldTypes!EnforceScalePolicy, Old!EvaluateScale,
        OldTypes!EvaluateScale, Old!Enforced, OldTypes!Enforced, Old!Matches,
        OldTypes!Matches, Old!ReplicaViolation, OldTypes!ReplicaViolation,
        Old!ReplicaHold, OldTypes!ReplicaHold, Old!ReplicasOwnedByOther,
        OldTypes!ReplicasOwnedByOther, Old!DesiredReplicas, OldTypes!DesiredReplicas
  <2> QED
    BY <2>1 DEF OldTypes!Next, OldTypes!Worker
<1>3. CASE Old!AssertAdoptable
  <2>1. OldTypes!AssertAdoptable
    BY <1>3 DEF Old!AssertAdoptable, OldTypes!AssertAdoptable
  <2> QED
    BY <2>1 DEF OldTypes!Next, OldTypes!Worker
<1> USE DEF Old!SyncKind, OldTypes!SyncKind, Old!Wants, OldTypes!Wants,
            Old!WantsIngress, OldTypes!WantsIngress, Old!AfterObject,
            OldTypes!AfterObject, Old!View, OldTypes!View, Old!OwnedByWebApp,
            OldTypes!OwnedByWebApp, Old!ObjectEvents, OldTypes!ObjectEvents,
            Old!NoScale, OldTypes!NoScale
<1>4. CASE Old!Apply
  <2>1. OldTypes!Apply
    BY <1>4
    DEF Old!Apply, OldTypes!Apply, Old!Refuses, OldTypes!Refuses, Old!Content,
        OldTypes!Content, Old!AppliedScale, OldTypes!AppliedScale,
        Old!CreatedScale, OldTypes!CreatedScale, Old!ReleaseReplicas,
        OldTypes!ReleaseReplicas, Old!ForceReplicas, OldTypes!ForceReplicas
  <2> QED
    BY <2>1 DEF OldTypes!Next, OldTypes!Worker
<1>5. CASE Old!DeleteOwned
  <2>1. OldTypes!DeleteOwned
    BY <1>5
    DEF Old!DeleteOwned, OldTypes!DeleteOwned, Old!AfterPrune, OldTypes!AfterPrune,
        Old!AfterFinalized, OldTypes!AfterFinalized
  <2> QED
    BY <2>1 DEF OldTypes!Next, OldTypes!Worker
<1>6. CASE Old!Observe
  <2>1. OldTypes!Observe
    BY <1>6
    DEF Old!Observe, OldTypes!Observe, Old!ApplyNoDeploymentConditions,
        OldTypes!ApplyNoDeploymentConditions, Old!ApplyDeploymentConditions,
        OldTypes!ApplyDeploymentConditions, Old!SetReady, OldTypes!SetReady
  <2> QED
    BY <2>1 DEF OldTypes!Next, OldTypes!Worker
<1>7. CASE Old!UpdateStatus
  <2>1. OldTypes!UpdateStatus
    BY <1>7
    DEF Old!UpdateStatus, OldTypes!UpdateStatus, Old!MergePatch, OldTypes!MergePatch
  <2> QED
    BY <2>1 DEF OldTypes!Next, OldTypes!Worker
<1>8. CASE Old!RemoveFinalizer
  <2>1. OldTypes!RemoveFinalizer
    BY <1>8 DEF Old!RemoveFinalizer, OldTypes!RemoveFinalizer
  <2> QED
    BY <2>1 DEF OldTypes!Next, OldTypes!Worker
<1> QED
  BY <1>1, <1>2, <1>3, <1>4, <1>5, <1>6, <1>7, <1>8 DEF OldStep

LEMMA OldStepTypes ==
  ASSUME HandoverSound, OldStep
  PROVE  TypeOK' /\ VersionsExact' /\ OldSound'
<1>1. SharedOK
  BY DEF HandoverSound, TypeOK, SharedOK
<1>2. oldAppFresh = FALSE /\ OldTypes!TypeOK /\ OldTypes!VersionsExact
  BY <1>1, OldTypeParts DEF HandoverSound, OldSound, OldIdleOK
<1>3. OldTypes!TypeOK' /\ OldTypes!VersionsExact'
  BY <1>2, OldIsController, OldAssumptions, OldTypes!NextType, OldTypes!VersionsStep
<1>4. oldAppFresh' = FALSE
  BY <1>2
  DEF OldStep, Old!AddFinalizer, Old!EnforceScalePolicy, Old!AssertAdoptable,
      Old!Apply, Old!DeleteOwned, Old!Observe, Old!UpdateStatus,
      Old!RemoveFinalizer, Old!cacheVars
<1>5. SharedOK' /\ OldSound'
  <2>1. SharedOK' /\ OldPassOK' /\ OldIdleOK'
    BY <1>3, <1>4, OldSets DEF OldTypes!TypeOK, SharedOK, OldPassOK, OldIdleOK
  <2>2. OldExact'
    BY <1>3 DEF OldTypes!VersionsExact, OldExact
  <2> QED
    BY <2>1, <2>2 DEF OldSound
<1>6. TypeOK'
  BY <1>5 DEF HandoverSound, TypeOK, SharedOK, OldStep, queueVars
<1>7. VersionsExact'
  BY DEF HandoverSound, VersionsExact, OldStep
<1> QED
  BY <1>5, <1>6, <1>7

\* What the old leader applies carries the label and has an owner, and the watch
\* tells of it.
LEMMA OldStepEvents ==
  ASSUME HandoverSound, OldStep
  PROVE  LabelledOwned' /\ EventsTell
<1>1. LabelledOwned
  BY DEF HandoverSound, Convergence, WorldSound
<1>2. CASE Old!Apply \/ Old!DeleteOwned
  <2>1. ObjectEvents
    BY <1>2
    DEF Old!Apply, Old!DeleteOwned, Old!ObjectEvents, ObjectEvents, Old!View, View,
        Old!OwnedByWebApp, OwnedByWebApp, Old!Kinds, Kinds
  <2>2. /\ oldApp \in WebApp /\ oldKind \in Kinds /\ objs \in [Kinds -> Objects]
        /\ oldApp.uid \in Nat
    BY <1>2 DEF HandoverSound, OldSound, OldPassOK, TypeOK, Old!Apply,
                Old!DeleteOwned, WebApp
  <2>3. \/ UNCHANGED objs
        \/ objs' = [objs EXCEPT ![oldKind] = None]
        \/ \E c : objs' = [objs EXCEPT ![oldKind] =
                             [owner |-> oldApp.uid, labelled |-> TRUE, content |-> c]]
    BY <1>2 DEF Old!Apply, Old!DeleteOwned
  <2>4. LabelledOwned'
    BY <1>1, <2>2, <2>3 DEF LabelledOwned, View, OwnedByWebApp
  <2> QED
    BY <1>1, <2>1, <2>4, ObjectEventsTell
<1>3. CASE ~(Old!Apply \/ Old!DeleteOwned)
  <2>1. UNCHANGED <<objs, scale, undelivered>>
    BY <1>3
    DEF OldStep, Old!AddFinalizer, Old!EnforceScalePolicy, Old!AssertAdoptable,
        Old!Observe, Old!UpdateStatus, Old!RemoveFinalizer, Old!serverVars,
        Old!objectVars
  <2> QED
    BY <1>1, <2>1 DEF LabelledOwned, EventsTell
<1> QED
  BY <1>2, <1>3

\* It marks no WebApp for deletion, and takes no finalizer off one it leaves.
LEMMA OldStepDeletions ==
  ASSUME HandoverSound, OldStep
  PROVE  DeletionsWait'
<1>1. DeletionsWait /\ UNCHANGED cachedApp
  BY DEF HandoverSound, Convergence, WorldSound, OldStep
<1>2. CASE webapp = None
  <2>1. webapp' = None
    <3>1. ~oldFresh \/ oldPc \notin {"addFinalizer", "release"}
      BY <1>2 DEF HandoverSound, OldSound, OldExact
    <3> QED
      BY <1>2, <3>1
      DEF OldStep, Old!AddFinalizer, Old!EnforceScalePolicy, Old!AssertAdoptable,
          Old!Apply, Old!DeleteOwned, Old!Observe, Old!UpdateStatus,
          Old!RemoveFinalizer, Old!serverVars
  <2> QED
    BY <1>1, <2>1 DEF DeletionsWait
<1>3. CASE webapp # None
  <2>1. webapp \in WebApp
    BY <1>3 DEF HandoverSound, TypeOK
  <2>2. \/ webapp' \in {webapp, None}
        \/ webapp' = [webapp EXCEPT !.fin = TRUE]
        \/ \E status : webapp' = [webapp EXCEPT !.status = status]
    BY DEF OldStep, Old!AddFinalizer, Old!EnforceScalePolicy, Old!AssertAdoptable,
           Old!Apply, Old!DeleteOwned, Old!Observe, Old!UpdateStatus,
           Old!RemoveFinalizer, Old!serverVars
  <2>3. webapp' # None =>
          (webapp'.deleting => webapp.deleting) /\ (webapp.fin => webapp'.fin)
    BY <2>1, <2>2 DEF WebApp
  <2> QED
    BY <1>1, <1>3, <2>3 DEF DeletionsWait
<1> QED
  BY <1>2, <1>3

LEMMA OldStepSound ==
  ASSUME HandoverSound, OldStep
  PROVE  HandoverSound'
<1>1. PassUntouched /\ (appFresh' => appFresh /\ webapp' = webapp)
  BY DEF OldStep, PassUntouched, queueVars
<1>2. Convergence'
  BY <1>1, OldStepEvents, OldStepDeletions, OutsideSettles DEF HandoverSound
<1> QED
  BY <1>2, OldStepTypes DEF HandoverSound

-------------------------------------------------------------------------------
(* The new leader *)

LEMMA NewStepSound ==
  ASSUME HandoverSound, NewStep
  PROVE  HandoverSound'
<1>1. TypeOK' /\ VersionsExact' /\ Convergence'
  BY NextType, VersionsStep, NextConvergence, ControllerAssumption
  DEF HandoverSound, NewStep
<1>2. OldSound'
  BY DEF HandoverSound, NewStep, OldSound, OldPassOK, OldIdleOK, OldExact,
         oldPassVars, idleVars
<1> QED
  BY <1>1, <1>2 DEF HandoverSound

\* The pass the leader is in goes on as the old leader's; its successor starts as
\* after a restart.
LEMMA LoseLeaseSound ==
  ASSUME HandoverSound, LoseLease
  PROVE  HandoverSound'
<1>1. Crash
  BY DEF LoseLease
<1>2. TypeOK' /\ VersionsExact' /\ Convergence'
  BY <1>1, CrashType, CrashSettles DEF HandoverSound, VersionsExact, Crash
<1>3. /\ oldPc' = pc /\ oldKind' = kind /\ oldApp' = app
      /\ oldFresh' = fresh /\ oldLocked' = locked /\ oldHold' = hold
      /\ oldWant' = want /\ oldErr' = err /\ oldMetered' = metered
      /\ oldCachedObjs' = cachedObjs /\ oldCachedScale' = cachedScale
      /\ UNCHANGED <<oldCachedApp, oldAppFresh, oldQueued, oldDelayed, webapp>>
  BY <1>1 DEF LoseLease, OldBecomes, Pass, idleVars, Crash
<1>4. OldPassOK'
  BY <1>3 DEF HandoverSound, TypeOK, OldPassOK
<1>5. OldIdleOK' /\ OldExact'
  BY <1>3 DEF HandoverSound, OldSound, OldIdleOK, OldExact, VersionsExact
<1> QED
  BY <1>2, <1>4, <1>5 DEF HandoverSound, OldSound

LEMMA OldStopsSound ==
  ASSUME HandoverSound, OldStops
  PROVE  HandoverSound'
<1>1. UNCHANGED vars
  BY DEF OldStops
<1>2. TypeOK' /\ VersionsExact' /\ Convergence'
  BY <1>1, StutterConvergence
  DEF vars, serverVars, objectVars, cacheVars, queueVars, passVars, recordVars,
      HandoverSound, TypeOK, VersionsExact
<1>3. OldSound'
  <2>1. NoStatus \in Status /\ NoScale \in Scale /\ None \in Objects
    BY NoScaleType DEF NoStatus, Status, Objects
  <2> QED
    BY <2>1
    DEF OldStops, OldBecomes, NoOldPass, idleVars, HandoverSound, OldSound, OldPassOK,
        OldIdleOK, OldExact, Steps, Kinds, Errors
<1> QED
  BY <1>2, <1>3 DEF HandoverSound

\* Also when a leader that lost its lease goes on writing, from caches that no
\* longer move, while its successor works: whenever the successor has nothing left
\* to do, the cluster is as the live spec wants it, whichever of them wrote last.
THEOREM HandoverConverges == HandoverSpec => []QuiescentConverged
<1>1. HandoverInit => HandoverSound
  <2> SUFFICES ASSUME HandoverInit
               PROVE  HandoverSound
    OBVIOUS
  <2>1. TypeOK /\ VersionsExact /\ Convergence
    BY InitType, InitConvergence, ControllerAssumption DEF HandoverInit
  <2>2. NoStatus \in Status /\ NoScale \in Scale /\ None \in Objects
    BY NoScaleType DEF NoStatus, Status, Objects
  <2>3. OldSound
    BY <2>2 DEF HandoverInit, OldSound, OldPassOK, OldIdleOK, OldExact, Steps, Kinds,
                Errors
  <2> QED
    BY <2>1, <2>3 DEF HandoverSound
<1>2. HandoverSound /\ [HandoverNext]_handoverVars => HandoverSound'
  <2> SUFFICES ASSUME HandoverSound, [HandoverNext]_handoverVars
               PROVE  HandoverSound'
    OBVIOUS
  <2>1. CASE HandoverNext
    BY <2>1, NewStepSound, LoseLeaseSound, OldStepSound, OldStopsSound
    DEF HandoverNext
  <2>2. CASE UNCHANGED handoverVars
    <3>1. TypeOK' /\ VersionsExact' /\ Convergence'
      BY <2>2, StutterConvergence
      DEF handoverVars, vars, serverVars, objectVars, cacheVars, queueVars, passVars,
          recordVars, HandoverSound, TypeOK, VersionsExact
    <3>2. OldSound'
      BY <2>2
      DEF handoverVars, oldPassVars, idleVars, vars, serverVars, HandoverSound,
          OldSound, OldPassOK, OldIdleOK, OldExact
    <3> QED
      BY <3>1, <3>2 DEF HandoverSound
  <2> QED
    BY <2>1, <2>2
<1>3. HandoverSound => QuiescentConverged
  BY DEF HandoverSound, QuiescentConverged, Quiescent, Unprompted, Convergence,
         Converged
<1> QED
  BY <1>1, <1>2, <1>3, PTL DEF HandoverSpec

===============================================================================
