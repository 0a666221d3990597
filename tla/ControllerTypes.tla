--------------------------- MODULE ControllerTypes ---------------------------
(***************************************************************************)
(* Type correctness of the WebApp controller, for every value of its       *)
(* constants.                                                              *)
(***************************************************************************)
EXTENDS ControllerProperties, TLAPS

\* The pass variables and the queue, which EndPass, Fail and Goto set.
PassOK ==
  /\ queued \in BOOLEAN
  /\ delayed \in BOOLEAN
  /\ pc \in Steps
  /\ kind \in Kinds
  /\ app \in WebApp \cup {None}
  /\ (pc # "idle") => (app # None)
  /\ fresh \in BOOLEAN
  /\ locked \in BOOLEAN
  /\ hold \in Nat \cup {None}
  /\ want \in Status
  /\ err \in Errors

\* The server, the caches and the records.
WorldOK ==
  /\ webapp \in WebApp \cup {None}
  /\ objs \in [Kinds -> Objects]
  /\ scale \in Scale
  /\ undelivered \subseteq Kinds
  /\ policies \in PolicySets
  /\ nextUid \in Nat
  /\ cachedApp \in WebApp \cup {None}
  /\ appFresh \in BOOLEAN
  /\ cachedObjs \in [Kinds -> Objects]
  /\ cachedScale \in Scale
  /\ metered \in BOOLEAN
  /\ skipped \subseteq Nat \X Kinds
  /\ budget \in [Events -> Nat]

LEMMA TypeParts == TypeOK <=> (WorldOK /\ PassOK)
BY DEF TypeOK, WorldOK, PassOK

\* The two booleans mean what they stand for: a copy whose resource version is
\* the live one is the live object.
VersionsExact ==
  /\ appFresh => cachedApp = webapp
  /\ fresh => (app # None /\ webapp = app)

\* What the builders put into an object is of the type of its content.
LEMMA ContentType ==
  ASSUME NEW k, NEW s \in WebAppSpec
  PROVE  Content(k, s) \in Contents
BY DEF Content, Contents, WebAppSpec

LEMMA NoScaleType == NoScale \in Scale
BY DEF NoScale, Scale, Health, Managers

\* Server-side apply keeps the Deployment's scale record well formed.
LEMMA AppliedScaleType ==
  ASSUME NEW o, NEW s \in Scale, NEW c, NEW h \in Nat \cup {None}
  PROVE  AppliedScale(o, s, c, h) \in Scale
<1>2. CreatedScale(h) \in Scale
  BY NoScaleType DEF CreatedScale, Scale, Managers
<1>3. ReleaseReplicas(s) \in Scale
  BY DEF ReleaseReplicas, Scale, Managers
<1>4. h # None => ForceReplicas(s, h) \in Scale
  BY DEF ForceReplicas, Scale, Managers
<1>5. CASE o = None
  BY <1>2, <1>5 DEF AppliedScale
<1>6. CASE o # None
  <2> DEFINE new == IF h = None THEN ReleaseReplicas(s) ELSE ForceReplicas(s, h)
             new2 == [new EXCEPT !.observed = @ /\ new.replicas = s.replicas
                                                /\ c = o.content]
  <2>1. new \in Scale
    BY <1>3, <1>4
  <2> HIDE DEF new
  <2>2. new2 \in Scale
    BY <2>1 DEF Scale
  <2>3. AppliedScale(o, s, c, h) = new2
    BY <1>6 DEF AppliedScale, new
  <2> QED
    BY <2>2, <2>3
<1> QED
  BY <1>5, <1>6

\* The statuses a pass may set out to write are well formed.
LEMMA StatusType ==
  ASSUME NEW a \in WebApp, NEW d \in Scale, ControllerAssumption
  PROVE  /\ ApplyReconcileFailure(a.gen, a.status.conds) \in Conditions
         /\ ApplyDeploymentConditions(a.gen, d) \in Conditions
         /\ ApplyNoDeploymentConditions(a.gen) \in Conditions
         /\ a.status \in Status
         /\ a.spec \in WebAppSpec
         /\ IngressURL(a.spec) \in Domains \cup {None}
<1>1. /\ a.gen \in Nat
      /\ a.spec \in WebAppSpec
      /\ a.status \in Status
  BY DEF WebApp, ControllerAssumption
<1>2. IngressURL(a.spec) \in Domains \cup {None}
  BY <1>1 DEF WebAppSpec, IngressURL
<1>3. ApplyReconcileFailure(a.gen, a.status.conds) \in Conditions
  BY <1>1 DEF Status, Conditions, ApplyReconcileFailure, ReadyReasons, Rollouts
<1>4. ApplyDeploymentConditions(a.gen, d) \in Conditions
  BY <1>1 DEF ApplyDeploymentConditions, Conditions, SetReady, ReadyReasons,
              Rollouts, Scale, Health
<1>5. ApplyNoDeploymentConditions(a.gen) \in Conditions
  BY <1>1 DEF ApplyNoDeploymentConditions, Conditions, ReadyReasons, Rollouts
<1> QED
  BY <1>1, <1>2, <1>3, <1>4, <1>5

LEMMA SpendType ==
  ASSUME TypeOK, NEW e \in Events, Spend(e)
  PROVE  budget' \in [Events -> Nat]
BY DEF TypeOK, Spend

LEMMA EndPassType ==
  ASSUME TypeOK, NEW again \in BOOLEAN, EndPass(again)
  PROVE  PassOK'
<1>1. NoStatus \in Status
  BY DEF NoStatus, Status
<1> QED
  BY <1>1 DEF TypeOK, PassOK, EndPass, Steps, Kinds, Errors

LEMMA FailType ==
  ASSUME TypeOK, ControllerAssumption, pc # "idle", NEW e \in Errors, Fail(e)
  PROVE  PassOK'
<1>1. app \in WebApp
  BY DEF TypeOK
<1>2. want' \in Status
  <2>1. scale \in Scale
    BY DEF TypeOK
  <2> QED
    BY <1>1, <2>1, StatusType DEF Fail, Status
<1> QED
  BY <1>1, <1>2 DEF TypeOK, PassOK, Fail, Steps, Kinds, queueVars

LEMMA GotoType ==
  ASSUME TypeOK, pc # "idle", NEW step \in Steps, NEW k \in Kinds, Goto(step, k)
  PROVE  PassOK'
BY DEF TypeOK, PassOK, Goto, queueVars

LEMMA AfterObjectType ==
  ASSUME TypeOK, pc # "idle", AfterObject
  PROVE  PassOK'
<1>1. kind \in Kinds
  BY DEF TypeOK
<1>2. PICK step \in Steps, k \in Kinds : Goto(step, k)
  BY <1>1 DEF AfterObject, SyncKind, Kinds, Steps
<1> QED
  BY <1>2, GotoType

LEMMA AfterPruneType ==
  ASSUME TypeOK, pc # "idle", AfterPrune
  PROVE  PassOK'
<1>1. CASE pc = "prune"
  BY <1>1, AfterObjectType DEF AfterPrune
<1>2. CASE pc # "prune"
  <2>1. kind \in Kinds
    BY DEF TypeOK
  <2>2. PICK step \in Steps, k \in Kinds : Goto(step, k)
    BY <1>2, <2>1 DEF AfterPrune, AfterFinalized, Kinds, Steps
  <2> QED
    BY <2>2, GotoType
<1> QED
  BY <1>1, <1>2

LEMMA CallErrorType ==
  ASSUME TypeOK, ControllerAssumption, pc # "idle", CallError
  PROVE  PassOK'
<1>1. CASE pc \in {"policy", "adopt", "apply", "prune"}
  <2>1. Fail("retry")
    BY <1>1 DEF CallError
  <2>2. "retry" \in Errors
    BY DEF Errors
  <2> QED
    BY <2>1, <2>2, FailType
<1>2. CASE pc \notin {"policy", "adopt", "apply", "prune"}
  BY <1>2, EndPassType DEF CallError
<1> QED
  BY <1>1, <1>2

LEMMA ViewType ==
  ASSUME TypeOK
  PROVE  /\ \A k \in Kinds : View(objs[k]) \in Objects
         /\ \A k \in Kinds : ViewScale(objs[k], scale) \in Scale
BY DEF TypeOK, View, ViewScale, Objects, NoScale, Scale, Health

-------------------------------------------------------------------------------
(* The worker *)

LEMMA BeginPassType ==
  ASSUME TypeOK, BeginPass
  PROVE  TypeOK'
<1>1. PassOK'
  BY DEF TypeOK, PassOK, BeginPass, passVars, Steps, Kinds
<1>2. WorldOK'
  BY DEF TypeOK, WorldOK, BeginPass, serverVars, objectVars, cacheVars
<1> QED
  BY <1>1, <1>2 DEF TypeParts, TypeOK, PassOK, WorldOK

LEMMA AddFinalizerType ==
  ASSUME TypeOK, VersionsExact, ControllerAssumption, AddFinalizer
  PROVE  TypeOK'
<1>1. pc = "addFinalizer" /\ app \in WebApp
  BY DEF TypeOK, AddFinalizer
<1>2. CASE ~fresh
  <2>1. PassOK'
    BY <1>2, EndPassType DEF AddFinalizer
  <2>2. WorldOK'
    BY <1>2 DEF TypeOK, WorldOK, AddFinalizer, objectVars, recordVars
  <2> QED
    BY <2>1, <2>2 DEF TypeOK, WorldOK, PassOK
<1>3. CASE fresh
  <2>1. webapp = app
    BY <1>3 DEF VersionsExact
  <2>2. webapp' \in WebApp /\ [app EXCEPT !.fin = TRUE] \in WebApp
    BY <1>1, <1>3, <2>1 DEF AddFinalizer, WebApp
  <2>3. CASE app' = [app EXCEPT !.fin = TRUE] /\ pc' = "policy" /\ locked' = TRUE
             /\ UNCHANGED <<kind, fresh, hold, want, err, queueVars, budget>>
    <3>1. [app EXCEPT !.fin = TRUE] # None
      BY <2>2, NoneAssumption
    <3> QED
      BY <1>3, <2>2, <2>3, <3>1
      DEF TypeOK, AddFinalizer, queueVars, objectVars, recordVars, Steps
  <2>4. CASE Spend("fault") /\ CallError
    <3>1. PassOK'
      BY <1>1, <2>4, CallErrorType
    <3>2. budget' \in [Events -> Nat]
      BY <2>4, SpendType DEF Events
    <3>3. WorldOK'
      BY <1>3, <2>2, <3>2 DEF TypeOK, WorldOK, AddFinalizer, objectVars, recordVars
    <3> QED
      BY <3>1, <3>3 DEF TypeOK, WorldOK, PassOK
  <2> QED
    BY <1>3, <2>3, <2>4 DEF AddFinalizer
<1> QED
  BY <1>2, <1>3

LEMMA EnforceScalePolicyType ==
  ASSUME TypeOK, ControllerAssumption, EnforceScalePolicy
  PROVE  TypeOK'
<1>1. pc = "policy" /\ app \in WebApp /\ app.spec \in WebAppSpec
  BY DEF TypeOK, EnforceScalePolicy, WebApp, ControllerAssumption
<1>2. WorldOK'
  BY DEF TypeOK, WorldOK, EnforceScalePolicy, serverVars, objectVars, cacheVars,
         recordVars
<1>3. PassOK'
  <2>1. "external" \in Errors /\ "terminal" \in Errors
    BY DEF Errors
  <2>2. CASE Fail("external") \/ Fail("terminal")
    BY <1>1, <2>1, <2>2, FailType
  <2>3. CASE ~(Fail("external") \/ Fail("terminal"))
    <3>1. DesiredReplicas(app.spec) \in Nat \cup {None}
      BY <1>1 DEF DesiredReplicas, WebAppSpec
    <3>2. ReplicaHold \in Nat \cup {None}
      BY DEF TypeOK, ReplicaHold, Scale
    <3>3. hold' \in Nat \cup {None}
      BY <2>3, <3>1, <3>2 DEF EnforceScalePolicy
    <3> QED
      BY <1>1, <2>3, <3>3 DEF EnforceScalePolicy, TypeOK, PassOK, Steps, Kinds,
                              queueVars
  <2> QED
    BY <2>2, <2>3
<1> QED
  BY <1>2, <1>3, TypeParts DEF TypeOK, WorldOK, PassOK

LEMMA AssertAdoptableType ==
  ASSUME TypeOK, ControllerAssumption, AssertAdoptable
  PROVE  TypeOK'
<1>1. pc = "adopt" /\ kind \in Kinds
  BY DEF TypeOK, AssertAdoptable
<1>2. WorldOK'
  BY DEF TypeOK, WorldOK, AssertAdoptable, serverVars, objectVars, cacheVars,
         recordVars
<1>3. \/ \E e \in Errors : Fail(e)
      \/ \E step \in Steps, k \in Kinds : Goto(step, k)
  BY <1>1 DEF AssertAdoptable, Errors, Steps, Kinds
<1>4. PassOK'
  BY <1>1, <1>3, FailType, GotoType
<1> QED
  BY <1>2, <1>4 DEF TypeOK, WorldOK, PassOK

LEMMA ApplyType ==
  ASSUME TypeOK, ControllerAssumption, Apply
  PROVE  TypeOK'
<1>1. pc = "apply" /\ app \in WebApp /\ app.spec \in WebAppSpec /\ kind \in Kinds
  BY DEF TypeOK, Apply, WebApp, ControllerAssumption
<1>2. PassOK'
  <2>1. "retry" \in Errors
    BY DEF Errors
  <2>2. Fail("retry") \/ AfterObject \/ CallError
    BY DEF Apply, Reply
  <2> QED
    BY <1>1, <2>1, <2>2, FailType, AfterObjectType, CallErrorType
<1>3. budget' \in [Events -> Nat]
  <2>1. "fault" \in Events
    BY DEF Events
  <2>2. UNCHANGED budget \/ Spend("fault")
    BY DEF Apply, Reply
  <2> QED
    BY <2>1, <2>2, SpendType DEF TypeOK
<1>4. objs' \in [Kinds -> Objects]
  <2>1. Content(kind, app.spec) \in Contents
    BY <1>1, ContentType
  <2>2. app.uid \in Owners
    BY <1>1 DEF WebApp, Owners
  <2>3. [owner |-> app.uid, labelled |-> TRUE,
         content |-> Content(kind, app.spec)] \in Objects
    BY <2>1, <2>2 DEF Objects, Object
  <2> QED
    BY <2>3 DEF TypeOK, Apply
<1>5. scale' \in Scale
  <2>1. AppliedScale(objs[kind], scale, Content(kind, app.spec), hold) \in Scale
    BY AppliedScaleType DEF TypeOK
  <2> QED
    BY <2>1 DEF TypeOK, Apply
<1>6. undelivered' \subseteq Kinds
  BY DEF TypeOK, Apply, ObjectEvents
<1>7. WorldOK'
  BY <1>3, <1>4, <1>5, <1>6 DEF TypeOK, WorldOK, Apply, cacheVars, recordVars
<1> QED
  BY <1>2, <1>7 DEF TypeOK, WorldOK, PassOK

LEMMA DeleteOwnedType ==
  ASSUME TypeOK, ControllerAssumption, DeleteOwned
  PROVE  TypeOK'
<1>1. pc # "idle" /\ app \in WebApp /\ kind \in Kinds
  BY DEF TypeOK, DeleteOwned
<1>2. PassOK'
  <2>1. AfterPrune \/ CallError
    BY DEF DeleteOwned, Reply
  <2> QED
    BY <1>1, <2>1, AfterPruneType, CallErrorType
<1>3. budget' \in [Events -> Nat]
  <2>1. "fault" \in Events
    BY DEF Events
  <2>2. UNCHANGED budget \/ Spend("fault")
    BY DEF DeleteOwned, Reply
  <2> QED
    BY <2>1, <2>2, SpendType DEF TypeOK
<1>4. objs' \in [Kinds -> Objects]
  <2>1. None \in Objects
    BY DEF Objects
  <2>2. objs' = objs \/ objs' = [objs EXCEPT ![kind] = None]
    BY DEF DeleteOwned
  <2> QED
    BY <2>1, <2>2 DEF TypeOK
<1>5. scale' \in Scale
  BY NoScaleType DEF TypeOK, DeleteOwned
<1>6. undelivered' \subseteq Kinds
  BY DEF TypeOK, DeleteOwned, ObjectEvents
<1>7. skipped' \subseteq Nat \X Kinds
  <2>1. app.uid \in Nat
    BY <1>1 DEF WebApp
  <2>2. <<app.uid, kind>> \in Nat \X Kinds
    BY <1>1, <2>1
  <2>3. skipped' = skipped \/ skipped' = skipped \cup {<<app.uid, kind>>}
    BY DEF DeleteOwned
  <2> QED
    BY <2>2, <2>3 DEF TypeOK
<1>8. WorldOK'
  BY <1>3, <1>4, <1>5, <1>6, <1>7 DEF TypeOK, WorldOK, DeleteOwned, cacheVars
<1> QED
  BY <1>2, <1>8 DEF TypeOK, WorldOK, PassOK

LEMMA ObserveType ==
  ASSUME TypeOK, ControllerAssumption, Observe
  PROVE  TypeOK'
<1>1. pc = "observe" /\ app \in WebApp /\ cachedScale \in Scale
  BY DEF TypeOK, Observe
<1>2. want' \in Status
  <2>1. app.gen \in Nat
    BY <1>1 DEF WebApp
  <2> QED
    BY <1>1, <2>1, StatusType DEF Observe, Status
<1>3. PassOK'
  BY <1>1, <1>2 DEF TypeOK, PassOK, Observe, Steps, queueVars
<1>4. WorldOK'
  BY DEF TypeOK, WorldOK, Observe, serverVars, objectVars, cacheVars, recordVars
<1> QED
  BY <1>3, <1>4 DEF TypeOK, WorldOK, PassOK

\* The live WebApp stays one under a status patch.
LEMMA PatchedType ==
  ASSUME TypeOK, webapp # None, app # None
  PROVE  [webapp EXCEPT !.status = MergePatch(webapp.status, app.status, want)]
           \in WebApp
<1>1. webapp \in WebApp /\ app \in WebApp /\ want \in Status
  BY DEF TypeOK
<1>2. MergePatch(webapp.status, app.status, want) \in Status
  BY <1>1 DEF MergePatch, Status, WebApp
<1> QED
  BY <1>1, <1>2 DEF WebApp

LEMMA UpdateStatusType ==
  ASSUME TypeOK, ControllerAssumption, UpdateStatus
  PROVE  TypeOK'
<1>1. pc = "patch" /\ app \in WebApp /\ app # None /\ want \in Status
  BY DEF TypeOK, UpdateStatus
<1>2. PassOK'
  <2>1. (\E again \in BOOLEAN : EndPass(again)) \/ CallError
    <3>1. (err \in {"external", "retry"}) \in BOOLEAN
      OBVIOUS
    <3> QED
      BY <3>1 DEF UpdateStatus, Reply
  <2> QED
    BY <1>1, <2>1, EndPassType, CallErrorType
<1>3. budget' \in [Events -> Nat]
  <2>1. "fault" \in Events
    BY DEF Events
  <2>2. UNCHANGED budget \/ Spend("fault")
    BY DEF UpdateStatus, Reply
  <2> QED
    BY <2>1, <2>2, SpendType DEF TypeOK
<1>4. webapp' \in WebApp \cup {None}
  <2>1. CASE webapp = None \/ (locked /\ ~fresh)
    BY <2>1 DEF UpdateStatus, TypeOK
  <2>2. CASE ~(webapp = None \/ (locked /\ ~fresh))
    BY <1>1, <2>2, PatchedType DEF UpdateStatus
  <2> QED
    BY <2>1, <2>2
<1>5. appFresh' \in BOOLEAN
  BY DEF TypeOK, UpdateStatus
<1>6. WorldOK'
  BY <1>3, <1>4, <1>5 DEF TypeOK, WorldOK, UpdateStatus, objectVars
<1> QED
  BY <1>2, <1>6 DEF TypeOK, WorldOK, PassOK

LEMMA RemoveFinalizerType ==
  ASSUME TypeOK, ControllerAssumption, RemoveFinalizer
  PROVE  TypeOK'
<1>1. pc = "release"
  BY DEF RemoveFinalizer
<1>2. PassOK'
  <2>1. EndPass(TRUE) \/ EndPass(FALSE) \/ CallError
    BY DEF RemoveFinalizer, Reply
  <2> QED
    BY <1>1, <2>1, EndPassType, CallErrorType
<1>3. budget' \in [Events -> Nat]
  <2>1. "fault" \in Events
    BY DEF Events
  <2>2. UNCHANGED budget \/ Spend("fault")
    BY DEF RemoveFinalizer, Reply
  <2> QED
    BY <2>1, <2>2, SpendType DEF TypeOK
<1>4. WorldOK'
  BY <1>3 DEF TypeOK, WorldOK, RemoveFinalizer, objectVars
<1> QED
  BY <1>2, <1>4 DEF TypeOK, WorldOK, PassOK

LEMMA CallFailsType ==
  ASSUME TypeOK, ControllerAssumption, CallFails
  PROVE  TypeOK'
<1>1. pc # "idle"
  BY DEF CallFails, Calling
<1>2. PassOK'
  BY <1>1, CallErrorType DEF CallFails
<1>3. budget' \in [Events -> Nat]
  BY SpendType DEF CallFails, Events
<1>4. WorldOK'
  BY <1>3 DEF TypeOK, WorldOK, CallFails, serverVars, objectVars, cacheVars
<1> QED
  BY <1>2, <1>4 DEF TypeOK, WorldOK, PassOK

-------------------------------------------------------------------------------
(* Caches, timers, users and other controllers *)

LEMMA DeliveryType ==
  ASSUME TypeOK, DeliverApp \/ (\E k \in Kinds : Deliver(k)) \/ TimerFires
  PROVE  TypeOK'
<1>1. CASE DeliverApp
  BY <1>1 DEF TypeOK, DeliverApp, serverVars, objectVars, passVars, recordVars
<1>2. ASSUME NEW k \in Kinds, Deliver(k)
      PROVE  TypeOK'
  <2>1. cachedObjs' \in [Kinds -> Objects]
    BY <1>2, ViewType DEF TypeOK, Deliver
  <2>2. cachedScale' \in Scale
    BY <1>2, ViewType DEF TypeOK, Deliver
  <2> QED
    BY <1>2, <2>1, <2>2 DEF TypeOK, Deliver, passVars, recordVars
<1>3. CASE TimerFires
  BY <1>3 DEF TypeOK, TimerFires, serverVars, objectVars, cacheVars, passVars,
              recordVars
<1> QED
  BY <1>1, <1>2, <1>3

LEMMA CrashType ==
  ASSUME TypeOK, Crash
  PROVE  TypeOK'
<1>1. budget' \in [Events -> Nat]
  BY SpendType DEF Crash, Events
<1>2. cachedObjs' \in [Kinds -> Objects] /\ cachedScale' \in Scale
  BY ViewType DEF Crash, Kinds
<1>3. NoStatus \in Status
  BY DEF NoStatus, Status
<1> QED
  BY <1>1, <1>2, <1>3 DEF TypeOK, Crash, Steps, Kinds, Errors

LEMMA UserType ==
  ASSUME TypeOK, (\E s \in Specs : Create(s) \/ Edit(s)) \/ Delete
  PROVE  TypeOK'
<1>1. budget' \in [Events -> Nat]
  BY SpendType DEF Create, Edit, Delete, Events
<1>2. webapp' \in WebApp \cup {None}
  <2>1. ASSUME NEW s \in Specs, Create(s)
        PROVE  webapp' \in WebApp
    BY <2>1 DEF TypeOK, Create, WebApp, Status, NoStatus
  <2>2. ASSUME NEW s \in Specs, Edit(s)
        PROVE  webapp' \in WebApp
    <3>1. webapp \in WebApp
      BY <2>2 DEF TypeOK, Edit
    <3>2. webapp' = [webapp EXCEPT !.spec = s, !.gen = webapp.gen + 1]
      BY <2>2, <3>1 DEF Edit, WebApp
    <3>3. webapp.gen + 1 \in Nat \ {0}
      BY <3>1 DEF WebApp
    <3> QED
      BY <3>1, <3>2, <3>3 DEF WebApp
  <2>3. ASSUME Delete
        PROVE  webapp' \in WebApp \cup {None}
    <3>1. webapp \in WebApp
      BY <2>3 DEF TypeOK, Delete
    <3>2. \/ webapp' = None
          \/ webapp' = [webapp EXCEPT !.deleting = TRUE, !.gen = webapp.gen + 1]
      BY <2>3, <3>1 DEF Delete, WebApp
    <3>3. webapp.gen + 1 \in Nat \ {0}
      BY <3>1 DEF WebApp
    <3> QED
      BY <3>1, <3>2, <3>3 DEF WebApp
  <2> QED
    BY <2>1, <2>2, <2>3
<1>3. /\ UNCHANGED <<objectVars, policies, cachedApp, cachedObjs, cachedScale,
                     queueVars, pc, kind, app, locked, hold, want, err, recordVars>>
      /\ appFresh' = FALSE /\ fresh' = FALSE
  BY DEF Create, Edit, Delete, OutdateCopies
<1>4. nextUid' \in Nat
  <2>1. nextUid' = nextUid \/ nextUid' = nextUid + 1
    BY DEF Create, Edit, Delete
  <2> QED
    BY <2>1 DEF TypeOK
<1>5. PassOK'
  BY <1>3 DEF TypeOK, PassOK, queueVars
<1>6. WorldOK'
  BY <1>1, <1>2, <1>3, <1>4 DEF TypeOK, WorldOK, objectVars, recordVars
<1> QED
  BY <1>5, <1>6 DEF TypeOK, WorldOK, PassOK

\* What other actors do to the objects, the count and the policies.
OutsideObjects ==
  \/ \E k \in Kinds : \/ \E owner \in {None, Other} : Foreign(k, owner)
                      \/ Remove(k)
                      \/ Drift(k)
                      \/ Strip(k)
                      \/ Collect(k)
  \/ \E n \in Counts : Autoscale(n)
  \/ \E h \in Health \ {"silent"} : Rollout(h)

LEMMA ObjectEventsType ==
  ASSUME TypeOK, ObjectEvents
  PROVE  undelivered' \subseteq Kinds
BY DEF TypeOK, ObjectEvents

LEMMA OutsideObjectsType ==
  ASSUME TypeOK, OutsideObjects
  PROVE  TypeOK'
<1> DEFINE Frame == /\ UNCHANGED policies /\ OutsideChange
                    /\ objs' \in [Kinds -> Objects]
                    /\ scale' \in Scale
                    /\ budget' \in [Events -> Nat]
<1>1. ASSUME NEW k \in Kinds, NEW owner \in {None, Other}, Foreign(k, owner)
      PROVE  Frame
  <2>1. [owner |-> owner, labelled |-> FALSE, content |-> None] \in Objects
    BY DEF Objects, Object, Owners
  <2>2. [replicas |-> 1, managers |-> {"other"}, observed |-> TRUE,
         health |-> "ready"] \in Scale
    BY DEF Scale, Managers, Health
  <2> QED
    BY <1>1, <2>1, <2>2, SpendType DEF TypeOK, Foreign, Events
<1>2. ASSUME NEW k \in Kinds, Remove(k) \/ Collect(k)
      PROVE  Frame
  <2>1. None \in Objects
    BY DEF Objects
  <2>2. budget' \in [Events -> Nat]
    BY <1>2, SpendType DEF Remove, Collect, Events, TypeOK
  <2>3. Gone(k)
    BY <1>2 DEF Remove, Collect
  <2> QED
    BY <2>1, <2>2, <2>3, NoScaleType DEF TypeOK, Gone
<1>3. ASSUME NEW k \in Kinds, Drift(k)
      PROVE  Frame
  <2>1. objs[k] \in Object
    BY <1>3 DEF TypeOK, Drift, Objects
  <2>2. objs' \in [Kinds -> Objects]
    BY <1>3, <2>1 DEF TypeOK, Drift, Objects, Object
  <2>3. scale' \in Scale
    BY <1>3 DEF TypeOK, Drift, Scale
  <2> QED
    BY <1>3, <2>2, <2>3, SpendType DEF Drift, Events
<1>4. ASSUME NEW k \in Kinds, Strip(k)
      PROVE  Frame
  <2>1. objs[k] \in Object
    BY <1>4 DEF TypeOK, Strip, Objects
  <2>2. objs' \in [Kinds -> Objects]
    BY <1>4, <2>1 DEF TypeOK, Strip, Objects, Object
  <2> QED
    BY <1>4, <2>2, SpendType DEF TypeOK, Strip, Events
<1>5. ASSUME NEW n \in Counts, Autoscale(n)
      PROVE  Frame
  <2>1. scale' \in Scale
    <3>1. n \in Nat
      BY <1>5 DEF Autoscale, TypeOK, Objects, Object, Contents, Counts
    <3> QED
      BY <1>5, <3>1 DEF TypeOK, Autoscale, Scale, Managers
  <2> QED
    BY <1>5, <2>1, SpendType DEF TypeOK, Autoscale, Events
<1>6. ASSUME NEW h \in Health \ {"silent"}, Rollout(h)
      PROVE  Frame
  <2>1. scale' \in Scale
    BY <1>6 DEF TypeOK, Rollout, Scale
  <2> QED
    BY <1>6, <2>1, SpendType DEF TypeOK, Rollout, Events
<1>7. Frame
  BY <1>1, <1>2, <1>3, <1>4, <1>5, <1>6 DEF OutsideObjects
<1> QED
  BY <1>7, ObjectEventsType
  DEF TypeOK, OutsideChange, cacheVars, queueVars, passVars, recordVars

LEMMA ChangePoliciesType ==
  ASSUME TypeOK, NEW ps \in PolicySets, ChangePolicies(ps)
  PROVE  TypeOK'
<1>1. budget' \in [Events -> Nat]
  BY SpendType DEF ChangePolicies, Events
<1> QED
  BY <1>1, ObjectEventsType
  DEF TypeOK, ChangePolicies, OutsideChange, cacheVars, queueVars, passVars,
      recordVars

-------------------------------------------------------------------------------
(* Together *)

LEMMA NextType ==
  ASSUME TypeOK, VersionsExact, ControllerAssumption, Next
  PROVE  TypeOK'
<1>1. CASE Worker
  BY <1>1, BeginPassType, AddFinalizerType, EnforceScalePolicyType,
     AssertAdoptableType, ApplyType, DeleteOwnedType, ObserveType,
     UpdateStatusType, RemoveFinalizerType, CallFailsType
  DEF Worker
<1>2. CASE DeliverApp \/ (\E k \in Kinds : Deliver(k)) \/ TimerFires
  BY <1>2, DeliveryType
<1>3. CASE (\E s \in Specs : Create(s) \/ Edit(s)) \/ Delete
  BY <1>3, UserType
<1>4. CASE OutsideObjects
  BY <1>4, OutsideObjectsType
<1>5. CASE \E ps \in PolicySets : ChangePolicies(ps)
  BY <1>5, ChangePoliciesType
<1>6. CASE Crash
  BY <1>6, CrashType
<1> QED
  BY <1>1, <1>2, <1>3, <1>4, <1>5, <1>6 DEF Next, Outside, OutsideObjects

\* Every write of the WebApp outdates both copies, or makes the copy what was
\* written; a pass copies a cached WebApp together with its freshness.
LEMMA VersionsStep ==
  ASSUME TypeOK, VersionsExact, Next
  PROVE  VersionsExact'
<1> USE DEF VersionsExact
<1>1. CASE BeginPass
  BY <1>1 DEF BeginPass, serverVars, cacheVars, passVars
<1>2. CASE AddFinalizer
  <2>1. CASE fresh' = FALSE
    <3>1. appFresh' => UNCHANGED <<webapp, cachedApp, appFresh>>
      BY <1>2 DEF AddFinalizer
    <3> QED
      BY <2>1, <3>1
  <2>2. CASE fresh' # FALSE
    <3>1. /\ fresh /\ pc = "addFinalizer"
          /\ webapp' = [webapp EXCEPT !.fin = TRUE]
          /\ app' = [app EXCEPT !.fin = TRUE]
          /\ appFresh' = FALSE
      BY <1>2, <2>2 DEF AddFinalizer, CallError, EndPass
    <3>2. app \in WebApp /\ webapp = app
      BY <3>1 DEF TypeOK
    <3>3. app' \in WebApp
      BY <3>1, <3>2 DEF WebApp
    <3> QED
      BY <3>1, <3>2, <3>3, NoneAssumption
  <2> QED
    BY <2>1, <2>2
<1>3. CASE EnforceScalePolicy
  BY <1>3 DEF EnforceScalePolicy, Fail, serverVars, cacheVars
<1>4. CASE AssertAdoptable
  BY <1>4 DEF AssertAdoptable, Fail, Goto, serverVars, cacheVars
<1>5. CASE Apply
  <2>1. UNCHANGED <<webapp, cachedApp, appFresh>>
    BY <1>5 DEF Apply, cacheVars
  <2>2. UNCHANGED <<app, fresh>>
    BY <1>5 DEF Apply, Reply, AfterObject, SyncKind, CallError, Fail, Goto, TypeOK,
                Kinds
  <2> QED
    BY <2>1, <2>2
<1>6. CASE DeleteOwned
  <2>1. UNCHANGED <<webapp, cachedApp, appFresh>>
    BY <1>6 DEF DeleteOwned, cacheVars
  <2>2. UNCHANGED <<app, fresh>> \/ fresh' = FALSE
    BY <1>6 DEF DeleteOwned, Reply, AfterPrune, AfterFinalized, AfterObject,
                SyncKind, CallError, Fail, EndPass, Goto, TypeOK, Kinds
  <2> QED
    BY <2>1, <2>2
<1>7. CASE Observe
  BY <1>7 DEF Observe, serverVars, cacheVars
<1>8. CASE UpdateStatus
  <2>1. fresh' = FALSE
    BY <1>8 DEF UpdateStatus, Reply, CallError, EndPass
  <2>2. appFresh' => webapp' = webapp /\ UNCHANGED <<cachedApp, appFresh>>
    <3>1. CASE webapp = None \/ (locked /\ ~fresh)
      BY <1>8, <3>1 DEF UpdateStatus
    <3>2. CASE ~(webapp = None \/ (locked /\ ~fresh))
      <4> DEFINE status == MergePatch(webapp.status, app.status, want)
      <4>1. /\ webapp' = [webapp EXCEPT !.status = status]
            /\ appFresh' = (appFresh /\ status = webapp.status)
            /\ cachedApp' = cachedApp
        BY <1>8, <3>2 DEF UpdateStatus
      <4>2. webapp \in WebApp
        BY <3>2 DEF TypeOK
      <4> HIDE DEF status
      <4> QED
        BY <4>1, <4>2 DEF WebApp, TypeOK
    <3> QED
      BY <3>1, <3>2
  <2> QED
    BY <2>1, <2>2
<1>9. CASE RemoveFinalizer
  BY <1>9 DEF RemoveFinalizer, Reply, CallError, EndPass
<1>10. CASE CallFails
  BY <1>10 DEF CallFails, CallError, Fail, EndPass, serverVars, cacheVars
<1>11. CASE DeliverApp
  BY <1>11 DEF DeliverApp, serverVars, passVars
<1>12. CASE \E k \in Kinds : Deliver(k)
  BY <1>12 DEF Deliver, passVars
<1>13. CASE TimerFires
  BY <1>13 DEF TimerFires, serverVars, cacheVars, passVars
<1>14. CASE (\E s \in Specs : Create(s) \/ Edit(s)) \/ Delete
  BY <1>14 DEF Create, Edit, Delete, OutdateCopies
<1>15. CASE OutsideObjects \/ \E ps \in PolicySets : ChangePolicies(ps)
  <2>1. OutsideChange
    BY <1>15 DEF OutsideObjects, Foreign, Remove, Gone, Collect, Drift, Strip,
                 Autoscale, Rollout, ChangePolicies
  <2> QED
    BY <2>1 DEF OutsideChange, cacheVars, passVars
<1>16. CASE Crash
  BY <1>16 DEF Crash
<1> QED
  BY <1>1, <1>2, <1>3, <1>4, <1>5, <1>6, <1>7, <1>8, <1>9, <1>10, <1>11, <1>12,
     <1>13, <1>14, <1>15, <1>16
  DEF Next, Worker, Outside, OutsideObjects

LEMMA InitType ==
  ASSUME ControllerAssumption, Init
  PROVE  TypeOK /\ VersionsExact
BY NoScaleType
DEF Init, TypeOK, VersionsExact, ControllerAssumption, Objects, Steps, Kinds, Errors,
    NoStatus, Status

\* Every variable keeps its type, whatever the specs, the policies and the
\* budget: no chain of calls, failures, deliveries and restarts leaves the worker
\* without a WebApp in mid-pass or writes an ill-formed object or status.
THEOREM TypeCorrect == Spec => [](TypeOK /\ VersionsExact)
<1>1. Init => TypeOK /\ VersionsExact
  BY InitType, ControllerAssumption
<1>2. TypeOK /\ VersionsExact /\ [Next]_vars => TypeOK' /\ VersionsExact'
  <2> SUFFICES ASSUME TypeOK, VersionsExact, [Next]_vars
               PROVE  TypeOK' /\ VersionsExact'
    OBVIOUS
  <2>1. CASE Next
    BY <2>1, NextType, VersionsStep, ControllerAssumption
  <2>2. CASE UNCHANGED vars
    BY <2>2 DEF vars, serverVars, objectVars, cacheVars, queueVars, passVars,
                recordVars, TypeOK, VersionsExact
  <2> QED
    BY <2>1, <2>2
<1> QED
  BY <1>1, <1>2, PTL DEF Spec

==============================================================================
