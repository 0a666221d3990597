------------------------- MODULE ControllerConvergence -------------------------
(***************************************************************************)
(* When nothing is left to do, the cluster is as the spec wants it.  This  *)
(* module proves it for every value of the constants: however often users, *)
(* autoscalers, rollouts, faults and restarts come between two calls of a  *)
(* pass, whatever is out of place has a request in the queue, a timer, an  *)
(* event under way, or the pass itself to put it right.                    *)
(***************************************************************************)
EXTENDS ControllerTypes

\* Only objects some WebApp controls carry the label.
LabelledOwned ==
  \A k \in Kinds : View(objs[k]) # None => OwnedByWebApp(objs[k])

\* An informer differs from the live objects only where an event is under way.
CachesTrail ==
  \A k \in Kinds \ undelivered :
    /\ cachedObjs[k] = View(objs[k])
    /\ k = "Deployment" => cachedScale = ViewScale(objs[k], scale)

\* A WebApp that is being deleted is one whose deletion waits for finalize.
DeletionsWait ==
  /\ (webapp # None /\ webapp.deleting) => webapp.fin
  /\ (cachedApp # None /\ cachedApp.deleting) => cachedApp.fin

\* What a pass has found out by the time it comes to a step.
PassSound ==
  /\ pc \in SyncSteps \cup {"addFinalizer"} => ~app.deleting
  /\ pc \in SyncSteps => app.fin
  /\ pc \in {"adopt", "apply"} => Wants(kind, app.spec)
  /\ pc = "prune" => ~Wants(kind, app.spec)
  /\ pc # "patch" => err = "none"

\* The WebApp has changed since the pass began, or it is its copy.
PassCurrent == (pc # "idle" /\ appFresh /\ ~queued) => app = webapp

\* The kinds a pass is done with.
Synced ==
  IF pc = "observe" \/ (pc = "patch" /\ err = "none") THEN Kinds
  ELSE IF pc \notin {"adopt", "apply", "prune"} THEN {}
  ELSE IF kind = "Service" THEN (IF pc = "apply" THEN {"Deployment"} ELSE {})
  ELSE IF kind = "Ingress" THEN {"Deployment", "Service"}
  ELSE IF kind = "HPA" THEN {"Deployment", "Service", "Ingress"}
  ELSE {}

\* The count is the one a spec asks for, or an autoscaled count has an owner.
CountFor(spec, s) ==
  IF WantsHPA(spec) THEN s.managers # {} ELSE s.replicas = DesiredReplicas(spec)

\* Object o of kind k, with the scale record s, is what the WebApp a asks for.
PlacedFor(a, k, o, s) ==
  IF Wants(k, a.spec)
  THEN /\ o = [owner |-> a.uid, labelled |-> TRUE, content |-> Content(k, a.spec)]
       /\ k = "Deployment" => CountFor(a.spec, s)
  ELSE ControlledBy(o, a.uid) => ~o.labelled

\* What the pass is done with stays in place, or a later pass will see to it.
SyncedInPlace ==
  \A k \in Synced : k \in undelivered \/ queued \/ PlacedFor(app, k, objs[k], scale)

\* The count to apply to the Deployment o: the one the spec asks for, or the one
\* the Deployment has as long as nobody else owns it.
CountToHold(spec, o, s) ==
  IF ~WantsHPA(spec) THEN DesiredReplicas(spec)
  ELSE IF View(o) = None \/ "other" \in s.managers THEN None ELSE s.replicas

\* The steps between the choice of that count and its use.
Holding ==
  \/ pc = "adopt" /\ kind \in {"Deployment", "Service"}
  \/ pc = "apply" /\ kind = "Deployment"

HoldRight ==
  Holding => \/ "Deployment" \in undelivered \/ queued
             \/ hold = CountToHold(app.spec, objs["Deployment"], scale)

\* A pass that went well is about to report the Deployment as it is.
ReportRight ==
  (pc = "patch" /\ err = "none") =>
    \/ "Deployment" \in undelivered \/ queued
    \/ want = [obsGen |-> app.gen, url |-> IngressURL(app.spec),
               conds |-> ApplyDeploymentConditions(app.gen, scale)]

\* A pass that will not be repeated failed on a spec that cannot be built.
FailureRight ==
  (pc = "patch" /\ err = "terminal") =>
    /\ \E k \in Kinds : Wants(k, app.spec) /\ ~Buildable(k, app.spec)
    /\ want = [obsGen |-> app.status.obsGen, url |-> IngressURL(app.spec),
               conds |-> ApplyReconcileFailure(app.gen, app.status.conds)]

\* Nothing will make another pass begin.
Unprompted == ~queued /\ ~delayed /\ appFresh /\ undelivered = {}

Converged == (pc = "idle" /\ Unprompted) => SettledUnless(~CanBuildAll)

\* What holds of the server and the caches alone.
WorldSound == LabelledOwned /\ CachesTrail /\ DeletionsWait

\* The inductive invariant.
Convergence ==
  /\ WorldSound
  /\ PassSound /\ PassCurrent
  /\ SyncedInPlace /\ HoldRight /\ ReportRight /\ FailureRight
  /\ Converged

-------------------------------------------------------------------------------
(* Objects and events *)

\* An object the operator applies is not None, and every informer sees it.
LEMMA AppliedObject ==
  ASSUME NEW a \in WebApp, NEW k, NEW o,
         o = [owner |-> a.uid, labelled |-> TRUE, content |-> Content(k, a.spec)]
  PROVE  o # None /\ View(o) = o /\ OwnedByWebApp(o) /\ o \in Object
<1>1. a.uid \in Nat /\ a.spec \in WebAppSpec
  BY ControllerAssumption DEF WebApp
<1>2. o \in Object
  BY <1>1, ContentType DEF Object, Owners
<1>3. o # None
  BY <1>2, NoneAssumption
<1> QED
  BY <1>1, <1>2, <1>3 DEF View, OwnedByWebApp

\* What is in place stays so while the informers' view of it does.
LEMMA PlacedByView ==
  ASSUME NEW a \in WebApp, NEW k, NEW o, NEW p, NEW s, NEW t,
         View(o) = View(p),
         k = "Deployment" => ViewScale(o, s) = ViewScale(p, t),
         PlacedFor(a, k, o, s)
  PROVE  PlacedFor(a, k, p, t)
<1>1. CASE Wants(k, a.spec)
  <2>1. View(o) = o /\ o # None
    BY <1>1, AppliedObject DEF PlacedFor
  <2>2. p = o
    BY <2>1 DEF View
  <2>3. k = "Deployment" => t = s
    BY <2>1, <2>2 DEF ViewScale
  <2> QED
    BY <1>1, <2>2, <2>3 DEF PlacedFor
<1>2. CASE ~Wants(k, a.spec)
  <2>1. (ControlledBy(p, a.uid) /\ p.labelled) => p = o
    BY DEF View, ControlledBy
  <2> QED
    BY <1>2, <2>1 DEF PlacedFor
<1> QED
  BY <1>1, <1>2

LEMMA HeldByView ==
  ASSUME NEW spec, NEW o, NEW p, NEW s, NEW t,
         View(o) = View(p), ViewScale(o, s) = ViewScale(p, t)
  PROVE  CountToHold(spec, o, s) = CountToHold(spec, p, t)
BY DEF CountToHold, ViewScale

\* The events of a step tell of everything an informer could see of it.
EventsTell ==
  \A k \in Kinds \ undelivered' :
    /\ k \notin undelivered
    /\ View(objs'[k]) = View(objs[k])
    /\ k = "Deployment" => ViewScale(objs'[k], scale') = ViewScale(objs[k], scale)

LEMMA ObjectEventsTell ==
  ASSUME LabelledOwned, LabelledOwned', ObjectEvents
  PROVE  EventsTell
<1> SUFFICES ASSUME NEW k \in Kinds, k \notin undelivered'
             PROVE  /\ k \notin undelivered
                    /\ View(objs'[k]) = View(objs[k])
                    /\ k = "Deployment" =>
                         ViewScale(objs'[k], scale') = ViewScale(objs[k], scale)
  BY DEF EventsTell
<1>1. /\ k \notin undelivered
      /\ ~(/\ \/ View(objs'[k]) # View(objs[k])
              \/ k = "Deployment" /\ scale' # scale
           /\ OwnedByWebApp(View(objs[k])) \/ OwnedByWebApp(View(objs'[k])))
  BY DEF ObjectEvents
<1>2. /\ View(objs[k]) # None => OwnedByWebApp(View(objs[k]))
      /\ View(objs'[k]) # None => OwnedByWebApp(View(objs'[k]))
  BY DEF LabelledOwned, View
<1> QED
  BY <1>1, <1>2 DEF ViewScale

LEMMA CachesTrailKept ==
  ASSUME CachesTrail, EventsTell, UNCHANGED <<cachedObjs, cachedScale>>
  PROVE  CachesTrail'
BY DEF CachesTrail, EventsTell

-------------------------------------------------------------------------------
(* Steps of somebody else *)

\* The passes, the queue and the caches are left alone.
PassUntouched ==
  UNCHANGED <<cachedApp, cachedObjs, cachedScale, queued, delayed, pc, kind, app,
              hold, want, err, metered>>

\* What is settled stays so, unless an event is under way.
LEMMA SettledKept ==
  ASSUME TypeOK, EventsTell, undelivered' = {}, UNCHANGED <<webapp, metered>>,
         SettledUnless(~CanBuildAll)
  PROVE  SettledUnless(~CanBuildAll)'
<1>1. CASE webapp = None
  BY <1>1 DEF SettledUnless
<1>2. CASE webapp # None /\ ~InSync
  BY <1>2 DEF SettledUnless, CanBuildAll, FailureRecorded
<1>3. CASE webapp # None /\ InSync
  <2>1. webapp \in WebApp
    BY <1>3 DEF TypeOK
  <2>2. \A k \in Kinds : PlacedFor(webapp, k, objs[k], scale)
    BY <1>3 DEF InSync, InPlace, CountInPlace, PlacedFor, CountFor, Wants
  <2>3. \A k \in Kinds : PlacedFor(webapp, k, objs'[k], scale')
    BY <2>1, <2>2, PlacedByView DEF EventsTell
  <2>4. scale' = scale
    <3>1. "Deployment" \in Kinds /\ \A s : Wants("Deployment", s)
      BY DEF Kinds, Wants
    <3>2. objs["Deployment"] = [owner |-> webapp.uid, labelled |-> TRUE,
                                content |-> Content("Deployment", webapp.spec)]
      BY <2>2, <3>1 DEF PlacedFor
    <3>3. View(objs["Deployment"]) # None
      BY <2>1, <3>2, AppliedObject
    <3> QED
      BY <3>1, <3>3 DEF EventsTell, ViewScale
  <2>5. InSync'
    BY <1>3, <2>3, <2>4 DEF InSync, InPlace, CountInPlace, PlacedFor, CountFor, Wants
  <2> QED
    BY <1>3, <2>5 DEF SettledUnless
<1> QED
  BY <1>1, <1>2, <1>3

\* Whatever others write, the event of an object and the new version of the
\* WebApp announce it. This covers a second manager as well.
LEMMA OutsideSettles ==
  ASSUME TypeOK, Convergence, PassUntouched, EventsTell,
         LabelledOwned', DeletionsWait',
         appFresh' => appFresh /\ webapp' = webapp
  PROVE  Convergence'
<1> USE DEF PassUntouched
<1>1. WorldSound'
  BY CachesTrailKept DEF Convergence, WorldSound
<1>2. PassSound' /\ FailureRight'
  BY DEF Convergence, PassSound, FailureRight
<1>3. PassCurrent'
  BY DEF Convergence, PassCurrent
<1>4. SyncedInPlace'
  <2>1. Synced' = Synced /\ Synced \subseteq Kinds
    BY DEF Synced, Kinds
  <2>2. Synced # {} => app \in WebApp
    BY DEF TypeOK, Synced
  <2>3. SUFFICES ASSUME NEW k \in Synced, k \notin undelivered', ~queued
                 PROVE  PlacedFor(app, k, objs'[k], scale')
    BY <2>1 DEF SyncedInPlace
  <2>4. PlacedFor(app, k, objs[k], scale)
    BY <2>1, <2>3 DEF EventsTell, Convergence, SyncedInPlace
  <2> QED
    BY <2>1, <2>2, <2>3, <2>4, PlacedByView DEF EventsTell
<1>5. HoldRight'
  <2>1. SUFFICES ASSUME Holding, "Deployment" \notin undelivered', ~queued
                 PROVE  hold = CountToHold(app.spec, objs'["Deployment"], scale')
    BY DEF HoldRight, Holding
  <2>2. "Deployment" \in Kinds
    BY DEF Kinds
  <2>3. hold = CountToHold(app.spec, objs["Deployment"], scale)
    BY <2>1, <2>2 DEF EventsTell, Convergence, HoldRight
  <2> QED
    BY <2>1, <2>2, <2>3, HeldByView DEF EventsTell
<1>6. ReportRight'
  <2>1. SUFFICES ASSUME pc = "patch", err = "none",
                        "Deployment" \notin undelivered', ~queued
                 PROVE  want = [obsGen |-> app.gen, url |-> IngressURL(app.spec),
                                conds |-> ApplyDeploymentConditions(app.gen, scale')]
    BY DEF ReportRight
  <2>2. "Deployment" \in Kinds /\ "Deployment" \notin undelivered /\ app \in WebApp
    BY <2>1 DEF Kinds, EventsTell, TypeOK
  <2>3. PlacedFor(app, "Deployment", objs["Deployment"], scale)
    BY <2>1, <2>2 DEF Convergence, SyncedInPlace, Synced
  <2>4. View(objs["Deployment"]) # None
    <3>1. Wants("Deployment", app.spec)
      BY DEF Wants
    <3> QED
      BY <2>2, <2>3, <3>1, AppliedObject DEF PlacedFor
  <2>5. scale' = scale
    BY <2>1, <2>2, <2>4 DEF EventsTell, ViewScale
  <2> QED
    BY <2>1, <2>2, <2>5 DEF Convergence, ReportRight
<1>7. Converged'
  <2>1. SUFFICES ASSUME pc = "idle", Unprompted'
                 PROVE  SettledUnless(~CanBuildAll)'
    BY DEF Converged
  <2>2. undelivered' = {} /\ webapp' = webapp /\ appFresh /\ ~queued /\ ~delayed
    BY <2>1 DEF Unprompted
  <2>3. undelivered = {}
    BY <2>2 DEF EventsTell, TypeOK
  <2> QED
    BY <2>1, <2>2, <2>3, SettledKept DEF Convergence, Converged, Unprompted
<1> QED
  BY <1>1, <1>2, <1>3, <1>4, <1>5, <1>6, <1>7 DEF Convergence

\* Users write the WebApp only, and every write of it outdates the cache.
LEMMA UserSettles ==
  ASSUME TypeOK, Convergence, (\E s \in Specs : Create(s) \/ Edit(s)) \/ Delete
  PROVE  Convergence'
<1>1. UNCHANGED objectVars /\ PassUntouched /\ appFresh' = FALSE
  BY DEF Create, Edit, Delete, OutdateCopies, PassUntouched, queueVars, recordVars
<1>2. LabelledOwned' /\ EventsTell
  BY <1>1 DEF Convergence, WorldSound, LabelledOwned, EventsTell, objectVars
<1>3. DeletionsWait'
  <2>1. (webapp' # None /\ webapp'.deleting) => webapp'.fin
    <3>1. CASE \E s \in Specs : Create(s)
      BY <3>1 DEF Create
    <3>2. CASE (\E s \in Specs : Edit(s)) \/ Delete
      <4>1. webapp \in WebApp
        BY <3>2 DEF TypeOK, Edit, Delete
      <4> QED
        BY <3>2, <4>1 DEF Edit, Delete, WebApp, Convergence, WorldSound, DeletionsWait
    <3> QED
      BY <3>1, <3>2
  <2> QED
    BY <1>1, <2>1 DEF PassUntouched, Convergence, WorldSound, DeletionsWait
<1> QED
  BY <1>1, <1>2, <1>3, OutsideSettles

\* Others create objects without the label, and take it off with the object.
LEMMA OutsideObjectsSettle ==
  ASSUME TypeOK, Convergence,
         OutsideObjects \/ (\E ps \in PolicySets : ChangePolicies(ps))
  PROVE  Convergence'
<1>1. OutsideChange
  BY DEF OutsideObjects, Foreign, Remove, Gone, Collect, Drift, Strip, Autoscale,
         Rollout, ChangePolicies
<1>2. \A k \in Kinds : View(objs'[k]) # None =>
         /\ objs[k] # None /\ objs[k].labelled
         /\ objs'[k] # None /\ objs'[k].owner = objs[k].owner
  <2>1. CASE UNCHANGED objs
    BY <2>1 DEF View
  <2>2. ASSUME NEW k \in Kinds, NEW owner, Foreign(k, owner)
        PROVE  \A j \in Kinds : View(objs'[j]) # None =>
                 /\ objs[j] # None /\ objs[j].labelled
                 /\ objs'[j] # None /\ objs'[j].owner = objs[j].owner
    BY <2>2 DEF Foreign, View, TypeOK
  <2>3. ASSUME NEW k \in Kinds, Gone(k)
        PROVE  \A j \in Kinds : View(objs'[j]) # None =>
                 /\ objs[j] # None /\ objs[j].labelled
                 /\ objs'[j] # None /\ objs'[j].owner = objs[j].owner
    BY <2>3 DEF Gone, View, TypeOK
  <2>4. ASSUME NEW k \in Kinds, Drift(k) \/ Strip(k)
        PROVE  \A j \in Kinds : View(objs'[j]) # None =>
                 /\ objs[j] # None /\ objs[j].labelled
                 /\ objs'[j] # None /\ objs'[j].owner = objs[j].owner
    <3>1. objs[k] \in Object /\ objs[k] # None
      BY <2>4 DEF Drift, Strip, TypeOK, Objects
    <3>2. \/ objs' = [objs EXCEPT ![k] = [objs[k] EXCEPT !.content = None]]
          \/ objs' = [objs EXCEPT ![k] = [objs[k] EXCEPT !.labelled = FALSE]]
      BY <2>4 DEF Drift, Strip
    <3>3. objs'[k].owner = objs[k].owner /\ (objs'[k].labelled => objs[k].labelled)
      BY <3>1, <3>2 DEF Object, TypeOK
    <3>4. \A j \in Kinds \ {k} : objs'[j] = objs[j]
      BY <3>2 DEF TypeOK
    <3> QED
      BY <3>1, <3>3, <3>4 DEF View
  <2> QED
    BY <2>1, <2>2, <2>3, <2>4
    DEF OutsideObjects, Remove, Collect, Autoscale, Rollout, ChangePolicies
<1>3. LabelledOwned'
  BY <1>2 DEF Convergence, WorldSound, LabelledOwned, OwnedByWebApp, View
<1>4. EventsTell
  BY <1>1, <1>3, ObjectEventsTell DEF OutsideChange, Convergence, WorldSound
<1>5. /\ PassUntouched /\ DeletionsWait'
      /\ UNCHANGED <<webapp, appFresh>>
  BY <1>1 DEF OutsideChange, PassUntouched, cacheVars, queueVars, passVars,
              recordVars, Convergence, WorldSound, DeletionsWait
<1> QED
  BY <1>3, <1>4, <1>5, OutsideSettles

-------------------------------------------------------------------------------
(* Caches and timers *)

\* Once the name is queued another pass will begin, and answers for everything.
LEMMA QueuedSettles ==
  ASSUME Convergence, WorldSound', queued',
         UNCHANGED <<pc, kind, app, hold, want, err>>
  PROVE  Convergence'
<1>1. PassSound' /\ FailureRight'
  BY DEF Convergence, PassSound, FailureRight
<1>2. PassCurrent' /\ SyncedInPlace' /\ HoldRight' /\ ReportRight' /\ Converged'
  BY DEF PassCurrent, SyncedInPlace, HoldRight, ReportRight, Converged, Unprompted
<1> QED
  BY <1>1, <1>2 DEF Convergence

LEMMA DeliverySettles ==
  ASSUME TypeOK, Convergence,
         DeliverApp \/ (\E k \in Kinds : Deliver(k)) \/ TimerFires
  PROVE  Convergence'
<1> USE DEF Convergence, WorldSound
<1>1. CASE DeliverApp
  <2>1. UNCHANGED <<webapp, objs, scale, undelivered, cachedObjs, cachedScale, pc,
                    kind, app, hold, want, err>> /\ cachedApp' = webapp /\ queued'
    BY <1>1 DEF DeliverApp, serverVars, objectVars, passVars
  <2>2. WorldSound'
    BY <2>1 DEF LabelledOwned, CachesTrail, DeletionsWait
  <2> QED
    BY <2>1, <2>2, QueuedSettles
<1>2. ASSUME NEW k \in Kinds, Deliver(k)
      PROVE  Convergence'
  <2>1. /\ UNCHANGED <<webapp, objs, scale, cachedApp, appFresh, delayed, pc, kind,
                       app, hold, want, err, metered>>
        /\ cachedObjs' = [cachedObjs EXCEPT ![k] = View(objs[k])]
        /\ cachedScale' = IF k = "Deployment" THEN ViewScale(objs[k], scale)
                          ELSE cachedScale
        /\ queued' = (queued \/ k \in undelivered)
        /\ undelivered' = undelivered \ {k}
    BY <1>2 DEF Deliver, passVars, recordVars
  <2>2. CachesTrail'
    BY <2>1 DEF CachesTrail, TypeOK
  <2>3. LabelledOwned' /\ DeletionsWait'
    BY <2>1 DEF LabelledOwned, DeletionsWait
  <2>4. CASE k \in undelivered
    BY <2>1, <2>2, <2>3, <2>4, QueuedSettles
  <2>5. CASE k \notin undelivered
    <3>1. UNCHANGED <<undelivered, queued>>
      BY <2>1, <2>5 DEF TypeOK
    <3>2. PassSound' /\ PassCurrent' /\ FailureRight'
      BY <2>1, <3>1 DEF PassSound, PassCurrent, FailureRight
    <3>3. SyncedInPlace' /\ HoldRight' /\ ReportRight'
      BY <2>1, <3>1 DEF SyncedInPlace, Synced, HoldRight, Holding, ReportRight
    <3>4. Converged'
      BY <2>1, <3>1 DEF Converged, Unprompted, SettledUnless, CanBuildAll, InSync,
                        InPlace, CountInPlace, FailureRecorded
    <3> QED
      BY <2>2, <2>3, <3>2, <3>3, <3>4
  <2> QED
    BY <2>4, <2>5
<1>3. CASE TimerFires
  <2>1. UNCHANGED <<webapp, objs, scale, undelivered, cachedApp, cachedObjs,
                    cachedScale, pc, kind, app, hold, want, err>> /\ queued'
    BY <1>3 DEF TimerFires, serverVars, objectVars, cacheVars, passVars
  <2>2. WorldSound'
    BY <2>1 DEF LabelledOwned, CachesTrail, DeletionsWait
  <2> QED
    BY <2>1, <2>2, QueuedSettles
<1> QED
  BY <1>1, <1>2, <1>3

\* A pass that ended and will be repeated, or whose write is still to be seen.
LEMMA IdleSettles ==
  ASSUME WorldSound', pc' = "idle", err' = "none",
         delayed' \/ queued' \/ ~appFresh'
  PROVE  Convergence'
<1>1. PassSound' /\ FailureRight' /\ PassCurrent' /\ HoldRight' /\ ReportRight'
  BY DEF PassSound, FailureRight, PassCurrent, HoldRight, Holding, ReportRight,
         SyncSteps
<1>2. SyncedInPlace' /\ Converged'
  BY DEF SyncedInPlace, Synced, Converged, Unprompted
<1> QED
  BY <1>1, <1>2 DEF Convergence

\* A restart lists everything afresh; it need not begin a pass only where there
\* is no WebApp, and then its process exports nothing.
LEMMA CrashSettles ==
  ASSUME TypeOK, Convergence, Crash
  PROVE  Convergence'
<1>1. WorldSound'
  <2>1. UNCHANGED <<webapp, objs, scale>> /\ cachedApp' = webapp
    BY DEF Crash
  <2>2. CachesTrail'
    BY <2>1 DEF Crash, CachesTrail
  <2> QED
    BY <2>1, <2>2 DEF Convergence, WorldSound, LabelledOwned, DeletionsWait
<1>2. CASE webapp # None
  BY <1>1, <1>2, IdleSettles DEF Crash
<1>3. CASE webapp = None
  <2>1. pc' = "idle" /\ err' = "none" /\ webapp' = None /\ metered' = FALSE
    BY <1>3 DEF Crash
  <2>2. PassSound' /\ FailureRight' /\ PassCurrent' /\ HoldRight' /\ ReportRight'
    BY <2>1 DEF PassSound, FailureRight, PassCurrent, HoldRight, Holding,
                ReportRight, SyncSteps
  <2>3. SyncedInPlace' /\ Converged'
    BY <2>1 DEF SyncedInPlace, Synced, Converged, SettledUnless
  <2> QED
    BY <1>1, <2>2, <2>3 DEF Convergence
<1> QED
  BY <1>2, <1>3

-------------------------------------------------------------------------------
(* The course of a pass *)

\* Nothing the inductive invariant says of the WebApp changes.
AppUntouched == UNCHANGED <<webapp, cachedApp, appFresh>>

\* A failure is recorded, and but for one that only a new spec can cure the pass
\* will be repeated.
LEMMA FailSettles ==
  ASSUME Convergence, pc \in SyncSteps, WorldSound', AppUntouched,
         NEW e \in {"terminal", "external", "retry"}, Fail(e),
         e = "terminal" => \E k \in Kinds : Wants(k, app.spec) /\ ~Buildable(k, app.spec)
  PROVE  Convergence'
<1>1. /\ pc' = "patch" /\ err' = e /\ UNCHANGED <<app, queued>>
      /\ want' = [obsGen |-> app.status.obsGen, url |-> IngressURL(app.spec),
                  conds |-> ApplyReconcileFailure(app.gen, app.status.conds)]
  BY DEF Fail, queueVars
<1>2. PassSound'
  BY <1>1 DEF Convergence, PassSound, SyncSteps
<1>3. PassCurrent'
  BY <1>1 DEF Convergence, PassCurrent, AppUntouched, SyncSteps
<1>4. FailureRight'
  BY <1>1 DEF FailureRight
<1>5. SyncedInPlace' /\ HoldRight' /\ ReportRight' /\ Converged'
  BY <1>1 DEF SyncedInPlace, Synced, HoldRight, Holding, ReportRight, Converged
<1> QED
  BY <1>2, <1>3, <1>4, <1>5 DEF Convergence

LEMMA CallErrorSettles ==
  ASSUME Convergence, pc # "idle", WorldSound', CallError,
         pc \in {"policy", "adopt", "apply", "prune"} => AppUntouched
  PROVE  Convergence'
<1>1. CASE pc \in {"policy", "adopt", "apply", "prune"}
  BY <1>1, FailSettles DEF CallError, SyncSteps
<1>2. CASE pc \notin {"policy", "adopt", "apply", "prune"}
  BY <1>2, IdleSettles DEF CallError, EndPass
<1> QED
  BY <1>1, <1>2

\* The pass goes on to a step of sync; what it is done with is in place.
LEMMA GotoSettles ==
  ASSUME Convergence, pc \in SyncSteps \ {"patch"}, WorldSound', AppUntouched,
         NEW step \in {"adopt", "apply", "prune", "observe"}, NEW k \in Kinds,
         Goto(step, k),
         step \in {"adopt", "apply"} => Wants(k, app.spec),
         step = "prune" => ~Wants(k, app.spec),
         SyncedInPlace', HoldRight'
  PROVE  Convergence'
<1>1. pc' = step /\ kind' = k /\ UNCHANGED <<app, queued, err>>
  BY DEF Goto, queueVars
<1>2. PassSound'
  BY <1>1 DEF Convergence, PassSound, SyncSteps
<1>3. PassCurrent'
  BY <1>1 DEF Convergence, PassCurrent, AppUntouched, SyncSteps
<1>4. ReportRight' /\ FailureRight' /\ Converged'
  BY <1>1 DEF ReportRight, FailureRight, Converged
<1> QED
  BY <1>2, <1>3, <1>4 DEF Convergence

\* After an object has been applied or pruned the pass is done with its kind too.
LEMMA AfterObjectSynced ==
  ASSUME TypeOK, PassSound, pc \in {"apply", "prune"}, AfterObject
  PROVE  Synced' \subseteq Synced \cup {kind}
<1>1. UNCHANGED err /\ kind \in Kinds
  BY DEF AfterObject, SyncKind, Goto, TypeOK, Kinds
<1>2. \/ kind = "Deployment" /\ pc' = "apply" /\ kind' = "Service"
      \/ kind = "Service" /\ pc' \in {"adopt", "prune"} /\ kind' = "Ingress"
      \/ kind = "Ingress" /\ pc' \in {"adopt", "prune"} /\ kind' = "HPA"
      \/ kind = "HPA" /\ pc' = "observe" /\ kind' = "Deployment"
  BY <1>1 DEF AfterObject, SyncKind, Goto, Kinds
<1>3. pc = "prune" => kind \in {"Ingress", "HPA"}
  BY <1>1 DEF PassSound, Wants, Kinds
<1> QED
  BY <1>2, <1>3 DEF Synced, Kinds

\* The kind is in place: the pass goes on to the next.
LEMMA AfterObjectSettles ==
  ASSUME TypeOK, Convergence, pc \in {"apply", "prune"}, AfterObject,
         WorldSound', AppUntouched, EventsTell,
         \/ kind \in undelivered' \/ queued
         \/ PlacedFor(app, kind, objs'[kind], scale')
  PROVE  Convergence'
<1>1. PICK step \in {"adopt", "apply", "prune", "observe"}, k \in Kinds :
        /\ Goto(step, k)
        /\ \/ kind = "Deployment" /\ step = "apply" /\ k = "Service"
           \/ kind = "Service" /\ k = "Ingress" /\
                step = IF Wants(k, app.spec) THEN "adopt" ELSE "prune"
           \/ kind = "Ingress" /\ k = "HPA" /\
                step = IF Wants(k, app.spec) THEN "adopt" ELSE "prune"
           \/ kind = "HPA" /\ step = "observe" /\ k = "Deployment"
  BY DEF TypeOK, AfterObject, SyncKind, Kinds
<1>2. pc' = step /\ kind' = k /\ UNCHANGED <<app, queued, err>>
  BY <1>1 DEF Goto, queueVars
<1>3. Synced' \subseteq Synced \cup {kind}
  BY AfterObjectSynced DEF Convergence
<1>4. SyncedInPlace'
  <2>1. SUFFICES ASSUME NEW j \in Synced', j \notin undelivered', ~queued
                 PROVE  PlacedFor(app, j, objs'[j], scale')
    BY <1>2 DEF SyncedInPlace
  <2>2. CASE j = kind
    BY <2>1, <2>2
  <2>3. CASE j # kind
    <3>1. j \in Synced /\ j \in Kinds
      BY <1>3, <2>1, <2>3 DEF Synced, Kinds
    <3>2. PlacedFor(app, j, objs[j], scale)
      BY <2>1, <3>1 DEF EventsTell, Convergence, SyncedInPlace
    <3>3. app \in WebApp
      BY DEF TypeOK
    <3> QED
      BY <2>1, <3>1, <3>2, <3>3, PlacedByView DEF EventsTell
  <2> QED
    BY <2>2, <2>3
<1>5. HoldRight'
  BY <1>1, <1>2 DEF HoldRight, Holding
<1>6. step \in {"adopt", "apply"} => Wants(k, app.spec)
  BY <1>1 DEF Wants
<1>7. step = "prune" => ~Wants(k, app.spec)
  BY <1>1
<1> QED
  BY <1>1, <1>4, <1>5, <1>6, <1>7, GotoSettles DEF SyncSteps

-------------------------------------------------------------------------------
(* The worker *)

LEMMA BeginPassSettles ==
  ASSUME TypeOK, VersionsExact, Convergence, BeginPass
  PROVE  Convergence'
<1>1. /\ pc = "idle" /\ err = "none" /\ queued' = FALSE
      /\ UNCHANGED <<webapp, objs, scale, undelivered, cachedApp, appFresh, cachedObjs,
                     cachedScale, delayed>>
      /\ metered' = (metered /\ cachedApp # None)
  BY DEF BeginPass, serverVars, objectVars, cacheVars, Convergence, PassSound
<1>2. WorldSound'
  BY <1>1 DEF Convergence, WorldSound, LabelledOwned, CachesTrail, DeletionsWait
<1>3. CASE cachedApp = None
  <2>1. UNCHANGED <<pc, err>>
    BY <1>3 DEF BeginPass, passVars
  <2>2. Converged'
    BY <1>1, <1>3 DEF Converged, Unprompted, SettledUnless, VersionsExact
  <2>3. PassSound' /\ FailureRight' /\ PassCurrent' /\ HoldRight' /\ ReportRight'
    BY <1>1, <2>1 DEF PassSound, FailureRight, PassCurrent, HoldRight, Holding,
                      ReportRight, SyncSteps
  <2>4. SyncedInPlace'
    BY <1>1, <2>1 DEF SyncedInPlace, Synced
  <2> QED
    BY <1>2, <2>2, <2>3, <2>4 DEF Convergence
<1>4. CASE cachedApp # None
  <2>1. cachedApp.deleting => cachedApp.fin
    BY <1>4 DEF Convergence, WorldSound, DeletionsWait
  <2>2. /\ app' = cachedApp /\ UNCHANGED err
        /\ pc' = IF cachedApp.deleting THEN "finalize"
                 ELSE IF cachedApp.fin THEN "policy" ELSE "addFinalizer"
    BY <1>4, <2>1 DEF BeginPass
  <2>3. PassSound'
    BY <1>1, <2>2 DEF PassSound, SyncSteps
  <2>4. PassCurrent'
    BY <1>1, <2>2 DEF PassCurrent, VersionsExact
  <2>5. SyncedInPlace' /\ HoldRight' /\ ReportRight' /\ FailureRight' /\ Converged'
    BY <2>2 DEF SyncedInPlace, Synced, HoldRight, Holding, ReportRight, FailureRight,
                Converged
  <2> QED
    BY <1>2, <2>3, <2>4, <2>5 DEF Convergence
<1> QED
  BY <1>3, <1>4

LEMMA AddFinalizerSettles ==
  ASSUME TypeOK, VersionsExact, Convergence, AddFinalizer
  PROVE  Convergence'
<1>1. /\ pc = "addFinalizer" /\ app \in WebApp /\ ~app.deleting /\ err = "none"
      /\ UNCHANGED <<objs, scale, undelivered, cachedApp, cachedObjs, cachedScale>>
  BY DEF AddFinalizer, objectVars, TypeOK, Convergence, PassSound
<1>2. CASE ~fresh
  <2>1. EndPass(TRUE) /\ UNCHANGED webapp
    BY <1>2 DEF AddFinalizer
  <2>2. WorldSound'
    BY <1>1, <2>1 DEF Convergence, WorldSound, LabelledOwned, CachesTrail,
                      DeletionsWait
  <2> QED
    BY <2>1, <2>2, IdleSettles DEF EndPass
<1>3. CASE fresh
  <2>1. webapp = app /\ webapp' = [webapp EXCEPT !.fin = TRUE] /\ appFresh' = FALSE
    BY <1>3 DEF AddFinalizer, VersionsExact
  <2>2. WorldSound'
    <3>1. webapp'.fin
      BY <1>1, <2>1 DEF WebApp
    <3> QED
      BY <1>1, <3>1 DEF Convergence, WorldSound, LabelledOwned, CachesTrail,
                        DeletionsWait
  <2>3. CASE app' = [app EXCEPT !.fin = TRUE] /\ pc' = "policy" /\ UNCHANGED err
    <3>1. app'.fin /\ app'.deleting = app.deleting
      BY <1>1, <2>3 DEF WebApp
    <3>2. PassSound' /\ PassCurrent' /\ FailureRight'
      BY <1>1, <2>1, <2>3, <3>1 DEF PassSound, PassCurrent, FailureRight
    <3>3. SyncedInPlace' /\ HoldRight' /\ ReportRight' /\ Converged'
      BY <2>3 DEF SyncedInPlace, Synced, HoldRight, Holding, ReportRight, Converged
    <3> QED
      BY <2>2, <3>2, <3>3 DEF Convergence
  <2>4. CASE CallError
    BY <1>1, <2>2, <2>4, CallErrorSettles
  <2> QED
    BY <1>3, <2>3, <2>4 DEF AddFinalizer
<1> QED
  BY <1>2, <1>3

\* The count to hold is read from the cache, which is right unless an event is
\* under way.
LEMMA EnforceScalePolicySettles ==
  ASSUME TypeOK, Convergence, EnforceScalePolicy
  PROVE  Convergence'
<1>1. /\ pc = "policy" /\ AppUntouched
      /\ UNCHANGED <<objs, scale, undelivered, cachedObjs, cachedScale, queued>>
  BY DEF EnforceScalePolicy, AppUntouched, serverVars, objectVars, cacheVars,
         queueVars, Fail
<1>2. WorldSound'
  BY <1>1 DEF AppUntouched, Convergence, WorldSound, LabelledOwned, CachesTrail,
              DeletionsWait
<1>3. CASE Fail("external")
  BY <1>1, <1>2, <1>3, FailSettles DEF SyncSteps
<1>4. CASE Fail("terminal") /\ ~Buildable("Service", app.spec)
  <2>1. Wants("Service", app.spec) /\ "Service" \in Kinds
    BY DEF Wants, Kinds
  <2> QED
    BY <1>1, <1>2, <1>4, <2>1, FailSettles DEF SyncSteps
<1>5. CASE /\ hold' = IF WantsHPA(app.spec) THEN ReplicaHold
                                            ELSE DesiredReplicas(app.spec)
           /\ pc' = "adopt" /\ kind' = "Deployment"
           /\ UNCHANGED <<app, fresh, locked, want, err, queueVars>>
  <2>1. HoldRight'
    <3>1. SUFFICES ASSUME "Deployment" \notin undelivered
                   PROVE  hold' = CountToHold(app.spec, objs["Deployment"], scale)
      BY <1>1, <1>5 DEF HoldRight
    <3>2. "Deployment" \in Kinds
      BY DEF Kinds
    <3>3. /\ cachedObjs["Deployment"] = View(objs["Deployment"])
          /\ cachedScale = ViewScale(objs["Deployment"], scale)
      BY <3>1, <3>2 DEF Convergence, WorldSound, CachesTrail
    <3> QED
      BY <1>5, <3>3 DEF CountToHold, ReplicaHold, ReplicasOwnedByOther, ViewScale
  <2>2. PassSound'
    BY <1>1, <1>5 DEF Convergence, PassSound, SyncSteps, Wants
  <2>3. PassCurrent'
    BY <1>1, <1>5 DEF Convergence, PassCurrent, AppUntouched
  <2>4. SyncedInPlace' /\ ReportRight' /\ FailureRight' /\ Converged'
    BY <1>5 DEF SyncedInPlace, Synced, ReportRight, FailureRight, Converged
  <2> QED
    BY <1>2, <2>1, <2>2, <2>3, <2>4 DEF Convergence
<1> QED
  BY <1>3, <1>4, <1>5 DEF EnforceScalePolicy

LEMMA AssertAdoptableSettles ==
  ASSUME TypeOK, Convergence, AssertAdoptable
  PROVE  Convergence'
<1>1. /\ pc = "adopt" /\ AppUntouched /\ kind \in Kinds
      /\ UNCHANGED <<objs, scale, undelivered, cachedObjs, cachedScale, queued>>
  BY DEF AssertAdoptable, AppUntouched, serverVars, objectVars, cacheVars,
         queueVars, Fail, Goto, TypeOK
<1>2. WorldSound'
  BY <1>1 DEF AppUntouched, Convergence, WorldSound, LabelledOwned, CachesTrail,
              DeletionsWait
<1>3. CASE Fail("external")
  BY <1>1, <1>2, <1>3, FailSettles DEF SyncSteps
<1>4. CASE Fail("terminal") /\ ~Buildable(kind, app.spec)
  <2>1. Wants(kind, app.spec)
    BY <1>1 DEF Convergence, PassSound
  <2> QED
    BY <1>1, <1>2, <1>4, <2>1, FailSettles DEF SyncSteps
<1>5. CASE \/ kind = "Deployment" /\ Goto("adopt", "Service")
           \/ kind = "Service" /\ Goto("apply", "Deployment")
           \/ kind \in {"Ingress", "HPA"} /\ Goto("apply", kind)
  <2>1. PICK step \in {"adopt", "apply"}, k \in Kinds :
          /\ Goto(step, k)
          /\ \/ kind = "Deployment" /\ step = "adopt" /\ k = "Service"
             \/ kind = "Service" /\ step = "apply" /\ k = "Deployment"
             \/ kind \in {"Ingress", "HPA"} /\ step = "apply" /\ k = kind
    BY <1>5 DEF Kinds
  <2>2. pc' = step /\ kind' = k /\ UNCHANGED <<app, hold, queued>>
    BY <1>1, <2>1 DEF Goto
  <2>3. SyncedInPlace'
    <3>1. Synced' \subseteq Synced
      BY <1>1, <2>1, <2>2 DEF Synced
    <3> QED
      BY <1>1, <2>2, <3>1 DEF Convergence, SyncedInPlace
  <2>4. HoldRight'
    BY <1>1, <2>1, <2>2 DEF Convergence, HoldRight, Holding
  <2>5. Wants(k, app.spec)
    BY <1>1, <2>1 DEF Convergence, PassSound, Wants
  <2> QED
    BY <1>1, <1>2, <2>1, <2>3, <2>4, <2>5, GotoSettles DEF SyncSteps
<1> QED
  BY <1>1, <1>3, <1>4, <1>5 DEF AssertAdoptable, Kinds

\* An applied object is in place; where the count to hold came from a cache that
\* is behind, or the Deployment was out of sight, an event says so.
LEMMA ApplySettles ==
  ASSUME TypeOK, Convergence, Apply
  PROVE  Convergence'
<1> DEFINE new == [owner |-> app.uid, labelled |-> TRUE,
                   content |-> Content(kind, app.spec)]
<1>1. /\ pc = "apply" /\ AppUntouched /\ kind \in Kinds /\ app \in WebApp
      /\ UNCHANGED <<cachedObjs, cachedScale>>
      /\ ObjectEvents
  BY DEF Apply, AppUntouched, cacheVars, TypeOK
<1>2. CASE Refuses(objs[kind])
  <2>1. Fail("retry") /\ UNCHANGED <<objs, scale>>
    BY <1>2 DEF Apply
  <2>2. LabelledOwned'
    BY <2>1 DEF Convergence, WorldSound, LabelledOwned
  <2>3. WorldSound'
    BY <1>1, <2>2, ObjectEventsTell, CachesTrailKept
    DEF AppUntouched, Convergence, WorldSound, DeletionsWait
  <2> QED
    BY <1>1, <2>1, <2>3, FailSettles DEF SyncSteps
<1>3. CASE ~Refuses(objs[kind])
  <2>1. /\ objs' = [objs EXCEPT ![kind] = new]
        /\ scale' = IF kind = "Deployment"
                    THEN AppliedScale(objs[kind], scale, Content(kind, app.spec), hold)
                    ELSE scale
        /\ AfterObject \/ CallError
    BY <1>3 DEF Apply, Reply
  <2>2. objs'[kind] = new /\ \A k \in Kinds \ {kind} : objs'[k] = objs[k]
    BY <1>1, <2>1 DEF TypeOK
  <2>3. new # None /\ View(new) = new /\ OwnedByWebApp(new) /\ new \in Object
    BY <1>1, AppliedObject
  <2> HIDE DEF new
  <2>4. LabelledOwned'
    BY <2>2, <2>3 DEF Convergence, WorldSound, LabelledOwned
  <2>5. EventsTell
    BY <1>1, <2>4, ObjectEventsTell DEF Convergence, WorldSound
  <2>6. WorldSound'
    BY <1>1, <2>4, <2>5, CachesTrailKept
    DEF AppUntouched, Convergence, WorldSound, DeletionsWait
  <2>7. CASE CallError
    BY <1>1, <2>6, <2>7, CallErrorSettles
  <2>8. CASE AfterObject
    <3>1. Wants(kind, app.spec)
      BY <1>1 DEF Convergence, PassSound
    <3>2. ASSUME kind = "Deployment", kind \notin undelivered', ~queued
          PROVE  CountFor(app.spec, scale')
      <4>1. /\ kind \notin undelivered
            /\ View(objs[kind]) = new
        BY <1>1, <2>2, <2>3, <2>5, <3>2 DEF EventsTell
      <4>2. objs[kind] # None /\ View(objs[kind]) # None
        BY <2>3, <4>1 DEF View
      <4>3. hold = CountToHold(app.spec, objs[kind], scale)
        BY <1>1, <3>2, <4>1 DEF Convergence, HoldRight, Holding
      <4>4. scale \in Scale /\ app.spec \in WebAppSpec
        BY <1>1, ControllerAssumption DEF TypeOK, WebApp
      <4>5. CASE WantsHPA(app.spec) /\ "other" \in scale.managers
        <5>1. hold = None
          BY <4>3, <4>5 DEF CountToHold
        <5>2. scale'.managers = scale.managers \ {"operator"}
          BY <2>1, <3>2, <4>2, <4>4, <5>1 DEF AppliedScale, ReleaseReplicas, Scale
        <5> QED
          BY <4>5, <5>2 DEF CountFor
      <4>6. CASE WantsHPA(app.spec) /\ "other" \notin scale.managers
        <5>1. hold = scale.replicas /\ hold # None
          BY <4>2, <4>3, <4>4, <4>6, ResourceAssumption DEF CountToHold, Scale
        <5>2. scale'.managers = scale.managers \cup {"operator"}
          BY <2>1, <3>2, <4>2, <4>4, <5>1 DEF AppliedScale, ForceReplicas, Scale
        <5> QED
          BY <4>6, <5>2 DEF CountFor
      <4>7. CASE ~WantsHPA(app.spec)
        <5>1. hold = DesiredReplicas(app.spec) /\ hold # None
          BY <4>3, <4>4, <4>7, ResourceAssumption
          DEF CountToHold, DesiredReplicas, WebAppSpec
        <5>2. scale'.replicas = hold
          BY <2>1, <3>2, <4>2, <4>4, <5>1 DEF AppliedScale, ForceReplicas, Scale
        <5> QED
          BY <4>7, <5>1, <5>2 DEF CountFor
      <4> QED
        BY <4>5, <4>6, <4>7
    <3>3. \/ kind \in undelivered' \/ queued
          \/ PlacedFor(app, kind, objs'[kind], scale')
      BY <2>2, <3>1, <3>2 DEF PlacedFor, new
    <3> QED
      BY <1>1, <2>5, <2>6, <2>8, <3>3, AfterObjectSettles
  <2> QED
    BY <2>1, <2>7, <2>8
<1> QED
  BY <1>2, <1>3

\* An unwanted object that this WebApp controls goes, unless no informer shows
\* it; a finalize pass claims nothing until it has ended.
LEMMA DeleteOwnedSettles ==
  ASSUME TypeOK, Convergence, DeleteOwned
  PROVE  Convergence'
<1>1. /\ pc \in {"prune", "finalize"} /\ AppUntouched /\ kind \in Kinds
      /\ app \in WebApp
      /\ UNCHANGED <<cachedObjs, cachedScale>>
      /\ ObjectEvents
      /\ AfterPrune \/ CallError
  BY DEF DeleteOwned, AppUntouched, cacheVars, TypeOK, Reply
<1>2. \/ ControlledBy(cachedObjs[kind], app.uid) /\ objs' = [objs EXCEPT ![kind] = None]
      \/ ~ControlledBy(cachedObjs[kind], app.uid) /\ UNCHANGED <<objs, scale>>
  BY DEF DeleteOwned
<1>3. LabelledOwned'
  BY <1>1, <1>2 DEF TypeOK, Convergence, WorldSound, LabelledOwned, View
<1>4. EventsTell
  BY <1>1, <1>3, ObjectEventsTell DEF Convergence, WorldSound
<1>5. WorldSound'
  BY <1>1, <1>3, <1>4, CachesTrailKept
  DEF AppUntouched, Convergence, WorldSound, DeletionsWait
<1>6. CASE CallError
  BY <1>1, <1>5, <1>6, CallErrorSettles
<1>7. CASE pc = "prune" /\ AfterObject
  <2>1. ~Wants(kind, app.spec)
    BY <1>7 DEF Convergence, PassSound
  <2>2. ASSUME kind \notin undelivered'
        PROVE  PlacedFor(app, kind, objs'[kind], scale')
    <3>1. cachedObjs[kind] = View(objs[kind])
      BY <1>1, <1>4, <2>2 DEF EventsTell, Convergence, WorldSound, CachesTrail
    <3>2. ControlledBy(objs'[kind], app.uid) => ~objs'[kind].labelled
      <4>1. CASE objs' = [objs EXCEPT ![kind] = None]
        BY <1>1, <4>1 DEF TypeOK, ControlledBy
      <4>2. CASE ~ControlledBy(cachedObjs[kind], app.uid) /\ UNCHANGED objs
        BY <3>1, <4>2 DEF ControlledBy, View
      <4> QED
        BY <1>2, <4>1, <4>2
    <3> QED
      BY <2>1, <3>2 DEF PlacedFor
  <2> QED
    BY <1>1, <1>4, <1>5, <1>7, <2>2, AfterObjectSettles
<1>8. CASE pc = "finalize" /\ AfterFinalized
  <2>1. /\ pc' \in {"finalize", "release"} /\ UNCHANGED <<app, err, queued>>
    BY <1>1, <1>8 DEF AfterFinalized, Goto, queueVars, Kinds
  <2>2. PassSound'
    BY <1>8, <2>1 DEF Convergence, PassSound, SyncSteps
  <2>3. PassCurrent'
    BY <1>1, <1>8, <2>1 DEF Convergence, PassCurrent, AppUntouched
  <2>4. SyncedInPlace' /\ HoldRight' /\ ReportRight' /\ FailureRight' /\ Converged'
    BY <2>1 DEF SyncedInPlace, Synced, HoldRight, Holding, ReportRight, FailureRight,
                Converged
  <2> QED
    BY <1>5, <2>2, <2>3, <2>4 DEF Convergence
<1> QED
  BY <1>1, <1>6, <1>7, <1>8 DEF AfterPrune

\* The cache shows the Deployment the pass has applied, as it is now, or an event
\* is under way.
LEMMA ObserveSettles ==
  ASSUME TypeOK, Convergence, Observe
  PROVE  Convergence'
<1>1. /\ pc = "observe" /\ pc' = "patch" /\ err = "none" /\ app \in WebApp
      /\ UNCHANGED <<webapp, objs, scale, undelivered, cachedApp, appFresh, cachedObjs,
                     cachedScale, queued, app, err>>
  BY DEF Observe, serverVars, objectVars, cacheVars, queueVars, TypeOK, Convergence,
         PassSound
<1>2. WorldSound'
  BY <1>1 DEF Convergence, WorldSound, LabelledOwned, CachesTrail, DeletionsWait
<1>3. PassSound' /\ PassCurrent'
  BY <1>1 DEF Convergence, PassSound, PassCurrent, SyncSteps
<1>4. SyncedInPlace'
  BY <1>1 DEF Convergence, SyncedInPlace, Synced
<1>5. ReportRight'
  <2>1. SUFFICES ASSUME "Deployment" \notin undelivered, ~queued
                 PROVE  want' = [obsGen |-> app.gen, url |-> IngressURL(app.spec),
                                 conds |-> ApplyDeploymentConditions(app.gen, scale)]
    BY <1>1 DEF ReportRight
  <2>2. "Deployment" \in Kinds /\ Wants("Deployment", app.spec)
    BY DEF Kinds, Wants
  <2>3. PlacedFor(app, "Deployment", objs["Deployment"], scale)
    BY <1>1, <2>1, <2>2 DEF Convergence, SyncedInPlace, Synced
  <2>4. View(objs["Deployment"]) # None
    BY <1>1, <2>2, <2>3, AppliedObject DEF PlacedFor
  <2>5. cachedObjs["Deployment"] # None /\ cachedScale = scale
    BY <2>1, <2>2, <2>4 DEF Convergence, WorldSound, CachesTrail, ViewScale
  <2> QED
    BY <2>5 DEF Observe
<1>6. HoldRight' /\ FailureRight' /\ Converged'
  BY <1>1 DEF HoldRight, Holding, FailureRight, Converged
<1> QED
  BY <1>2, <1>3, <1>4, <1>5, <1>6 DEF Convergence

\* A status patch changes nothing else, and what it makes of the live status is
\* the status the pass wanted, where it was computed from the live one.
LEMMA MergedStatus ==
  ASSUME NEW base \in Status, NEW new \in Status
  PROVE  MergePatch(base, base, new) = new
BY DEF MergePatch, Status

\* A pass after which nothing more begins has read the live WebApp, whose status
\* is now what it found, and all it has done is still in place.
LEMMA UpdateStatusSettles ==
  ASSUME TypeOK, VersionsExact, Convergence, UpdateStatus
  PROVE  Convergence'
<1>1. /\ pc = "patch" /\ metered' = TRUE /\ app \in WebApp /\ want \in Status
      /\ ~app.deleting /\ app.fin
      /\ UNCHANGED <<objs, scale, undelivered, cachedApp, cachedObjs, cachedScale>>
  BY DEF UpdateStatus, objectVars, TypeOK, Convergence, PassSound, SyncSteps
<1>2. CASE webapp = None \/ (locked /\ ~fresh)
  <2>1. EndPass(TRUE) /\ UNCHANGED webapp
    BY <1>2 DEF UpdateStatus
  <2>2. WorldSound'
    BY <1>1, <2>1 DEF Convergence, WorldSound, LabelledOwned, CachesTrail,
                      DeletionsWait
  <2> QED
    BY <2>1, <2>2, IdleSettles DEF EndPass
<1>3. CASE ~(webapp = None \/ (locked /\ ~fresh))
  <2> DEFINE status == MergePatch(webapp.status, app.status, want)
  <2>1. /\ webapp' = [webapp EXCEPT !.status = status]
        /\ appFresh' = (appFresh /\ status = webapp.status)
        /\ EndPass(err \in {"external", "retry"}) \/ CallError
    BY <1>3 DEF UpdateStatus, Reply
  <2>2. webapp \in WebApp
    BY <1>3 DEF TypeOK
  <2> HIDE DEF status
  <2>3. WorldSound'
    <3>1. webapp'.deleting = webapp.deleting /\ webapp'.fin = webapp.fin
      BY <2>1, <2>2 DEF WebApp
    <3> QED
      BY <1>1, <1>3, <3>1 DEF Convergence, WorldSound, LabelledOwned, CachesTrail,
                              DeletionsWait
  <2>4. CASE CallError \/ err \in {"external", "retry"}
    <3>1. EndPass(TRUE)
      BY <1>1, <2>1, <2>4 DEF CallError
    <3> QED
      BY <2>3, <3>1, IdleSettles DEF EndPass
  <2>5. CASE EndPass(FALSE) /\ err \in {"none", "terminal"}
    <3>1. pc' = "idle" /\ err' = "none" /\ UNCHANGED queued
      BY <2>5 DEF EndPass
    <3>2. ASSUME Unprompted'
          PROVE  SettledUnless(~CanBuildAll)'
      <4>1. appFresh /\ status = webapp.status /\ ~queued /\ undelivered = {}
        BY <1>1, <2>1, <3>1, <3>2 DEF Unprompted, TypeOK
      <4>2. app = webapp
        BY <1>1, <4>1 DEF Convergence, PassCurrent
      <4>3. webapp.status = want /\ webapp' = webapp
        <5>1. webapp.status \in Status
          BY <2>2 DEF WebApp
        <5>2. status = want
          BY <1>1, <4>2, <5>1, MergedStatus DEF status
        <5> QED
          BY <2>1, <2>2, <4>1, <5>2 DEF WebApp
      <4>4. CASE err = "none"
        <5>1. \A k \in Kinds : PlacedFor(webapp, k, objs[k], scale)
          BY <1>1, <4>1, <4>2, <4>4 DEF Convergence, SyncedInPlace, Synced
        <5>2. webapp.status = [obsGen |-> webapp.gen,
                               url    |-> IngressURL(webapp.spec),
                               conds  |-> ApplyDeploymentConditions(webapp.gen, scale)]
          BY <1>1, <4>1, <4>2, <4>3, <4>4 DEF Convergence, ReportRight
        <5>3. CountFor(webapp.spec, scale)
          BY <5>1 DEF PlacedFor, Wants, Kinds
        <5>4. InSync
          BY <5>1, <5>2, <5>3 DEF InSync, InPlace, CountInPlace, CountFor, PlacedFor
        <5>5. InSync'
          BY <1>1, <4>3, <5>4 DEF InSync, InPlace, CountInPlace
        <5> QED
          BY <1>1, <1>3, <4>2, <4>3, <5>5 DEF SettledUnless
      <4>5. CASE err = "terminal"
        <5>1. /\ \E k \in Kinds : Wants(k, webapp.spec) /\ ~Buildable(k, webapp.spec)
              /\ webapp.status.conds
                   = ApplyReconcileFailure(webapp.gen, webapp.status.conds)
              /\ webapp.status.url = IngressURL(webapp.spec)
          BY <1>1, <4>2, <4>3, <4>5 DEF Convergence, FailureRight
        <5>2. ~CanBuildAll
          BY <5>1 DEF CanBuildAll
        <5>3. webapp.status.conds # None
          <6>1. ApplyReconcileFailure(webapp.gen, webapp.status.conds) \in Conditions
            BY <2>2, StatusType, ControllerAssumption DEF TypeOK
          <6> QED
            BY <5>1, <6>1, NoneAssumption
        <5>4. FailureRecorded
          BY <5>1, <5>3 DEF FailureRecorded, ApplyReconcileFailure, Degraded
        <5>5. ~CanBuildAll' /\ FailureRecorded'
          BY <4>3, <5>2, <5>4 DEF CanBuildAll, FailureRecorded
        <5> QED
          BY <1>1, <1>3, <4>2, <4>3, <5>5 DEF SettledUnless
      <4> QED
        BY <2>5, <4>4, <4>5
    <3>3. PassSound' /\ PassCurrent' /\ SyncedInPlace' /\ HoldRight' /\ ReportRight'
            /\ FailureRight'
      BY <3>1 DEF PassSound, SyncSteps, PassCurrent, SyncedInPlace, Synced, HoldRight,
                  Holding, ReportRight, FailureRight
    <3>4. Converged'
      BY <3>2 DEF Converged
    <3> QED
      BY <2>3, <3>3, <3>4 DEF Convergence
  <2>6. CASE err \notin {"external", "retry"} /\ ~CallError
    <3>1. (err \in {"external", "retry"}) = FALSE
      BY <2>6
    <3>2. EndPass(FALSE)
      BY <2>1, <2>6, <3>1
    <3>3. err \in {"none", "terminal"}
      BY <2>6 DEF TypeOK, Errors
    <3> QED
      BY <2>5, <3>2, <3>3
  <2> QED
    BY <2>4, <2>6
<1> QED
  BY <1>2, <1>3

LEMMA RemoveFinalizerSettles ==
  ASSUME TypeOK, Convergence, RemoveFinalizer
  PROVE  Convergence'
<1>1. /\ pc = "release"
      /\ UNCHANGED <<objs, scale, undelivered, cachedApp, cachedObjs, cachedScale>>
      /\ \/ webapp' = None /\ appFresh' = FALSE
         \/ webapp' = webapp /\ EndPass(TRUE)
      /\ (\E again \in BOOLEAN : EndPass(again)) \/ CallError
  BY DEF RemoveFinalizer, objectVars, Reply
<1>2. WorldSound'
  BY <1>1 DEF Convergence, WorldSound, LabelledOwned, CachesTrail, DeletionsWait
<1>3. \E again \in BOOLEAN : EndPass(again)
  BY <1>1 DEF CallError
<1> QED
  BY <1>1, <1>2, <1>3, IdleSettles DEF EndPass

LEMMA CallFailsSettles ==
  ASSUME TypeOK, Convergence, CallFails
  PROVE  Convergence'
<1>1. pc # "idle" /\ CallError /\ AppUntouched
      /\ UNCHANGED <<objs, scale, undelivered, cachedObjs, cachedScale>>
  BY DEF CallFails, Calling, AppUntouched, serverVars, objectVars, cacheVars
<1>2. WorldSound'
  BY <1>1 DEF AppUntouched, Convergence, WorldSound, LabelledOwned, CachesTrail,
              DeletionsWait
<1> QED
  BY <1>1, <1>2, CallErrorSettles

-------------------------------------------------------------------------------
(* Together *)

LEMMA InitConvergence ==
  ASSUME Init
  PROVE  Convergence
<1>1. WorldSound
  BY DEF Init, WorldSound, LabelledOwned, CachesTrail, DeletionsWait, View, ViewScale
<1>2. PassSound /\ PassCurrent /\ SyncedInPlace
  BY DEF Init, PassSound, SyncSteps, PassCurrent, SyncedInPlace, Synced
<1>3. HoldRight /\ ReportRight /\ FailureRight /\ Converged
  BY DEF Init, HoldRight, Holding, ReportRight, FailureRight, Converged, SettledUnless
<1> QED
  BY <1>1, <1>2, <1>3 DEF Convergence

LEMMA NextConvergence ==
  ASSUME TypeOK, VersionsExact, Convergence, Next
  PROVE  Convergence'
<1>1. CASE Worker
  BY <1>1, BeginPassSettles, AddFinalizerSettles, EnforceScalePolicySettles,
     AssertAdoptableSettles, ApplySettles, DeleteOwnedSettles, ObserveSettles,
     UpdateStatusSettles, RemoveFinalizerSettles, CallFailsSettles
  DEF Worker
<1>2. CASE DeliverApp \/ (\E k \in Kinds : Deliver(k)) \/ TimerFires
  BY <1>2, DeliverySettles
<1>3. CASE (\E s \in Specs : Create(s) \/ Edit(s)) \/ Delete
  BY <1>3, UserSettles
<1>4. CASE OutsideObjects \/ (\E ps \in PolicySets : ChangePolicies(ps))
  BY <1>4, OutsideObjectsSettle
<1>5. CASE Crash
  BY <1>5, CrashSettles
<1> QED
  BY <1>1, <1>2, <1>3, <1>4, <1>5 DEF Next, Outside, OutsideObjects

LEMMA StutterConvergence ==
  ASSUME Convergence, UNCHANGED vars
  PROVE  Convergence'
<1> USE DEF vars, serverVars, objectVars, cacheVars, queueVars, passVars, recordVars
<1>1. WorldSound' /\ PassSound' /\ PassCurrent'
  BY DEF Convergence, WorldSound, LabelledOwned, CachesTrail, DeletionsWait,
         PassSound, PassCurrent
<1>2. SyncedInPlace' /\ HoldRight' /\ ReportRight' /\ FailureRight'
  BY DEF Convergence, SyncedInPlace, Synced, HoldRight, Holding, ReportRight,
         FailureRight
<1>3. Converged'
  BY DEF Convergence, Converged, Unprompted, SettledUnless, CanBuildAll, InSync,
         InPlace, CountInPlace, FailureRecorded
<1> QED
  BY <1>1, <1>2, <1>3 DEF Convergence

LEMMA ConvergenceHolds == Spec => []Convergence
<1>1. Init => Convergence
  BY InitConvergence
<1>2. TypeOK /\ VersionsExact /\ Convergence /\ [Next]_vars => Convergence'
  BY NextConvergence, StutterConvergence
<1> QED
  BY <1>1, <1>2, TypeCorrect, PTL DEF Spec

\* No interleaving, lost reply, drift, conflict or restart leaves the cluster in
\* a state that differs from the live spec with nothing to set it right: when no
\* request is queued, no timer runs and no event is under way, the objects, the
\* count and the status are what the spec asks for (or the status records that the
\* spec cannot be built), no deletion is half way, and no series outlives its
\* WebApp.
THEOREM ConvergedWhenQuiescent == Spec => []QuiescentConverged
<1>1. Convergence => QuiescentConverged
  BY DEF QuiescentConverged, Quiescent, Unprompted, Convergence, Converged
<1> QED
  BY <1>1, ConvergenceHolds, PTL

===============================================================================
