--------------------------- MODULE WebAppController ---------------------------
(***************************************************************************)
(* The controller of internal/controller/webapp_controller.go for one      *)
(* namespaced name: the work queue and its single worker, the informer     *)
(* caches the worker reads, the API server it writes to, and the users and *)
(* controllers that change the same objects meanwhile.  One action is one  *)
(* call of the worker to the API server (or one read of its cache), one    *)
(* cache delivery, or one change by somebody else.                         *)
(*                                                                         *)
(* Resource versions are kept as two booleans, which is exact for the      *)
(* comparisons the code makes: appFresh says the cached WebApp has the     *)
(* live resource version, fresh that the worker's copy has.                *)
(***************************************************************************)
EXTENDS ScalePolicy, KubeObjects

CONSTANTS
  Specs,       \* the specs users write
  PolicySets,  \* the sets of WebAppPolicies there may be
  Budgets      \* how often each outside event may happen (the bounds of a run)

Events == {"create", "edit", "delete", "tamper",
           "autoscale", "rollout", "policy", "crash", "fault"}

ASSUME ControllerAssumption ==
  /\ Specs \subseteq WebAppSpec
  /\ \A s \in Specs : s.autoscaling => s.maxReplicas # None
  /\ PolicySets \subseteq SUBSET Policy
  /\ PolicySets # {}
  /\ Budgets \subseteq [Events -> Nat]

VARIABLES
  webapp,       \* the live WebApp, or None
  objs,         \* the live object of each kind, or None
  scale,        \* replicas, their managers and status of the live Deployment
  undelivered,  \* kinds with an event on the watch about a controlled object
  policies,     \* the live WebAppPolicies
  nextUid,      \* the uid of the next WebApp created under this name
  cachedApp, appFresh, cachedObjs, cachedScale,   \* the informers
  queued,       \* the name is in the work queue
  delayed,      \* a back-off or RequeueAfter timer is running
  pc, kind,     \* the worker's next step, and the kind it is about
  app,          \* the worker's copy of the WebApp, as read from the cache
  fresh,        \* its resource version is still the live one
  locked,       \* the status patch will carry that resource version
  hold,         \* spec.replicas in the Deployment's apply configuration
  want,         \* the status to patch
  err,          \* the class of sync's error
  metered,      \* the process exports series for this WebApp
  skipped,      \* history: <<uid, kind>> a finalize pass saw nothing of
  budget        \* how often each may happen still

objectVars == <<objs, scale, undelivered>>
serverVars == <<webapp, objectVars, policies, nextUid>>
cacheVars == <<cachedApp, appFresh, cachedObjs, cachedScale>>
queueVars == <<queued, delayed>>
passVars == <<pc, kind, app, fresh, locked, hold, want, err>>
recordVars == <<metered, skipped>>
vars == <<serverVars, cacheVars, queueVars, passVars, recordVars, budget>>

Status == [obsGen : Nat, url : Domains \cup {None},
           conds : Conditions \cup {None}]

WebApp == [uid : Nat, gen : Nat \ {0}, deleting : BOOLEAN, fin : BOOLEAN,
           spec : Specs, status : Status]

Steps == {"idle", "addFinalizer", "policy", "adopt", "apply", "prune",
          "observe", "patch", "finalize", "release"}

\* The steps that act for a WebApp that is not being deleted.
SyncSteps == {"policy", "adopt", "apply", "prune", "observe", "patch"}

Errors == {"none", "terminal", "external", "retry"}

NoStatus == [obsGen |-> 0, url |-> None, conds |-> None]

\* None stands for what is absent: a WebApp, an object, a condition list.
ASSUME NoneAssumption == None \notin WebApp \cup Object \cup Conditions

TypeOK ==
  /\ webapp \in WebApp \cup {None}
  /\ objs \in [Kinds -> Objects]
  /\ scale \in Scale
  /\ undelivered \subseteq Kinds
  /\ policies \in PolicySets
  /\ nextUid \in Nat
  /\ cachedApp \in WebApp \cup {None}
  /\ appFresh \in BOOLEAN
  /\ cachedObjs \in [Kinds -> Objects]
  /\ cachedScale \in Scale
  /\ queued \in BOOLEAN
  /\ delayed \in BOOLEAN
  /\ pc \in Steps
  /\ kind \in Kinds
  /\ app \in WebApp \cup {None}
  /\ (pc # "idle") => (app # None)
  /\ fresh \in BOOLEAN
  /\ locked \in BOOLEAN
  /\ hold \in Nat \cup {None}
  /\ want \in Status
  /\ err \in Errors
  /\ metered \in BOOLEAN
  /\ skipped \subseteq Nat \X Kinds
  /\ budget \in [Events -> Nat]

Init ==
  /\ webapp = None
  /\ objs = [k \in Kinds |-> None]
  /\ scale = NoScale
  /\ undelivered = {}
  /\ policies \in PolicySets
  /\ nextUid = 1
  /\ cachedApp = None /\ appFresh = TRUE
  /\ cachedObjs = [k \in Kinds |-> None]
  /\ cachedScale = NoScale
  /\ queued = FALSE /\ delayed = FALSE
  /\ pc = "idle" /\ kind = "Deployment" /\ app = None
  /\ fresh = FALSE /\ locked = FALSE
  /\ hold = None /\ want = NoStatus /\ err = "none"
  /\ metered = FALSE /\ skipped = {}
  /\ budget \in Budgets

\* One of the bounded outside events.
Spend(e) ==
  /\ budget[e] > 0
  /\ budget' = [budget EXCEPT ![e] = @ - 1]

-------------------------------------------------------------------------------
(* The course of a pass *)

\* The count to hold is of no use once the Deployment has been applied.
Goto(step, k) ==
  /\ pc' = step
  /\ kind' = k
  /\ hold' = IF pc = "apply" THEN None ELSE hold
  /\ UNCHANGED <<app, fresh, locked, want, err>>
  /\ UNCHANGED queueVars

\* Mutant: a step whose call failed does not return.
EndPassOnce(again) ==
  /\ pc' = IF again THEN pc ELSE "idle"
  /\ kind' = "Deployment" /\ app' = None
  /\ fresh' = FALSE /\ locked' = FALSE
  /\ hold' = None /\ want' = NoStatus /\ err' = "none"
  /\ delayed' = (delayed \/ again)
  /\ UNCHANGED queued

\* The pass returns; with again it also asks for a later one, by its error
\* (back-off) or by RequeueAfter.
EndPass(again) ==
  /\ pc' = "idle" /\ kind' = "Deployment" /\ app' = None
  /\ fresh' = FALSE /\ locked' = FALSE
  /\ hold' = None /\ want' = NoStatus /\ err' = "none"
  /\ delayed' = (delayed \/ again)
  /\ UNCHANGED queued

\* Mutant: a pass that failed has observed the generation all the same.
FailObserved(e) ==
  /\ pc' = "patch" /\ kind' = "Deployment"
  /\ err' = e
  /\ want' = [obsGen |-> app.gen,
              url    |-> IngressURL(app.spec),
              conds  |-> ApplyReconcileFailure(app.gen, app.status.conds)]
  /\ UNCHANGED <<app, fresh, locked, hold, queueVars>>

\* Mutant: what somebody else has to change is taken for final.
FailForGood(e) ==
  /\ pc' = "patch" /\ kind' = "Deployment"
  /\ err' = IF e = "external" THEN "terminal" ELSE e
  /\ want' = [obsGen |-> app.status.obsGen,
              url    |-> IngressURL(app.spec),
              conds  |-> ApplyReconcileFailure(app.gen, app.status.conds)]
  /\ UNCHANGED <<app, fresh, locked, hold, queueVars>>

\* sync returned an error: the failure is recorded before the pass returns.
Fail(e) ==
  /\ pc' = "patch" /\ kind' = "Deployment"
  /\ err' = e
  /\ want' = [obsGen |-> app.status.obsGen,
              url    |-> IngressURL(app.spec),
              conds  |-> ApplyReconcileFailure(app.gen, app.status.conds)]
  /\ UNCHANGED <<app, fresh, locked, hold>>
  /\ UNCHANGED queueVars

\* syncIngress and syncHPA apply the object if the spec wants it, or delete it.
SyncKind(k) == Goto(IF Wants(k, app.spec) THEN "adopt" ELSE "prune", k)

\* What follows once the object of this kind is in place.
AfterObject ==
  CASE kind = "Deployment" -> Goto("apply", "Service")
    [] kind = "Service" -> SyncKind("Ingress")
    [] kind = "Ingress" -> SyncKind("HPA")
    [] kind = "HPA" -> Goto("observe", "Deployment")

\* Mutant: finalize forgets the Service.
AfterFinalizedButService ==
  CASE kind = "Ingress" -> Goto("finalize", "HPA")
    [] kind \in {"HPA", "Service"} -> Goto("finalize", "Deployment")
    [] kind = "Deployment" -> Goto("release", "Deployment")

AfterFinalized ==
  CASE kind = "Ingress" -> Goto("finalize", "HPA")
    [] kind = "HPA" -> Goto("finalize", "Service")
    [] kind = "Service" -> Goto("finalize", "Deployment")
    [] kind = "Deployment" -> Goto("release", "Deployment")

AfterPrune == IF pc = "prune" THEN AfterObject ELSE AfterFinalized

\* Mutant: an error outside sync is swallowed.
CallErrorIgnored ==
  IF pc \in {"policy", "adopt", "apply", "prune"}
  THEN Fail("retry")
  ELSE EndPass(FALSE)

\* What a failed call of this step leads to: sync's errors are recorded in
\* status, those of every other step end the pass at once.
CallError ==
  IF pc \in {"policy", "adopt", "apply", "prune"}
  THEN Fail("retry")
  ELSE EndPass(TRUE)

\* The steps that call the API server, and so may be answered with an error.
Calling ==
  \/ pc \in {"addFinalizer", "policy", "adopt", "apply", "patch", "release"}
  \/ /\ pc \in {"prune", "finalize"}
     /\ ControlledBy(cachedObjs[kind], app.uid)

\* A write took effect: the worker goes on, or never hears of it.
Reply(next) ==
  \/ next /\ UNCHANGED budget
  \/ Spend("fault") /\ CallError

\* The watch of an owned kind will say that an object changed, to whoever
\* controls it by the old or by the new copy.
ObjectEvents ==
  undelivered' = undelivered \cup
    {k \in Kinds :
       /\ \/ View(objs'[k]) # View(objs[k])
          \/ k = "Deployment" /\ scale' # scale
       /\ OwnedByWebApp(View(objs[k])) \/ OwnedByWebApp(View(objs'[k]))}

\* Every change of the live WebApp gives it a new resource version.
OutdateCopies == appFresh' = FALSE /\ fresh' = FALSE

-------------------------------------------------------------------------------
(* The worker *)

\* Mutant: objects are applied before the finalizer is stored.
BeginPassUnfinalized ==
  /\ pc = "idle" /\ queued
  /\ queued' = FALSE
  /\ IF cachedApp = None
     THEN UNCHANGED passVars
     ELSE /\ app' = cachedApp
          /\ fresh' = appFresh
          /\ pc' = IF cachedApp.deleting THEN "finalize" ELSE "policy"
          /\ kind' = IF cachedApp.deleting THEN "Ingress" ELSE "Deployment"
          /\ UNCHANGED <<locked, hold, want, err>>
  /\ metered' = (metered /\ cachedApp # None)
  /\ UNCHANGED <<serverVars, cacheVars, delayed, skipped, budget>>

\* reconcile, up to its first write: the WebApp is read from the cache.
BeginPass ==
  /\ pc = "idle" /\ queued
  /\ queued' = FALSE
  /\ IF cachedApp = None \/ (cachedApp.deleting /\ ~cachedApp.fin)
     THEN UNCHANGED passVars
     ELSE /\ app' = cachedApp
          /\ fresh' = appFresh
          /\ pc' = IF cachedApp.deleting THEN "finalize"
                   ELSE IF cachedApp.fin THEN "policy" ELSE "addFinalizer"
          /\ kind' = IF cachedApp.deleting THEN "Ingress" ELSE "Deployment"
          /\ UNCHANGED <<locked, hold, want, err>>
  /\ metered' = (metered /\ cachedApp # None)
  /\ UNCHANGED <<serverVars, cacheVars, delayed, skipped, budget>>

\* Mutant: the finalizer is patched in, whatever the live resource version is.
AddFinalizerUnchecked ==
  /\ pc = "addFinalizer"
  /\ webapp # None
  /\ webapp' = [webapp EXCEPT !.fin = TRUE]
  /\ appFresh' = FALSE
  /\ app' = [app EXCEPT !.fin = TRUE]
  /\ pc' = "policy" /\ locked' = TRUE
  /\ UNCHANGED <<kind, fresh, hold, want, err, queueVars, budget, objectVars,
                 policies, nextUid, cachedApp, cachedObjs, cachedScale, recordVars>>

\* Update carries the resource version that was read; its answer is decoded
\* into the worker's copy, while the base of the status patch keeps the old one.
AddFinalizer ==
  /\ pc = "addFinalizer"
  /\ IF fresh
     THEN /\ webapp' = [webapp EXCEPT !.fin = TRUE]
          /\ appFresh' = FALSE
          /\ \/ /\ app' = [app EXCEPT !.fin = TRUE]
                /\ pc' = "policy" /\ locked' = TRUE
                /\ UNCHANGED <<kind, fresh, hold, want, err, queueVars, budget>>
             \/ Spend("fault") /\ CallError
     ELSE EndPass(TRUE) /\ UNCHANGED <<webapp, appFresh, budget>>
  /\ UNCHANGED <<objectVars, policies, nextUid, cachedApp, cachedObjs,
                 cachedScale, recordVars>>

ReplicasOwnedByOther(s) == "other" \in s.managers

\* Mutant: an autoscaled Deployment's count is dropped at once.
ReplicaHoldNever == None

\* The count the operator keeps applying until another manager owns the field;
\* read from the cache.
ReplicaHold ==
  IF cachedObjs["Deployment"] = None \/ ReplicasOwnedByOther(cachedScale)
  THEN None ELSE cachedScale.replicas

\* Policies are listed live; then the objects are built.
EnforceScalePolicy ==
  /\ pc = "policy"
  /\ IF EvaluateScale(app.spec, policies) # {} THEN Fail("external")
     ELSE IF ~Buildable("Service", app.spec) THEN Fail("terminal")
     ELSE /\ hold' = IF WantsHPA(app.spec) THEN ReplicaHold
                                           ELSE DesiredReplicas(app.spec)
          /\ pc' = "adopt" /\ kind' = "Deployment"
          /\ UNCHANGED <<app, fresh, locked, want, err, queueVars>>
  /\ UNCHANGED <<serverVars, cacheVars, recordVars, budget>>

\* A live read: an object that exists must be controlled by this WebApp.
AssertAdoptable ==
  /\ pc = "adopt"
  /\ IF ~Buildable(kind, app.spec) THEN Fail("terminal")
     ELSE IF objs[kind] # None /\ ~ControlledBy(objs[kind], app.uid)
     THEN Fail("external")
     ELSE IF kind = "Deployment" THEN Goto("adopt", "Service")
     ELSE IF kind = "Service" THEN Goto("apply", "Deployment")
     ELSE Goto("apply", kind)
  /\ UNCHANGED <<serverVars, cacheVars, recordVars, budget>>

\* Server-side apply with ForceOwnership of what was built from app.spec.
Apply ==
  /\ pc = "apply"
  /\ IF Refuses(objs[kind])
     THEN Fail("retry") /\ UNCHANGED <<objs, scale, budget>>
     ELSE LET content == Content(kind, app.spec)
          IN  /\ objs' = [objs EXCEPT ![kind] =
                   [owner |-> app.uid, labelled |-> TRUE, content |-> content]]
              /\ scale' = IF kind = "Deployment"
                          THEN AppliedScale(objs[kind], scale, content, hold)
                          ELSE scale
              /\ Reply(AfterObject)
  /\ ObjectEvents
  /\ UNCHANGED <<webapp, policies, nextUid, cacheVars, recordVars>>

\* deleteOwned: the cached copy decides, and the object of that name goes. In
\* sync it removes an object the spec has stopped wanting, in finalize all four.
\* The read and the Delete are one step: a delivery between them can as well be
\* made after the Delete, and nothing else looks at the cache.
DeleteOwned ==
  /\ pc \in {"prune", "finalize"}
  /\ IF ControlledBy(cachedObjs[kind], app.uid)
     THEN /\ objs' = [objs EXCEPT ![kind] = None]
          /\ scale' = IF kind = "Deployment" THEN NoScale ELSE scale
          /\ Reply(AfterPrune)
          /\ UNCHANGED skipped
     ELSE /\ AfterPrune
          /\ skipped' = IF pc = "finalize" THEN skipped \cup {<<app.uid, kind>>}
                        ELSE skipped
          /\ UNCHANGED <<objs, scale, budget>>
  /\ ObjectEvents
  /\ UNCHANGED <<webapp, policies, nextUid, cacheVars, metered>>

\* reconcile after sync: the status follows from the cached Deployment.
Observe ==
  /\ pc = "observe"
  /\ want' = [obsGen |-> app.gen,
              url    |-> IngressURL(app.spec),
              conds  |-> IF cachedObjs["Deployment"] = None
                         THEN ApplyNoDeploymentConditions(app.gen)
                         ELSE ApplyDeploymentConditions(app.gen, cachedScale)]
  /\ pc' = "patch"
  /\ UNCHANGED <<kind, app, fresh, locked, hold, err>>
  /\ UNCHANGED <<serverVars, cacheVars, queueVars, recordVars, budget>>

\* Mutant: the status is written as a whole.
OverwriteStatus(live, base, new) == new

\* A merge patch holds the fields in which the wanted status differs from the
\* status that was read; the condition list is one field.
MergePatch(live, base, new) ==
  [obsGen |-> IF new.obsGen # base.obsGen THEN new.obsGen ELSE live.obsGen,
   url    |-> IF new.url # base.url THEN new.url ELSE live.url,
   conds  |-> IF new.conds # base.conds THEN new.conds ELSE live.conds]

\* updateStatus: metrics, then the patch. It fails if the WebApp is gone, or
\* has changed since this pass added the finalizer to it.
UpdateStatus ==
  /\ pc = "patch"
  /\ metered' = TRUE
  /\ IF webapp = None \/ (locked /\ ~fresh)
     THEN EndPass(TRUE) /\ UNCHANGED <<webapp, appFresh, budget>>
     ELSE LET status == MergePatch(webapp.status, app.status, want)
          IN  /\ webapp' = [webapp EXCEPT !.status = status]
              /\ appFresh' = (appFresh /\ status = webapp.status)
              /\ Reply(EndPass(err \in {"external", "retry"}))
  /\ UNCHANGED <<objectVars, policies, nextUid, cachedApp, cachedObjs,
                 cachedScale, skipped>>

\* The end of finalize: Forget, then an Update without the finalizer.
RemoveFinalizer ==
  /\ pc = "release"
  /\ metered' = FALSE
  /\ IF fresh
     THEN /\ webapp' = None
          /\ appFresh' = FALSE
          /\ Reply(EndPass(FALSE))
     ELSE EndPass(TRUE) /\ UNCHANGED <<webapp, appFresh, budget>>
  /\ UNCHANGED <<objectVars, policies, nextUid, cachedApp, cachedObjs,
                 cachedScale, skipped>>

\* A call is answered with an error and has changed nothing. updateStatus and
\* finalize have already touched the metrics by then.
CallFails ==
  /\ Calling
  /\ Spend("fault")
  /\ CallError
  /\ metered' = (pc = "patch" \/ (metered /\ pc # "release"))
  /\ UNCHANGED <<serverVars, cacheVars, skipped>>

Worker ==
  \/ BeginPass
  \/ AddFinalizer
  \/ EnforceScalePolicy
  \/ AssertAdoptable
  \/ Apply
  \/ DeleteOwned
  \/ Observe
  \/ UpdateStatus
  \/ RemoveFinalizer
  \/ CallFails

-------------------------------------------------------------------------------
(* Caches and timers *)

\* Mutant: only a new generation enqueues.
DeliverAppOnGeneration ==
  /\ ~appFresh
  /\ cachedApp' = webapp /\ appFresh' = TRUE
  /\ queued' = (queued \/ (webapp # None /\ cachedApp = None)
                       \/ (webapp # None /\ cachedApp # None
                             /\ webapp.gen # cachedApp.gen))
  /\ UNCHANGED <<serverVars, cachedObjs, cachedScale, delayed, passVars,
                 recordVars, budget>>

\* The informer delivers the live WebApp: every event enqueues.
DeliverApp ==
  /\ ~appFresh
  /\ cachedApp' = webapp /\ appFresh' = TRUE
  /\ queued' = TRUE
  /\ UNCHANGED <<serverVars, cachedObjs, cachedScale, delayed, passVars,
                 recordVars, budget>>

\* Mutant: the controller does not own Ingresses.
DeliverButIngress(k) ==
  /\ \/ k \in undelivered
     \/ cachedObjs[k] # View(objs[k])
     \/ k = "Deployment" /\ cachedScale # ViewScale(objs[k], scale)
  /\ cachedObjs' = [cachedObjs EXCEPT ![k] = View(objs[k])]
  /\ cachedScale' = IF k = "Deployment" THEN ViewScale(objs[k], scale)
                    ELSE cachedScale
  /\ queued' = (queued \/ k \in undelivered \ {"Ingress"})
  /\ undelivered' = undelivered \ {k}
  /\ UNCHANGED <<webapp, objs, scale, policies, nextUid, cachedApp, appFresh,
                 delayed, passVars, recordVars, budget>>

\* The informer of an owned kind delivers what the watch holds; an event about a
\* controlled object enqueues its WebApp.
Deliver(k) ==
  /\ \/ k \in undelivered
     \/ cachedObjs[k] # View(objs[k])
     \/ k = "Deployment" /\ cachedScale # ViewScale(objs[k], scale)
  /\ cachedObjs' = [cachedObjs EXCEPT ![k] = View(objs[k])]
  /\ cachedScale' = IF k = "Deployment" THEN ViewScale(objs[k], scale)
                    ELSE cachedScale
  /\ queued' = (queued \/ k \in undelivered)
  /\ undelivered' = undelivered \ {k}
  /\ UNCHANGED <<webapp, objs, scale, policies, nextUid, cachedApp, appFresh,
                 delayed, passVars, recordVars, budget>>

TimerFires ==
  /\ delayed
  /\ delayed' = FALSE /\ queued' = TRUE
  /\ UNCHANGED <<serverVars, cacheVars, passVars, recordVars, budget>>

\* The process restarts (or the lease moves): the pass, the queue and the
\* series are lost, the informers list afresh and enqueue what they find.
Crash ==
  /\ Spend("crash")
  /\ pc' = "idle" /\ kind' = "Deployment" /\ app' = None
  /\ fresh' = FALSE /\ locked' = FALSE
  /\ hold' = None /\ want' = NoStatus /\ err' = "none"
  /\ cachedApp' = webapp /\ appFresh' = TRUE
  /\ cachedObjs' = [k \in Kinds |-> View(objs[k])]
  /\ cachedScale' = ViewScale(objs["Deployment"], scale)
  /\ delayed' = FALSE
  /\ queued' = (webapp # None \/ \E k \in Kinds : OwnedByWebApp(View(objs[k])))
  /\ metered' = FALSE
  /\ undelivered' = {}
  /\ UNCHANGED <<webapp, objs, scale, policies, nextUid, skipped>>

-------------------------------------------------------------------------------
(* Users and other controllers *)

Create(spec) ==
  /\ Spend("create")
  /\ webapp = None
  /\ webapp' = [uid |-> nextUid, gen |-> 1, deleting |-> FALSE, fin |-> FALSE,
                spec |-> spec, status |-> NoStatus]
  /\ nextUid' = nextUid + 1
  /\ OutdateCopies
  /\ UNCHANGED <<objectVars, policies, cachedApp, cachedObjs, cachedScale,
                 queueVars, pc, kind, app, locked, hold, want, err, recordVars>>

\* A write of the spec, the scale subresource included. Admission is not
\* assumed: the scale subresource passes it by, and policies change later.
Edit(spec) ==
  /\ Spend("edit")
  /\ webapp # None
  /\ webapp.spec # spec
  /\ webapp' = [webapp EXCEPT !.spec = spec, !.gen = @ + 1]
  /\ OutdateCopies
  /\ UNCHANGED <<objectVars, policies, nextUid, cachedApp, cachedObjs,
                 cachedScale, queueVars, pc, kind, app, locked, hold, want, err,
                 recordVars>>

\* With a finalizer in place a deletion is only recorded.
Delete ==
  /\ Spend("delete")
  /\ webapp # None
  /\ ~webapp.deleting
  /\ webapp' = IF webapp.fin
               THEN [webapp EXCEPT !.deleting = TRUE, !.gen = @ + 1]
               ELSE None
  /\ OutdateCopies
  /\ UNCHANGED <<objectVars, policies, nextUid, cachedApp, cachedObjs,
                 cachedScale, queueVars, pc, kind, app, locked, hold, want, err,
                 recordVars>>

OutsideChange ==
  /\ ObjectEvents
  /\ UNCHANGED <<webapp, nextUid, cacheVars, queueVars, passVars, recordVars>>

\* Somebody else creates an object of the same name.
Foreign(k, owner) ==
  /\ Spend("tamper")
  /\ objs[k] = None
  /\ objs' = [objs EXCEPT ![k] =
       [owner |-> owner, labelled |-> FALSE, content |-> None]]
  /\ scale' = IF k = "Deployment"
              THEN [replicas |-> 1, managers |-> {"other"}, observed |-> TRUE,
                    health |-> "ready"]
              ELSE scale
  /\ UNCHANGED policies /\ OutsideChange

Gone(k) ==
  /\ objs' = [objs EXCEPT ![k] = None]
  /\ scale' = IF k = "Deployment" THEN NoScale ELSE scale
  /\ UNCHANGED policies /\ OutsideChange

Remove(k) ==
  /\ Spend("tamper")
  /\ objs[k] # None
  /\ Gone(k)

\* The garbage collector removes what a WebApp that is gone controls.
Collect(k) ==
  /\ OwnedByWebApp(objs[k])
  /\ webapp # None => webapp.uid # objs[k].owner
  /\ Gone(k) /\ UNCHANGED budget

\* A field the operator sets is changed under it.
Drift(k) ==
  /\ Spend("tamper")
  /\ objs[k] # None
  /\ objs[k].content # None
  /\ objs' = [objs EXCEPT ![k].content = None]
  /\ scale' = [scale EXCEPT !.observed = @ /\ k # "Deployment"]
  /\ UNCHANGED policies /\ OutsideChange

\* The managed-by label is taken off: the informer loses sight of the object.
Strip(k) ==
  /\ Spend("tamper")
  /\ objs[k] # None
  /\ objs[k].labelled
  /\ objs' = [objs EXCEPT ![k].labelled = FALSE]
  /\ UNCHANGED <<scale, policies>> /\ OutsideChange

\* The HorizontalPodAutoscaler writes the count within its bounds, unless the
\* Deployment is at zero.
Autoscale(n) ==
  /\ Spend("autoscale")
  /\ objs["HPA"] # None /\ objs["Deployment"] # None
  /\ objs["HPA"].content # None
  /\ n \in 1 .. objs["HPA"].content.max
  /\ scale.replicas \notin {0, n}
  /\ scale' = [scale EXCEPT !.replicas = n, !.managers = {"other"},
                            !.observed = FALSE]
  /\ UNCHANGED <<objs, policies>> /\ OutsideChange

\* The Deployment controller catches up with the spec and reports.
Rollout(health) ==
  /\ Spend("rollout")
  /\ objs["Deployment"] # None
  /\ scale' = [scale EXCEPT !.observed = TRUE, !.health = health]
  /\ scale' # scale
  /\ UNCHANGED <<objs, policies>> /\ OutsideChange

ChangePolicies(ps) ==
  /\ Spend("policy")
  /\ ps # policies
  /\ policies' = ps
  /\ UNCHANGED <<objs, scale>> /\ OutsideChange

Counts == UNION {1 .. s.maxReplicas : s \in {t \in Specs : t.maxReplicas # None}}

Outside ==
  \/ \E s \in Specs : Create(s) \/ Edit(s)
  \/ Delete
  \/ \E k \in Kinds : \/ \E owner \in {None, Other} : Foreign(k, owner)
                      \/ Remove(k)
                      \/ Drift(k)
                      \/ Strip(k)
  \/ \E n \in Counts : Autoscale(n)
  \/ \E h \in Health \ {"silent"} : Rollout(h)
  \/ \E ps \in PolicySets : ChangePolicies(ps)
  \/ Crash

Next ==
  \/ Worker
  \/ DeliverApp
  \/ \E k \in Kinds : Deliver(k) \/ Collect(k)
  \/ TimerFires
  \/ Outside

Spec == Init /\ [][Next]_vars

\* The worker keeps running, informers deliver, timers fire, and the garbage
\* collector works; nobody else owes anything.
Fairness ==
  /\ WF_vars(Worker)
  /\ WF_vars(DeliverApp)
  /\ \A k \in Kinds : WF_vars(Deliver(k)) /\ WF_vars(Collect(k))
  /\ WF_vars(TimerFires)

FairSpec == Spec /\ Fairness

===============================================================================
