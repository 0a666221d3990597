------------------------- MODULE ControllerProperties -------------------------
(***************************************************************************)
(* What the WebApp controller is for.  The first part holds; the last part *)
(* states what the repository's documents and comments say of the program  *)
(* where the code, with a cache that lags, does otherwise.                 *)
(***************************************************************************)
EXTENDS WebAppController

InPlace(k) ==
  objs[k] = [owner |-> webapp.uid, labelled |-> TRUE,
             content |-> Content(k, webapp.spec)]

CanBuildAll == \A k \in Kinds : Wants(k, webapp.spec) => Buildable(k, webapp.spec)

\* The operator's count is enforced, or some manager owns it: a count nobody
\* owns would fall back to 1 at the next chance.
CountInPlace ==
  IF WantsHPA(webapp.spec) THEN scale.managers # {}
  ELSE scale.replicas = DesiredReplicas(webapp.spec)

\* Everything is as the spec wants it and the status says so. An unwanted
\* object stays only if its label was taken off, so that no informer shows it.
InSync ==
  /\ \A k \in Kinds :
       IF Wants(k, webapp.spec) THEN InPlace(k)
       ELSE ControlledBy(objs[k], webapp.uid) => ~objs[k].labelled
  /\ CountInPlace
  /\ webapp.status = [obsGen |-> webapp.gen,
                      url    |-> IngressURL(webapp.spec),
                      conds  |-> ApplyDeploymentConditions(webapp.gen, scale)]

FailureRecorded ==
  /\ webapp.status.conds # None
  /\ webapp.status.conds.ready = "ReconcileFailed"
  /\ webapp.status.conds.gen = webapp.gen
  /\ webapp.status.url = IngressURL(webapp.spec)
  /\ Degraded(webapp.status.conds)

\* What the operator waits for somebody else to change.
Obstructed ==
  \/ EvaluateScale(webapp.spec, policies) # {}
  \/ \E k \in Kinds : /\ Wants(k, webapp.spec)
                      /\ objs[k] # None
                      /\ ~ControlledBy(objs[k], webapp.uid)

SettledUnless(excuse) ==
  IF webapp = None THEN ~metered
  ELSE /\ ~webapp.deleting /\ webapp.fin /\ metered
       /\ InSync \/ (excuse /\ FailureRecorded)

Quiescent ==
  /\ pc = "idle" /\ ~queued /\ ~delayed /\ appFresh /\ undelivered = {}
  /\ \A k \in Kinds : cachedObjs[k] = View(objs[k])
  /\ cachedScale = ViewScale(objs["Deployment"], scale)

-------------------------------------------------------------------------------
(* The WebApp as ManagedWebApp sees it *)

ManagedApp ==
  IF webapp = None THEN None
  ELSE [uid      |-> webapp.uid,
        gen      |-> webapp.gen,
        stage    |-> IF webapp.deleting THEN "terminating"
                     ELSE IF webapp.fin THEN "protected" ELSE "plain",
        reported |-> webapp.status.obsGen]

Ownership ==
  {<<objs[k].owner, k>> : k \in {j \in Kinds : OwnedByWebApp(objs[j])}}

Managed == INSTANCE ManagedWebApp
             WITH app <- ManagedApp, owns <- Ownership, missed <- skipped

ASSUME ManagedAssumption == None \notin Managed!WebApp

-------------------------------------------------------------------------------
(* What holds *)

\* Caches that lag, lost replies, restarts and passes with an old copy are
\* nothing a user can tell from ManagedWebApp: every step of the controller and
\* of its surroundings is one of its steps, or none.
ImplementsManaged == Managed!Spec

\* When nothing is left to do (no request queued, no timer running, no event
\* under way), the cluster matches the live spec, whatever the interleaving,
\* drift, lost replies and restarts before: an event that should have enqueued
\* was not missed, and a patch computed from a stale base did not stick. The one
\* excuse is a spec that cannot be built, which is recorded and not retried; a
\* deletion is never left half way and no metrics series outlives its WebApp.
QuiescentConverged == Quiescent => SettledUnless(~CanBuildAll)

\* While a pass is syncing, the WebApp it read is still the live one and holds
\* the finalizer: a stale cache or a WebApp deleted and created again under the
\* same name never makes the operator write objects or status for a dead uid.
WorksOnLiveIncarnation ==
  pc \in SyncSteps => /\ webapp # None
                      /\ webapp.uid = app.uid
                      /\ webapp.fin

\* The live WebApp owns nothing before its finalizer is stored, so that a
\* deletion always passes through finalize.
FinalizerCoversOwned ==
  webapp # None =>
    \A k \in Kinds : ControlledBy(objs[k], webapp.uid) => webapp.fin

\* An object left behind by a WebApp that is gone is one whose cached copy was
\* missing when finalize came to its kind; failed and lost deletes leave none.
OrphansOnlySkipped ==
  \A k \in Kinds :
    /\ OwnedByWebApp(objs[k])
    /\ webapp = None \/ webapp.uid # objs[k].owner
    => <<objs[k].owner, k>> \in skipped

\* status.observedGeneration = metadata.generation is only ever reported when
\* every object that generation wants has been applied, and no later pass with
\* an older copy undoes it (for runs in which nobody else writes the objects).
ObservedMeansApplied ==
  (webapp # None /\ webapp.status.obsGen = webapp.gen) =>
    \A k \in Kinds : Wants(k, webapp.spec) => InPlace(k)

\* The generation a status reports never goes back while the WebApp lives.
ObservedGenerationMonotone ==
  [][(webapp # None /\ webapp' # None /\ webapp'.uid = webapp.uid)
       => webapp'.status.obsGen >= webapp.status.obsGen]_vars

\* Under policies that do not change, neither the scale subresource, nor an
\* autoscaler, nor a count held over from a stale cached Deployment takes an
\* owned Deployment above an enforced ceiling.
CeilingHolds ==
  \A p \in policies :
    Enforced(p) /\ p.maxReplicas # None =>
      /\ OwnedByWebApp(objs["Deployment"]) => scale.replicas <= p.maxReplicas
      /\ (OwnedByWebApp(objs["HPA"]) /\ objs["HPA"].content # None)
           => objs["HPA"].content.max <= p.maxReplicas

\* A deletion that was asked for happens, whatever fails on the way.
DeletionCompletes ==
  (webapp # None /\ webapp.deleting) ~> (webapp = None \/ ~webapp.deleting)

\* Once everybody else is quiet the cluster converges to the spec and stays
\* there, or the status says what stands in the way.
Converges == <>[]SettledUnless(~CanBuildAll \/ Obstructed)

-------------------------------------------------------------------------------
(* What the documents say, and a lagging cache refutes *)

\* A step of the worker (a crash of it changes no object).
WorkerStep == <<pc, kind>>' # <<pc, kind>>

\* docs/internals.md, SetReady: "a stale cached status cannot claim the new
\* template is up". A status that is Ready for the current generation describes
\* a Deployment that has the current template and has observed it.
ReadyMeansCurrentTemplate ==
  (webapp # None /\ IsReady(webapp.status.conds)
     /\ webapp.status.conds.gen = webapp.gen)
  => InPlace("Deployment") /\ scale.observed

\* README.md: "Only objects this WebApp controls are touched."
DeletesOnlyOwn ==
  [][\A k \in Kinds :
       (pc \in {"prune", "finalize"} /\ kind = k /\ WorkerStep
          /\ objs[k] # None /\ objs'[k] = None)
       => ControlledBy(objs[k], app.uid)]_vars

\* docs/internals.md, apply: "Forcing is safe only because adoption is checked
\* against live state first." An object that existed before an apply is written
\* only if this WebApp controls it.
AdoptsNothingForeign ==
  [][(pc = "apply" /\ WorkerStep /\ objs[kind] # None /\ objs' # objs)
       => ControlledBy(objs[kind], app.uid)]_vars

\* docs/internals.md, sync: it builds and checks everything before applying
\* anything, so that a WebApp that cannot produce a valid set "does not leave
\* half of one behind". A pass that fails on a WebApp nothing was ever applied
\* for with success leaves no object of it.
NoHalfSet ==
  (pc = "patch" /\ err \in {"terminal", "external"} /\ app.status.obsGen = 0)
  => \A k \in Kinds : ~ControlledBy(objs[k], app.uid)

===============================================================================
