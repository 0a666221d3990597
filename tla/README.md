# Warp-CRD: a TLA+ model of the WebApp operator

Warp-CRD is a Kubernetes operator. A user writes a `WebApp`; the operator keeps a
Deployment, a Service and, if wanted, an Ingress and a HorizontalPodAutoscaler
for it, reports in `status`, and cleans up through a finalizer. `WebAppPolicy`
objects limit what a WebApp may ask for. This directory holds a model of the
operator, its model-checking runs, and proofs.

- [1. The system](#1-the-system)
- [2. Modules](#2-modules)
- [3. Runs](#3-runs)
- [4. Fairness](#4-fairness)
- [5. What is proved](#5-what-is-proved)
- [6. Where the documents and the code part](#6-where-the-documents-and-the-code-part)
- [7. Abstractions and what is not modelled](#7-abstractions-and-what-is-not-modelled)
- [8. Plan](#8-plan)

## 1. The system

| Part | State | Operations | Correct when |
|---|---|---|---|
| WebApp controller (`internal/controller/webapp_controller.go`, `apply.go`) | none of its own; a pass holds a copy of the WebApp | `Reconcile`: finalizer, scale policy, adoption checks, server-side apply of four kinds, deletion of unwanted ones, status patch; `finalize` | the cluster converges to the live spec; a dead incarnation is never worked for; a deletion leaves nothing behind unseen |
| Conditions (`conditions.go`) | four conditions in `status` | from a Deployment, from none, from an error | Ready follows the current template; a failure is recorded and keeps what was known |
| Scale policy (`internal/policy`) | the live WebAppPolicies | `EvaluateScale` on each pass; `Evaluate` and `Validate` in admission | an enforced ceiling is never passed, through whatever path the count arrives |
| Resource builders (`internal/resources`) | pure | names, labels, ports, pod template, HPA | an object that is built is accepted; equal specs build equal objects |
| Informer caches and queue (`cmd/main.go`, controller-runtime) | cached WebApp and managed objects; queued and delayed requests | deliveries, timers, relist at start | every change that needs a pass gets one |
| Metrics (`internal/metrics`) | series per WebApp | set, `Forget` | no series outlives its WebApp |
| Admission (`internal/webhook`) | none | defaulting, validation, policies, for WebApps and for policies | what it admits can be built, is accepted and works; it never blocks a deletion, and installing it changes no running object |
| Leader election (`cmd/main.go`) | a lease | a second manager takes over from one that stalls | the late calls of the first do no lasting harm |
| API types (`api/v1alpha1`) | schema and CEL rules | defaults, list keys, rules between fields | the scale subresource always finds a count |
| Manifests, `hack/`, build files | static | — | — |

The controller reads the WebApp, the Deployment whose status it reports and the
objects it may delete from caches that lag; it lists policies and checks adoption
live. It writes with server-side apply under forced ownership, Delete by name, Update with
a resource version for the finalizer, and a merge patch for the status. Between
any two of these calls users, the autoscaler, the Deployment controller, the
garbage collector and others write the same objects. That is what is hard in this
code: no test waits for a stale cache at the one call where it matters.
`PROJECT.json` lists each hazard with its line and the properties that would
catch it.

## 2. Modules

| Module | Models |
|---|---|
| `WebAppResources` | what the builders make of a spec as far as the controller branches on it: which kinds are wanted, which can be built, the replica count, an object's content |
| `WebAppConditions` | the condition list as a function of the Deployment |
| `ScalePolicy` | `EvaluateScale` with `Matches`, `record` and `replicaViolations` |
| `KubeObjects` | the API server as the operator uses it: owners, the label-scoped view of an informer, replica-field ownership under server-side apply (external) |
| `WebAppController` | the worker, its queue and caches, and everybody else, for one namespaced name |
| `ControllerProperties` | the properties, and the WebApp as `ManagedWebApp` sees it |
| `ManagedWebApp` | the abstract specification: a WebApp's life cycle without caches, passes, calls or failures |
| `WebAppHandover` | two managers at once: `WebAppController` instantiated a second time over the same server |
| `WebAppManifests` | the builders in detail: ports and their names, backend port, strategy, scratch volumes, HPA |
| `WebAppPolicies` | every rule of a policy, and the check of a policy itself |
| `WebAppAdmission` | the schema, the webhooks, and the requests the API server does and does not send to them |
| `MCController`, `MCHandover`, `MCAdmission` | constants for TLC |
| `ControllerTypes`, `ControllerIncarnation`, `ControllerRefinement`, `ControllerCeiling`, `ControllerConvergence`, `ControllerObserved` | theorems and proofs about one manager |
| `HandoverConvergence` | the proof that two managers converge |
| `AdmissionTheorems` | theorems and proofs about the webhooks and the builders |

`WebAppController` extends `ScalePolicy` and `KubeObjects`, which rest on
`WebAppResources` and `WebAppConditions`. `WebAppAdmission` extends `WebAppPolicies`,
which joins `ScalePolicy` and `WebAppManifests`. Controller and admission meet in
`WebAppResources` and `ScalePolicy`: a spec of admission is one of the controller whose template is
a record instead of a model value, and `ReviewedIsBuildable` and
`ReviewedWithinCeiling` state that what admission lets in passes the very operators
(`Buildable`, `EvaluateScale`) the controller asks. The controller itself does not rely on
admission: its `Edit` writes any spec, since webhooks may be absent and the scale
subresource passes them by. controller-runtime runs one
pass at a time per name and the operator shares no other state between names, so
one name is the whole concurrency of the controller.

State and code correspond as follows.

| Variables | Code |
|---|---|
| `webapp`, `objs`, `scale`, `policies` | live API objects; `scale` is the Deployment's `spec.replicas`, its managers in `managedFields`, and its status |
| `cachedApp`, `appFresh`, `cachedObjs`, `cachedScale` | the informers; the owned kinds only through the managed-by label (`main.go:79-97`) |
| `undelivered` | owned kinds with a watch event still on its way, so that no event is lost when states coincide |
| `queued`, `delayed` | the work queue; a back-off or `RequeueAfter` timer |
| `pc`, `kind`, `app`, `fresh`, `hold`, `want`, `err` | the pass: program point, object kind, WebApp copy, whether its resource version is current, held replica count, status to patch, class of the error |
| `locked` | the status patch carries a resource version: `base` was copied before `AddFinalizer`'s Update, so the merge patch contains the changed version (`webapp_controller.go:102-112, 386-388`) |
| `metered`, `skipped` | series exported; history of the kinds `finalize` found nothing of |

| Action | Code |
|---|---|
| `BeginPass` | `reconcile` up to its first write |
| `AddFinalizer` | Update with the finalizer |
| `EnforceScalePolicy` | `enforceScalePolicy`, the zero-port check, `replicaHold` |
| `AssertAdoptable` | one live adoption check, after building the object |
| `Apply` | one server-side apply |
| `DeleteOwned` | `deleteOwned`, called by `sync` and by `finalize` |
| `Observe` | the cached Get of the Deployment and the conditions |
| `UpdateStatus` | metrics and the status patch; the end of a pass |
| `RemoveFinalizer` | `Forget` and the last Update |
| `CallFails`, `Reply` | a call answered with an error, and one that took effect but whose reply is lost |
| `DeliverApp`, `Deliver`, `TimerFires`, `Crash` | informers, timers, restart |
| `Create`, `Edit`, `Delete` | users, also through the scale subresource |
| `Foreign`, `Remove`, `Drift`, `Strip`, `Autoscale`, `Rollout`, `Collect`, `ChangePolicies` | everybody else |

`ManagedWebApp` sees of this the WebApp's uid, generation, stage (plain, protected by
the finalizer, terminating) and reported generation, the pairs of a uid and a kind of
object it controls, and the pairs a finalize pass saw nothing of (`ManagedApp`,
`Ownership`, `skipped`). Its steps are `Create`, `Edit`, `Protect`, `Terminate`,
`Report`, `Acquire`, `Lose`, `Miss` and `Release`; a cache delivery, a failed call or
a restart is a stutter.

`WebAppHandover` adds the pass of the former leader (`oldPc`, `oldApp`, ...).
`LoseLease` happens between any two of its calls: the new leader starts as a
restarted process does, the old one goes on with its pass (`OldStep`, the worker's
actions of the instance `Old`) from the caches it had, or exits (`OldStops`). Each
one's writes outdate the other's copies. `main.go:103` leaves leader election to a flag that the
deployed manager sets (`config/manager/manager.yaml:39`).

In `WebAppAdmission` the state is the stored WebApp (spec, finalizer, deletion),
the policies, whether the webhooks are absent, up or down, and histories: under
which policies the stored spec was reviewed, and whether its count was scaled since.

| Action | Code |
|---|---|
| `Create`, `Update` | the mutating webhook (`Default`), the schema, then `ValidateCreate` or `ValidateUpdate` |
| `Touch` | an update with the spec as stored; with `fin` the controller's Update that adds the finalizer |
| `Release` | the controller's Update that removes it |
| `Scale`, `Delete` | writes no webhook is sent |
| `WritePolicy`, `DeletePolicies` | `WebAppPolicyValidator` |
| `SwitchWebhooks` | an install with `--enable-webhooks=false`, an outage under `failurePolicy: Fail`, an installation later |

`Review` is the API server: schema, match conditions (`Consulted`), webhooks, and a
read of policies or namespace that may fail (`readable`).

Definitions marked `Mutant:` are variants of the definition that follows with a plausible
bug. No action uses them; each property of a passing run is violated when one of them
takes its definition's place.

## 3. Runs

The controller's runs use `MCController`. `Budgets` bounds how often each outside event may
happen (a run has one budget, `handover` two); it is the only bound, and what remains is explored completely. There are three templates and one domain;
`bad` is a template that cannot be built. The system may really stop (nothing to
do and no budget left), so deadlock is not checked; `QuiescentConverged` says in
which states it may. The `admission` run checks deadlock: there is always another request.

| Run | Question | Bound |
|---|---|---|
| `lifecycle` | is one incarnation ever taken for another, or anything orphaned unseen? | 2 creations, 1 deletion, 1 fault, 1 restart; two specs |
| `edits` | do the cluster and the status end at the last spec? | 2 edits over three specs, one not buildable; 1 fault |
| `drift` | is every outside change repaired or reported? | 1 change by somebody else, 1 edit, 1 restart; one spec that cannot be built |
| `scaling` | does an enforced ceiling hold, and a count never lose its owner? | 1 edit, 1 autoscaler write, 1 rollout; six policies of every mode |
| `liveness` | does a deletion complete, and the cluster converge? | 2 faults, 1 deletion, 1 policy change, under fairness |
| `handover` | do the late calls of a former leader do lasting harm? | 1 handover, and 1 edit or 1 deletion; two specs |
| `admission` | is what admission lets in built, accepted and working, and is admission in nobody's way later? | about 150 specs, nine policies one at a time; 1 update, 1 scaling, 1 policy, 1 change of the webhooks, any number of touches and deletions |
| `stale_ready`, `stale_delete`, `half_set`, `adoption_gap`, `unchanged` | see section 6 | the smallest that show it |

Why so small is enough: two creations are what confusing incarnations takes, one
fault between any two calls is what a lost reply takes, two edits are what a pass
with an old copy, one with a newer, and a live spec newer still take. An event may
fall between any two calls and any two deliveries, so each run meets hundreds of
thousands of orders. For admission one policy suffices, since violations of several are
united, and two containers are what a collision of ports, names or volumes takes; the
port lists hold explicit names that equal generated ones. The proofs of section 5 have no bound.

What they show:

- `QuiescentConverged` — when no request is queued, no timer runs and no event is
  under way, the cluster matches the spec and the status says so, or the spec
  cannot be built and the status says that. It needs, among other things, that
  the controller has no generation predicate (a mutant that filters
  status-only events lets a patch from a stale base stick), that it owns all four
  kinds, and that a count is held until the autoscaler owns it.
- `WorksOnLiveIncarnation`, `FinalizerCoversOwned`, `OrphansOnlySkipped` — the
  life cycle. An orphan is possible: `finalize` trusts its cache, and an object
  applied just before, or without its label, is skipped. The garbage collector
  removes it later. Nothing else is ever left.
- `ObservedMeansApplied`, `ObservedGenerationMonotone` — a reported generation has
  been applied in full and is never taken back.
- `CeilingHolds` — under policies that do not change. When they do,
  the controller reports the violation and leaves the objects as they are.
- `ImplementsManaged` — every behaviour of the controller is one of `ManagedWebApp`:
  objects are owned under protection of the finalizer only, the reported generation
  is one the WebApp has had and never goes back, and a WebApp that was
  protected goes when all it owns has been let go of or was knowingly missed.
- `QuiescentConverged` in `handover` — with two managers the single-leader properties
  do not hold: the old one may apply for a uid that is gone (the garbage collector
  takes the object) or put an older status over a newer one. But each such write is an
  event, and after the last of them the cluster converges as before. The queue without
  a generation predicate is again what it rests on.
- `ReviewedIsBuildable` — no name and no port twice, also between generated and
  explicit ones; the Ingress finds its port and the HPA its requests.
- `ReviewedWithinCeiling`, `VettedIsSatisfiable` — the two readers of a policy
  agree, and an accepted policy can be satisfied.
- `ReleaseNeverRefused` — deletions complete with the webhooks down.
- `UntouchedIsUnchanged` — installing the webhooks rolls nothing out: each
  default is what the builders took an absent field for.
- `DeletionCompletes`, `Converges` — liveness.

## 4. Fairness

`FairSpec` assumes weak fairness of the worker as a whole, of each delivery, of
timers and of the garbage collector. controller-runtime's worker loop takes every
queued name, an informer with a live watch delivers, `AddAfter` fires, and the
garbage collector is part of every cluster. Nothing is assumed of users, other
controllers, faults or restarts; faults are finite because of the budget, which
is the assumption that the API server answers in the end. The worker's
fairness is on `Worker`: it has one successor step at a time, except that a call
may fail instead, so fairness on the disjunction is enough.

## 5. What is proved

All proofs hold for every value of the constants that satisfies the assumptions
of the modules: `None` and `Other` are no ordinary values (`ResourceAssumption`,
`OtherAssumption`, `NoneAssumption`); specs are well-formed and an autoscaled one
has a maximum, which the CRD's CEL rule demands (`ControllerAssumption`); in admission
templates have the fields of the API types (`TemplateAssumption`), and defaulting one
gives another of them (`AdmissionAssumption`). TLC evaluates each of them in the runs.
Every safety and action property that a passing run checks is proved.

- `TypeCorrect` (`ControllerTypes`): every variable keeps its type, and the two
  booleans standing for resource versions are exact (`VersionsExact`): a copy that
  is fresh is the live object. The second part is needed for the first, since an
  Update of the finalizer writes into the live object what the pass believes of it.
- `SyncsOnlyTheLive`, `NothingOwnedUnfinalized`, `OnlySkippedAreOrphaned`
  (`ControllerIncarnation`): the three life-cycle invariants. None is inductive
  alone. `Incarnations` joins them with four facts: uids in sight are used up
  (`UidsUsed`); a cached WebApp with its finalizer and without a deletion is alive
  (`CacheTrails`), because only a pass that saw the deletion removes the finalizer;
  a finalize pass works for a WebApp whose deletion the cache knows too, so that no
  sync of it can begin afterwards (`FinalizesDeleted`); and the kinds the pass has been through are gone or remembered
  (`FinalizeProgress`). The proof has one lemma per action, and a lemma
  for each way an action may leave the invariant alone.

- `StatusNeverGoesBack` and `Refinement` (`ControllerRefinement`). The status part
  needs `StatusTrails`: the generation in every copy, in every status on its way and in the
  live status is at most that of the WebApp it belongs to, and a pass writes its own generation or the one it
  read, so that a merge patch from a stale base can repeat the live value but not lower it.
  Refinement then goes action by action: who
  may write the WebApp (`WhoWrites`), and that a step changes one object at most, to
  one the live WebApp controls or to none.
- `CeilingKept` (`ControllerCeiling`): `CeilingHolds` under policies that do not
  change, which is an assumption of the theorem. The invariant `Capped` bounds every count on its way to the
  Deployment: the live one, the cached one (`replicaHold` reads it), the one held, the HPA's maximum, and
  the maximum of a spec past the check.
- `ConvergedWhenQuiescent` (`ControllerConvergence`): `QuiescentConverged`. Quiescence
  says nothing of how it was reached, so the invariant `Convergence` says it of every
  state: what is out of place has something that will bring a pass. An informer differs
  from the server only in kinds with an event under way (`CachesTrail`); a pass works
  for the live WebApp unless it is queued again or its cache will change
  (`PassCurrent`); the kinds it has been through are in place, or undelivered, or the
  name is queued (`SyncedInPlace`, with the set `Synced` read off the step it is at);
  the count it holds is the one to apply (`HoldRight`); the status it will write is
  right, or it failed on a spec that cannot be built (`ReportRight`, `FailureRight`).
  Only with these is `Converged`, at the end of a pass, the last case.
- `ObservedIsApplied` (`ControllerObserved`): `ObservedMeansApplied`, for the behaviours in
  which nobody else creates, removes or changes an owned object (`NobodyTampers`, as in
  the runs that check it). Faults, restarts, edits, autoscalers and
  rollouts go on. `Reporting` adds to the invariants above that one generation has one
  spec wherever a copy of it is (`GenerationsExact`), and that a pass that failed or
  found a deletion has not reported its generation.
- `HandoverConverges` (`HandoverConvergence`): `QuiescentConverged` of `HandoverSpec`. The old leader is
  an instance of the controller, so its steps keep the types by an instance of `ControllerTypes`. A write of
  its own leaves an event or a newer version for the new leader, which is what
  `Convergence` asks; `OldSound` is what the old pass still knows of its own copies.
- `ReviewedPassesScaleCheck`, `VettedSatisfiable` (`AdmissionTheorems`): for all specs,
  policies and quantities. The first needs that a stored spec that was reviewed has
  passed `Evaluate`, and that of the replica fields only the scale subresource writes
  without review.
- `AdmissionTypeCorrect`, `ReleaseAdmitted`, `TouchRollsNothingOut`, `ReviewedCanBeBuilt`
  (`AdmissionTheorems`). The invariant is `AdmissionSound`: what is stored is
  typed, schema-valid and has the schema's defaults (`Storable`), and what was reviewed
  passes `ValidateSpec` (`ReviewedValid`), which scaling cannot undo. Defaulting is
  idempotent on such a spec up to what the webhook adds, and the builders build the
  same with it or without (`DefaultBuildsTheSame`). What can be built is then a lemma on one template:
  the ports of valid containers, one list after the other, keep their place (`DeclaredPlaces`), lose none to
  `allPorts` (`AllPortsDeclared`) and have different names, so do the volumes, and the
  Ingress finds its port (`ValidIsRoutable`). Lists may be of any length: `FlattenSeq` and `AllPorts` are recursive
  functions, and what is proved of them by induction is a set of numbers in a lemma without operator
  parameters (`Induction`, from the well-foundedness of the naturals).

Only model-checked: the two liveness properties, `DeletionCompletes` and `Converges`,
because liveness under fairness is outside what the proof system covers; and the five
runs of section 6, which show a state and prove nothing. `ReviewedIsBuildable` covers the
detailed builders; that the controller's `Buildable` on a model value is theirs is
`TemplateAssumption`, which TLC checks on the templates of `MCAdmission`.

## 6. Where the documents and the code part

Each is a run that TLC refutes; `PROJECT.json` quotes the lines.

- `stale_ready`: Ready may be reported for a new generation from a Deployment
  the cache has not caught up with.
- `stale_delete`: `deleteOwned` may delete somebody else's new object, having
  checked the cached old one.
- `half_set`: a WebApp whose Ingress cannot be built gets a Deployment and a
  Service all the same.
- `adoption_gap`: an object created between the live adoption check and the forced
  apply is taken over, unless another controller owns it.
- `unchanged`: a WebApp stored without the webhooks counts as changed once they
  default it, so an update of it that leaves the spec alone is validated after all. Deletions are not
  affected (`ReleaseNeverRefused`), but adding the finalizer may be.

The first corrects itself with the next delivery. So does a case for which there is no
run: `replicaHold` reads the cache, and a count from before the autoscaler's last
write may be forced over it (`README.md:374` says "the two never fight"). Such a
count stays within the ceilings (`CeilingHolds`).

## 7. Abstractions and what is not modelled

- In the controller a pod template with its ports is one value (in admission it is a
  record); status keeps `observedGeneration`, the URL and the conditions. The
  replica numbers copied into status are left out.
- Resource versions are two booleans: the code compares versions only for
  equality with the live one.
- `deleteOwned`'s cached read and its Delete are one step: a delivery between the
  two can as well come after the Delete.
- Deletions take effect at once (background propagation); the watch loses no
  event, and a restart lists the live state.
- Other actors do not take the finalizer off a WebApp or change its labels.
- A former leader's informers stop with its lease, and it begins no further pass.
  That is the worst case: a cache that still moved would only be fresher. Two
  creations together with a handover are beyond a run's time.
- Policies change only in the `liveness` run and in `admission`; a namespace's
  labels are part of the policy's `selects`.
- Admission handles one request at a time, as the API server does for one object;
  policies and WebApps are written in any order between requests. The webhooks' caches are not
  modelled because they read live (`GetAPIReader`).
- Not modelled: the syntax of names, image references and mount paths (rules on one
  string, which the schema and a unit test settle); security contexts, labels and the fields
  the builders copy verbatim (no branch depends on them); values of metrics; flags, TLS and
  probes of `cmd/main.go`; manifests beyond the match conditions; scripts.

## 8. Plan

Done: the controller, its life cycle, refinement, ceilings and convergence; the handover;
admission, policies and builders; the gap between adoption check and apply. All safety
properties are model-checked and proved.

Left, in this order:

1. The life cycle under a handover: `OrphansOnlySkipped` holds for one manager, and
   for two at most what the old pass still applies is added; the weaker statement is worth a run and a proof.
2. Convergence as a refinement: `Convergence` and `Incarnations` give every step of the
   abstract specification but its fairness; `ManagedWebApp` with a settled state would state it.
3. The controller under `FairSpec` with a handover: `Converges` for two managers.
