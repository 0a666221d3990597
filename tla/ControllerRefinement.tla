-------------------------- MODULE ControllerRefinement --------------------------
(***************************************************************************)
(* The controller implements ManagedWebApp, for every value of the         *)
(* constants: each step of the worker, of the caches and of everybody else *)
(* is one step of the abstract WebApp, or none.  On the way there: the     *)
(* generation a status reports never goes back.                            *)
(***************************************************************************)
EXTENDS ControllerIncarnation

\* A status reports no generation newer than the cache has shown, and nothing of
\* a WebApp the cache has not shown; a pass knows a generation at least as new as
\* the one reported.
StatusTrails ==
  /\ webapp # None =>
       IF cachedApp # None /\ cachedApp.uid = webapp.uid
       THEN /\ webapp.status.obsGen <= cachedApp.gen
            /\ cachedApp.gen <= webapp.gen
       ELSE webapp.status.obsGen = 0
  /\ (pc # "idle" /\ webapp # None /\ app.uid = webapp.uid) =>
       /\ cachedApp # None
       /\ cachedApp.uid = app.uid
       /\ webapp.status.obsGen <= app.gen
       /\ app.gen <= cachedApp.gen
  /\ pc = "patch" => want.obsGen \in {app.gen, app.status.obsGen}

LEMMA Generations ==
  ASSUME TypeOK
  PROVE  /\ webapp # None =>
              /\ webapp \in WebApp /\ webapp.uid \in Nat
              /\ webapp.gen \in Nat \ {0} /\ webapp.status.obsGen \in Nat
              /\ webapp.deleting \in BOOLEAN /\ webapp.fin \in BOOLEAN
         /\ cachedApp # None =>
              cachedApp \in WebApp /\ cachedApp.gen \in Nat \ {0}
         /\ app # None => /\ app \in WebApp /\ app.uid \in Nat
                          /\ app.gen \in Nat \ {0}
         /\ nextUid \in Nat /\ None \notin Nat
BY OwnerKinds DEF TypeOK, WebApp, Status

-------------------------------------------------------------------------------
(* What a status reports *)

\* Steps that touch neither the WebApp nor its cached copy.
LEMMA PassTrails ==
  ASSUME StatusTrails, UNCHANGED <<webapp, cachedApp>>,
         \/ pc' = "idle"
         \/ UNCHANGED <<pc, app, want>>
         \/ /\ pc # "idle" /\ app' = app
            /\ pc' = "patch" => want'.obsGen \in {app.gen, app.status.obsGen}
  PROVE  StatusTrails'
BY DEF StatusTrails

LEMMA FailTrails ==
  ASSUME StatusTrails, pc # "idle", UNCHANGED <<webapp, cachedApp>>,
         NEW e, Fail(e)
  PROVE  StatusTrails'
<1>1. app' = app /\ want'.obsGen = app.status.obsGen
  BY DEF Fail
<1> QED
  BY <1>1, PassTrails

LEMMA GotoTrails ==
  ASSUME StatusTrails, pc # "idle", UNCHANGED <<webapp, cachedApp>>,
         NEW step, NEW k, step # "patch", Goto(step, k)
  PROVE  StatusTrails'
BY PassTrails DEF Goto

LEMMA CallErrorTrails ==
  ASSUME StatusTrails, pc # "idle", UNCHANGED <<webapp, cachedApp>>, CallError
  PROVE  StatusTrails'
<1>1. CASE Fail("retry")
  BY <1>1, FailTrails
<1>2. CASE EndPass(TRUE)
  BY <1>2, PassTrails DEF EndPass
<1> QED
  BY <1>1, <1>2 DEF CallError

LEMMA AfterPruneTrails ==
  ASSUME TypeOK, StatusTrails, pc # "idle", UNCHANGED <<webapp, cachedApp>>,
         AfterObject \/ AfterPrune
  PROVE  StatusTrails'
<1>1. kind \in {"Deployment", "Service", "Ingress", "HPA"}
  BY DEF TypeOK, Kinds
<1>2. \E step \in {"adopt", "apply", "prune", "observe", "finalize", "release"},
         k \in Kinds : Goto(step, k)
  BY <1>1 DEF AfterObject, AfterPrune, AfterFinalized, SyncKind, Kinds
<1> QED
  BY <1>2, GotoTrails

\* The status a patch leaves behind reports what it did, or what the pass saw.
LEMMA PatchReports ==
  ASSUME TypeOK, WorksOnLiveIncarnation, StatusTrails, UpdateStatus,
         webapp' # webapp
  PROVE  /\ webapp # None /\ webapp.fin /\ webapp.uid = app.uid
         /\ webapp' \in WebApp
         /\ webapp' # None
         /\ webapp'.status.obsGen \in {webapp.status.obsGen, app.gen}
         /\ webapp'.uid = webapp.uid /\ webapp'.gen = webapp.gen
         /\ webapp'.fin = webapp.fin /\ webapp'.deleting = webapp.deleting
<1> DEFINE status == MergePatch(webapp.status, app.status, want)
<1>1. /\ pc = "patch" /\ webapp # None
      /\ webapp' = [webapp EXCEPT !.status = status]
  BY DEF UpdateStatus
<1>2. webapp.fin /\ webapp.uid = app.uid /\ app # None
  BY <1>1 DEF WorksOnLiveIncarnation, SyncSteps, TypeOK
<1>3. webapp \in WebApp /\ webapp' \in WebApp
  BY <1>1, <1>2, PatchedType DEF TypeOK
<1>4. status.obsGen \in {webapp.status.obsGen, app.gen}
  BY <1>1 DEF MergePatch, StatusTrails
<1> HIDE DEF status
<1>5. /\ webapp'.status = status
      /\ webapp'.uid = webapp.uid /\ webapp'.gen = webapp.gen
      /\ webapp'.fin = webapp.fin /\ webapp'.deleting = webapp.deleting
  BY <1>1, <1>3 DEF WebApp
<1> QED
  BY <1>1, <1>2, <1>3, <1>4, <1>5, NoneAssumption

LEMMA WorkerTrails ==
  ASSUME TypeOK, VersionsExact, Incarnations, StatusTrails, Worker
  PROVE  StatusTrails'
<1>1. CASE BeginPass
  BY <1>1, Generations
  DEF BeginPass, StatusTrails, serverVars, cacheVars, passVars
<1>2. CASE AddFinalizer
  <2>1. CASE ~fresh
    BY <1>2, <2>1, PassTrails DEF AddFinalizer, EndPass
  <2>2. CASE fresh
    <3>1. webapp = app /\ app # None /\ webapp \in WebApp
      BY <2>2 DEF VersionsExact, TypeOK
    <3>2. /\ webapp' = [webapp EXCEPT !.fin = TRUE]
          /\ cachedApp' = cachedApp
          /\ \/ app' = [app EXCEPT !.fin = TRUE] /\ pc' = "policy"
             \/ pc' = "idle"
          /\ pc = "addFinalizer"
      BY <1>2, <2>2 DEF AddFinalizer, CallError, EndPass
    <3>3. /\ webapp'.uid = webapp.uid /\ webapp'.gen = webapp.gen
          /\ webapp'.status = webapp.status
          /\ pc' # "idle" => app' = webapp'
          /\ pc' # "patch"
      BY <3>1, <3>2 DEF WebApp
    <3> QED
      BY <3>1, <3>2, <3>3, NoneAssumption DEF StatusTrails
  <2> QED
    BY <2>1, <2>2
<1>3. CASE EnforceScalePolicy
  <2>1. pc # "idle" /\ UNCHANGED <<webapp, cachedApp>>
    BY <1>3 DEF EnforceScalePolicy, serverVars, cacheVars
  <2>2. CASE Fail("external") \/ Fail("terminal")
    BY <2>1, <2>2, FailTrails
  <2>3. CASE ~(Fail("external") \/ Fail("terminal"))
    BY <1>3, <2>1, <2>3, PassTrails DEF EnforceScalePolicy
  <2> QED
    BY <2>2, <2>3
<1>4. CASE AssertAdoptable
  <2>1. pc # "idle" /\ UNCHANGED <<webapp, cachedApp>>
    BY <1>4 DEF AssertAdoptable, serverVars, cacheVars
  <2>2. \/ \E e \in Errors : Fail(e)
        \/ \E step \in {"adopt", "apply"}, k \in Kinds : Goto(step, k)
    BY <1>4 DEF AssertAdoptable, Errors, Kinds, TypeOK
  <2> QED
    BY <2>1, <2>2, FailTrails, GotoTrails
<1>5. CASE Apply
  <2>1. pc # "idle" /\ UNCHANGED <<webapp, cachedApp>>
    BY <1>5 DEF Apply, cacheVars
  <2>2. Fail("retry") \/ AfterObject \/ CallError
    BY <1>5 DEF Apply, Reply
  <2> QED
    BY <2>1, <2>2, FailTrails, AfterPruneTrails, CallErrorTrails
<1>6. CASE DeleteOwned
  <2>1. pc # "idle" /\ UNCHANGED <<webapp, cachedApp>>
    BY <1>6 DEF DeleteOwned, cacheVars
  <2>2. AfterPrune \/ CallError
    BY <1>6 DEF DeleteOwned, Reply
  <2> QED
    BY <2>1, <2>2, AfterPruneTrails, CallErrorTrails
<1>7. CASE Observe
  BY <1>7, PassTrails DEF Observe, serverVars, cacheVars
<1>8. CASE UpdateStatus
  <2>1. pc' = "idle" /\ UNCHANGED cachedApp
    BY <1>8 DEF UpdateStatus, Reply, CallError, EndPass
  <2>2. CASE webapp' = webapp
    BY <2>1, <2>2, PassTrails
  <2>3. CASE webapp' # webapp
    <3>1. WorksOnLiveIncarnation /\ pc = "patch"
      BY <1>8 DEF Incarnations, UpdateStatus
    <3> QED
      BY <1>8, <2>1, <2>3, <3>1, PatchReports, Generations DEF StatusTrails
  <2> QED
    BY <2>2, <2>3
<1>9. CASE RemoveFinalizer
  <2>1. /\ pc' = "idle" /\ UNCHANGED cachedApp
        /\ webapp' = None \/ webapp' = webapp
    BY <1>9 DEF RemoveFinalizer, Reply, CallError, EndPass
  <2> QED
    BY <2>1 DEF StatusTrails
<1>10. CASE CallFails
  BY <1>10, CallErrorTrails DEF CallFails, Calling, serverVars, cacheVars
<1> QED
  BY <1>1, <1>2, <1>3, <1>4, <1>5, <1>6, <1>7, <1>8, <1>9, <1>10 DEF Worker

\* A new uid is one no copy has, so nothing was reported of it.
LEMMA UserTrails ==
  ASSUME TypeOK, Incarnations, StatusTrails,
         (\E s \in Specs : Create(s) \/ Edit(s)) \/ Delete
  PROVE  StatusTrails'
<1>1. UNCHANGED <<cachedApp, pc, app, want>>
  BY DEF Create, Edit, Delete
<1>2. CASE \E s \in Specs : Create(s)
  <2>1. webapp'.uid = nextUid /\ webapp'.status.obsGen = 0
    BY <1>2 DEF Create, NoStatus
  <2>2. /\ cachedApp # None => cachedApp.uid # nextUid
        /\ app # None => app.uid # nextUid
    BY OwnerKinds DEF Incarnations, UidsUsed
  <2> QED
    BY <1>1, <2>1, <2>2 DEF StatusTrails, TypeOK
<1>3. CASE (\E s \in Specs : Edit(s)) \/ Delete
  <2>1. webapp # None /\ webapp \in WebApp
    BY <1>3 DEF Edit, Delete, TypeOK
  <2>2. \/ webapp' = None
        \/ /\ webapp'.uid = webapp.uid /\ webapp'.status = webapp.status
           /\ webapp'.gen = webapp.gen + 1
    BY <1>3, <2>1 DEF Edit, Delete, WebApp
  <2> QED
    BY <1>1, <2>1, <2>2, Generations DEF StatusTrails
<1> QED
  BY <1>2, <1>3

LEMMA RelistTrails ==
  ASSUME TypeOK, StatusTrails, cachedApp' = webapp, UNCHANGED webapp,
         UNCHANGED <<pc, app, want>> \/ pc' = "idle"
  PROVE  StatusTrails'
<1>1. pc # "idle" => app # None
  BY DEF TypeOK
<1>2. (webapp # None)' =>
        webapp.status.obsGen <= webapp.gen /\ webapp.uid = cachedApp'.uid
  BY Generations DEF StatusTrails
<1>3. CASE pc' = "idle"
  BY <1>2, <1>3, Generations DEF StatusTrails
<1>4. CASE UNCHANGED <<pc, app, want>>
  BY <1>1, <1>2, <1>4, Generations DEF StatusTrails
<1> QED
  BY <1>3, <1>4

LEMMA StatusTrailsStep ==
  ASSUME TypeOK, VersionsExact, Incarnations, StatusTrails, Next
  PROVE  StatusTrails'
<1>1. CASE Worker
  BY <1>1, WorkerTrails
<1>2. CASE DeliverApp \/ Crash
  BY <1>2, RelistTrails DEF DeliverApp, Crash, serverVars, passVars
<1>3. CASE (\E k \in Kinds : Deliver(k)) \/ TimerFires
  BY <1>3, PassTrails DEF Deliver, TimerFires, serverVars, cacheVars, passVars
<1>4. CASE (\E s \in Specs : Create(s) \/ Edit(s)) \/ Delete
  BY <1>4, UserTrails
<1>5. CASE OutsideObjects \/ \E ps \in PolicySets : ChangePolicies(ps)
  <2>1. OutsideChange
    BY <1>5 DEF OutsideObjects, Foreign, Remove, Gone, Collect, Drift, Strip,
                Autoscale, Rollout, ChangePolicies
  <2> QED
    BY <2>1, PassTrails DEF OutsideChange, cacheVars, passVars
<1> QED
  BY <1>1, <1>2, <1>3, <1>4, <1>5 DEF Next, Outside, OutsideObjects

LEMMA StatusTrailsHolds == Spec => []StatusTrails
<1>1. Init => StatusTrails
  BY DEF Init, StatusTrails
<1>2. TypeOK /\ VersionsExact /\ Incarnations /\ StatusTrails /\ [Next]_vars
        => StatusTrails'
  <2> SUFFICES ASSUME TypeOK, VersionsExact, Incarnations, StatusTrails,
                      [Next]_vars
               PROVE  StatusTrails'
    OBVIOUS
  <2>1. CASE UNCHANGED vars
    BY <2>1, PassTrails DEF vars, serverVars, cacheVars, passVars
  <2> QED
    BY <2>1, StatusTrailsStep
<1> QED
  BY <1>1, <1>2, TypeCorrect, IncarnationsHold, PTL DEF Spec

\* The steps that write the WebApp, and those that write the objects.
LEMMA WhoWrites ==
  ASSUME TypeOK, Next
  PROVE  /\ \/ webapp' = webapp /\ nextUid' = nextUid
            \/ AddFinalizer \/ UpdateStatus \/ RemoveFinalizer
            \/ (\E s \in Specs : Create(s) \/ Edit(s)) \/ Delete
         /\ \/ objs' = objs /\ skipped' = skipped
            \/ Apply \/ DeleteOwned \/ OutsideObjects
<1>1. CASE Worker
  BY <1>1
  DEF Worker, BeginPass, AddFinalizer, EnforceScalePolicy, AssertAdoptable, Apply,
      DeleteOwned, Observe, UpdateStatus, RemoveFinalizer, CallFails, serverVars,
      objectVars, recordVars
<1>2. CASE DeliverApp \/ (\E k \in Kinds : Deliver(k)) \/ TimerFires \/ Crash
  BY <1>2 DEF DeliverApp, Deliver, TimerFires, Crash, serverVars, objectVars,
              recordVars
<1>3. CASE (\E s \in Specs : Create(s) \/ Edit(s)) \/ Delete
  BY <1>3 DEF Create, Edit, Delete, objectVars, recordVars
<1>4. CASE OutsideObjects
  BY <1>4
  DEF OutsideObjects, Foreign, Remove, Gone, Collect, Drift, Strip, Autoscale,
      Rollout, OutsideChange
<1>5. CASE \E ps \in PolicySets : ChangePolicies(ps)
  BY <1>5 DEF ChangePolicies, OutsideChange, recordVars
<1> QED
  BY <1>1, <1>2, <1>3, <1>4, <1>5 DEF Next, Outside, OutsideObjects

\* The generation a status reports never goes back while the WebApp lives,
\* whatever copies the passes worked from and whichever of their patches came
\* late (reconcile and updateStatus).
THEOREM StatusNeverGoesBack == Spec => ObservedGenerationMonotone
<1>1. TypeOK /\ VersionsExact /\ Incarnations /\ StatusTrails /\ [Next]_vars =>
        [(webapp # None /\ webapp' # None /\ webapp'.uid = webapp.uid)
           => webapp'.status.obsGen >= webapp.status.obsGen]_vars
  <2> SUFFICES ASSUME TypeOK, VersionsExact, Incarnations, StatusTrails,
                      Next, webapp # None, webapp' # None,
                      webapp'.uid = webapp.uid
               PROVE  webapp'.status.obsGen >= webapp.status.obsGen
    OBVIOUS
  <2> DEFINE Keeps == webapp'.status.obsGen = webapp.status.obsGen
  <2>1. CASE Keeps
    BY <2>1, Generations
  <2>2. CASE UpdateStatus /\ webapp' # webapp
    <3>1. WorksOnLiveIncarnation /\ pc = "patch" /\ app # None
      BY <2>2 DEF Incarnations, UpdateStatus, TypeOK
    <3> QED
      BY <2>2, <3>1, PatchReports, Generations DEF StatusTrails
  <2>3. CASE AddFinalizer
    <3>1. /\ webapp' = webapp \/ webapp' = [webapp EXCEPT !.fin = TRUE]
          /\ webapp \in WebApp
      BY <2>3 DEF AddFinalizer, TypeOK
    <3> QED
      BY <2>1, <3>1 DEF WebApp
  <2>4. CASE \E s \in Specs : Create(s)
    BY <2>4 DEF Create
  <2>5. CASE (\E s \in Specs : Edit(s)) \/ Delete
    <3>1. webapp \in WebApp
      BY DEF TypeOK
    <3> QED
      BY <2>1, <2>5, <3>1 DEF Edit, Delete, WebApp
  <2>6. CASE RemoveFinalizer
    BY <2>1, <2>6 DEF RemoveFinalizer
  <2> QED
    BY <2>1, <2>2, <2>3, <2>4, <2>5, <2>6, WhoWrites
<1> QED
  BY <1>1, TypeCorrect, IncarnationsHold, StatusTrailsHolds, PTL
  DEF Spec, ObservedGenerationMonotone

-------------------------------------------------------------------------------
(* Refinement *)

\* One object is written: its kind's pair is replaced, if it has one.
LEMMA OneObject ==
  ASSUME TypeOK, NEW k \in Kinds, NEW o, objs' = [objs EXCEPT ![k] = o]
  PROVE  /\ OwnedByWebApp(o) =>
              Ownership' = Managed!OfOtherKinds(k) \cup {<<o.owner, k>>}
         /\ ~OwnedByWebApp(o) => Ownership' = Managed!OfOtherKinds(k)
<1> DEFINE Own(j) == OwnedByWebApp(objs[j])
           OwnNext(j) == OwnedByWebApp(objs'[j])
<1>1. /\ objs'[k] = o
      /\ OwnNext(k) <=> OwnedByWebApp(o)
      /\ \A j \in Kinds \ {k} : objs'[j] = objs[j] /\ (OwnNext(j) <=> Own(j))
  BY DEF TypeOK, OwnedByWebApp
<1>2. \A u, j : <<u, j>> \in Ownership' <=>
                  j \in Kinds /\ OwnNext(j) /\ u = objs'[j].owner
  BY DEF Ownership
<1>3. \A u, j : <<u, j>> \in Managed!OfOtherKinds(k) <=>
                  j \in Kinds \ {k} /\ Own(j) /\ u = objs[j].owner
  BY DEF Ownership, Managed!OfOtherKinds
<1>4. /\ \A pair \in Ownership' : pair = <<pair[1], pair[2]>>
      /\ \A pair \in Managed!OfOtherKinds(k) : pair = <<pair[1], pair[2]>>
  BY DEF Ownership, Managed!OfOtherKinds
<1> HIDE DEF Own, OwnNext
<1>5. CASE OwnedByWebApp(o)
  <2>1. \A u, j : <<u, j>> \in Ownership' <=>
          <<u, j>> \in Managed!OfOtherKinds(k) \/ (u = o.owner /\ j = k)
    <3> SUFFICES ASSUME NEW u, NEW j
                 PROVE  <<u, j>> \in Ownership' <=>
                          <<u, j>> \in Managed!OfOtherKinds(k)
                            \/ (u = o.owner /\ j = k)
      OBVIOUS
    <3>1. CASE j = k
      BY <1>1, <1>2, <1>3, <1>5, <3>1
    <3>2. CASE j # k
      <4>1. j \in Kinds => objs'[j] = objs[j] /\ (OwnNext(j) <=> Own(j))
        BY <1>1, <3>2
      <4> QED
        BY <1>2, <1>3, <3>2, <4>1
    <3> QED
      BY <3>1, <3>2
  <2>2. \A pair : pair \in Ownership' <=>
          pair \in Managed!OfOtherKinds(k) \/ pair = <<o.owner, k>>
    BY <1>4, <2>1
  <2>3. Ownership' = Managed!OfOtherKinds(k) \cup {<<o.owner, k>>}
    BY <2>2, Zenon
  <2> QED
    BY <1>5, <2>3
<1>6. CASE ~OwnedByWebApp(o)
  <2>1. \A u, j : <<u, j>> \in Ownership' <=> <<u, j>> \in Managed!OfOtherKinds(k)
    <3> SUFFICES ASSUME NEW u, NEW j
                 PROVE  <<u, j>> \in Ownership' <=>
                          <<u, j>> \in Managed!OfOtherKinds(k)
      OBVIOUS
    <3>1. CASE j = k
      BY <1>1, <1>2, <1>3, <1>6, <3>1
    <3>2. CASE j # k
      <4>1. j \in Kinds => objs'[j] = objs[j] /\ (OwnNext(j) <=> Own(j))
        BY <1>1, <3>2
      <4> QED
        BY <1>2, <1>3, <3>2, <4>1
    <3> QED
      BY <3>1, <3>2
  <2>2. \A pair : pair \in Ownership' <=> pair \in Managed!OfOtherKinds(k)
    BY <1>4, <2>1
  <2>3. Ownership' = Managed!OfOtherKinds(k)
    BY <2>2, Zenon
  <2> QED
    BY <1>6, <2>3
<1> QED
  BY <1>5, <1>6

LEMMA SameOwnership ==
  ASSUME \A k \in Kinds : /\ OwnedByWebApp(objs'[k]) = OwnedByWebApp(objs[k])
                          /\ OwnedByWebApp(objs[k]) => objs'[k].owner = objs[k].owner
  PROVE  Ownership' = Ownership
BY DEF Ownership

LEMMA SameManagedApp == ASSUME UNCHANGED webapp PROVE UNCHANGED ManagedApp
BY DEF ManagedApp

LEMMA TerminatedRecord ==
  ASSUME NEW a \in Managed!WebApp, NEW b \in Managed!WebApp,
         b.uid = a.uid, b.gen = a.gen + 1,
         b.stage = "terminating", b.reported = a.reported
  PROVE  b = [a EXCEPT !.stage = "terminating", !.gen = a.gen + 1]
BY DEF Managed!WebApp, Managed!Stages

LEMMA ManagedAppIs ==
  ASSUME TypeOK, webapp # None
  PROVE  /\ ManagedApp \in Managed!WebApp /\ ManagedApp # None
         /\ ManagedApp = [uid |-> webapp.uid, gen |-> webapp.gen,
                          stage |-> IF webapp.deleting THEN "terminating"
                                    ELSE IF webapp.fin THEN "protected"
                                    ELSE "plain",
                          reported |-> webapp.status.obsGen]
<1>1. ManagedApp \in Managed!WebApp
  BY Generations DEF ManagedApp, Managed!WebApp, Managed!Stages
<1> QED
  BY <1>1, ManagedAssumption DEF ManagedApp

ManagedStep == Managed!Next \/ UNCHANGED Managed!vars

LEMMA ApplyManaged ==
  ASSUME TypeOK, Incarnations, Apply
  PROVE  ManagedStep
<1>1. /\ pc = "apply" /\ kind \in Kinds /\ app \in WebApp
      /\ UNCHANGED <<webapp, skipped, nextUid>>
  BY DEF Apply, recordVars, TypeOK
<1>2. /\ webapp # None /\ webapp.uid = app.uid /\ webapp.fin /\ app.uid \in Nat
  BY <1>1, Generations DEF Incarnations, WorksOnLiveIncarnation, SyncSteps
<1>3. CASE Refuses(objs[kind])
  <2>1. UNCHANGED objs
    BY <1>3 DEF Apply
  <2> QED
    BY <1>1, <2>1, SameOwnership, SameManagedApp DEF ManagedStep, Managed!vars
<1>4. CASE ~Refuses(objs[kind])
  <2> DEFINE o == [owner |-> app.uid, labelled |-> TRUE,
                   content |-> Content(kind, app.spec)]
  <2>1. objs' = [objs EXCEPT ![kind] = o]
    BY <1>4 DEF Apply
  <2>2. o \in Object
    BY <1>1, <1>2, ContentType, ControllerAssumption
    DEF Object, Owners, WebApp, ControllerAssumption
  <2>3. o # None /\ o.owner = app.uid
    BY <2>2, NoneAssumption
  <2>4. OwnedByWebApp(o)
    BY <1>2, <2>3 DEF OwnedByWebApp
  <2> HIDE DEF o
  <2>5. Ownership' = Managed!OfOtherKinds(kind) \cup {<<app.uid, kind>>}
    BY <1>1, <2>1, <2>3, <2>4, OneObject
  <2>6. ManagedApp # None /\ ManagedApp.uid = app.uid /\ ManagedApp.stage # "plain"
    BY <1>2, ManagedAppIs DEF ManagedApp
  <2>7. Managed!Acquire(kind)
    BY <1>1, <2>5, <2>6, SameManagedApp
    DEF Managed!Acquire, Managed!Guarded, Managed!Alive
  <2> QED
    BY <1>1, <2>7 DEF ManagedStep, Managed!Next
<1> QED
  BY <1>3, <1>4

\* An object goes, by whomever: the kind's pair goes with it, if it had one.
LEMMA LoseManaged ==
  ASSUME TypeOK, NEW k \in Kinds, NEW o, ~OwnedByWebApp(o),
         objs' = [objs EXCEPT ![k] = o],
         UNCHANGED <<webapp, skipped, nextUid>>
  PROVE  ManagedStep
<1>1. Managed!Lose(k)
  BY OneObject, SameManagedApp DEF Managed!Lose
<1> QED
  BY <1>1 DEF ManagedStep, Managed!Next

LEMMA UnownedManaged ==
  ASSUME UNCHANGED <<webapp, objs, skipped, nextUid>>
  PROVE  ManagedStep
BY SameOwnership, SameManagedApp DEF ManagedStep, Managed!vars

LEMMA DeleteOwnedManaged ==
  ASSUME TypeOK, Incarnations, DeleteOwned
  PROVE  ManagedStep
<1>1. /\ pc \in {"prune", "finalize"} /\ kind \in Kinds /\ app \in WebApp
      /\ app # None /\ UNCHANGED <<webapp, nextUid>>
  BY DEF DeleteOwned, TypeOK
<1>2. CASE ControlledBy(cachedObjs[kind], app.uid)
  <2>1. objs' = [objs EXCEPT ![kind] = None] /\ UNCHANGED skipped
    BY <1>2 DEF DeleteOwned
  <2> QED
    BY <1>1, <2>1, LoseManaged DEF OwnedByWebApp
<1>3. CASE ~ControlledBy(cachedObjs[kind], app.uid) /\ pc = "prune"
  BY <1>1, <1>3, UnownedManaged DEF DeleteOwned
<1>4. CASE ~ControlledBy(cachedObjs[kind], app.uid) /\ pc = "finalize"
  <2>1. UNCHANGED objs /\ skipped' = skipped \cup {<<app.uid, kind>>}
    BY <1>4 DEF DeleteOwned
  <2>2. app.uid \in 0 .. nextUid - 1
    BY <1>1, Generations DEF Incarnations, UidsUsed
  <2>3. (webapp # None /\ webapp.uid = app.uid) => webapp.deleting
    BY <1>4 DEF Incarnations, FinalizesDeleted, FinalizeSteps
  <2>4. (ManagedApp # None /\ ManagedApp.uid = app.uid)
          => ManagedApp.stage = "terminating"
    BY <2>3, ManagedAppIs DEF ManagedApp
  <2>5. Managed!Miss(kind)
    BY <1>1, <2>1, <2>2, <2>4, SameOwnership, SameManagedApp
    DEF Managed!Miss, Managed!Alive
  <2> QED
    BY <1>1, <2>5 DEF ManagedStep, Managed!Next
<1> QED
  BY <1>1, <1>2, <1>3, <1>4

\* Nothing but the worker takes an object over for the WebApp.
LEMMA OutsideManaged ==
  ASSUME TypeOK, OutsideObjects
  PROVE  ManagedStep
<1>1. UNCHANGED <<webapp, skipped, nextUid>>
  BY DEF OutsideObjects, Foreign, Remove, Gone, Collect, Drift, Strip, Autoscale,
         Rollout, OutsideChange, recordVars
<1>2. ASSUME NEW k \in Kinds, NEW owner \in {None, Other}, Foreign(k, owner)
      PROVE  ManagedStep
  <2> DEFINE o == [owner |-> owner, labelled |-> FALSE, content |-> None]
  <2>1. ~OwnedByWebApp(o)
    BY ResourceAssumption, OtherAssumption DEF OwnedByWebApp
  <2>2. objs' = [objs EXCEPT ![k] = o]
    BY <1>2 DEF Foreign
  <2> HIDE DEF o
  <2> QED
    BY <1>1, <2>1, <2>2, LoseManaged
<1>3. ASSUME NEW k \in Kinds, Remove(k) \/ Collect(k)
      PROVE  ManagedStep
  BY <1>1, <1>3, LoseManaged DEF Remove, Collect, Gone, OwnedByWebApp
<1>4. ASSUME NEW k \in Kinds, Drift(k) \/ Strip(k)
      PROVE  ManagedStep
  <2>1. objs[k] \in Object
    BY <1>4 DEF Drift, Strip, TypeOK, Objects
  <2>2. /\ objs'[k] \in Object /\ objs'[k].owner = objs[k].owner
        /\ \A j \in Kinds \ {k} : objs'[j] = objs[j]
    <3>1. PICK o \in {[objs[k] EXCEPT !.content = None],
                      [objs[k] EXCEPT !.labelled = FALSE]} :
            objs' = [objs EXCEPT ![k] = o]
      BY <1>4 DEF Drift, Strip, TypeOK
    <3>2. o \in Object /\ o.owner = objs[k].owner
      BY <2>1 DEF Object
    <3> QED
      BY <3>1, <3>2 DEF TypeOK
  <2>3. \A j \in Kinds : /\ OwnedByWebApp(objs'[j]) = OwnedByWebApp(objs[j])
                         /\ OwnedByWebApp(objs[j]) => objs'[j].owner = objs[j].owner
    BY <2>1, <2>2, NoneAssumption DEF OwnedByWebApp
  <2> QED
    BY <1>1, <2>3, SameOwnership, SameManagedApp DEF ManagedStep, Managed!vars
<1>5. CASE (\E n \in Counts : Autoscale(n)) \/ \E h \in Health \ {"silent"} : Rollout(h)
  BY <1>1, <1>5, UnownedManaged DEF Autoscale, Rollout
<1> QED
  BY <1>2, <1>3, <1>4, <1>5 DEF OutsideObjects

\* The steps that write the WebApp leave the objects alone.
LEMMA WebAppManaged ==
  ASSUME TypeOK, VersionsExact, Incarnations, StatusTrails,
         \/ AddFinalizer \/ UpdateStatus \/ RemoveFinalizer
         \/ (\E s \in Specs : Create(s) \/ Edit(s)) \/ Delete
  PROVE  ManagedStep
<1>1. UNCHANGED <<objs, skipped>> /\ Ownership' = Ownership
  <2>1. UNCHANGED <<objs, skipped>>
    BY DEF AddFinalizer, UpdateStatus, RemoveFinalizer, Create, Edit, Delete,
           objectVars, recordVars
  <2> QED
    BY <2>1, SameOwnership
<1>2. CASE webapp' = webapp /\ nextUid' = nextUid
  BY <1>1, <1>2, UnownedManaged
<1> DEFINE Written == [uid |-> webapp'.uid, gen |-> webapp'.gen,
                       stage |-> IF webapp'.deleting THEN "terminating"
                                 ELSE IF webapp'.fin THEN "protected" ELSE "plain",
                       reported |-> webapp'.status.obsGen]
<1>3. webapp' # None => ManagedApp' = Written
  BY DEF ManagedApp
<1>4. webapp' = None => ManagedApp' = None
  BY DEF ManagedApp
<1> HIDE DEF Written
<1>5. CASE AddFinalizer /\ fresh
  <2>1. webapp = app /\ webapp # None /\ webapp \in WebApp /\ nextUid' = nextUid
    BY <1>5 DEF VersionsExact, TypeOK, AddFinalizer
  <2>2. webapp' = [webapp EXCEPT !.fin = TRUE]
    BY <1>5 DEF AddFinalizer
  <2>3. /\ webapp' # None /\ webapp'.uid = webapp.uid /\ webapp'.gen = webapp.gen
        /\ webapp'.status = webapp.status /\ webapp'.fin
        /\ webapp'.deleting = webapp.deleting
    BY <2>1, <2>2, NoneAssumption DEF WebApp
  <2>4. CASE webapp.fin \/ webapp.deleting
    <3>1. ManagedApp' = ManagedApp
      BY <1>3, <2>1, <2>3, <2>4, ManagedAppIs DEF Written
    <3> QED
      BY <1>1, <2>1, <3>1 DEF ManagedStep, Managed!vars
  <2>5. CASE ~(webapp.fin \/ webapp.deleting)
    <3>1. Managed!Protect
      BY <1>1, <1>3, <2>1, <2>3, <2>5, ManagedAppIs
      DEF Written, Managed!Protect, Managed!Alive
    <3> QED
      BY <3>1 DEF ManagedStep, Managed!Next
  <2> QED
    BY <2>4, <2>5
<1>6. CASE UpdateStatus /\ webapp' # webapp
  <2>1. WorksOnLiveIncarnation /\ pc = "patch" /\ app # None /\ nextUid' = nextUid
    BY <1>6 DEF Incarnations, UpdateStatus, TypeOK
  <2>2. PICK g \in {webapp.status.obsGen, app.gen} : webapp'.status.obsGen = g
    BY <1>6, <2>1, PatchReports
  <2>3. g \in webapp.status.obsGen .. webapp.gen
    BY <1>6, <2>1, PatchReports, Generations DEF StatusTrails
  <2>4. Managed!Report
    <3>1. /\ ManagedApp # None /\ ManagedApp.stage # "plain"
          /\ ManagedApp.reported = webapp.status.obsGen
          /\ ManagedApp.gen = webapp.gen
      BY <1>6, <2>1, PatchReports, ManagedAppIs
    <3>2. ManagedApp' = [ManagedApp EXCEPT !.reported = g]
      BY <1>3, <1>6, <2>1, <2>2, PatchReports, ManagedAppIs DEF Written
    <3> QED
      BY <1>1, <2>1, <2>3, <3>1, <3>2
      DEF Managed!Report, Managed!Guarded, Managed!Alive
  <2> QED
    BY <2>4 DEF ManagedStep, Managed!Next
<1>7. CASE RemoveFinalizer /\ fresh
  <2>1. /\ webapp = app /\ webapp # None /\ pc = "release" /\ webapp' = None
        /\ nextUid' = nextUid
    BY <1>7 DEF VersionsExact, TypeOK, RemoveFinalizer
  <2>2. webapp.deleting
    BY <2>1 DEF Incarnations, FinalizesDeleted, FinalizeSteps
  <2>3. \A k \in Kinds : <<webapp.uid, k>> \in Ownership => <<webapp.uid, k>> \in skipped
    <3>1. \A k \in Kinds : ControlledBy(objs[k], webapp.uid)
            => <<webapp.uid, k>> \in skipped
      BY <2>1 DEF Incarnations, FinalizeProgress, FinalizeSteps, Finalized
    <3>2. \A k \in Kinds : <<webapp.uid, k>> \in Ownership
            => ControlledBy(objs[k], webapp.uid)
      BY DEF Ownership, OwnedByWebApp, ControlledBy
    <3> QED
      BY <3>1, <3>2
  <2>4. Managed!Release
    BY <1>1, <1>4, <2>1, <2>2, <2>3, ManagedAppIs DEF Managed!Release, Managed!Alive
  <2> QED
    BY <2>4 DEF ManagedStep, Managed!Next
<1>8. CASE \E s \in Specs : Create(s)
  <2>1. /\ webapp = None /\ nextUid' = nextUid + 1
        /\ webapp'.uid = nextUid /\ webapp'.gen = 1
        /\ ~webapp'.deleting /\ ~webapp'.fin /\ webapp'.status.obsGen = 0
        /\ webapp' \in WebApp
    BY <1>8, Generations DEF Create, NoStatus, WebApp, Status
  <2>2. Managed!Create
    BY <1>1, <1>3, <2>1, NoneAssumption DEF Managed!Create, ManagedApp, Written
  <2> QED
    BY <2>2 DEF ManagedStep, Managed!Next
<1>9. CASE \E s \in Specs : Edit(s)
  <2>1. /\ webapp # None /\ webapp \in WebApp /\ nextUid' = nextUid
        /\ \E s \in Specs :
             webapp' = [webapp EXCEPT !.spec = s, !.gen = webapp.gen + 1]
    BY <1>9 DEF Edit, TypeOK, WebApp
  <2>2. webapp.gen + 1 \in Nat \ {0}
    BY <2>1 DEF WebApp
  <2>3. /\ webapp' # None /\ webapp'.uid = webapp.uid
        /\ webapp'.gen = webapp.gen + 1 /\ webapp'.status = webapp.status
        /\ webapp'.fin = webapp.fin /\ webapp'.deleting = webapp.deleting
    <3>1. webapp' \in WebApp
      BY <2>1, <2>2 DEF WebApp
    <3> QED
      BY <2>1, <3>1, NoneAssumption DEF WebApp
  <2>4. Managed!Edit
    BY <1>1, <1>3, <2>1, <2>3, ManagedAppIs DEF Written, Managed!Edit, Managed!Alive
  <2> QED
    BY <2>4 DEF ManagedStep, Managed!Next
<1>10. CASE Delete
  <2>1. /\ webapp # None /\ webapp \in WebApp /\ nextUid' = nextUid
        /\ ~webapp.deleting
        /\ webapp' = IF webapp.fin
                     THEN [webapp EXCEPT !.deleting = TRUE, !.gen = webapp.gen + 1]
                     ELSE None
    BY <1>10 DEF Delete, TypeOK, WebApp
  <2>2. Managed!Terminate
    <3>1. CASE webapp.fin
      <4>1. webapp.gen + 1 \in Nat \ {0}
        BY <2>1 DEF WebApp
      <4>2. webapp' = [webapp EXCEPT !.deleting = TRUE, !.gen = webapp.gen + 1]
        BY <2>1, <3>1
      <4>3. webapp' \in WebApp
        BY <2>1, <4>1, <4>2 DEF WebApp
      <4>4. /\ webapp' # None /\ webapp'.uid = webapp.uid
            /\ webapp'.gen = webapp.gen + 1 /\ webapp'.status = webapp.status
            /\ webapp'.deleting
        BY <2>1, <4>2, <4>3, NoneAssumption DEF WebApp
      <4>5. /\ ManagedApp # None /\ ManagedApp.stage = "protected"
            /\ ManagedApp \in Managed!WebApp
            /\ ManagedApp.uid = webapp.uid /\ ManagedApp.gen = webapp.gen
            /\ ManagedApp.reported = webapp.status.obsGen
        BY <2>1, <3>1, ManagedAppIs
      <4>6. ManagedApp' = [uid |-> webapp.uid, gen |-> webapp.gen + 1,
                           stage |-> "terminating",
                           reported |-> webapp.status.obsGen]
        BY <1>3, <4>4 DEF Written
      <4>7. ManagedApp' \in Managed!WebApp
        BY <2>1, <4>1, <4>6, Generations DEF Managed!WebApp, Managed!Stages
      <4>8. ManagedApp' = [ManagedApp EXCEPT !.stage = "terminating",
                                             !.gen = ManagedApp.gen + 1]
        BY <4>5, <4>6, <4>7, TerminatedRecord
      <4> QED
        BY <1>1, <2>1, <4>5, <4>8 DEF Managed!Terminate, Managed!Alive
    <3>2. CASE ~webapp.fin
      BY <1>1, <1>4, <2>1, <3>2, ManagedAppIs DEF Managed!Terminate, Managed!Alive
    <3> QED
      BY <3>1, <3>2
  <2> QED
    BY <2>2 DEF ManagedStep, Managed!Next
<1> QED
  BY <1>2, <1>5, <1>6, <1>7, <1>8, <1>9, <1>10
  DEF AddFinalizer, UpdateStatus, RemoveFinalizer

\* Caches that lag, lost replies, restarts and passes with an old copy
\* (webapp_controller.go as a whole) are nothing a user can tell from
\* ManagedWebApp, in which a WebApp owns objects only while its finalizer
\* protects it and goes away only after letting go of them.
THEOREM Refinement == Spec => ImplementsManaged
<1>1. Init => Managed!Init
  <2>1. Init => Ownership = {}
    BY DEF Init, Ownership, OwnedByWebApp
  <2> QED
    BY <2>1 DEF Init, Managed!Init, ManagedApp
<1>2. TypeOK /\ VersionsExact /\ Incarnations /\ StatusTrails /\ [Next]_vars
        => [Managed!Next]_Managed!vars
  <2> SUFFICES ASSUME TypeOK, VersionsExact, Incarnations, StatusTrails,
                      [Next]_vars
               PROVE  ManagedStep
    BY DEF ManagedStep
  <2>1. CASE UNCHANGED vars
    BY <2>1, UnownedManaged DEF vars, serverVars, objectVars, recordVars
  <2>2. CASE Next
    <3>1. CASE UNCHANGED <<webapp, nextUid, objs, skipped>>
      BY <3>1, UnownedManaged
    <3>2. CASE Apply \/ DeleteOwned \/ OutsideObjects
      BY <3>2, ApplyManaged, DeleteOwnedManaged, OutsideManaged
    <3>3. CASE \/ AddFinalizer \/ UpdateStatus \/ RemoveFinalizer
               \/ (\E s \in Specs : Create(s) \/ Edit(s)) \/ Delete
      BY <3>3, WebAppManaged
    <3> QED
      BY <2>2, <3>1, <3>2, <3>3, WhoWrites
  <2> QED
    BY <2>1, <2>2
<1> QED
  BY <1>1, <1>2, TypeCorrect, IncarnationsHold, StatusTrailsHolds, PTL
  DEF Spec, ImplementsManaged, Managed!Spec

===============================================================================
