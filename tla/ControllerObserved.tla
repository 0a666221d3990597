--------------------------- MODULE ControllerObserved ---------------------------
(***************************************************************************)
(* What status.observedGeneration promises.  As long as nobody else writes *)
(* the owned objects, a status that reports the live generation means that *)
(* every object that generation wants has been applied and is still there: *)
(* proved here for every value of the constants, from what the other       *)
(* modules prove of incarnations, reported generations and the course of a *)
(* pass.                                                                   *)
(***************************************************************************)
EXTENDS ControllerRefinement, ControllerConvergence

\* Nobody but the operator and the garbage collector creates, removes or changes
\* an owned object. (Autoscalers and rollouts go on.)
NobodyTampers == [][UNCHANGED budget["tamper"]]_vars

\* Two copies of one WebApp at one generation ask for the same.
SameAsk(a, b) ==
  (a # None /\ b # None /\ a.uid = b.uid /\ a.gen = b.gen) =>
    a.spec = b.spec /\ a.deleting = b.deleting

GenerationsExact ==
  SameAsk(cachedApp, webapp) /\ (pc # "idle" => SameAsk(app, webapp))

\* Nothing was reported of a WebApp while a pass works for an earlier one.
EarlierUnreported ==
  (pc # "idle" /\ webapp # None /\ app.uid # webapp.uid) => webapp.status.obsGen = 0

AppliedFor(a, k) ==
  objs[k] = [owner |-> a.uid, labelled |-> TRUE, content |-> Content(k, a.spec)]

\* What a pass has applied stays applied until it ends.
SyncedApplied == \A k \in Synced : Wants(k, app.spec) => AppliedFor(app, k)

\* A pass that failed does not report its generation.
FailureUnreported == (pc = "patch" /\ err # "none") => want.obsGen = app.status.obsGen

\* Every change of the WebApp gives it a generation nothing has reported yet; a
\* deletion is one.
DeletionUnreported ==
  (webapp # None /\ webapp.deleting) => webapp.status.obsGen # webapp.gen

\* The inductive invariant, with TypeOK, VersionsExact, Incarnations, StatusTrails
\* and Convergence.
Reporting ==
  /\ GenerationsExact
  /\ EarlierUnreported
  /\ SyncedApplied
  /\ FailureUnreported
  /\ DeletionUnreported
  /\ ObservedMeansApplied

-------------------------------------------------------------------------------
(* What the pass has to do with what is reported *)

\* A reported live generation is the one a pass in flight works for.
LEMMA PassIsCurrent ==
  ASSUME TypeOK, StatusTrails, Reporting, pc # "idle", webapp # None,
         webapp.status.obsGen = webapp.gen
  PROVE  /\ app.uid = webapp.uid /\ app.gen = webapp.gen
         /\ app.spec = webapp.spec /\ app.deleting = webapp.deleting
         /\ ~webapp.deleting
<1>1. app # None /\ app \in WebApp /\ webapp \in WebApp
  BY DEF TypeOK
<1>2. app.uid = webapp.uid
  BY Generations DEF Reporting, EarlierUnreported
<1>3. app.gen = webapp.gen
  BY <1>1, <1>2, Generations DEF StatusTrails
<1> QED
  BY <1>1, <1>2, <1>3 DEF Reporting, GenerationsExact, SameAsk, DeletionUnreported

\* Steps that leave the WebApp and the objects alone: the pass ends, or goes on
\* with no more done than before.
LEMMA QuietReports ==
  ASSUME Reporting, UNCHANGED <<webapp, cachedApp, objs>>,
         \/ pc' = "idle"
         \/ pc # "idle" /\ app' = app /\ Synced' \subseteq Synced /\ FailureUnreported'
  PROVE  Reporting'
<1>1. pc' = "idle" => Synced' = {} /\ FailureUnreported'
  BY DEF Synced, FailureUnreported
<1>2. GenerationsExact' /\ EarlierUnreported' /\ DeletionUnreported'
  BY DEF Reporting, GenerationsExact, SameAsk, EarlierUnreported, DeletionUnreported
<1>3. SyncedApplied'
  BY <1>1 DEF Reporting, SyncedApplied, AppliedFor
<1>4. ObservedMeansApplied'
  BY DEF Reporting, ObservedMeansApplied, InPlace
<1> QED
  BY <1>1, <1>2, <1>3, <1>4 DEF Reporting

\* Steps that change nothing a report is about.
LEMMA SameReports ==
  ASSUME Reporting, UNCHANGED <<webapp, cachedApp, objs, pc, kind, app, want, err>>
  PROVE  Reporting'
<1>1. GenerationsExact' /\ EarlierUnreported' /\ DeletionUnreported'
  BY DEF Reporting, GenerationsExact, SameAsk, EarlierUnreported, DeletionUnreported
<1>2. SyncedApplied' /\ FailureUnreported'
  BY DEF Reporting, SyncedApplied, AppliedFor, Synced, FailureUnreported
<1>3. ObservedMeansApplied'
  BY DEF Reporting, ObservedMeansApplied, InPlace
<1> QED
  BY <1>1, <1>2, <1>3 DEF Reporting

LEMMA FailReports ==
  ASSUME Reporting, pc # "idle", UNCHANGED <<webapp, cachedApp, objs>>,
         NEW e \in {"terminal", "external", "retry"}, Fail(e)
  PROVE  Reporting'
<1>1. Synced' = {} /\ app' = app /\ FailureUnreported'
  BY DEF Fail, Synced, FailureUnreported
<1> QED
  BY <1>1, QuietReports

LEMMA CallErrorReports ==
  ASSUME Reporting, pc # "idle", UNCHANGED <<webapp, cachedApp, objs>>, CallError
  PROVE  Reporting'
<1>1. CASE Fail("retry")
  BY <1>1, FailReports
<1>2. CASE EndPass(TRUE)
  BY <1>2, QuietReports DEF EndPass
<1> QED
  BY <1>1, <1>2 DEF CallError

\* Steps that write an object: what is reported of the live WebApp is still in
\* place, and so is what the pass was done with.
LEMMA WriteReports ==
  ASSUME Reporting, pc # "idle", UNCHANGED <<webapp, cachedApp>>,
         AfterObject \/ AfterPrune \/ CallError, TypeOK,
         SyncedApplied', ObservedMeansApplied'
  PROVE  Reporting'
<1>1. \/ pc' = "idle"
      \/ app' = app /\ (pc' # "patch" \/ want'.obsGen = app.status.obsGen)
  <2>1. CASE CallError
    BY <2>1 DEF CallError, Fail, EndPass
  <2>2. CASE AfterObject \/ AfterPrune
    <3>1. kind \in Kinds
      BY DEF TypeOK
    <3>2. \E step \in Steps \ {"patch"}, k \in Kinds : Goto(step, k)
      BY <2>2, <3>1 DEF AfterObject, AfterPrune, AfterFinalized, SyncKind, Kinds, Steps
    <3> QED
      BY <3>2 DEF Goto
  <2> QED
    BY <2>1, <2>2
<1>2. GenerationsExact' /\ EarlierUnreported' /\ DeletionUnreported'
  BY <1>1 DEF Reporting, GenerationsExact, SameAsk, EarlierUnreported,
              DeletionUnreported
<1>3. FailureUnreported'
  BY <1>1 DEF FailureUnreported
<1> QED
  BY <1>2, <1>3 DEF Reporting

-------------------------------------------------------------------------------
(* The worker *)

LEMMA BeginPassReports ==
  ASSUME TypeOK, StatusTrails, Reporting, BeginPass
  PROVE  Reporting'
<1>1. UNCHANGED <<webapp, cachedApp, objs>>
  BY DEF BeginPass, serverVars, objectVars, cacheVars
<1>2. CASE UNCHANGED passVars
  BY <1>1, <1>2, SameReports DEF passVars
<1>3. CASE ~UNCHANGED passVars
  <2>1. /\ cachedApp # None /\ app' = cachedApp
        /\ pc' \in {"finalize", "policy", "addFinalizer"}
    BY <1>3 DEF BeginPass
  <2>2. GenerationsExact'
    BY <1>1, <2>1 DEF Reporting, GenerationsExact, SameAsk
  <2>3. EarlierUnreported'
    BY <1>1, <2>1 DEF StatusTrails, EarlierUnreported
  <2>4. SyncedApplied' /\ FailureUnreported'
    BY <2>1 DEF SyncedApplied, Synced, FailureUnreported
  <2>5. DeletionUnreported' /\ ObservedMeansApplied'
    BY <1>1 DEF Reporting, DeletionUnreported, ObservedMeansApplied, InPlace
  <2> QED
    BY <2>2, <2>3, <2>4, <2>5 DEF Reporting
<1> QED
  BY <1>2, <1>3

LEMMA AddFinalizerReports ==
  ASSUME TypeOK, VersionsExact, StatusTrails, Reporting, AddFinalizer
  PROVE  Reporting'
<1>1. pc = "addFinalizer" /\ UNCHANGED <<cachedApp, objs>>
  BY DEF AddFinalizer, objectVars
<1>2. CASE ~fresh
  BY <1>1, <1>2, QuietReports DEF AddFinalizer, EndPass
<1>3. CASE fresh
  <2>1. webapp = app /\ webapp \in WebApp /\ webapp # None
    BY <1>3 DEF VersionsExact, TypeOK
  <2>2. /\ webapp' = [webapp EXCEPT !.fin = TRUE]
        /\ \/ app' = [app EXCEPT !.fin = TRUE] /\ pc' = "policy"
           \/ pc' = "idle"
    BY <1>1, <1>3 DEF AddFinalizer, CallError, EndPass
  <2>3. /\ webapp'.uid = webapp.uid /\ webapp'.gen = webapp.gen
        /\ webapp'.spec = webapp.spec /\ webapp'.deleting = webapp.deleting
        /\ webapp'.status = webapp.status
        /\ pc' # "idle" => app' = webapp'
    BY <2>1, <2>2 DEF WebApp
  <2>4. GenerationsExact' /\ EarlierUnreported' /\ DeletionUnreported'
    BY <1>1, <2>1, <2>3 DEF Reporting, GenerationsExact, SameAsk, EarlierUnreported,
                            DeletionUnreported
  <2>5. SyncedApplied' /\ FailureUnreported'
    BY <2>2 DEF SyncedApplied, Synced, FailureUnreported
  <2>6. ObservedMeansApplied'
    BY <1>1, <2>1, <2>3 DEF Reporting, ObservedMeansApplied, InPlace
  <2> QED
    BY <2>4, <2>5, <2>6 DEF Reporting
<1> QED
  BY <1>2, <1>3

LEMMA CheckReports ==
  ASSUME TypeOK, Reporting, EnforceScalePolicy \/ AssertAdoptable
  PROVE  Reporting'
<1>1. pc \in {"policy", "adopt"} /\ UNCHANGED <<webapp, cachedApp, objs>>
  BY DEF EnforceScalePolicy, AssertAdoptable, serverVars, objectVars, cacheVars
<1>2. CASE \E e \in {"terminal", "external"} : Fail(e)
  BY <1>1, <1>2, FailReports
<1>3. CASE ~\E e \in {"terminal", "external"} : Fail(e)
  <2>1. /\ app' = app /\ kind \in Kinds
        /\ \/ pc' = "adopt" /\ kind' \in {"Deployment", "Service"}
           \/ pc = "adopt" /\ kind = "Service" /\ pc' = "apply" /\ kind' = "Deployment"
           \/ pc = "adopt" /\ kind \in {"Ingress", "HPA"} /\ pc' = "apply"
                /\ kind' = kind
    BY <1>3 DEF EnforceScalePolicy, AssertAdoptable, Goto, TypeOK, Kinds
  <2>2. Synced' \subseteq Synced /\ FailureUnreported'
    BY <2>1 DEF Synced, FailureUnreported
  <2> QED
    BY <1>1, <2>1, <2>2, QuietReports
<1> QED
  BY <1>2, <1>3

\* The object that is applied is the one a reported live generation wants.
LEMMA ApplyReports ==
  ASSUME TypeOK, PassSound, StatusTrails, Reporting, Apply
  PROVE  Reporting'
<1>1. pc = "apply" /\ kind \in Kinds /\ UNCHANGED <<webapp, cachedApp>>
  BY DEF Apply, cacheVars, TypeOK
<1>2. CASE Refuses(objs[kind])
  BY <1>1, <1>2, FailReports DEF Apply
<1>3. CASE ~Refuses(objs[kind])
  <2>1. /\ objs'[kind] = [owner |-> app.uid, labelled |-> TRUE,
                          content |-> Content(kind, app.spec)]
        /\ \A k \in Kinds \ {kind} : objs'[k] = objs[k]
        /\ AfterObject \/ CallError
    BY <1>1, <1>3 DEF Apply, Reply, TypeOK
  <2>2. SyncedApplied'
    <3>1. CASE CallError
      BY <1>1, <3>1 DEF CallError, Fail, SyncedApplied, Synced
    <3>2. CASE AfterObject
      <4>1. app' = app /\ Synced' \subseteq Synced \cup {kind} /\ Synced \subseteq Kinds
        BY <1>1, <3>2, AfterObjectSynced
        DEF AfterObject, SyncKind, Goto, Synced, Kinds
      <4> QED
        BY <2>1, <4>1 DEF Reporting, SyncedApplied, AppliedFor
    <3> QED
      BY <2>1, <3>1, <3>2
  <2>3. ObservedMeansApplied'
    <3> SUFFICES ASSUME webapp # None, webapp.status.obsGen = webapp.gen,
                        NEW k \in Kinds, Wants(k, webapp.spec)
                 PROVE  InPlace(k)'
      BY <1>1 DEF ObservedMeansApplied
    <3>1. app.uid = webapp.uid /\ app.spec = webapp.spec
      BY <1>1, PassIsCurrent
    <3> QED
      BY <1>1, <2>1, <3>1 DEF Reporting, ObservedMeansApplied, InPlace
  <2> QED
    BY <1>1, <2>1, <2>2, <2>3, WriteReports
<1> QED
  BY <1>2, <1>3

\* Sync removes what the reported generation does not want; finalize works for a
\* WebApp whose deletion nothing has reported, or for an earlier one.
LEMMA DeleteOwnedReports ==
  ASSUME TypeOK, FinalizesDeleted, PassSound, StatusTrails, Reporting, DeleteOwned
  PROVE  Reporting'
<1>1. /\ pc \in {"prune", "finalize"} /\ kind \in Kinds
      /\ UNCHANGED <<webapp, cachedApp>>
      /\ AfterPrune \/ CallError
      /\ \A k \in Kinds \ {kind} : objs'[k] = objs[k]
  BY DEF DeleteOwned, cacheVars, TypeOK, Reply
<1>2. pc = "prune" => ~Wants(kind, app.spec)
  BY DEF PassSound
<1>3. SyncedApplied'
  <2>1. CASE pc = "prune" /\ AfterObject
    <3>1. app' = app /\ Synced' \subseteq Synced \cup {kind} /\ Synced \subseteq Kinds
      BY <1>1, <2>1, AfterObjectSynced
      DEF AfterObject, SyncKind, Goto, Synced, Kinds
    <3> QED
      BY <1>1, <1>2, <2>1, <3>1 DEF Reporting, SyncedApplied, AppliedFor
  <2>2. CASE CallError \/ (pc = "finalize" /\ AfterFinalized)
    <3>1. Synced' = {}
      BY <1>1, <2>2 DEF CallError, Fail, EndPass, AfterFinalized, Goto, Kinds, Synced
    <3> QED
      BY <3>1 DEF SyncedApplied
  <2> QED
    BY <1>1, <2>1, <2>2 DEF AfterPrune
<1>4. ObservedMeansApplied'
  <2> SUFFICES ASSUME webapp # None, webapp.status.obsGen = webapp.gen,
                      NEW k \in Kinds, Wants(k, webapp.spec)
               PROVE  InPlace(k)'
    BY <1>1 DEF ObservedMeansApplied
  <2>1. app.uid = webapp.uid /\ app.spec = webapp.spec /\ ~webapp.deleting
    BY <1>1, PassIsCurrent
  <2>2. pc # "finalize"
    BY <2>1 DEF FinalizesDeleted, FinalizeSteps
  <2>3. k # kind
    BY <1>1, <1>2, <2>1, <2>2
  <2> QED
    BY <1>1, <2>3 DEF Reporting, ObservedMeansApplied, InPlace
<1> QED
  BY <1>1, <1>3, <1>4, WriteReports

LEMMA ObserveReports ==
  ASSUME PassSound, Reporting, Observe
  PROVE  Reporting'
<1>1. pc = "observe" /\ pc' = "patch" /\ err = "none"
      /\ UNCHANGED <<webapp, cachedApp, objs, app, err>>
  BY DEF Observe, PassSound, serverVars, objectVars, cacheVars
<1>2. Synced' \subseteq Synced /\ FailureUnreported'
  BY <1>1 DEF Synced, FailureUnreported
<1> QED
  BY <1>1, <1>2, QuietReports

\* A patch reports the live generation only if it did already, or if the pass went
\* well and worked for that generation.
LEMMA UpdateStatusReports ==
  ASSUME TypeOK, WorksOnLiveIncarnation, PassSound, StatusTrails, Reporting,
         UpdateStatus
  PROVE  Reporting'
<1>1. pc = "patch" /\ pc' = "idle" /\ UNCHANGED <<cachedApp, objs>>
  BY DEF UpdateStatus, Reply, CallError, EndPass, objectVars
<1>2. CASE webapp' = webapp
  BY <1>1, <1>2, QuietReports
<1>3. CASE webapp' # webapp
  <2> DEFINE status == MergePatch(webapp.status, app.status, want)
  <2>1. /\ webapp # None /\ app # None /\ app.uid = webapp.uid
        /\ webapp' = [webapp EXCEPT !.status = status]
    BY <1>3 DEF UpdateStatus, WorksOnLiveIncarnation, SyncSteps, TypeOK
  <2>2. \/ status.obsGen = webapp.status.obsGen
        \/ err = "none" /\ status.obsGen = app.gen
    BY <1>1 DEF MergePatch, StatusTrails, Reporting, FailureUnreported
  <2> HIDE DEF status
  <2>3. /\ webapp'.uid = webapp.uid /\ webapp'.gen = webapp.gen
        /\ webapp'.spec = webapp.spec /\ webapp'.deleting = webapp.deleting
        /\ webapp'.status = status
        /\ webapp \in WebApp
    BY <2>1 DEF TypeOK, WebApp
  <2>4. CASE status.obsGen = webapp.status.obsGen
    <3>1. DeletionUnreported' /\ ObservedMeansApplied'
      BY <1>1, <2>1, <2>3, <2>4
      DEF Reporting, DeletionUnreported, ObservedMeansApplied, InPlace
    <3> QED
      BY <1>1, <2>1, <2>3, <3>1
      DEF Reporting, GenerationsExact, SameAsk, EarlierUnreported, SyncedApplied,
          Synced, FailureUnreported
  <2>5. CASE err = "none" /\ status.obsGen = app.gen
    <3>1. app.gen = webapp.gen =>
            app.spec = webapp.spec /\ app.deleting = webapp.deleting
      BY <1>1, <2>1 DEF Reporting, GenerationsExact, SameAsk
    <3>2. DeletionUnreported'
      BY <1>1, <2>3, <2>5, <3>1 DEF DeletionUnreported, PassSound, SyncSteps
    <3>3. ObservedMeansApplied'
      BY <1>1, <2>1, <2>3, <2>5, <3>1
      DEF Reporting, SyncedApplied, AppliedFor, Synced, ObservedMeansApplied, InPlace
    <3> QED
      BY <1>1, <2>1, <2>3, <3>2, <3>3
      DEF Reporting, GenerationsExact, SameAsk, EarlierUnreported, SyncedApplied,
          Synced, FailureUnreported
  <2> QED
    BY <2>2, <2>4, <2>5
<1> QED
  BY <1>2, <1>3

LEMMA RemoveFinalizerReports ==
  ASSUME Reporting, RemoveFinalizer
  PROVE  Reporting'
<1>1. /\ pc' = "idle" /\ UNCHANGED <<cachedApp, objs>>
      /\ webapp' = None \/ webapp' = webapp
  BY DEF RemoveFinalizer, Reply, CallError, EndPass, objectVars
<1>2. CASE webapp' = webapp
  BY <1>1, <1>2, QuietReports
<1>3. CASE webapp' = None
  BY <1>1, <1>3
  DEF Reporting, GenerationsExact, SameAsk, EarlierUnreported, SyncedApplied, Synced,
      FailureUnreported, DeletionUnreported, ObservedMeansApplied
<1> QED
  BY <1>1, <1>2, <1>3

LEMMA WorkerReports ==
  ASSUME TypeOK, VersionsExact, Incarnations, PassSound, StatusTrails, Reporting,
         Worker
  PROVE  Reporting'
<1>1. CASE CallFails
  BY <1>1, CallErrorReports
  DEF CallFails, Calling, serverVars, objectVars, cacheVars
<1>2. CASE ~CallFails
  BY <1>2, BeginPassReports, AddFinalizerReports, CheckReports, ApplyReports,
     DeleteOwnedReports, ObserveReports, UpdateStatusReports, RemoveFinalizerReports
  DEF Worker, Incarnations
<1> QED
  BY <1>1, <1>2

-------------------------------------------------------------------------------
(* Everybody else *)

\* The copy the informer has now is the live WebApp.
LEMMA RelistReports ==
  ASSUME Reporting, DeliverApp \/ Crash
  PROVE  Reporting'
<1>1. /\ cachedApp' = webapp /\ UNCHANGED <<webapp, objs>>
      /\ pc' = "idle" \/ UNCHANGED <<pc, kind, app, want, err>>
  BY DEF DeliverApp, Crash, serverVars, objectVars, passVars
<1>2. GenerationsExact' /\ EarlierUnreported' /\ DeletionUnreported'
  BY <1>1 DEF Reporting, GenerationsExact, SameAsk, EarlierUnreported,
              DeletionUnreported
<1>3. SyncedApplied' /\ FailureUnreported'
  BY <1>1 DEF Reporting, SyncedApplied, AppliedFor, Synced, FailureUnreported
<1>4. ObservedMeansApplied'
  BY <1>1 DEF Reporting, ObservedMeansApplied, InPlace
<1> QED
  BY <1>2, <1>3, <1>4 DEF Reporting

\* A new WebApp has reported nothing, and a write of one gives it a generation
\* that no copy has and nothing has reported.
LEMMA UserReports ==
  ASSUME TypeOK, Incarnations, StatusTrails, Reporting,
         (\E s \in Specs : Create(s) \/ Edit(s)) \/ Delete
  PROVE  Reporting'
<1>1. UNCHANGED <<cachedApp, objs, pc, kind, app, want, err>>
  BY DEF Create, Edit, Delete, objectVars
<1>2. SyncedApplied' /\ FailureUnreported'
  BY <1>1 DEF Reporting, SyncedApplied, AppliedFor, Synced, FailureUnreported
<1>3. CASE \E s \in Specs : Create(s)
  <2>1. /\ webapp'.uid = nextUid /\ webapp'.gen = 1 /\ ~webapp'.deleting
        /\ webapp'.status.obsGen = 0
    BY <1>3 DEF Create, NoStatus
  <2>2. /\ cachedApp # None => cachedApp.uid # nextUid
        /\ app # None => app.uid # nextUid
    BY OwnerKinds DEF Incarnations, UidsUsed
  <2> QED
    BY <1>1, <1>2, <2>1, <2>2
    DEF Reporting, GenerationsExact, SameAsk, EarlierUnreported, DeletionUnreported,
        ObservedMeansApplied
<1>4. CASE (\E s \in Specs : Edit(s)) \/ Delete
  <2>1. webapp # None /\ webapp \in WebApp
    BY <1>4 DEF Edit, Delete, TypeOK
  <2>2. CASE webapp' = None
    BY <1>1, <1>2, <2>2
    DEF Reporting, GenerationsExact, SameAsk, EarlierUnreported, DeletionUnreported,
        ObservedMeansApplied
  <2>3. CASE webapp' # None
    <3>1. /\ webapp'.uid = webapp.uid /\ webapp'.status = webapp.status
          /\ webapp'.gen = webapp.gen + 1
      BY <1>4, <2>1, <2>3 DEF Edit, Delete, WebApp
    <3>2. webapp.status.obsGen <= webapp.gen
      BY <2>1, Generations DEF StatusTrails
    <3>3. (cachedApp # None /\ cachedApp.uid = webapp.uid) =>
            cachedApp.gen <= webapp.gen
      BY <2>1 DEF StatusTrails
    <3>4. (pc # "idle" /\ app.uid = webapp.uid) => app.gen <= webapp.gen
      <4>1. pc # "idle" => app # None
        BY DEF TypeOK
      <4> QED
        BY <2>1, <3>3, <4>1, Generations DEF StatusTrails
    <3>5. webapp'.status.obsGen # webapp'.gen
      BY <2>1, <3>1, <3>2, Generations
    <3>6. GenerationsExact'
      <4>1. SameAsk(cachedApp, webapp)'
        BY <1>1, <2>1, <3>1, <3>3, Generations DEF SameAsk
      <4>2. pc # "idle" => SameAsk(app, webapp)'
        BY <1>1, <2>1, <3>1, <3>4, Generations DEF SameAsk
      <4> QED
        BY <1>1, <4>1, <4>2 DEF GenerationsExact
    <3>7. EarlierUnreported'
      BY <1>1, <2>1, <3>1 DEF Reporting, EarlierUnreported
    <3> QED
      BY <1>2, <3>5, <3>6, <3>7 DEF Reporting, DeletionUnreported, ObservedMeansApplied
  <2> QED
    BY <2>2, <2>3
<1> QED
  BY <1>3, <1>4

\* The garbage collector takes only what an earlier WebApp controls; autoscalers,
\* rollouts and policies change no object.
LEMMA OutsideObjectsReport ==
  ASSUME TypeOK, WorksOnLiveIncarnation, Reporting, UNCHANGED budget["tamper"],
         OutsideObjects \/ \E ps \in PolicySets : ChangePolicies(ps)
  PROVE  Reporting'
<1>1. UNCHANGED <<webapp, cachedApp, pc, kind, app, want, err>>
  BY DEF OutsideObjects, Foreign, Remove, Gone, Collect, Drift, Strip, Autoscale,
         Rollout, ChangePolicies, OutsideChange, cacheVars, passVars
<1>2. ~Spend("tamper")
  <2>1. budget["tamper"] \in Nat
    BY DEF TypeOK, Events
  <2> QED
    BY <2>1 DEF TypeOK, Spend, Events
<1>3. CASE UNCHANGED objs
  BY <1>1, <1>3, SameReports
<1>4. ASSUME NEW j \in Kinds, Collect(j)
      PROVE  Reporting'
  <2>1. /\ webapp # None => objs[j].owner # webapp.uid
        /\ \A k \in Kinds \ {j} : objs'[k] = objs[k]
    BY <1>4 DEF Collect, Gone, TypeOK
  <2>2. SyncedApplied'
    <3>1. Synced' = Synced /\ Synced \subseteq Kinds
      BY <1>1 DEF Synced, Kinds
    <3>2. Synced # {} => webapp # None /\ webapp.uid = app.uid
      BY DEF Synced, WorksOnLiveIncarnation, SyncSteps
    <3> QED
      BY <1>1, <2>1, <3>1, <3>2 DEF Reporting, SyncedApplied, AppliedFor
  <2>3. ObservedMeansApplied'
    BY <1>1, <2>1 DEF Reporting, ObservedMeansApplied, InPlace
  <2> QED
    BY <1>1, <2>2, <2>3
    DEF Reporting, GenerationsExact, SameAsk, EarlierUnreported, FailureUnreported,
        DeletionUnreported
<1> QED
  BY <1>2, <1>3, <1>4
  DEF OutsideObjects, Foreign, Remove, Drift, Strip, Autoscale, Rollout,
      ChangePolicies

LEMMA NextReports ==
  ASSUME TypeOK, VersionsExact, Incarnations, Convergence, StatusTrails, Reporting,
         Next, UNCHANGED budget["tamper"]
  PROVE  Reporting'
<1>1. PassSound /\ WorksOnLiveIncarnation
  BY DEF Convergence, Incarnations
<1>2. CASE Worker
  BY <1>1, <1>2, WorkerReports
<1>3. CASE DeliverApp \/ Crash
  BY <1>3, RelistReports
<1>4. CASE (\E k \in Kinds : Deliver(k)) \/ TimerFires
  BY <1>4, SameReports
  DEF Deliver, TimerFires, serverVars, objectVars, cacheVars, passVars
<1>5. CASE (\E s \in Specs : Create(s) \/ Edit(s)) \/ Delete
  BY <1>5, UserReports
<1>6. CASE OutsideObjects \/ \E ps \in PolicySets : ChangePolicies(ps)
  BY <1>1, <1>6, OutsideObjectsReport
<1> QED
  BY <1>2, <1>3, <1>4, <1>5, <1>6 DEF Next, Outside, OutsideObjects

\* As long as nobody else writes the owned objects, a status that reports the live
\* generation is true: every object that generation wants has been applied and is
\* in place. A pass with an older copy, a patch whose answer was lost, a restart, a
\* deletion or a WebApp created again under the name never makes it false
\* (reconcile's observedGeneration and updateStatus).
THEOREM ObservedIsApplied == (Spec /\ NobodyTampers) => []ObservedMeansApplied
<1>1. Init => Reporting
  BY DEF Init, Reporting, GenerationsExact, SameAsk, EarlierUnreported,
         SyncedApplied, Synced, FailureUnreported, DeletionUnreported,
         ObservedMeansApplied
<1>2. /\ TypeOK /\ VersionsExact /\ Incarnations /\ Convergence /\ StatusTrails
      /\ Reporting /\ [Next]_vars /\ [UNCHANGED budget["tamper"]]_vars
      => Reporting'
  <2> SUFFICES ASSUME TypeOK, VersionsExact, Incarnations, Convergence, StatusTrails,
                      Reporting, [Next]_vars, [UNCHANGED budget["tamper"]]_vars
               PROVE  Reporting'
    OBVIOUS
  <2>1. CASE Next /\ UNCHANGED budget["tamper"]
    BY <2>1, NextReports
  <2>2. CASE UNCHANGED vars
    BY <2>2, SameReports DEF vars, serverVars, objectVars, cacheVars, passVars
  <2>3. (Next /\ UNCHANGED budget["tamper"]) \/ UNCHANGED vars
    BY DEF vars
  <2> QED
    BY <2>1, <2>2, <2>3
<1>3. Reporting => ObservedMeansApplied
  BY DEF Reporting
<1> QED
  BY <1>1, <1>2, <1>3, TypeCorrect, IncarnationsHold, ConvergenceHolds,
     StatusTrailsHolds, PTL DEF Spec, NobodyTampers

===============================================================================
