--------------------------- MODULE ControllerCeiling ---------------------------
(***************************************************************************)
(* While the policies stay as they are, no enforced ceiling is passed, for *)
(* every value of the constants: neither by what users write through the   *)
(* scale subresource, nor by an autoscaler, nor by a count the operator    *)
(* holds on to from a cached Deployment that is out of date.               *)
(***************************************************************************)
EXTENDS ControllerTypes

\* The maxima that are enforced.
Caps == {p.maxReplicas : p \in {q \in policies : Enforced(q) /\ q.maxReplicas # None}}

\* The steps behind the check of the policies that build or lead to building.
BuildSteps == {"adopt", "apply", "prune"}

\* Every count on its way to the Deployment is within the cap: the live one, the
\* cached one, the one held, the one the HPA may set, and the spec's own.
Within(cap) ==
  /\ scale.replicas <= cap
  /\ cachedScale.replicas <= cap
  /\ hold # None => hold <= cap
  /\ (objs["HPA"] # None /\ objs["HPA"].content # None)
       => /\ objs["HPA"].content.max # None
          /\ objs["HPA"].content.max <= cap
  /\ (pc \in BuildSteps /\ WantsHPA(app.spec)) => app.spec.maxReplicas <= cap

\* An HPA is checked and applied only for a spec that wants one.
HPAWanted == (pc \in {"adopt", "apply"} /\ kind = "HPA") => WantsHPA(app.spec)

Capped == HPAWanted /\ \A cap \in Caps : Within(cap)

LEMMA CapTypes ==
  ASSUME TypeOK, ControllerAssumption
  PROVE  /\ \A cap \in Caps : cap \in Nat /\ cap >= 1
         /\ scale.replicas \in Nat /\ cachedScale.replicas \in Nat
         /\ hold # None => hold \in Nat
         /\ app # None => /\ app.spec \in WebAppSpec
                          /\ WantsHPA(app.spec) => app.spec.maxReplicas \in Nat
<1>1. \A cap \in Caps : cap \in Nat /\ cap >= 1
  BY DEF Caps, TypeOK, ControllerAssumption, Policy
<1>2. app # None => /\ app.spec \in WebAppSpec
                    /\ WantsHPA(app.spec) => app.spec.maxReplicas \in Nat
  <2>1. app # None => app.spec \in Specs
    BY DEF TypeOK, WebApp
  <2> QED
    BY <2>1 DEF ControllerAssumption, WebAppSpec, WantsHPA
<1> QED
  BY <1>1, <1>2 DEF TypeOK, Scale

\* What passes the check of the policies is within every cap.
LEMMA SpecWithin ==
  ASSUME TypeOK, ControllerAssumption, app # None,
         EvaluateScale(app.spec, policies) = {}
  PROVE  \A cap \in Caps :
           /\ WantsHPA(app.spec) => app.spec.maxReplicas <= cap
           /\ DesiredReplicas(app.spec) # None => DesiredReplicas(app.spec) <= cap
<1> SUFFICES ASSUME NEW p \in policies, Enforced(p), p.maxReplicas # None
             PROVE  /\ WantsHPA(app.spec) => app.spec.maxReplicas <= p.maxReplicas
                    /\ DesiredReplicas(app.spec) # None
                         => DesiredReplicas(app.spec) <= p.maxReplicas
  BY DEF Caps
<1>1. ~ReplicaViolation(app.spec, p)
  BY DEF EvaluateScale
<1>2. p.maxReplicas \in Nat /\ p.maxReplicas >= 1
  BY CapTypes DEF Caps
<1>3. app.spec \in WebAppSpec /\ None \notin Nat
  BY CapTypes, ResourceAssumption
<1>4. WantsHPA(app.spec) => app.spec.maxReplicas \in Nat
  BY CapTypes
<1>5. app.spec.replicas \in Nat \cup {None}
  BY <1>3 DEF WebAppSpec
<1> QED
  BY <1>1, <1>2, <1>3, <1>4, <1>5 DEF ReplicaViolation, DesiredReplicas

\* Server-side apply leaves a count that is 1, or the one held, or what it was.
LEMMA AppliedWithin ==
  ASSUME NEW s \in Scale, NEW o, NEW c, NEW h \in Nat \cup {None},
         NEW cap \in Nat, cap >= 1, s.replicas <= cap, h # None => h <= cap
  PROVE  AppliedScale(o, s, c, h).replicas <= cap
<1>1. CreatedScale(h).replicas <= cap
  BY DEF CreatedScale, NoScale
<1>2. ReleaseReplicas(s).replicas <= cap /\ ReleaseReplicas(s) \in Scale
  BY DEF ReleaseReplicas, Scale, Managers
<1>3. h # None => ForceReplicas(s, h).replicas <= cap /\ ForceReplicas(s, h) \in Scale
  BY DEF ForceReplicas, Scale, Managers
<1> DEFINE new == IF h = None THEN ReleaseReplicas(s) ELSE ForceReplicas(s, h)
<1>4. new \in Scale /\ new.replicas <= cap
  BY <1>2, <1>3
<1>5. AppliedScale(o, s, c, h) =
        IF o = None THEN CreatedScale(h)
        ELSE [new EXCEPT !.observed = @ /\ new.replicas = s.replicas
                                        /\ c = o.content]
  BY DEF AppliedScale
<1> HIDE DEF new
<1>6. [new EXCEPT !.observed = @ /\ new.replicas = s.replicas
                                 /\ c = o.content].replicas = new.replicas
  BY <1>4 DEF Scale
<1> QED
  BY <1>1, <1>4, <1>5, <1>6

-------------------------------------------------------------------------------
(* What a step may do *)

\* The worker keeps the count it holds or lets go of it, and reaches a building
\* step only from another one, for the same spec.
CourseKept ==
  /\ hold' \in {hold, None}
  /\ pc' \in BuildSteps => pc \in BuildSteps /\ app' = app
  /\ HPAWanted'

\* No count and no maximum is raised above a cap.
WorldKept ==
  /\ \A cap \in Caps : scale'.replicas <= cap
  /\ cachedScale' \in {cachedScale, scale, NoScale}
  /\ (objs'["HPA"] # None /\ objs'["HPA"].content # None)
       => /\ objs["HPA"] # None
          /\ objs'["HPA"].content = objs["HPA"].content

LEMMA CappedKept ==
  ASSUME TypeOK, ControllerAssumption, Capped, UNCHANGED policies,
         CourseKept, WorldKept
  PROVE  Capped'
<1>1. Caps' = Caps
  BY DEF Caps
<1>2. ASSUME NEW cap \in Caps
      PROVE  Within(cap)'
  <2>1. Within(cap) /\ cap \in Nat /\ cap >= 1
    BY CapTypes DEF Capped
  <2>2. scale'.replicas <= cap /\ cachedScale'.replicas <= cap
    BY <2>1 DEF WorldKept, Within, NoScale
  <2>3. hold' # None => hold' <= cap
    BY <2>1 DEF CourseKept, Within
  <2>4. (objs'["HPA"] # None /\ objs'["HPA"].content # None)
          => /\ objs'["HPA"].content.max # None
             /\ objs'["HPA"].content.max <= cap
    BY <2>1 DEF WorldKept, Within
  <2>5. (pc' \in BuildSteps /\ WantsHPA(app'.spec)) => app'.spec.maxReplicas <= cap
    BY <2>1 DEF CourseKept, Within
  <2> QED
    BY <2>2, <2>3, <2>4, <2>5 DEF Within
<1>3. HPAWanted'
  BY DEF CourseKept
<1> QED
  BY <1>1, <1>2, <1>3 DEF Capped

\* A step that leaves the objects alone, or takes the HPA away, raises nothing.
LEMMA CountsLeft ==
  ASSUME Capped, UNCHANGED scale
  PROVE  \A cap \in Caps : scale'.replicas <= cap
BY DEF Capped, Within

LEMMA NoCountLeft ==
  ASSUME TypeOK, ControllerAssumption, scale' = NoScale
  PROVE  \A cap \in Caps : scale'.replicas <= cap
BY CapTypes DEF NoScale

LEMMA EndedCourse ==
  ASSUME (\E again \in BOOLEAN : EndPass(again)) \/ (\E e \in Errors : Fail(e))
  PROVE  CourseKept
BY DEF EndPass, Fail, CourseKept, BuildSteps, HPAWanted

LEMMA CallErrorCourse ==
  ASSUME CallError
  PROVE  CourseKept
<1>1. (\E again \in BOOLEAN : EndPass(again)) \/ (\E e \in Errors : Fail(e))
  BY DEF CallError, Errors
<1> QED
  BY <1>1, EndedCourse

LEMMA AfterObjectCourse ==
  ASSUME TypeOK, pc \in BuildSteps, AfterObject
  PROVE  CourseKept
<1>1. kind \in Kinds
  BY DEF TypeOK
<1>2. PICK step \in Steps, k \in Kinds :
        /\ Goto(step, k)
        /\ (step \in {"adopt", "apply"} /\ k = "HPA") => WantsHPA(app.spec)
  BY <1>1 DEF AfterObject, SyncKind, Kinds, Steps, Wants
<1> QED
  BY <1>2 DEF Goto, CourseKept, HPAWanted

LEMMA AfterPruneCourse ==
  ASSUME TypeOK, pc \in {"prune", "finalize"}, AfterPrune
  PROVE  CourseKept
<1>1. CASE pc = "prune"
  BY <1>1, AfterObjectCourse DEF AfterPrune, BuildSteps
<1>2. CASE pc = "finalize"
  <2>1. kind \in Kinds
    BY DEF TypeOK
  <2>2. PICK step \in {"finalize", "release"}, k \in Kinds : Goto(step, k)
    BY <1>2, <2>1 DEF AfterPrune, AfterFinalized, Kinds
  <2> QED
    BY <2>2 DEF Goto, CourseKept, HPAWanted, BuildSteps
<1> QED
  BY <1>1, <1>2

-------------------------------------------------------------------------------
(* The worker *)

\* The steps that write no object and set no count.
LEMMA CourseCapped ==
  ASSUME TypeOK, ControllerAssumption, Capped,
         \/ BeginPass \/ AddFinalizer \/ AssertAdoptable \/ Observe
         \/ UpdateStatus \/ RemoveFinalizer \/ CallFails
  PROVE  Capped'
<1>1. CourseKept
  <2>1. CASE BeginPass
    BY <2>1 DEF BeginPass, passVars, CourseKept, HPAWanted, BuildSteps
  <2>2. CASE AddFinalizer
    <3>1. CASE CallError \/ EndPass(TRUE)
      BY <3>1, CallErrorCourse, EndedCourse
    <3>2. CASE pc' = "policy" /\ hold' = hold
      BY <3>2 DEF CourseKept, HPAWanted, BuildSteps
    <3> QED
      BY <2>2, <3>1, <3>2 DEF AddFinalizer
  <2>3. CASE AssertAdoptable
    <3>1. \/ \E e \in Errors : Fail(e)
          \/ \E step \in {"adopt", "apply"} : \E k \in Kinds :
               /\ Goto(step, k)
               /\ k = "HPA" => kind = "HPA"
      BY <2>3 DEF AssertAdoptable, Errors, TypeOK, Kinds
    <3> QED
      BY <2>3, <3>1, EndedCourse
      DEF AssertAdoptable, Goto, CourseKept, Capped, HPAWanted, BuildSteps
  <2>4. CASE Observe
    BY <2>4 DEF Observe, CourseKept, HPAWanted, BuildSteps
  <2>5. CASE UpdateStatus \/ RemoveFinalizer
    <3>1. (err \in {"external", "retry"}) \in BOOLEAN
      OBVIOUS
    <3>2. (\E again \in BOOLEAN : EndPass(again)) \/ CallError
      BY <2>5, <3>1 DEF UpdateStatus, RemoveFinalizer, Reply
    <3> QED
      BY <3>2, EndedCourse, CallErrorCourse
  <2>6. CASE CallFails
    BY <2>6, CallErrorCourse DEF CallFails
  <2> QED
    BY <2>1, <2>2, <2>3, <2>4, <2>5, <2>6
<1>2. UNCHANGED <<objs, scale, cachedScale, policies>>
  BY DEF BeginPass, AddFinalizer, AssertAdoptable, Observe, UpdateStatus,
         RemoveFinalizer, CallFails, serverVars, objectVars, cacheVars
<1>3. WorldKept
  BY <1>2, CountsLeft DEF WorldKept
<1> QED
  BY <1>1, <1>2, <1>3, CappedKept

LEMMA DeleteOwnedCapped ==
  ASSUME TypeOK, ControllerAssumption, Capped, DeleteOwned
  PROVE  Capped'
<1>1. CourseKept
  BY AfterPruneCourse, CallErrorCourse DEF DeleteOwned, Reply
<1>2. WorldKept
  <2>1. UNCHANGED objs \/ objs' = [objs EXCEPT ![kind] = None]
    BY DEF DeleteOwned
  <2>2. UNCHANGED scale \/ scale' = NoScale
    BY DEF DeleteOwned
  <2>3. objs \in [Kinds -> Objects] /\ kind \in Kinds /\ "HPA" \in Kinds
    BY DEF TypeOK, Kinds
  <2>4. cachedScale' = cachedScale
    BY DEF DeleteOwned, cacheVars
  <2>5. objs'["HPA"] = objs["HPA"] \/ objs'["HPA"] = None
    BY <2>1, <2>3
  <2> QED
    BY <2>2, <2>4, <2>5, CountsLeft, NoCountLeft DEF WorldKept
<1>3. UNCHANGED policies
  BY DEF DeleteOwned
<1> QED
  BY <1>1, <1>2, <1>3, CappedKept

\* The count to hold is the cached one, or one that has just passed the check.
LEMMA EnforceCapped ==
  ASSUME TypeOK, ControllerAssumption, Capped, EnforceScalePolicy
  PROVE  Capped'
<1>1. UNCHANGED <<objs, scale, cachedScale, policies>>
  BY DEF EnforceScalePolicy, serverVars, objectVars, cacheVars
<1>2. WorldKept
  BY <1>1, CountsLeft DEF WorldKept
<1>3. CASE \E e \in Errors : Fail(e)
  BY <1>1, <1>2, <1>3, EndedCourse, CappedKept
<1>4. CASE ~ \E e \in Errors : Fail(e)
  <2>1. /\ EvaluateScale(app.spec, policies) = {}
        /\ hold' = IF WantsHPA(app.spec) THEN ReplicaHold
                                         ELSE DesiredReplicas(app.spec)
        /\ kind' = "Deployment"
        /\ app' = app
        /\ app # None
    BY <1>4 DEF EnforceScalePolicy, Errors, TypeOK
  <2>2. Caps' = Caps
    BY <1>1 DEF Caps
  <2>3. ASSUME NEW cap \in Caps
        PROVE  Within(cap)'
    <3>1. Within(cap)
      BY DEF Capped
    <3>2. /\ WantsHPA(app.spec) => app.spec.maxReplicas <= cap
          /\ DesiredReplicas(app.spec) # None => DesiredReplicas(app.spec) <= cap
      BY <2>1, SpecWithin
    <3>3. ReplicaHold # None => ReplicaHold <= cap
      BY <3>1 DEF ReplicaHold, Within
    <3>4. hold' # None => hold' <= cap
      BY <2>1, <3>2, <3>3
    <3> QED
      BY <1>1, <2>1, <3>1, <3>2, <3>4 DEF Within
  <2> QED
    BY <2>1, <2>2, <2>3 DEF Capped, HPAWanted
<1> QED
  BY <1>3, <1>4

\* Server-side apply writes a count that is held, or one, or none, and a maximum
\* only for a spec that has passed the check.
LEMMA ApplyCapped ==
  ASSUME TypeOK, ControllerAssumption, Capped, Apply
  PROVE  Capped'
<1>1. /\ pc = "apply" /\ app # None /\ app.spec \in Specs
      /\ kind \in Kinds /\ "HPA" \in Kinds
      /\ objs \in [Kinds -> Objects]
      /\ UNCHANGED <<policies, cachedScale>>
  BY DEF Apply, TypeOK, WebApp, Kinds, cacheVars
<1>2. CourseKept
  <2>1. Fail("retry") \/ AfterObject \/ CallError
    BY DEF Apply, Reply
  <2> QED
    BY <1>1, <2>1, AfterObjectCourse, CallErrorCourse, EndedCourse
    DEF BuildSteps, Errors
<1>3. Caps' = Caps
  BY <1>1 DEF Caps
<1>4. ASSUME NEW cap \in Caps
      PROVE  Within(cap)'
  <2>1. Within(cap) /\ cap \in Nat /\ cap >= 1
    BY CapTypes DEF Capped
  <2>2. scale'.replicas <= cap
    <3>1. /\ scale \in Scale /\ scale.replicas <= cap
          /\ hold \in Nat \cup {None} /\ (hold # None => hold <= cap)
      BY <2>1 DEF TypeOK, Within
    <3>2. AppliedScale(objs[kind], scale, Content(kind, app.spec), hold).replicas
            <= cap
      BY <2>1, <3>1, AppliedWithin
    <3>3. \/ scale' = scale
          \/ scale' = AppliedScale(objs[kind], scale, Content(kind, app.spec), hold)
      BY DEF Apply
    <3> QED
      BY <3>1, <3>2, <3>3
  <2>3. (objs'["HPA"] # None /\ objs'["HPA"].content # None)
          => /\ objs'["HPA"].content.max # None
             /\ objs'["HPA"].content.max <= cap
    <3>1. CASE objs'["HPA"] = objs["HPA"]
      BY <2>1, <3>1 DEF Within
    <3>2. CASE objs'["HPA"] # objs["HPA"]
      <4>1. /\ kind = "HPA"
            /\ objs'["HPA"] = [owner |-> app.uid, labelled |-> TRUE,
                               content |-> Content("HPA", app.spec)]
        BY <1>1, <3>2 DEF Apply
      <4>2. objs'["HPA"].content.max = app.spec.maxReplicas
        BY <4>1 DEF Content
      <4>3. WantsHPA(app.spec)
        BY <1>1, <4>1 DEF Capped, HPAWanted
      <4>4. app.spec.maxReplicas <= cap
        BY <1>1, <2>1, <4>3 DEF Within, BuildSteps
      <4>5. app.spec.maxReplicas # None
        BY <1>1, <4>3 DEF ControllerAssumption, WantsHPA
      <4> QED
        BY <4>2, <4>4, <4>5
    <3> QED
      BY <3>1, <3>2
  <2>4. hold' # None => hold' <= cap
    BY <1>2, <2>1 DEF CourseKept, Within
  <2>5. (pc' \in BuildSteps /\ WantsHPA(app'.spec)) => app'.spec.maxReplicas <= cap
    BY <1>2, <2>1 DEF CourseKept, Within
  <2>6. cachedScale'.replicas <= cap
    BY <1>1, <2>1 DEF Within
  <2> QED
    BY <2>2, <2>3, <2>4, <2>5, <2>6 DEF Within
<1> QED
  BY <1>2, <1>3, <1>4 DEF Capped, CourseKept

-------------------------------------------------------------------------------
(* Everything else *)

LEMMA DeliveryCapped ==
  ASSUME TypeOK, ControllerAssumption, Capped,
         DeliverApp \/ (\E k \in Kinds : Deliver(k)) \/ TimerFires
  PROVE  Capped'
<1>1. UNCHANGED <<objs, scale, policies, hold, pc, kind, app>>
  BY DEF DeliverApp, Deliver, TimerFires, serverVars, objectVars, passVars
<1>2. cachedScale' \in {cachedScale, scale, NoScale}
  BY DEF DeliverApp, Deliver, TimerFires, cacheVars, ViewScale
<1>3. CourseKept
  BY <1>1 DEF CourseKept, Capped, HPAWanted
<1>4. WorldKept
  BY <1>1, <1>2, CountsLeft DEF WorldKept
<1> QED
  BY <1>1, <1>3, <1>4, CappedKept

LEMMA UserCapped ==
  ASSUME TypeOK, ControllerAssumption, Capped,
         (\E s \in Specs : Create(s) \/ Edit(s)) \/ Delete
  PROVE  Capped'
<1>1. UNCHANGED <<objs, scale, cachedScale, policies, hold, pc, kind, app>>
  BY DEF Create, Edit, Delete, objectVars
<1>2. CourseKept
  BY <1>1 DEF CourseKept, Capped, HPAWanted
<1>3. WorldKept
  BY <1>1, CountsLeft DEF WorldKept
<1> QED
  BY <1>1, <1>2, <1>3, CappedKept

LEMMA CrashCapped ==
  ASSUME TypeOK, ControllerAssumption, Capped, Crash
  PROVE  Capped'
<1>1. CourseKept
  BY DEF Crash, CourseKept, HPAWanted, BuildSteps
<1>2. UNCHANGED <<objs, scale, policies>>
  BY DEF Crash
<1>3. WorldKept
  BY <1>2, CountsLeft DEF Crash, ViewScale, WorldKept
<1> QED
  BY <1>1, <1>2, <1>3, CappedKept

\* The HPA keeps to its own maximum; a foreign Deployment comes with one replica.
LEMMA OutsideCapped ==
  ASSUME TypeOK, ControllerAssumption, Capped, OutsideObjects
  PROVE  Capped'
<1>1. UNCHANGED <<cachedScale, policies, hold, pc, kind, app>>
  BY DEF OutsideObjects, Foreign, Remove, Collect, Gone, Drift, Strip, Autoscale,
         Rollout, OutsideChange, cacheVars, passVars
<1>2. CourseKept
  BY <1>1 DEF CourseKept, Capped, HPAWanted
<1>3. /\ objs \in [Kinds -> Objects] /\ "HPA" \in Kinds /\ scale \in Scale
  BY DEF TypeOK, Kinds
<1> DEFINE CountOK == \A cap \in Caps : scale'.replicas <= cap
           MaxOK == (objs'["HPA"] # None /\ objs'["HPA"].content # None)
                      => /\ objs["HPA"] # None
                         /\ objs'["HPA"].content = objs["HPA"].content
<1>4. ASSUME NEW k \in Kinds, NEW owner \in {None, Other}, Foreign(k, owner)
      PROVE  CountOK /\ MaxOK
  <2>1. scale' = scale \/ scale'.replicas = 1
    BY <1>4 DEF Foreign
  <2>2. CountOK
    BY <2>1, CapTypes DEF Capped, Within
  <2> QED
    BY <1>3, <1>4, <2>2 DEF Foreign
<1>5. ASSUME NEW k \in Kinds, Remove(k) \/ Collect(k)
      PROVE  CountOK /\ MaxOK
  <2>1. UNCHANGED scale \/ scale' = NoScale
    BY <1>5 DEF Remove, Collect, Gone
  <2>2. CountOK
    BY <2>1, CountsLeft, NoCountLeft
  <2> QED
    BY <1>3, <1>5, <2>2 DEF Remove, Collect, Gone
<1>6. ASSUME NEW k \in Kinds, Drift(k)
      PROVE  CountOK /\ MaxOK
  <2>1. scale'.replicas = scale.replicas
    BY <1>3, <1>6 DEF Drift, Scale
  <2>2. CountOK
    BY <2>1 DEF Capped, Within
  <2>3. objs[k] \in Object
    BY <1>3, <1>6 DEF Drift, Objects
  <2>4. objs'[k].content = None
    BY <1>3, <1>6, <2>3 DEF Drift, Object
  <2> QED
    BY <1>3, <1>6, <2>2, <2>4 DEF Drift
<1>7. ASSUME NEW k \in Kinds, Strip(k)
      PROVE  CountOK /\ MaxOK
  <2>1. CountOK
    BY <1>7, CountsLeft DEF Strip
  <2>2. objs[k] \in Object
    BY <1>3, <1>7 DEF Strip, Objects
  <2>3. objs'[k].content = objs[k].content
    BY <1>3, <1>7, <2>2 DEF Strip, Object
  <2> QED
    BY <1>3, <1>7, <2>1, <2>3 DEF Strip
<1>8. ASSUME NEW n \in Counts, Autoscale(n)
      PROVE  CountOK /\ MaxOK
  <2>1. scale'.replicas = n /\ n <= objs["HPA"].content.max
        /\ objs["HPA"] # None /\ objs["HPA"].content # None
    BY <1>3, <1>8 DEF Autoscale, Scale
  <2>2. CountOK
    <3>1. SUFFICES ASSUME NEW cap \in Caps PROVE scale'.replicas <= cap
      OBVIOUS
    <3>2. cap \in Nat /\ objs["HPA"].content.max # None
          /\ objs["HPA"].content.max <= cap
      BY <2>1, CapTypes DEF Capped, Within
    <3>3. objs["HPA"] \in Object /\ objs["HPA"].content \in Contents
      BY <1>3, <2>1 DEF Objects, Object
    <3>4. objs["HPA"].content.max \in Nat
      BY <3>2, <3>3 DEF Contents
    <3>5. n \in Nat
      BY <1>8, <3>4 DEF Autoscale
    <3> QED
      BY <2>1, <3>2, <3>4, <3>5
  <2> QED
    BY <1>8, <2>1, <2>2 DEF Autoscale
<1>9. ASSUME NEW h \in Health \ {"silent"}, Rollout(h)
      PROVE  CountOK /\ MaxOK
  <2>1. scale'.replicas = scale.replicas
    BY <1>3, <1>9 DEF Rollout, Scale
  <2> QED
    BY <1>9, <2>1 DEF Rollout, Capped, Within
<1>10. CountOK /\ MaxOK
  BY <1>4, <1>5, <1>6, <1>7, <1>8, <1>9 DEF OutsideObjects
<1>11. WorldKept
  BY <1>1, <1>10 DEF WorldKept
<1> QED
  BY <1>1, <1>2, <1>11, CappedKept

-------------------------------------------------------------------------------
(* Together *)

LEMMA CappedStep ==
  ASSUME TypeOK, ControllerAssumption, Capped, Next, UNCHANGED policies
  PROVE  Capped'
<1>1. CASE Worker
  BY <1>1, CourseCapped, EnforceCapped, ApplyCapped, DeleteOwnedCapped DEF Worker
<1>2. CASE DeliverApp \/ (\E k \in Kinds : Deliver(k)) \/ TimerFires
  BY <1>2, DeliveryCapped
<1>3. CASE (\E s \in Specs : Create(s) \/ Edit(s)) \/ Delete
  BY <1>3, UserCapped
<1>4. CASE OutsideObjects
  BY <1>4, OutsideCapped
<1>5. CASE \E ps \in PolicySets : ChangePolicies(ps)
  BY <1>5 DEF ChangePolicies
<1>6. CASE Crash
  BY <1>6, CrashCapped
<1> QED
  BY <1>1, <1>2, <1>3, <1>4, <1>5, <1>6 DEF Next, Outside, OutsideObjects

LEMMA CappedInit ==
  ASSUME Init, TypeOK, ControllerAssumption
  PROVE  Capped
<1>1. \A cap \in Caps : cap \in Nat /\ cap >= 1
  BY CapTypes
<1>2. objs["HPA"] = None
  BY DEF Init, Kinds
<1> QED
  BY <1>1, <1>2 DEF Init, Capped, Within, HPAWanted, BuildSteps, NoScale

LEMMA CappedHolds ==
  ASSUME TypeOK, Capped
  PROVE  CeilingHolds
<1> SUFFICES ASSUME NEW p \in policies, Enforced(p), p.maxReplicas # None
             PROVE  /\ OwnedByWebApp(objs["Deployment"])
                         => scale.replicas <= p.maxReplicas
                    /\ (OwnedByWebApp(objs["HPA"]) /\ objs["HPA"].content # None)
                         => objs["HPA"].content.max <= p.maxReplicas
  BY DEF CeilingHolds
<1>1. p.maxReplicas \in Caps
  BY DEF Caps
<1> QED
  BY <1>1 DEF Capped, Within, OwnedByWebApp

\* As long as nobody changes a policy, no owned Deployment is taken above an
\* enforced ceiling and no owned HPA is given a maximum above it: what
\* enforceScalePolicy checks on every pass is enough, though replicaHold reads a
\* cache and the scale subresource passes admission by.
THEOREM CeilingKept == (Spec /\ [][UNCHANGED policies]_vars) => []CeilingHolds
<1>1. (Init /\ TypeOK) => Capped
  BY CappedInit, ControllerAssumption
<1>2. (TypeOK /\ Capped /\ [Next]_vars /\ [UNCHANGED policies]_vars) => Capped'
  <2> SUFFICES ASSUME TypeOK, Capped, [Next]_vars, [UNCHANGED policies]_vars
               PROVE  Capped'
    OBVIOUS
  <2>1. CASE Next /\ UNCHANGED policies
    BY <2>1, CappedStep, ControllerAssumption
  <2>2. CASE UNCHANGED vars
    <3>1. UNCHANGED <<objs, scale, cachedScale, policies, hold, pc, kind, app>>
      BY <2>2 DEF vars, serverVars, objectVars, cacheVars, passVars
    <3>2. CourseKept
      BY <3>1 DEF CourseKept, Capped, HPAWanted
    <3>3. WorldKept
      BY <3>1, CountsLeft DEF WorldKept
    <3> QED
      BY <3>1, <3>2, <3>3, CappedKept, ControllerAssumption
  <2>3. (Next /\ UNCHANGED policies) \/ UNCHANGED vars
    BY DEF vars, serverVars
  <2> QED
    BY <2>1, <2>2, <2>3
<1>3. (TypeOK /\ Capped) => CeilingHolds
  BY CappedHolds
<1>4. Spec => []TypeOK
  BY TypeCorrect
<1> QED
  BY <1>1, <1>2, <1>3, <1>4, PTL DEF Spec

===============================================================================
