--------------------------- MODULE WebAppConditions ---------------------------
(***************************************************************************)
(* internal/controller/conditions.go: the condition list of a WebApp as a  *)
(* function of the Deployment copy the pass has read.  The four conditions *)
(* are kept as the reason of Ready (which determines its status and        *)
(* Degraded's), the value Available and Progressing were set to, and the   *)
(* generation Ready was stamped with.  An empty list is None.              *)
(***************************************************************************)
EXTENDS WebAppResources

\* What the Deployment controller last reported: nothing yet, a rollout under
\* way, all replicas updated and ready, or ProgressDeadlineExceeded.
Health == {"silent", "rolling", "ready", "stalled"}

ReadyReasons == {"RolloutStalled", "RolloutPending", "ScaledToZero",
                 "AllReplicasReady", "ReplicasNotReady", "ReconcileFailed"}

Rollouts == {"Unknown", "rolling", "ready", "stalled"}

Conditions == [ready : ReadyReasons, rollout : Rollouts, gen : Nat]

IsReady(conds) == conds # None /\ conds.ready = "AllReplicasReady"

Degraded(conds) == conds.ready \in {"RolloutStalled", "ReconcileFailed"}

\* d is the Deployment's scale record (KubeObjects); its field observed says
\* that status.observedGeneration has reached metadata.generation.
SetReady(d) ==
  IF d.health = "stalled" THEN "RolloutStalled"
  ELSE IF ~d.observed THEN "RolloutPending"
  ELSE IF d.replicas = 0 THEN "ScaledToZero"
  ELSE IF d.health = "ready" THEN "AllReplicasReady"
  ELSE "ReplicasNotReady"

ApplyDeploymentConditions(gen, d) ==
  [ready   |-> SetReady(d),
   rollout |-> IF d.health = "silent" THEN "Unknown" ELSE d.health,
   gen     |-> gen]

ApplyNoDeploymentConditions(gen) ==
  [ready |-> "ReplicasNotReady", rollout |-> "Unknown", gen |-> gen]

\* Available and Progressing keep what the list already says of them.
ApplyReconcileFailure(gen, conds) ==
  [ready   |-> "ReconcileFailed",
   rollout |-> IF conds = None THEN "Unknown" ELSE conds.rollout,
   gen     |-> gen]

==============================================================================
