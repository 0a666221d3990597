----------------------------- MODULE ScalePolicy -----------------------------
(***************************************************************************)
(* The replica part of internal/policy, which the controller evaluates on  *)
(* every pass.  Whether a policy's namespaceSelector selects the WebApp's  *)
(* namespace, does not, or does not parse is a field of the policy.        *)
(***************************************************************************)
EXTENDS WebAppResources

Policy == [enforcement : {"Enforce", "Warn", "Audit"},
           selects     : {"yes", "no", "invalid"},
           maxReplicas : (Nat \ {0}) \cup {None}]

\* A selector that does not parse is reported and not enforced.
Matches(p) == p.selects = "yes"

\* Mutant: an autoscaled WebApp is judged by spec.replicas as well.
ReplicaViolationManual(spec, p) ==
  /\ p.maxReplicas # None
  /\ spec.replicas # None /\ spec.replicas > p.maxReplicas

ReplicaViolation(spec, p) ==
  /\ p.maxReplicas # None
  /\ IF WantsHPA(spec)
     THEN spec.maxReplicas # None /\ spec.maxReplicas > p.maxReplicas
     ELSE spec.replicas # None /\ spec.replicas > p.maxReplicas

\* Only what is neither a warning nor an audit note counts as a violation.
Enforced(p) == Matches(p) /\ p.enforcement \notin {"Warn", "Audit"}

EvaluateScale(spec, policies) ==
  {p \in policies : Enforced(p) /\ ReplicaViolation(spec, p)}

==============================================================================
