---------------------------- MODULE MCController ----------------------------
(***************************************************************************)
(* Values of the controller's constants for TLC.                           *)
(***************************************************************************)
EXTENDS ControllerProperties, TLC

CONSTANTS t1, t2, bad, d1

\* The budget that allows the listed events so often, and no others.
Allow(counts) == {counts @@ [e \in Events |-> 0]}

NoPolicies == {{}}

Fixed(template, domain, n) ==
  [template |-> template, domain |-> domain, autoscaling |-> FALSE,
   maxReplicas |-> None, replicas |-> n]

Scaled(template, max) ==
  [template |-> template, domain |-> None, autoscaling |-> TRUE,
   maxReplicas |-> max, replicas |-> None]

Ceiling(mode, selects, n) ==
  [enforcement |-> mode, selects |-> selects, maxReplicas |-> n]

-----------------------------------------------------------------------------
(* lifecycle: create, delete and create again, with a fault and a restart *)

LifecycleSpecs == {Fixed(t1, None, 1), Fixed(t2, d1, 1)}

LifecycleBudget == Allow([create |-> 2, delete |-> 1, fault |-> 1, crash |-> 1])

(* edits: the spec changes twice, to one that can be built and one that cannot *)

EditSpecs == {Fixed(t1, None, 1), Fixed(t2, d1, 2), Fixed(bad, d1, 1)}

EditBudget == Allow([create |-> 1, edit |-> 2, fault |-> 1])

(* drift: somebody else changes, removes, relabels or creates the objects of a
   WebApp that may also lose its ports *)

DriftSpecs == {Fixed(t1, None, 1), Fixed(t2, d1, 1), Fixed(bad, d1, 1)}

DriftBudget == Allow([create |-> 1, edit |-> 1, tamper |-> 1, crash |-> 1])

(* scaling: manual and autoscaled counts on both sides of an enforced ceiling *)

ScalingSpecs == {Fixed(t1, None, 3), Fixed(t1, None, None), Scaled(t1, 2),
                 Scaled(t1, 3)}

CeilingOfTwo == {{Ceiling("Enforce", "yes", 2), Ceiling("Warn", "yes", 1),
                  Ceiling("Audit", "yes", 1), Ceiling("Enforce", "no", 1),
                  Ceiling("Enforce", "invalid", 1), Ceiling("Enforce", "yes", None)}}

ScalingBudget == Allow([create |-> 1, edit |-> 1, autoscale |-> 1, rollout |-> 1])

(* liveness: an obstacle, a fault, a deletion, and a policy that changes *)

LivenessSpecs == {Fixed(t1, None, 3)}

PolicyChanges == {{}, {Ceiling("Enforce", "yes", 2)}}

LivenessBudget == Allow([create |-> 1, delete |-> 1, policy |-> 1, fault |-> 2])

(* the runs that refute a document *)

ReadySpecs == {Fixed(t1, None, 1), Fixed(t2, None, 1)}

ReadyBudget == Allow([create |-> 1, edit |-> 1, rollout |-> 2])

DeleteBudget == Allow([create |-> 1, delete |-> 1, tamper |-> 2])

AdoptionBudget == Allow([create |-> 1, tamper |-> 1])

HalfSetSpecs == {Fixed(bad, d1, 1)}

HalfSetBudget == Allow([create |-> 1])

=============================================================================
