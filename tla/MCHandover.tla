------------------------------ MODULE MCHandover ------------------------------
(***************************************************************************)
(* Values of the handover model's constants for TLC.                       *)
(***************************************************************************)
EXTENDS WebAppHandover, TLC

CONSTANTS t1, t2

Allow(counts) == {counts @@ [e \in Events |-> 0]}

NoPolicies == {{}}

Fixed(template, n) ==
  [template |-> template, domain |-> None, autoscaling |-> FALSE,
   maxReplicas |-> None, replicas |-> n]

\* The spec is edited, or the WebApp deleted, before, during or after the handover.
HandoverSpecs == {Fixed(t1, 1), Fixed(t2, 2)}

HandoverBudget ==
  Allow([create |-> 1, edit |-> 1, crash |-> 1])
    \cup Allow([create |-> 1, delete |-> 1, crash |-> 1])

===============================================================================
