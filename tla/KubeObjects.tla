----------------------------- MODULE KubeObjects -----------------------------
(***************************************************************************)
(* The API server, as the controller uses it: owned objects, the view of   *)
(* them that a label-scoped informer has, and server-side apply with       *)
(* forced ownership.  External: modelled from the calls the operator makes *)
(* and from the behaviour its comments rely on.                            *)
(***************************************************************************)
EXTENDS WebAppConditions

\* Other is a controller that is not a WebApp; a WebApp owner is its uid.
CONSTANT Other

ASSUME OtherAssumption == Other \notin Nat \cup {None}

Owners == Nat \cup {None, Other}

\* content None: the fields the operator sets do not hold what it would set.
Object == [owner : Owners, labelled : BOOLEAN, content : Contents \cup {None}]

Objects == Object \cup {None}

\* Who manages the Deployment's spec.replicas, and what its status says.
Managers == {"operator", "other"}

Scale == [replicas : Nat, managers : SUBSET Managers,
          observed : BOOLEAN, health : Health]

\* The scale record of a Deployment that is absent or out of sight.
NoScale == [replicas |-> 0, managers |-> {}, observed |-> FALSE,
            health |-> "silent"]

\* main.go scopes the informers of the owned kinds to the managed-by label.
View(o) == IF o # None /\ o.labelled THEN o ELSE None

ViewScale(o, s) == IF View(o) = None THEN NoScale ELSE s

ControlledBy(o, uid) == o # None /\ o.owner = uid

\* The owner's kind and name enqueue a request, whatever its uid.
OwnedByWebApp(o) == o # None /\ o.owner \in Nat

\* A second controller reference is refused; a reference the operator applied
\* for an earlier uid is replaced.
Refuses(o) == o # None /\ o.owner = Other

\* Forcing the value another manager holds shares the field; forcing another
\* value takes it.
ForceReplicas(s, n) ==
  [s EXCEPT !.replicas = n,
            !.managers = IF n = s.replicas THEN @ \cup {"operator"}
                                           ELSE {"operator"}]

\* A field its only manager stops applying is removed and defaulted to 1.
ReleaseReplicas(s) ==
  [s EXCEPT !.replicas = IF s.managers = {"operator"} THEN 1 ELSE @,
            !.managers = @ \ {"operator"}]

\* hold None: the apply configuration has no spec.replicas.
CreatedScale(hold) ==
  [NoScale EXCEPT !.replicas = IF hold = None THEN 1 ELSE hold,
                  !.managers = IF hold = None THEN {} ELSE {"operator"}]

\* The Deployment's generation moves on when its spec changes.
AppliedScale(o, s, content, hold) ==
  IF o = None THEN CreatedScale(hold)
  ELSE LET new == IF hold = None THEN ReleaseReplicas(s)
                                 ELSE ForceReplicas(s, hold)
       IN  [new EXCEPT !.observed = @ /\ new.replicas = s.replicas
                                      /\ content = o.content]

==============================================================================
