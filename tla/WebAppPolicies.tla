---------------------------- MODULE WebAppPolicies ----------------------------
(***************************************************************************)
(* The rest of internal/policy: every rule of a WebAppPolicy, which        *)
(* admission evaluates, and the check of a policy itself.  The policies    *)
(* are those of ScalePolicy with more fields.                              *)
(***************************************************************************)
EXTENDS ScalePolicy, WebAppManifests

CONSTANTS
  Quantities,   \* the amounts of a resource that occur
  Accounts,     \* names of service accounts
  Blank         \* a name of nothing but spaces

ASSUME QuantityAssumption ==
  /\ Quantities \subseteq Nat
  /\ 0 \in Quantities
  /\ Blank \notin Accounts

Resources == {"cpu", "memory"}

\* A resource list names some resources.
ResourceLists == UNION {[named -> Quantities] : named \in SUBSET Resources}

ResourcePolicy ==
  [minRequests : ResourceLists, maxLimits : ResourceLists,
   requireRequests : BOOLEAN, requireLimits : BOOLEAN]

\* The fields of a policy beyond those of ScalePolicy.
RuleTypes(p) ==
  /\ p.allowedServiceAccounts \subseteq Accounts \cup {Blank}
  /\ p.resources \in ResourcePolicy \cup {None}

AccountName(t) ==
  IF t.serviceAccountName = None THEN "default" ELSE t.serviceAccountName

\* An absent request counts as nothing, an absent limit as no limit.
ResourceViolation(c, rp) ==
  \/ rp.requireRequests /\ DOMAIN c.requests = {}
  \/ rp.requireLimits /\ DOMAIN c.limits = {}
  \/ \E r \in DOMAIN rp.minRequests :
       r \notin DOMAIN c.requests \/ c.requests[r] < rp.minRequests[r]
  \/ \E r \in DOMAIN rp.maxLimits :
       r \notin DOMAIN c.limits \/ c.limits[r] > rp.maxLimits[r]

\* A scratch volume without a limit counts as unlimited.
ScratchViolation(c, cap) ==
  \E j \in DOMAIN c.scratchVolumes :
    \/ c.scratchVolumes[j].sizeLimit = None
    \/ c.scratchVolumes[j].sizeLimit > cap

AccountViolation(t, p) ==
  /\ p.allowedServiceAccounts # {}
  /\ AccountName(t) \notin p.allowedServiceAccounts

AnnotationViolation(t, p) ==
  \E prefix \in p.forbiddenPodAnnotationPrefixes, key \in t.podAnnotations :
    IsPrefix(prefix, key)

ContainerViolation(c, p) ==
  \/ p.maxScratchSize # None /\ ScratchViolation(c, p.maxScratchSize)
  \/ p.resources # None /\ ResourceViolation(c, p.resources)

\* Mutant: the replica ceiling is left to the controller.
ViolatesButReplicas(spec, p) ==
  LET t == spec.template
  IN  \/ AccountViolation(t, p)
      \/ AnnotationViolation(t, p)
      \/ \E i \in DOMAIN t.containers : ContainerViolation(t.containers[i], p)

Violates(spec, p) ==
  LET t == spec.template
  IN  \/ ReplicaViolation(spec, p)
      \/ AccountViolation(t, p)
      \/ AnnotationViolation(t, p)
      \/ \E i \in DOMAIN t.containers : ContainerViolation(t.containers[i], p)

Evaluate(spec, policies) == {p \in policies : Enforced(p) /\ Violates(spec, p)}

\* Mutant: the bounds are compared for CPU only.
BoundsAgreeForCPU(rp) ==
  "cpu" \in DOMAIN rp.minRequests \cap DOMAIN rp.maxLimits
    => rp.minRequests["cpu"] <= rp.maxLimits["cpu"]

BoundsAgree(rp) ==
  \A r \in DOMAIN rp.minRequests \cap DOMAIN rp.maxLimits :
    rp.minRequests[r] <= rp.maxLimits[r]

\* What the webhook of the policies asks of one.
ValidatePolicy(p) ==
  /\ p.selects # "invalid"
  /\ Blank \notin p.allowedServiceAccounts
  /\ <<>> \notin p.forbiddenPodAnnotationPrefixes
  /\ p.resources # None => BoundsAgree(p.resources)

\* Some container keeps the policy's bounds and requests no more than its
\* limits, and some account is allowed.
Satisfiable(p) ==
  /\ \E requests, limits \in [Resources -> Quantities] :
       /\ \A r \in Resources : requests[r] <= limits[r]
       /\ p.resources # None =>
            ~ResourceViolation([requests |-> requests, limits |-> limits],
                               p.resources)
  /\ p.allowedServiceAccounts # {} =>
       p.allowedServiceAccounts \cap Accounts # {}

===============================================================================
