--------------------------- MODULE WebAppResources ---------------------------
(***************************************************************************)
(* What the builders of internal/resources make of a WebApp's spec.  A     *)
(* spec keeps the fields the controller branches on; the pod template and  *)
(* the declared ports are one abstract value, a template.  Portless        *)
(* templates declare no container port and Misrouted ones declare ports    *)
(* but name an unknown one in spec.ingressPortName: what makes the Service *)
(* empty and the Ingress impossible to build.                              *)
(***************************************************************************)
EXTENDS Integers

CONSTANTS Templates, Portless, Misrouted, Domains, None

ASSUME ResourceAssumption ==
  /\ Portless \subseteq Templates
  /\ Misrouted \subseteq Templates
  /\ None \notin Templates
  /\ None \notin Domains
  /\ None \notin Nat

\* The four kinds of object a WebApp owns; each has the WebApp's own name.
Kinds == {"Deployment", "Service", "Ingress", "HPA"}

WebAppSpec ==
  [template    : Templates,
   domain      : Domains \cup {None},
   autoscaling : BOOLEAN,
   maxReplicas : Nat \cup {None},
   replicas    : Nat \cup {None}]

\* The part of an object the operator's apply configuration determines. What a
\* Service takes from the spec, its type and ports, comes with the template.
Contents == [template : Templates \cup {None},
             domain   : Domains \cup {None},
             max      : Nat \cup {None}]

WantsIngress(spec) == spec.domain # None

WantsHPA(spec) == spec.autoscaling

\* The Deployment and the Service are always wanted.
Wants(k, spec) ==
  /\ k = "Ingress" => WantsIngress(spec)
  /\ k = "HPA" => WantsHPA(spec)

\* A Service needs a port, an Ingress a backend port, an HPA a maximum.
Buildable(k, spec) ==
  /\ k = "Service" => spec.template \notin Portless
  /\ k = "Ingress" => spec.template \notin Portless \cup Misrouted
  /\ k = "HPA" => spec.maxReplicas # None

\* None: the field is left out of the Deployment.
DesiredReplicas(spec) ==
  IF WantsHPA(spec) THEN None
  ELSE IF spec.replicas # None THEN spec.replicas ELSE 1

IngressURL(spec) == spec.domain

Content(k, spec) ==
  [template |-> IF k = "HPA" THEN None ELSE spec.template,
   domain   |-> IF k = "Ingress" THEN spec.domain ELSE None,
   max      |-> IF k = "HPA" THEN spec.maxReplicas ELSE None]

==============================================================================
