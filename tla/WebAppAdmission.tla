---------------------------- MODULE WebAppAdmission ----------------------------
(***************************************************************************)
(* Admission of one WebApp: the schema of api/v1alpha1 and the webhooks of *)
(* internal/webhook/v1alpha1, as the API server consults them for each     *)
(* write.  The webhooks may be absent (a webhook-less install), up, or     *)
(* down with the API server refusing what it cannot have reviewed.  The    *)
(* scale subresource and deletions pass the webhooks by, and so does every *)
(* write to a WebApp that is being deleted.                                *)
(***************************************************************************)
EXTENDS WebAppPolicies

CONSTANTS
  Specs,       \* the specs users write
  Edits,       \* those they write over an earlier one
  AllPolicies, \* the policies they write
  Counts,      \* the counts written through the scale subresource
  Budget       \* how often each of these may happen (a bound)

Events == {"update", "scale", "policy", "switch"}

VARIABLES
  stored,     \* the WebApp, or None
  policies,   \* the WebAppPolicies
  webhooks,   \* "absent", "up" or "down"
  answer,     \* the last request and whether it was admitted
  judged,     \* history: the policies the stored spec was last reviewed
              \* under, or None if its last write was not reviewed
  scaled,     \* history: its count was changed through scale since
  vetted,     \* history: the policies their webhook accepted
  budget      \* what is left of Budget

historyVars == <<judged, scaled>>
vars == <<stored, policies, webhooks, answer, historyVars, vetted, budget>>

Requests == {"none", "create", "update", "touch", "scale", "release", "delete",
             "policy"}

-------------------------------------------------------------------------------
(* The schema *)

WithProtocols(c) ==
  [c EXCEPT !.ports = [j \in DOMAIN c.ports |->
                         [c.ports[j] EXCEPT !.protocol = Protocol(c.ports[j])]]]

\* Mutant: replicas has no default in the schema.
ReplicasDefaultNone(n) == n

ReplicasDefault(n) == IF n = None THEN 1 ELSE n

\* The defaults of the OpenAPI schema; strategy.type only where a strategy is.
SchemaDefaultTemplate(t) ==
  [t EXCEPT
     !.serviceType = IF @ = "" THEN "ClusterIP" ELSE @,
     !.strategy    = IF @ # None /\ @.type = ""
                     THEN [@ EXCEPT !.type = "RollingUpdate"] ELSE @,
     !.containers  = [i \in DOMAIN @ |-> WithProtocols(@[i])]]

SchemaDefault(spec) ==
  [spec EXCEPT
     !.template    = SchemaDefaultTemplate(@),
     !.minReplicas = IF spec.autoscaling /\ @ = None THEN 1 ELSE @,
     !.replicas    = ReplicasDefault(@)]

\* List keys are unique, and the CEL rules of a container hold.
ContainerValid(c) ==
  /\ NoneTwice(c.ports, PortKey)
  /\ NoneTwice(c.scratchVolumes, Name)
  /\ NoneTwice(c.scratchVolumes, LAMBDA v : v.mountPath)
  /\ \A j \in DOMAIN c.scratchVolumes :
       c.scratchVolumes[j].medium = "Memory" => c.scratchVolumes[j].sizeLimit # None

\* So do those of the pod template and of the spec.
TemplateValid(t) ==
  /\ t.containers # <<>>
  /\ NoneTwice(t.containers, Name)
  /\ \A i \in DOMAIN t.containers : ContainerValid(t.containers[i])
  /\ (t.strategy # None /\ t.strategy.rollingUpdate # None)
       => t.strategy.type = "RollingUpdate"

SchemaValid(spec) ==
  /\ TemplateValid(spec.template)
  /\ spec.autoscaling => /\ spec.maxReplicas # None
                         /\ spec.minReplicas # None =>
                              spec.maxReplicas >= spec.minReplicas
  /\ spec.template.ingressPortName # NoName => spec.domain # None

-------------------------------------------------------------------------------
(* The webhooks *)

\* Mutant: a CPU target is set beside a memory target.
TargetsDefaultAlways(targets) ==
  IF targets["cpu"] = None
  THEN [targets EXCEPT !["cpu"] = DefaultTargetCPU] ELSE targets

TargetsDefault(targets) ==
  IF \A r \in DOMAIN targets : targets[r] = None
  THEN [targets EXCEPT !["cpu"] = DefaultTargetCPU] ELSE targets

StrategyDefault(strategy) ==
  IF strategy = None THEN [type |-> "RollingUpdate", rollingUpdate |-> None]
  ELSE IF strategy.type = "" THEN [strategy EXCEPT !.type = "RollingUpdate"]
  ELSE strategy

\* The mutating webhook.
DefaultTemplate(t) ==
  [t EXCEPT
     !.serviceType = IF @ = "" THEN "ClusterIP" ELSE @,
     !.strategy    = StrategyDefault(@),
     !.containers  = [i \in DOMAIN @ |-> WithProtocols(@[i])]]

Default(spec) ==
  [spec EXCEPT
     !.template    = DefaultTemplate(@),
     !.minReplicas = IF spec.autoscaling /\ @ = None THEN 1 ELSE @,
     !.targets     = IF spec.autoscaling THEN TargetsDefault(@) ELSE @]

\* A spec of WebAppResources with the fields it leaves out.
FullSpec ==
  [template    : Templates,
   domain      : Domains \cup {None},
   autoscaling : BOOLEAN,
   minReplicas : Nat \cup {None},
   maxReplicas : Nat \cup {None},
   replicas    : Nat \cup {None},
   targets     : [Resources -> Nat \cup {None}]]

StoredWebApp == [spec : FullSpec, fin : BOOLEAN, deleting : BOOLEAN]

\* Defaulting makes no template that is not among the Templates.
ASSUME AdmissionAssumption ==
  /\ Specs \subseteq FullSpec
  /\ Edits \subseteq Specs
  /\ None \notin StoredWebApp
  /\ \A t \in Templates : /\ SchemaDefaultTemplate(t) \in Templates
                          /\ DefaultTemplate(t) \in Templates
  /\ Counts \subseteq Nat
  /\ \A p \in AllPolicies : RuleTypes(p)
  /\ Budget \in [Events -> Nat]

\* Every targeted resource is requested by every container.
RequestsForTargets(spec) ==
  \A r \in TargetedResources(spec), i \in DOMAIN spec.template.containers :
    r \in DOMAIN spec.template.containers[i].requests

PortNumbers == 1 .. 65535

ValidPorts(t) ==
  LET ports == DeclaredPorts(t)
  IN  /\ ports # <<>>
      /\ NoneTwice(ports, PortKey)
      /\ \A i, j \in DOMAIN ports :
           ports[i].name # NoName /\ ports[i].name = ports[j].name => i = j
      /\ \A i \in DOMAIN ports : ports[i].number \in PortNumbers

ValidScratch(c) ==
  /\ NoneTwice(c.scratchVolumes, LAMBDA v : v.mountPath)
  /\ \A j \in DOMAIN c.scratchVolumes :
       c.scratchVolumes[j].sizeLimit # None => c.scratchVolumes[j].sizeLimit > 0

\* Mutant: a generated name may equal one that was written.
ValidPortNamesWritten(t) ==
  t.ingressPortName # NoName => Contains(PortNames(t), t.ingressPortName)

ValidPortNames(t) ==
  /\ IsInjective(PortNames(t))
  /\ t.ingressPortName # NoName => Contains(PortNames(t), t.ingressPortName)

ValidAutoscaling(spec) ==
  /\ spec.maxReplicas # None
  /\ spec.maxReplicas >= (IF spec.minReplicas = None THEN 1 ELSE spec.minReplicas)
  /\ RequestsForTargets(spec)

ValidateSpec(spec) ==
  LET t == spec.template
  IN  /\ t.containers # <<>>
      /\ NoneTwice(t.containers, Name)
      /\ ValidPorts(t)
      /\ \A i \in DOMAIN t.containers : ValidScratch(t.containers[i])
      /\ spec.autoscaling => ValidAutoscaling(spec)
      /\ ValidPortNames(t)
      /\ (t.strategy # None /\ t.strategy.type = "Recreate")
           => t.strategy.rollingUpdate = None

\* readable: the policies and the namespace can be read.
Validate(spec, readable) ==
  /\ ValidateSpec(spec)
  /\ readable
  /\ Evaluate(spec, policies) = {}

ValidateUpdate(spec, readable) ==
  \/ stored.deleting
  \/ spec = stored.spec
  \/ Validate(spec, readable)

\* Mutant: no match condition keeps a deleting WebApp from the webhooks.
ConsultedAlways == webhooks # "absent"

\* matchConditions: a WebApp that is being deleted is not sent to the webhooks.
Consulted ==
  /\ webhooks # "absent"
  /\ stored # None => ~stored.deleting

Mutated(spec) ==
  IF Consulted THEN Default(SchemaDefault(spec)) ELSE SchemaDefault(spec)

\* The API server's decision on a create or an update of the WebApp.
Review(request, spec) ==
  \E readable \in BOOLEAN :
    answer' = [request |-> request,
               ok |-> /\ SchemaValid(spec)
                      /\ Consulted =>
                           /\ webhooks = "up"
                           /\ IF stored = None THEN Validate(spec, readable)
                              ELSE ValidateUpdate(spec, readable)]

\* What the review of this spec was worth, if it was admitted.
Judge(spec) ==
  IF ~answer'.ok \/ (stored # None /\ spec = stored.spec)
  THEN UNCHANGED historyVars
  ELSE judged' = (IF Consulted THEN policies ELSE None) /\ scaled' = FALSE

-------------------------------------------------------------------------------
(* Requests *)

Init ==
  /\ stored = None
  /\ policies = {}
  /\ webhooks \in {"absent", "up"}
  /\ answer = [request |-> "none", ok |-> TRUE]
  /\ judged = None /\ scaled = FALSE
  /\ vetted = {}
  /\ budget = Budget

\* One of the bounded events.
Spend(e) ==
  /\ budget[e] > 0
  /\ budget' = [budget EXCEPT ![e] = @ - 1]

Create(spec) ==
  /\ stored = None
  /\ Review("create", Mutated(spec))
  /\ stored' = IF answer'.ok
               THEN [spec |-> Mutated(spec), fin |-> FALSE, deleting |-> FALSE]
               ELSE None
  /\ Judge(Mutated(spec))
  /\ UNCHANGED <<policies, webhooks, vetted, budget>>

\* A write of the whole object; fin: with the finalizer.
Put(request, spec, fin) ==
  /\ Review(request, spec)
  /\ stored' = IF answer'.ok THEN [stored EXCEPT !.spec = spec, !.fin = fin]
               ELSE stored
  /\ Judge(spec)
  /\ UNCHANGED <<policies, webhooks, vetted>>

Update(spec) ==
  /\ Spend("update")
  /\ stored # None
  /\ Put("update", Mutated(spec), stored.fin)

\* An update that leaves the spec alone: an annotation, or the controller's
\* Update that adds the finalizer.
Touch(fin) ==
  /\ stored # None
  /\ fin => ~stored.deleting
  /\ Put("touch", Mutated(stored.spec), fin \/ stored.fin)
  /\ UNCHANGED budget

Gone == stored' = None /\ judged' = None /\ scaled' = FALSE

\* The controller's last Update, without the finalizer.
Release ==
  /\ stored # None
  /\ stored.deleting /\ stored.fin
  /\ Review("release", Mutated(stored.spec))
  /\ IF answer'.ok THEN Gone ELSE UNCHANGED <<stored, historyVars>>
  /\ UNCHANGED <<policies, webhooks, vetted, budget>>

\* The webhooks are not registered for deletions.
Delete ==
  /\ stored # None
  /\ ~stored.deleting
  /\ answer' = [request |-> "delete", ok |-> TRUE]
  /\ IF stored.fin
     THEN stored' = [stored EXCEPT !.deleting = TRUE] /\ UNCHANGED historyVars
     ELSE Gone
  /\ UNCHANGED <<policies, webhooks, vetted, budget>>

\* kubectl scale, or an external autoscaler: no WebApp is sent to the webhooks.
Scale(n) ==
  /\ Spend("scale")
  /\ stored # None
  /\ n # stored.spec.replicas
  /\ stored' = [stored EXCEPT !.spec.replicas = n]
  /\ scaled' = TRUE
  /\ answer' = [request |-> "scale", ok |-> TRUE]
  /\ UNCHANGED <<policies, webhooks, judged, vetted>>

WritePolicy(p) ==
  /\ Spend("policy")
  /\ policies = {}
  /\ answer' = [request |-> "policy",
                ok |-> webhooks # "absent" => webhooks = "up" /\ ValidatePolicy(p)]
  /\ policies' = IF answer'.ok THEN {p} ELSE {}
  /\ vetted' = IF answer'.ok /\ webhooks = "up" THEN {p} ELSE {}
  /\ UNCHANGED <<stored, webhooks, historyVars>>

DeletePolicies ==
  /\ policies # {}
  /\ policies' = {} /\ vetted' = {}
  /\ answer' = [request |-> "policy", ok |-> TRUE]
  /\ UNCHANGED <<stored, webhooks, historyVars, budget>>

\* The webhooks are installed, removed, lost or back.
SwitchWebhooks(state) ==
  /\ Spend("switch")
  /\ webhooks # state
  /\ webhooks' = state
  /\ answer' = [request |-> "none", ok |-> TRUE]
  /\ UNCHANGED <<stored, policies, historyVars, vetted>>

Next ==
  \/ \E spec \in Specs : Create(spec)
  \/ \E spec \in Edits : Update(spec)
  \/ \E fin \in BOOLEAN : Touch(fin)
  \/ Release
  \/ Delete
  \/ \E n \in Counts : Scale(n)
  \/ \E p \in AllPolicies : WritePolicy(p)
  \/ DeletePolicies
  \/ \E state \in {"absent", "up", "down"} : SwitchWebhooks(state)

Spec == Init /\ [][Next]_vars

-------------------------------------------------------------------------------
(* What admission promises *)

\* A stored WebApp has what the scale subresource and the controller read from
\* it: a count, and an autoscaled one its bounds.
TypeOK ==
  /\ stored # None =>
       /\ stored.spec.template \in Templates
       /\ stored.spec.replicas \in Nat
       /\ stored.spec.autoscaling => /\ stored.spec.maxReplicas \in Nat
                                     /\ stored.spec.minReplicas \in Nat
       /\ stored.fin \in BOOLEAN /\ stored.deleting \in BOOLEAN
  /\ policies \subseteq AllPolicies
  /\ webhooks \in {"absent", "up", "down"}
  /\ answer \in [request : Requests, ok : BOOLEAN]
  /\ judged = None \/ judged \subseteq AllPolicies
  /\ scaled \in BOOLEAN
  /\ vetted \subseteq policies
  /\ budget \in [Events -> Nat]

\* What the webhooks have reviewed the controller can build, the API server
\* accepts every object of it (no name or port twice, whatever was generated),
\* its Ingress routes to a port of its Service, and its HPA can measure what it
\* targets. ValidateSpec and the builders must agree for that.
ReviewedIsBuildable ==
  judged # None =>
    /\ \A k \in Kinds : Wants(k, stored.spec) => Buildable(k, stored.spec)
    /\ Accepts(Built(stored.spec))
    /\ Works(Built(stored.spec))

\* The controller's scale check never finds fault with a WebApp the webhooks
\* reviewed under the same policies, unless its count was scaled since.
ReviewedWithinCeiling ==
  (judged # None /\ judged = policies /\ ~scaled) =>
    EvaluateScale(stored.spec, policies) = {}

\* A write that does not change the spec, the first one after the webhooks were
\* installed included, never changes an object the operator applies: installing
\* the webhooks rolls nothing out.
UntouchedIsUnchanged ==
  [][answer'.request = "touch"
       => Built(stored'.spec) = Built(stored.spec)]_vars

\* No policy, no outage of the webhooks and no error of a read keeps the
\* controller from taking its finalizer off.
ReleaseNeverRefused == answer.request = "release" => answer.ok

\* A policy its webhook accepts can be satisfied.
VettedIsSatisfiable == \A p \in vetted : Satisfiable(p)

-------------------------------------------------------------------------------
(* What a document says, and the mutating webhook refutes *)

\* docs/policy.md: "Updates whose spec has not changed ... skip validation
\* entirely." While the webhooks answer, an update that leaves the spec alone
\* is admitted.
UnchangedSkipsValidation ==
  (answer.request = "touch" /\ webhooks = "up") => answer.ok

===============================================================================
