--------------------------- MODULE AdmissionTheorems ---------------------------
(***************************************************************************)
(* What the webhooks guarantee, for every value of the constants: a policy *)
(* they accept can be satisfied; a WebApp they accept passes the           *)
(* controller's own check of its count and can be built, with lists of     *)
(* containers, ports and volumes of any length; what they default changes  *)
(* nothing that runs; and they never keep a deleted WebApp from going.     *)
(***************************************************************************)
EXTENDS WebAppAdmission, TLAPS, WellFoundedInduction

-------------------------------------------------------------------------------
(* Policies *)

LEMMA BoundsSatisfiable ==
  ASSUME NEW rp \in ResourcePolicy, BoundsAgree(rp)
  PROVE  \E requests, limits \in [Resources -> Quantities] :
           /\ \A r \in Resources : requests[r] <= limits[r]
           /\ ~ResourceViolation([requests |-> requests, limits |-> limits], rp)
<1> DEFINE min == rp.minRequests
           max == rp.maxLimits
           requests == [r \in Resources |-> IF r \in DOMAIN min THEN min[r] ELSE 0]
           limits == [r \in Resources |-> IF r \in DOMAIN max THEN max[r]
                                          ELSE requests[r]]
<1>1. /\ DOMAIN min \subseteq Resources /\ DOMAIN max \subseteq Resources
      /\ \A r \in DOMAIN min : min[r] \in Quantities
      /\ \A r \in DOMAIN max : max[r] \in Quantities
  <2>1. min \in ResourceLists /\ max \in ResourceLists
    BY DEF ResourcePolicy
  <2>2. PICK a \in SUBSET Resources, b \in SUBSET Resources :
          min \in [a -> Quantities] /\ max \in [b -> Quantities]
    BY <2>1 DEF ResourceLists
  <2> QED
    BY <2>2
<1>2. \A r \in DOMAIN min \cap DOMAIN max : min[r] <= max[r]
  BY DEF BoundsAgree
<1> HIDE DEF min, max
<1>3. \A r \in Resources : requests[r] = IF r \in DOMAIN min THEN min[r] ELSE 0
  OBVIOUS
<1>4. \A r \in Resources : limits[r] = IF r \in DOMAIN max THEN max[r]
                                      ELSE requests[r]
  OBVIOUS
<1>5. /\ \A r \in DOMAIN min : min[r] \in Nat
      /\ \A r \in DOMAIN max : max[r] \in Nat
  BY <1>1, QuantityAssumption
<1>6. DOMAIN requests = Resources /\ DOMAIN limits = Resources
  OBVIOUS
<1>7. requests \in [Resources -> Quantities] /\ limits \in [Resources -> Quantities]
  BY <1>1, QuantityAssumption
<1> HIDE DEF requests, limits
<1>8. \A r \in Resources : requests[r] <= limits[r]
  BY <1>1, <1>2, <1>3, <1>4, <1>5
<1>9. ~ResourceViolation([requests |-> requests, limits |-> limits], rp)
  <2>1. DOMAIN requests # {} /\ DOMAIN limits # {}
    BY <1>6 DEF Resources
  <2>2. \A r \in DOMAIN min : r \in DOMAIN requests /\ ~(requests[r] < min[r])
    BY <1>1, <1>3, <1>5, <1>6
  <2>3. \A r \in DOMAIN max : r \in DOMAIN limits /\ ~(limits[r] > max[r])
    BY <1>1, <1>4, <1>5, <1>6
  <2> QED
    BY <2>1, <2>2, <2>3 DEF ResourceViolation, min, max
<1> QED
  BY <1>7, <1>8, <1>9

LEMMA ValidIsSatisfiable ==
  ASSUME NEW p, RuleTypes(p), ValidatePolicy(p)
  PROVE  Satisfiable(p)
<1>1. p.allowedServiceAccounts # {} => p.allowedServiceAccounts \cap Accounts # {}
  BY DEF RuleTypes, ValidatePolicy
<1>2. CASE p.resources = None
  <2> DEFINE none == [r \in Resources |-> 0]
  <2>1. none \in [Resources -> Quantities] /\ \A r \in Resources : none[r] <= none[r]
    BY QuantityAssumption
  <2> HIDE DEF none
  <2> QED
    BY <1>1, <1>2, <2>1 DEF Satisfiable
<1>3. CASE p.resources # None
  <2>1. p.resources \in ResourcePolicy /\ BoundsAgree(p.resources)
    BY <1>3 DEF RuleTypes, ValidatePolicy
  <2> QED
    BY <1>1, <2>1, BoundsSatisfiable DEF Satisfiable
<1> QED
  BY <1>2, <1>3

Vetted == \A p \in vetted : p \in AllPolicies /\ ValidatePolicy(p)

\* Whatever policies are written, removed or stored while the webhook was away,
\* one that its webhook accepted (policy.Validate) can be satisfied by some
\* container and some service account.
THEOREM VettedSatisfiable == Spec => []VettedIsSatisfiable
<1>1. Init => Vetted
  BY DEF Init, Vetted
<1>2. Vetted /\ [Next]_vars => Vetted'
  <2> SUFFICES ASSUME Vetted, [Next]_vars PROVE Vetted'
    OBVIOUS
  <2>1. ASSUME NEW p \in AllPolicies, WritePolicy(p) PROVE Vetted'
    <3>1. CASE answer'.ok /\ webhooks = "up"
      BY <2>1, <3>1 DEF WritePolicy, Vetted
    <3>2. CASE ~(answer'.ok /\ webhooks = "up")
      BY <2>1, <3>2 DEF WritePolicy, Vetted
    <3> QED
      BY <3>1, <3>2
  <2>2. CASE DeletePolicies
    BY <2>2 DEF DeletePolicies, Vetted
  <2>3. CASE ~(DeletePolicies \/ \E p \in AllPolicies : WritePolicy(p))
    <3>1. UNCHANGED vetted
      BY <2>3 DEF Next, vars, Create, Update, Touch, Put, Release, Delete, Scale,
                  SwitchWebhooks
    <3> QED
      BY <3>1 DEF Vetted
  <2> QED
    BY <2>1, <2>2, <2>3
<1>3. Vetted => VettedIsSatisfiable
  BY AdmissionAssumption, ValidIsSatisfiable DEF Vetted, VettedIsSatisfiable
<1> QED
  BY <1>1, <1>2, <1>3, PTL DEF Spec

-------------------------------------------------------------------------------
(* Ceilings *)

\* Unless it was scaled since, the stored spec is the one that was reviewed, and
\* it violated none of the policies of that moment.
Reviewed ==
  /\ stored # None => stored = [spec |-> stored.spec, fin |-> stored.fin,
                                deleting |-> stored.deleting]
  /\ (judged # None /\ ~scaled) => Evaluate(stored.spec, judged) = {}

LEMMA PutReviewed ==
  ASSUME Reviewed, stored # None, NEW request, NEW spec, NEW fin,
         Put(request, spec, fin)
  PROVE  Reviewed'
<1>1. CASE ~answer'.ok
  BY <1>1 DEF Put, Judge, Reviewed, historyVars
<1>2. CASE answer'.ok
  <2>1. stored' = [stored EXCEPT !.spec = spec, !.fin = fin]
    BY <1>2 DEF Put
  <2>2. /\ stored' = [spec |-> spec, fin |-> fin, deleting |-> stored.deleting]
        /\ stored'.spec = spec
    BY <2>1 DEF Reviewed
  <2>3. CASE spec = stored.spec
    BY <1>2, <2>2, <2>3 DEF Put, Judge, Reviewed, historyVars
  <2>4. CASE spec # stored.spec /\ ~Consulted
    BY <1>2, <2>2, <2>4 DEF Put, Judge, Reviewed
  <2>5. CASE spec # stored.spec /\ Consulted
    <3>1. \E readable \in BOOLEAN : ValidateUpdate(spec, readable)
      BY <1>2, <2>5 DEF Put, Review
    <3>2. Evaluate(spec, policies) = {}
      BY <2>5, <3>1 DEF ValidateUpdate, Validate, Consulted
    <3>3. judged' = policies /\ scaled' = FALSE
      BY <1>2, <2>5 DEF Put, Judge
    <3> QED
      BY <2>2, <3>2, <3>3 DEF Reviewed
  <2> QED
    BY <2>3, <2>4, <2>5
<1> QED
  BY <1>1, <1>2

LEMMA CreateReviewed ==
  ASSUME Reviewed, NEW spec, Create(spec)
  PROVE  Reviewed'
<1>1. CASE ~answer'.ok
  BY <1>1 DEF Create, Judge, Reviewed, historyVars
<1>2. CASE answer'.ok
  <2>1. /\ stored = None
        /\ stored' = [spec |-> Mutated(spec), fin |-> FALSE, deleting |-> FALSE]
        /\ judged' = (IF Consulted THEN policies ELSE None)
    BY <1>2 DEF Create, Judge
  <2>2. Consulted => Evaluate(Mutated(spec), policies) = {}
    BY <1>2, <2>1 DEF Create, Review, Validate
  <2> QED
    BY <2>1, <2>2 DEF Reviewed
<1> QED
  BY <1>1, <1>2

\* A WebApp the webhooks reviewed passes the controller's scale check
\* (enforceScalePolicy) under the same policies, unless its count was changed
\* through the scale subresource since.
THEOREM ReviewedPassesScaleCheck == Spec => []ReviewedWithinCeiling
<1>1. Init => Reviewed
  BY DEF Init, Reviewed
<1>2. Reviewed /\ [Next]_vars => Reviewed'
  <2> SUFFICES ASSUME Reviewed, [Next]_vars PROVE Reviewed'
    OBVIOUS
  <2>1. CASE \E spec \in Specs : Create(spec)
    BY <2>1, CreateReviewed
  <2>2. CASE (\E spec \in Edits : Update(spec)) \/ (\E fin \in BOOLEAN : Touch(fin))
    BY <2>2, PutReviewed DEF Update, Touch
  <2>3. CASE Release \/ Delete
    <3>1. \/ stored' = None /\ judged' = None
          \/ UNCHANGED <<stored, judged, scaled>>
          \/ /\ stored' = [stored EXCEPT !.deleting = TRUE] /\ stored # None
             /\ UNCHANGED <<judged, scaled>>
      BY <2>3 DEF Release, Delete, Gone, historyVars
    <3>2. CASE stored' = [stored EXCEPT !.deleting = TRUE] /\ stored # None
               /\ UNCHANGED <<judged, scaled>>
      <4>1. stored' = [spec |-> stored.spec, fin |-> stored.fin, deleting |-> TRUE]
        BY <3>2 DEF Reviewed
      <4> QED
        BY <3>2, <4>1 DEF Reviewed
    <3> QED
      BY <3>1, <3>2 DEF Reviewed
  <2>4. ASSUME NEW n \in Counts, Scale(n) PROVE Reviewed'
    <3>1. stored' = [stored EXCEPT !.spec.replicas = n] /\ scaled' /\ stored # None
      BY <2>4 DEF Scale
    <3>2. stored' = [spec |-> [stored.spec EXCEPT !.replicas = n],
                     fin |-> stored.fin, deleting |-> stored.deleting]
      BY <3>1 DEF Reviewed
    <3> QED
      BY <3>1, <3>2 DEF Reviewed
  <2>5. CASE \/ DeletePolicies \/ (\E p \in AllPolicies : WritePolicy(p))
             \/ \E state \in {"absent", "up", "down"} : SwitchWebhooks(state)
    BY <2>5 DEF DeletePolicies, WritePolicy, SwitchWebhooks, historyVars, Reviewed
  <2>6. CASE UNCHANGED vars
    BY <2>6 DEF vars, historyVars, Reviewed
  <2> QED
    BY <2>1, <2>2, <2>3, <2>4, <2>5, <2>6 DEF Next
<1>3. Reviewed => ReviewedWithinCeiling
  <2>1. \A spec : Evaluate(spec, judged) = {} => EvaluateScale(spec, judged) = {}
    BY DEF Evaluate, EvaluateScale, Violates
  <2> QED
    BY <2>1 DEF Reviewed, ReviewedWithinCeiling
<1> QED
  BY <1>1, <1>2, <1>3, PTL DEF Spec

-------------------------------------------------------------------------------
(* Defaulting a pod template *)

PortsDefaulted(c) == \A j \in DOMAIN c.ports : c.ports[j].protocol # ""

TemplateDefaulted(t) ==
  /\ t.serviceType # ""
  /\ t.strategy # None => t.strategy.type # ""
  /\ \A i \in DOMAIN t.containers : PortsDefaulted(t.containers[i])

LEMMA ListIsFunction ==
  ASSUME NEW s, IsList(s)
  PROVE  s = [i \in DOMAIN s |-> s[i]]
BY DEF IsList

LEMMA ProtocolsSet ==
  ASSUME NEW c, ContainerTypes(c)
  PROVE  /\ PortsDefaulted(WithProtocols(c))
         /\ PortsDefaulted(c) => WithProtocols(c) = c
<1> DEFINE port(j) == [c.ports[j] EXCEPT !.protocol = Protocol(c.ports[j])]
           ports == [j \in DOMAIN c.ports |-> port(j)]
<1>1. WithProtocols(c) = [name |-> c.name, ports |-> ports, requests |-> c.requests,
                          limits |-> c.limits, scratchVolumes |-> c.scratchVolumes]
  BY DEF ContainerTypes, WithProtocols
<1>2. \A j \in DOMAIN c.ports :
        port(j) = [name |-> c.ports[j].name, number |-> c.ports[j].number,
                   protocol |-> Protocol(c.ports[j])]
  BY DEF ContainerTypes, PortTypes
<1>3. PortsDefaulted(WithProtocols(c))
  <2>1. \A j \in DOMAIN c.ports : port(j).protocol # ""
    BY <1>2 DEF Protocol
  <2>2. \A j \in DOMAIN ports : ports[j].protocol # ""
    BY <2>1
  <2>3. WithProtocols(c).ports = ports
    BY <1>1
  <2> HIDE DEF ports
  <2> QED
    BY <2>2, <2>3 DEF PortsDefaulted
<1>4. ASSUME PortsDefaulted(c) PROVE WithProtocols(c) = c
  <2>1. \A j \in DOMAIN c.ports : port(j) = c.ports[j]
    BY <1>2, <1>4 DEF PortsDefaulted, Protocol, ContainerTypes, PortTypes
  <2> HIDE DEF port
  <2>2. ports = c.ports
    BY <2>1, ListIsFunction DEF ContainerTypes
  <2> QED
    BY <1>1, <2>2 DEF ContainerTypes
<1> QED
  BY <1>3, <1>4

LEMMA TemplateWith ==
  ASSUME NEW t, TemplateTypes(t), NEW type, NEW strategy, NEW containers
  PROVE  [t EXCEPT !.serviceType = type, !.strategy = strategy,
                   !.containers = containers] =
         [containers         |-> containers,
          ingressPortName    |-> t.ingressPortName,
          serviceType        |-> type,
          strategy           |-> strategy,
          serviceAccountName |-> t.serviceAccountName,
          podAnnotations     |-> t.podAnnotations]
<1> DEFINE new == [t EXCEPT !.serviceType = type, !.strategy = strategy,
                            !.containers = containers]
<1>1. new = [field \in DOMAIN t |-> IF field = "serviceType" THEN type
                                    ELSE IF field = "strategy" THEN strategy
                                    ELSE IF field = "containers" THEN containers
                                    ELSE t[field]]
  OBVIOUS
<1>2. DOMAIN t = {"containers", "ingressPortName", "serviceType", "strategy",
                  "serviceAccountName", "podAnnotations"}
  BY DEF TemplateTypes
<1> QED
  BY <1>1, <1>2

LEMMA SchemaDefaultsTemplate ==
  ASSUME NEW t, TemplateTypes(t)
  PROVE  /\ TemplateDefaulted(SchemaDefaultTemplate(t))
         /\ TemplateDefaulted(t) => SchemaDefaultTemplate(t) = t
<1> DEFINE new == SchemaDefaultTemplate(t)
           type == IF t.serviceType = "" THEN "ClusterIP" ELSE t.serviceType
           strategy == IF t.strategy # None /\ t.strategy.type = ""
                       THEN [t.strategy EXCEPT !.type = "RollingUpdate"]
                       ELSE t.strategy
           containers == [i \in DOMAIN t.containers |-> WithProtocols(t.containers[i])]
<1>1. new = [t EXCEPT !.serviceType = type, !.strategy = strategy,
                      !.containers = containers]
  BY DEF SchemaDefaultTemplate
<1>2. /\ type # "" /\ (t.serviceType # "" => type = t.serviceType)
      /\ strategy # None => strategy.type # ""
      /\ (t.strategy # None => t.strategy.type # "") => strategy = t.strategy
  <2>1. CASE t.strategy # None /\ t.strategy.type = ""
    <3> DEFINE params == t.strategy.rollingUpdate
    <3>1. t.strategy = [type |-> "", rollingUpdate |-> params]
      BY <2>1 DEF TemplateTypes
    <3> HIDE DEF params
    <3>2. DOMAIN t.strategy = {"type", "rollingUpdate"}
      BY <3>1
    <3>3. strategy.type = "RollingUpdate"
      BY <2>1, <3>2
    <3> QED
      BY <2>1, <3>3
  <2> QED
    BY <2>1
<1>3. /\ DOMAIN containers = DOMAIN t.containers
      /\ \A i \in DOMAIN t.containers : PortsDefaulted(containers[i])
      /\ (\A i \in DOMAIN t.containers : PortsDefaulted(t.containers[i]))
           => containers = t.containers
  BY ProtocolsSet, ListIsFunction DEF TemplateTypes
<1> HIDE DEF type, strategy, containers
<1>4. new = [containers         |-> containers,
             ingressPortName    |-> t.ingressPortName,
             serviceType        |-> type,
             strategy           |-> strategy,
             serviceAccountName |-> t.serviceAccountName,
             podAnnotations     |-> t.podAnnotations]
  BY <1>1, TemplateWith
<1>5. new.containers = containers /\ new.serviceType = type /\ new.strategy = strategy
  BY <1>4
<1>6. TemplateDefaulted(new)
  BY <1>2, <1>3, <1>5 DEF TemplateDefaulted
<1>7. ASSUME TemplateDefaulted(t) PROVE new = t
  <2>1. containers = t.containers /\ type = t.serviceType /\ strategy = t.strategy
    BY <1>2, <1>3, <1>7 DEF TemplateDefaulted
  <2> QED
    BY <1>4, <2>1 DEF TemplateTypes
<1> QED
  BY <1>6, <1>7

LEMMA DefaultsTemplate ==
  ASSUME NEW t, TemplateTypes(t), TemplateDefaulted(t)
  PROVE  /\ DefaultTemplate(t) =
              [containers         |-> t.containers,
               ingressPortName    |-> t.ingressPortName,
               serviceType        |-> t.serviceType,
               strategy           |-> StrategyDefault(t.strategy),
               serviceAccountName |-> t.serviceAccountName,
               podAnnotations     |-> t.podAnnotations]
         /\ TemplateDefaulted(DefaultTemplate(t))
         /\ TemplateValid(t) => TemplateValid(DefaultTemplate(t))
<1> DEFINE new == DefaultTemplate(t)
           type == IF t.serviceType = "" THEN "ClusterIP" ELSE t.serviceType
           strategy == StrategyDefault(t.strategy)
           containers == [i \in DOMAIN t.containers |-> WithProtocols(t.containers[i])]
<1>1. new = [t EXCEPT !.serviceType = type, !.strategy = strategy,
                      !.containers = containers]
  BY DEF DefaultTemplate
<1>2. type = t.serviceType
  BY DEF TemplateDefaulted
<1>3. containers = t.containers
  <2>1. \A i \in DOMAIN t.containers : WithProtocols(t.containers[i]) = t.containers[i]
    BY ProtocolsSet DEF TemplateTypes, TemplateDefaulted
  <2> QED
    BY <2>1, ListIsFunction DEF TemplateTypes
<1>4. strategy = IF t.strategy = None
                 THEN [type |-> "RollingUpdate", rollingUpdate |-> None]
                 ELSE t.strategy
  <2>1. CASE t.strategy = None
    BY <2>1 DEF StrategyDefault
  <2>2. CASE t.strategy # None
    <3>1. t.strategy.type # ""
      BY <2>2 DEF TemplateDefaulted
    <3> QED
      BY <2>2, <3>1 DEF StrategyDefault
  <2> QED
    BY <2>1, <2>2
<1>5. /\ strategy # None => strategy.type # ""
      /\ (strategy # None /\ strategy.rollingUpdate # None)
           => /\ t.strategy # None /\ t.strategy.rollingUpdate # None
              /\ strategy.type = t.strategy.type
  <2>1. CASE t.strategy = None
    <3> DEFINE rolling == [type |-> "RollingUpdate", rollingUpdate |-> None]
    <3>1. rolling.type = "RollingUpdate" /\ rolling.rollingUpdate = None
      OBVIOUS
    <3> HIDE DEF rolling
    <3>2. strategy = rolling
      BY <1>4, <2>1 DEF rolling
    <3> HIDE DEF strategy
    <3> QED
      BY <3>1, <3>2
  <2>2. CASE t.strategy # None
    BY <1>4, <2>2 DEF TemplateDefaulted
  <2> QED
    BY <2>1, <2>2
<1> HIDE DEF type, strategy, containers
<1>6. new = [containers         |-> t.containers,
             ingressPortName    |-> t.ingressPortName,
             serviceType        |-> t.serviceType,
             strategy           |-> strategy,
             serviceAccountName |-> t.serviceAccountName,
             podAnnotations     |-> t.podAnnotations]
  <2>1. new = [containers         |-> containers,
               ingressPortName    |-> t.ingressPortName,
               serviceType        |-> type,
               strategy           |-> strategy,
               serviceAccountName |-> t.serviceAccountName,
               podAnnotations     |-> t.podAnnotations]
    BY <1>1, TemplateWith
  <2> QED
    BY <1>2, <1>3, <2>1
<1>7. /\ new.containers = t.containers /\ new.serviceType = t.serviceType
      /\ new.strategy = strategy
  BY <1>6
<1> HIDE DEF new
<1>8. TemplateDefaulted(new)
  BY <1>5, <1>7 DEF TemplateDefaulted
<1>9. ASSUME TemplateValid(t) PROVE TemplateValid(new)
  <2>1. (new.strategy # None /\ new.strategy.rollingUpdate # None)
          => new.strategy.type = "RollingUpdate"
    BY <1>5, <1>7, <1>9 DEF TemplateValid, NoneTwice, Name
  <2>2. /\ new.containers # <<>>
        /\ \A i, j \in DOMAIN new.containers :
             new.containers[i].name = new.containers[j].name => i = j
        /\ \A i \in DOMAIN new.containers : ContainerValid(new.containers[i])
    BY <1>7, <1>9 DEF TemplateValid, NoneTwice, Name
  <2> QED
    BY <2>1, <2>2 DEF TemplateValid, NoneTwice, Name
<1> QED
  BY <1>6, <1>8, <1>9 DEF new, strategy

-------------------------------------------------------------------------------
(* Defaulting a spec *)

\* What the schema's defaults leave: the API server stores nothing else.
Defaulted(spec) ==
  /\ TemplateDefaulted(spec.template)
  /\ spec.autoscaling => spec.minReplicas # None
  /\ spec.replicas # None

LEMMA SpecWith ==
  ASSUME NEW spec \in FullSpec, NEW template, NEW min, NEW replicas, NEW targets
  PROVE  /\ [spec EXCEPT !.template = template, !.minReplicas = min,
                         !.replicas = replicas] =
            [template |-> template, domain |-> spec.domain,
             autoscaling |-> spec.autoscaling, minReplicas |-> min,
             maxReplicas |-> spec.maxReplicas, replicas |-> replicas,
             targets |-> spec.targets]
         /\ [spec EXCEPT !.template = template, !.minReplicas = min,
                         !.targets = targets] =
            [template |-> template, domain |-> spec.domain,
             autoscaling |-> spec.autoscaling, minReplicas |-> min,
             maxReplicas |-> spec.maxReplicas, replicas |-> spec.replicas,
             targets |-> targets]
<1>1. DOMAIN spec = {"template", "domain", "autoscaling", "minReplicas", "maxReplicas",
                     "replicas", "targets"}
  BY DEF FullSpec
<1>2. [spec EXCEPT !.template = template, !.minReplicas = min, !.replicas = replicas] =
      [field \in DOMAIN spec |-> IF field = "template" THEN template
                                 ELSE IF field = "minReplicas" THEN min
                                 ELSE IF field = "replicas" THEN replicas
                                 ELSE spec[field]]
  OBVIOUS
<1>3. [spec EXCEPT !.template = template, !.minReplicas = min, !.targets = targets] =
      [field \in DOMAIN spec |-> IF field = "template" THEN template
                                 ELSE IF field = "minReplicas" THEN min
                                 ELSE IF field = "targets" THEN targets
                                 ELSE spec[field]]
  OBVIOUS
<1> QED
  BY <1>1, <1>2, <1>3

LEMMA SchemaDefaultSound ==
  ASSUME NEW spec \in FullSpec
  PROVE  /\ SchemaDefault(spec) \in FullSpec
         /\ Defaulted(SchemaDefault(spec))
         /\ Defaulted(spec) => SchemaDefault(spec) = spec
<1> DEFINE new == SchemaDefault(spec)
           template == SchemaDefaultTemplate(spec.template)
           min == IF spec.autoscaling /\ spec.minReplicas = None THEN 1
                  ELSE spec.minReplicas
           replicas == ReplicasDefault(spec.replicas)
<1>1. new = [spec EXCEPT !.template = template, !.minReplicas = min,
                         !.replicas = replicas]
  BY DEF SchemaDefault
<1>2. spec.template \in Templates /\ TemplateTypes(spec.template)
  BY TemplateAssumption DEF FullSpec
<1>3. /\ template \in Templates /\ TemplateDefaulted(template)
      /\ TemplateDefaulted(spec.template) => template = spec.template
  BY <1>2, SchemaDefaultsTemplate, AdmissionAssumption
<1>4. /\ min \in Nat \cup {None} /\ (spec.autoscaling => min # None)
      /\ replicas \in Nat /\ replicas # None
      /\ (spec.autoscaling => spec.minReplicas # None) => min = spec.minReplicas
      /\ spec.replicas # None => replicas = spec.replicas
  BY ResourceAssumption DEF FullSpec, ReplicasDefault
<1> HIDE DEF template, min, replicas
<1>5. new = [template |-> template, domain |-> spec.domain,
             autoscaling |-> spec.autoscaling, minReplicas |-> min,
             maxReplicas |-> spec.maxReplicas, replicas |-> replicas,
             targets |-> spec.targets]
  BY <1>1, SpecWith
<1> HIDE DEF new
<1>6. new \in FullSpec
  BY <1>3, <1>4, <1>5 DEF FullSpec
<1>7. Defaulted(new)
  BY <1>3, <1>4, <1>5 DEF Defaulted
<1>8. ASSUME Defaulted(spec) PROVE new = spec
  <2>1. template = spec.template /\ min = spec.minReplicas /\ replicas = spec.replicas
    BY <1>3, <1>4, <1>8 DEF Defaulted
  <2> QED
    BY <1>5, <2>1 DEF FullSpec
<1> QED
  BY <1>6, <1>7, <1>8 DEF new

\* What the mutating webhook changes in a spec that has the schema's defaults.
LEMMA DefaultSound ==
  ASSUME NEW spec \in FullSpec, Defaulted(spec)
  PROVE  /\ Default(spec) =
              [template |-> DefaultTemplate(spec.template), domain |-> spec.domain,
               autoscaling |-> spec.autoscaling, minReplicas |-> spec.minReplicas,
               maxReplicas |-> spec.maxReplicas, replicas |-> spec.replicas,
               targets |-> IF spec.autoscaling THEN TargetsDefault(spec.targets)
                           ELSE spec.targets]
         /\ Default(spec) \in FullSpec
         /\ Defaulted(Default(spec))
         /\ SchemaValid(spec) => SchemaValid(Default(spec))
<1> DEFINE new == Default(spec)
           template == DefaultTemplate(spec.template)
           min == IF spec.autoscaling /\ spec.minReplicas = None THEN 1
                  ELSE spec.minReplicas
           targets == IF spec.autoscaling THEN TargetsDefault(spec.targets)
                      ELSE spec.targets
<1>1. new = [spec EXCEPT !.template = template, !.minReplicas = min,
                         !.targets = targets]
  BY DEF Default
<1>2. spec.template \in Templates /\ TemplateTypes(spec.template)
  BY TemplateAssumption DEF FullSpec
<1>3. /\ template \in Templates /\ TemplateDefaulted(template)
      /\ template.ingressPortName = spec.template.ingressPortName
      /\ TemplateValid(spec.template) => TemplateValid(template)
  BY <1>2, DefaultsTemplate, AdmissionAssumption DEF Defaulted
<1>4. min = spec.minReplicas
  BY DEF Defaulted
<1>5. targets \in [Resources -> Nat \cup {None}]
  BY DEF FullSpec, TargetsDefault, DefaultTargetCPU, Resources
<1> HIDE DEF template, min, targets
<1>6. new = [template |-> template, domain |-> spec.domain,
             autoscaling |-> spec.autoscaling, minReplicas |-> spec.minReplicas,
             maxReplicas |-> spec.maxReplicas, replicas |-> spec.replicas,
             targets |-> targets]
  <2>1. new = [template |-> template, domain |-> spec.domain,
               autoscaling |-> spec.autoscaling, minReplicas |-> min,
               maxReplicas |-> spec.maxReplicas, replicas |-> spec.replicas,
               targets |-> targets]
    BY <1>1, SpecWith
  <2> QED
    BY <1>4, <2>1
<1> HIDE DEF new
<1>7. new \in FullSpec
  BY <1>3, <1>5, <1>6 DEF FullSpec
<1>8. Defaulted(new)
  BY <1>3, <1>6 DEF Defaulted
<1>9. SchemaValid(spec) => SchemaValid(new)
  BY <1>3, <1>6 DEF SchemaValid
<1> QED
  BY <1>6, <1>7, <1>8, <1>9 DEF new, template, targets

LEMMA MutatedSound ==
  ASSUME NEW spec \in FullSpec
  PROVE  Mutated(spec) \in FullSpec /\ Defaulted(Mutated(spec))
BY SchemaDefaultSound, DefaultSound DEF Mutated

\* A count written through the scale subresource.
LEMMA ScaledSpec ==
  ASSUME NEW spec \in FullSpec, NEW n
  PROVE  [spec EXCEPT !.replicas = n] =
            [template |-> spec.template, domain |-> spec.domain,
             autoscaling |-> spec.autoscaling, minReplicas |-> spec.minReplicas,
             maxReplicas |-> spec.maxReplicas, replicas |-> n,
             targets |-> spec.targets]
<1>1. DOMAIN spec = {"template", "domain", "autoscaling", "minReplicas", "maxReplicas",
                     "replicas", "targets"}
  BY DEF FullSpec
<1>2. [spec EXCEPT !.replicas = n] =
      [field \in DOMAIN spec |-> IF field = "replicas" THEN n ELSE spec[field]]
  OBVIOUS
<1> QED
  BY <1>1, <1>2

LEMMA ScaledSound ==
  ASSUME NEW spec \in FullSpec, Defaulted(spec), SchemaValid(spec), NEW n \in Nat
  PROVE  LET new == [spec EXCEPT !.replicas = n]
         IN  new \in FullSpec /\ Defaulted(new) /\ SchemaValid(new)
<1> DEFINE new == [spec EXCEPT !.replicas = n]
<1>1. new = [template |-> spec.template, domain |-> spec.domain,
             autoscaling |-> spec.autoscaling, minReplicas |-> spec.minReplicas,
             maxReplicas |-> spec.maxReplicas, replicas |-> n,
             targets |-> spec.targets]
  BY ScaledSpec
<1> HIDE DEF new
<1>2. new \in FullSpec
  BY <1>1 DEF FullSpec
<1>3. Defaulted(new)
  BY <1>1, ResourceAssumption DEF Defaulted
<1>4. SchemaValid(new)
  BY <1>1 DEF SchemaValid
<1> QED
  BY <1>2, <1>3, <1>4 DEF new

-------------------------------------------------------------------------------
(* What is stored *)

\* What is stored has a finalizer or not, is being deleted or not, and holds a
\* spec that the API server can store again as it is.
Storable(object) ==
  object \in StoredWebApp /\ Defaulted(object.spec) /\ SchemaValid(object.spec)

StoredSound == stored # None => Storable(stored)

ReviewedValid == judged # None => stored # None /\ ValidateSpec(stored.spec)

OtherTypes ==
  /\ policies \subseteq AllPolicies
  /\ webhooks \in {"absent", "up", "down"}
  /\ answer \in [request : Requests, ok : BOOLEAN]
  /\ judged = None \/ judged \subseteq AllPolicies
  /\ scaled \in BOOLEAN
  /\ vetted \subseteq policies
  /\ budget \in [Events -> Nat]

AdmissionSound ==
  StoredSound /\ ReviewedValid /\ OtherTypes /\ ReleaseNeverRefused

LEMMA StorableTypes ==
  ASSUME NEW object, Storable(object)
  PROVE  /\ object.spec.template \in Templates
         /\ object.spec.replicas \in Nat
         /\ object.spec.autoscaling => /\ object.spec.maxReplicas \in Nat
                                       /\ object.spec.minReplicas \in Nat
<1>1. object.spec \in FullSpec
  BY DEF Storable, StoredWebApp
<1> QED
  BY <1>1 DEF Storable, FullSpec, Defaulted, SchemaValid

LEMMA StorableWith ==
  ASSUME NEW object, Storable(object), NEW spec, NEW fin \in BOOLEAN,
         spec \in FullSpec, Defaulted(spec), SchemaValid(spec)
  PROVE  LET new == [object EXCEPT !.spec = spec, !.fin = fin]
         IN  Storable(new) /\ new.spec = spec
<1> DEFINE new == [object EXCEPT !.spec = spec, !.fin = fin]
<1>1. object \in StoredWebApp
  BY DEF Storable
<1>2. new \in StoredWebApp /\ new.spec = spec
  BY <1>1 DEF StoredWebApp
<1> HIDE DEF new
<1> QED
  BY <1>2 DEF new, Storable

\* Only its schema keeps a write of a WebApp from being admitted that the webhooks
\* do not see; what they do see, they have reviewed.
LEMMA ReviewAnswers ==
  ASSUME NEW request \in Requests, NEW spec, Review(request, spec)
  PROVE  /\ answer' \in [request : Requests, ok : BOOLEAN]
         /\ answer'.request = request
         /\ answer'.ok => SchemaValid(spec)
         /\ (SchemaValid(spec) /\ ~Consulted) => answer'.ok
         /\ (answer'.ok /\ Consulted /\ (stored # None => spec # stored.spec))
              => ValidateSpec(spec)
<1>1. PICK readable \in BOOLEAN :
        answer' = [request |-> request,
                   ok |-> /\ SchemaValid(spec)
                          /\ Consulted =>
                               /\ webhooks = "up"
                               /\ IF stored = None THEN Validate(spec, readable)
                                  ELSE ValidateUpdate(spec, readable)]
  BY DEF Review
<1>2. (Consulted /\ (stored # None => spec # stored.spec)
         /\ IF stored = None THEN Validate(spec, readable)
            ELSE ValidateUpdate(spec, readable))
        => ValidateSpec(spec)
  BY DEF ValidateUpdate, Validate, Consulted
<1> QED
  BY <1>1, <1>2

LEMMA CreateSound ==
  ASSUME AdmissionSound, NEW spec \in Specs, Create(spec)
  PROVE  AdmissionSound'
<1> DEFINE new == Mutated(spec)
<1>1. new \in FullSpec /\ Defaulted(new)
  BY MutatedSound, AdmissionAssumption
<1> HIDE DEF new
<1>2. /\ Review("create", new) /\ stored = None
      /\ stored' = IF answer'.ok THEN [spec |-> new, fin |-> FALSE, deleting |-> FALSE]
                   ELSE None
      /\ Judge(new)
      /\ UNCHANGED <<policies, webhooks, vetted, budget>>
  BY DEF Create, new
<1>3. /\ answer' \in [request : Requests, ok : BOOLEAN]
      /\ answer'.request = "create"
      /\ answer'.ok => SchemaValid(new)
      /\ answer'.ok /\ Consulted => ValidateSpec(new)
  BY <1>2, ReviewAnswers DEF Requests
<1>4. answer'.ok => Storable(stored') /\ stored'.spec = new /\ stored' # None
  <2> SUFFICES ASSUME answer'.ok
               PROVE  Storable(stored') /\ stored'.spec = new /\ stored' # None
    OBVIOUS
  <2>1. stored' = [spec |-> new, fin |-> FALSE, deleting |-> FALSE]
    BY <1>2
  <2>2. stored' \in StoredWebApp /\ stored'.spec = new
    BY <1>1, <2>1 DEF StoredWebApp
  <2> QED
    BY <1>1, <1>3, <2>2, AdmissionAssumption DEF Storable
<1>5. StoredSound'
  BY <1>2, <1>4 DEF StoredSound
<1>6. ReviewedValid' /\ (judged' = None \/ judged' \subseteq AllPolicies)
      /\ scaled' \in BOOLEAN
  <2>1. CASE answer'.ok
    BY <1>2, <1>3, <1>4, <2>1
    DEF Judge, AdmissionSound, ReviewedValid, OtherTypes
  <2>2. CASE ~answer'.ok
    BY <1>2, <2>2 DEF Judge, historyVars, AdmissionSound, ReviewedValid, OtherTypes
  <2> QED
    BY <2>1, <2>2
<1>7. OtherTypes'
  BY <1>2, <1>3, <1>6 DEF AdmissionSound, OtherTypes
<1> QED
  BY <1>3, <1>5, <1>6, <1>7 DEF AdmissionSound, ReleaseNeverRefused

LEMMA PutSound ==
  ASSUME AdmissionSound, stored # None, NEW request \in Requests \ {"release"},
         NEW spec \in FullSpec, Defaulted(spec), NEW fin \in BOOLEAN,
         Put(request, spec, fin), budget' \in [Events -> Nat]
  PROVE  AdmissionSound'
<1>1. /\ Review(request, spec) /\ Judge(spec)
      /\ stored' = IF answer'.ok THEN [stored EXCEPT !.spec = spec, !.fin = fin]
                   ELSE stored
      /\ UNCHANGED <<policies, webhooks, vetted>>
  BY DEF Put
<1>2. /\ answer' \in [request : Requests, ok : BOOLEAN]
      /\ answer'.request = request
      /\ answer'.ok => SchemaValid(spec)
      /\ (answer'.ok /\ Consulted /\ spec # stored.spec) => ValidateSpec(spec)
  BY <1>1, ReviewAnswers
<1>3. Storable(stored)
  BY DEF AdmissionSound, StoredSound
<1>4. answer'.ok => Storable(stored') /\ stored'.spec = spec
  BY <1>1, <1>2, <1>3, StorableWith
<1>5. StoredSound' /\ stored' # None
  <2>1. answer'.ok => stored' # None
    BY <1>4, AdmissionAssumption DEF Storable
  <2> QED
    BY <1>1, <1>3, <1>4, <2>1 DEF StoredSound
<1>6. ReviewedValid' /\ (judged' = None \/ judged' \subseteq AllPolicies)
      /\ scaled' \in BOOLEAN
  <2>1. CASE ~answer'.ok \/ spec = stored.spec
    BY <1>1, <1>4, <1>5, <2>1
    DEF Judge, historyVars, AdmissionSound, ReviewedValid, OtherTypes
  <2>2. CASE answer'.ok /\ spec # stored.spec
    BY <1>1, <1>2, <1>4, <1>5, <2>2
    DEF Judge, AdmissionSound, ReviewedValid, OtherTypes
  <2> QED
    BY <2>1, <2>2
<1>7. OtherTypes'
  BY <1>1, <1>2, <1>6 DEF AdmissionSound, OtherTypes
<1> QED
  BY <1>2, <1>5, <1>6, <1>7 DEF AdmissionSound, ReleaseNeverRefused

LEMMA ScaleSound ==
  ASSUME AdmissionSound, NEW n \in Counts, Scale(n)
  PROVE  AdmissionSound'
<1> DEFINE spec == [stored.spec EXCEPT !.replicas = n]
<1>1. /\ stored # None /\ answer' = [request |-> "scale", ok |-> TRUE]
      /\ scaled' = TRUE /\ UNCHANGED <<policies, webhooks, judged, vetted>>
      /\ budget' \in [Events -> Nat]
  BY DEF Scale, Spend, AdmissionSound, OtherTypes, Events
<1>2. Storable(stored) /\ n \in Nat
  BY <1>1, AdmissionAssumption DEF AdmissionSound, StoredSound
<1>3. /\ spec \in FullSpec /\ Defaulted(spec) /\ SchemaValid(spec)
      /\ ValidateSpec(stored.spec) => ValidateSpec(spec)
  <2>1. /\ spec.template = stored.spec.template
        /\ spec.autoscaling = stored.spec.autoscaling
        /\ spec.minReplicas = stored.spec.minReplicas
        /\ spec.maxReplicas = stored.spec.maxReplicas
        /\ spec.targets = stored.spec.targets
    BY <1>2, ScaledSpec DEF Storable, StoredWebApp
  <2>2. spec \in FullSpec /\ Defaulted(spec) /\ SchemaValid(spec)
    BY <1>2, ScaledSound DEF Storable, StoredWebApp
  <2> HIDE DEF spec
  <2>3. ValidAutoscaling(stored.spec) => ValidAutoscaling(spec)
    BY <2>1 DEF ValidAutoscaling, RequestsForTargets, TargetedResources
  <2>4. ValidateSpec(stored.spec) => ValidateSpec(spec)
    BY <2>1, <2>3 DEF ValidateSpec, NoneTwice, Name
  <2> QED
    BY <2>2, <2>4 DEF spec
<1>4. stored' = [stored EXCEPT !.spec = spec]
  BY <1>2 DEF Scale, Storable, StoredWebApp
<1> HIDE DEF spec
<1>5. stored' \in StoredWebApp /\ stored'.spec = spec
  BY <1>2, <1>3, <1>4 DEF Storable, StoredWebApp
<1>6. StoredSound' /\ ReviewedValid'
  BY <1>1, <1>3, <1>5, AdmissionAssumption
  DEF StoredSound, Storable, ReviewedValid, AdmissionSound
<1>7. OtherTypes' /\ ReleaseNeverRefused'
  BY <1>1 DEF OtherTypes, ReleaseNeverRefused, AdmissionSound, Requests
<1> QED
  BY <1>6, <1>7 DEF AdmissionSound

\* The webhooks do not see the removal of the finalizer, and what is stored is
\* valid as it is.
LEMMA ReleaseSound ==
  ASSUME AdmissionSound, Release
  PROVE  AdmissionSound'
<1>1. /\ stored # None /\ stored.deleting
      /\ Review("release", Mutated(stored.spec))
      /\ IF answer'.ok THEN Gone ELSE UNCHANGED <<stored, historyVars>>
      /\ UNCHANGED <<policies, webhooks, vetted, budget>>
  BY DEF Release
<1>2. Storable(stored)
  BY <1>1 DEF AdmissionSound, StoredSound
<1>3. ~Consulted /\ Mutated(stored.spec) = stored.spec
  BY <1>1, <1>2, SchemaDefaultSound DEF Consulted, Mutated, Storable, StoredWebApp
<1>4. answer' \in [request : Requests, ok : BOOLEAN] /\ answer'.ok
  BY <1>1, <1>2, <1>3, ReviewAnswers DEF Storable, Requests
<1>5. StoredSound' /\ ReviewedValid'
  BY <1>1, <1>4 DEF Gone, StoredSound, ReviewedValid
<1>6. OtherTypes' /\ ReleaseNeverRefused'
  BY <1>1, <1>4 DEF Gone, AdmissionSound, OtherTypes, ReleaseNeverRefused
<1> QED
  BY <1>5, <1>6 DEF AdmissionSound

LEMMA DeleteSound ==
  ASSUME AdmissionSound, Delete
  PROVE  AdmissionSound'
<1>1. /\ stored # None /\ answer' = [request |-> "delete", ok |-> TRUE]
      /\ \/ stored' = [stored EXCEPT !.deleting = TRUE] /\ UNCHANGED historyVars
         \/ Gone
      /\ UNCHANGED <<policies, webhooks, vetted, budget>>
  BY DEF Delete
<1>2. Storable(stored)
  BY <1>1 DEF AdmissionSound, StoredSound
<1>3. CASE stored' = [stored EXCEPT !.deleting = TRUE] /\ UNCHANGED historyVars
  <2>1. stored' \in StoredWebApp /\ stored'.spec = stored.spec
    BY <1>2, <1>3 DEF Storable, StoredWebApp
  <2>2. StoredSound' /\ ReviewedValid'
    BY <1>2, <1>3, <2>1, AdmissionAssumption
    DEF StoredSound, Storable, ReviewedValid, AdmissionSound, historyVars
  <2>3. OtherTypes' /\ ReleaseNeverRefused'
    BY <1>1, <1>3
    DEF OtherTypes, ReleaseNeverRefused, AdmissionSound, Requests, historyVars
  <2> QED
    BY <2>2, <2>3 DEF AdmissionSound
<1>4. CASE Gone
  BY <1>1, <1>4
  DEF Gone, AdmissionSound, StoredSound, ReviewedValid, OtherTypes,
      ReleaseNeverRefused, Requests
<1> QED
  BY <1>1, <1>3, <1>4

\* What administrators do touches no WebApp.
LEMMA AdministrationSound ==
  ASSUME AdmissionSound,
         \/ \E p \in AllPolicies : WritePolicy(p)
         \/ DeletePolicies
         \/ \E state \in {"absent", "up", "down"} : SwitchWebhooks(state)
         \/ UNCHANGED vars
  PROVE  AdmissionSound'
<1>1. StoredSound' /\ ReviewedValid' /\ ReleaseNeverRefused'
  BY DEF WritePolicy, DeletePolicies, SwitchWebhooks, vars, historyVars,
         AdmissionSound, StoredSound, ReviewedValid, ReleaseNeverRefused
<1>2. OtherTypes'
  <2>1. CASE \E p \in AllPolicies : WritePolicy(p)
    <3>1. PICK p \in AllPolicies : WritePolicy(p)
      BY <2>1
    <3>2. answer' \in [request : Requests, ok : BOOLEAN]
      BY <3>1 DEF WritePolicy, Requests
    <3>3. policies' \in SUBSET AllPolicies /\ vetted' \subseteq policies'
      BY <3>1 DEF WritePolicy
    <3>4. budget' \in [Events -> Nat] /\ UNCHANGED <<webhooks, judged, scaled>>
      BY <3>1 DEF WritePolicy, Spend, historyVars, AdmissionSound, OtherTypes, Events
    <3> QED
      BY <3>2, <3>3, <3>4 DEF AdmissionSound, OtherTypes
  <2>2. CASE DeletePolicies
    BY <2>2 DEF DeletePolicies, historyVars, AdmissionSound, OtherTypes, Requests
  <2>3. CASE \E state \in {"absent", "up", "down"} : SwitchWebhooks(state)
    BY <2>3 DEF SwitchWebhooks, Spend, historyVars, AdmissionSound, OtherTypes,
                Requests, Events
  <2>4. CASE UNCHANGED vars
    BY <2>4 DEF vars, historyVars, AdmissionSound, OtherTypes
  <2> QED
    BY <2>1, <2>2, <2>3, <2>4
<1> QED
  BY <1>1, <1>2 DEF AdmissionSound

LEMMA AdmissionInvariant == Spec => []AdmissionSound
<1>1. Init => AdmissionSound
  <2> SUFFICES ASSUME Init
               PROVE  AdmissionSound
    OBVIOUS
  <2>1. StoredSound /\ ReviewedValid
    BY DEF Init, StoredSound, ReviewedValid
  <2>2. answer \in [request : Requests, ok : BOOLEAN] /\ ReleaseNeverRefused
    BY DEF Init, Requests, ReleaseNeverRefused
  <2>3. budget \in [Events -> Nat]
    BY AdmissionAssumption DEF Init
  <2> QED
    BY <2>1, <2>2, <2>3 DEF Init, AdmissionSound, OtherTypes
<1>2. AdmissionSound /\ [Next]_vars => AdmissionSound'
  <2> SUFFICES ASSUME AdmissionSound, [Next]_vars
               PROVE  AdmissionSound'
    OBVIOUS
  <2>1. CASE \E spec \in Specs : Create(spec)
    BY <2>1, CreateSound
  <2>2. ASSUME NEW spec \in Edits, Update(spec) PROVE AdmissionSound'
    <3>1. /\ stored # None /\ Put("update", Mutated(spec), stored.fin)
          /\ budget' \in [Events -> Nat]
      BY <2>2 DEF Update, Spend, AdmissionSound, OtherTypes, Events
    <3>2. Mutated(spec) \in FullSpec /\ Defaulted(Mutated(spec))
      BY MutatedSound, AdmissionAssumption
    <3>3. stored.fin \in BOOLEAN
      BY <3>1 DEF AdmissionSound, StoredSound, Storable, StoredWebApp
    <3> QED
      BY <3>1, <3>2, <3>3, PutSound DEF Requests
  <2>3. ASSUME NEW fin \in BOOLEAN, Touch(fin) PROVE AdmissionSound'
    <3>1. /\ stored # None /\ Put("touch", Mutated(stored.spec), fin \/ stored.fin)
          /\ budget' \in [Events -> Nat]
      BY <2>3 DEF Touch, AdmissionSound, OtherTypes
    <3>2. stored.spec \in FullSpec
      BY <3>1 DEF AdmissionSound, StoredSound, Storable, StoredWebApp
    <3>3. Mutated(stored.spec) \in FullSpec /\ Defaulted(Mutated(stored.spec))
      BY <3>2, MutatedSound
    <3>4. (fin \/ stored.fin) \in BOOLEAN
      OBVIOUS
    <3> QED
      BY <3>1, <3>3, <3>4, PutSound DEF Requests
  <2>4. CASE Release
    BY <2>4, ReleaseSound
  <2>5. CASE Delete
    BY <2>5, DeleteSound
  <2>6. CASE \E n \in Counts : Scale(n)
    BY <2>6, ScaleSound
  <2>7. CASE \/ \E p \in AllPolicies : WritePolicy(p)
             \/ DeletePolicies
             \/ \E state \in {"absent", "up", "down"} : SwitchWebhooks(state)
             \/ UNCHANGED vars
    BY <2>7, AdministrationSound
  <2> QED
    BY <2>1, <2>2, <2>3, <2>4, <2>5, <2>6, <2>7 DEF Next
<1> QED
  BY <1>1, <1>2, PTL DEF Spec

\* Every variable keeps its type, and a stored WebApp has what the scale
\* subresource (selectorpath and specpath of the CRD) and the controller read from
\* it: whatever was written, a count, and an autoscaled one both of its bounds.
THEOREM AdmissionTypeCorrect == Spec => []TypeOK
<1>1. AdmissionSound => TypeOK
  <2>1. AdmissionSound /\ stored # None => /\ stored.fin \in BOOLEAN
                                          /\ stored.deleting \in BOOLEAN
    BY DEF AdmissionSound, StoredSound, Storable, StoredWebApp
  <2> QED
    BY <2>1, StorableTypes DEF AdmissionSound, StoredSound, OtherTypes, TypeOK
<1> QED
  BY <1>1, AdmissionInvariant, PTL

\* The Update with which finalize takes the finalizer off is always admitted: the
\* webhooks do not see it, and a stored spec, scaled or not, is one the schema
\* accepts again.
THEOREM ReleaseAdmitted == Spec => []ReleaseNeverRefused
<1>1. AdmissionSound => ReleaseNeverRefused
  BY DEF AdmissionSound
<1> QED
  BY <1>1, AdmissionInvariant, PTL

-------------------------------------------------------------------------------
(* Defaulting what is already stored *)

\* What is built of the ports and volumes of a template comes of its containers.
LEMMA SameContainers ==
  ASSUME NEW t, NEW u, t.containers = u.containers
  PROVE  AllPorts(t) = AllPorts(u) /\ ScratchVolumes(t) = ScratchVolumes(u)
<1>1. DeclaredPorts(t) = DeclaredPorts(u)
  BY DEF DeclaredPorts
<1>2. AllPorts(t) = AllPorts(u)
  BY <1>1 DEF AllPorts
<1>3. ScratchVolumes(t) = ScratchVolumes(u)
  BY DEF ScratchVolumes
<1> QED
  BY <1>2, <1>3

LEMMA SameService ==
  ASSUME NEW t, NEW u, t.containers = u.containers,
         t.ingressPortName = u.ingressPortName
  PROVE  ServicePorts(t) = ServicePorts(u) /\ BackendPort(t) = BackendPort(u)
<1>1. AllPorts(t) = AllPorts(u)
  BY SameContainers
<1>2. ServicePorts(t) = ServicePorts(u)
  BY <1>1 DEF ServicePorts
<1>3. PortNames(t) = PortNames(u)
  BY <1>1 DEF PortNames
<1>4. BackendPort(t) = BackendPort(u)
  BY <1>1, <1>3 DEF BackendPort
<1> QED
  BY <1>2, <1>4

\* Targeting CPU at its default is what targeting nothing means.
LEMMA SameMetrics ==
  ASSUME NEW spec \in FullSpec, NEW new, spec.autoscaling,
         new.targets = TargetsDefault(spec.targets),
         new.minReplicas = spec.minReplicas, new.maxReplicas = spec.maxReplicas
  PROVE  HPA(new) = HPA(spec)
<1>1. DOMAIN spec.targets = {"cpu", "memory"}
  BY DEF FullSpec, Resources
<1>2. TargetedResources(new) = TargetedResources(spec)
  BY <1>1, ResourceAssumption DEF TargetedResources, TargetsDefault, DefaultTargetCPU
<1>3. \A r \in TargetedResources(spec) :
        (IF new.targets[r] = None THEN DefaultTargetCPU ELSE new.targets[r]) =
        (IF spec.targets[r] = None THEN DefaultTargetCPU ELSE spec.targets[r])
  BY <1>1, ResourceAssumption DEF TargetedResources, TargetsDefault, DefaultTargetCPU
<1> QED
  BY <1>2, <1>3 DEF HPA

LEMMA DefaultBuildsTheSame ==
  ASSUME NEW spec \in FullSpec, Defaulted(spec)
  PROVE  Built(Default(spec)) = Built(spec)
<1> DEFINE new == Default(spec)
           t == spec.template
           u == DefaultTemplate(t)
<1>1. /\ new.template = u /\ new.domain = spec.domain
      /\ new.autoscaling = spec.autoscaling /\ new.replicas = spec.replicas
      /\ new.minReplicas = spec.minReplicas /\ new.maxReplicas = spec.maxReplicas
      /\ spec.autoscaling => new.targets = TargetsDefault(spec.targets)
  BY DefaultSound
<1>2. TemplateTypes(t) /\ TemplateDefaulted(t)
  BY TemplateAssumption DEF FullSpec, Defaulted
<1>3. /\ u.containers = t.containers /\ u.ingressPortName = t.ingressPortName
      /\ u.serviceType = t.serviceType /\ u.strategy = StrategyDefault(t.strategy)
      /\ u.serviceAccountName = t.serviceAccountName
      /\ u.podAnnotations = t.podAnnotations
  BY <1>2, DefaultsTemplate
<1> HIDE DEF new, u, t
<1>4. Service(new) = Service(spec) /\ Ingress(new) = Ingress(spec)
  BY <1>1, <1>3, SameService DEF Service, Ingress, t
<1>5. spec.autoscaling => HPA(new) = HPA(spec)
  BY <1>1, SameMetrics
<1>6. Strategy(u) = Strategy(t)
  <2>1. CASE t.strategy = None
    <3> DEFINE rolling == [type |-> "RollingUpdate", rollingUpdate |-> None]
    <3>1. u.strategy = rolling
      BY <1>3, <2>1 DEF StrategyDefault
    <3>2. rolling.type = "RollingUpdate" /\ rolling.rollingUpdate = None
      OBVIOUS
    <3>3. Strategy(t) = rolling
      BY <2>1 DEF Strategy
    <3> HIDE DEF rolling
    <3>4. Strategy(u) = rolling
      BY <3>1, <3>2 DEF Strategy, rolling
    <3> QED
      BY <3>3, <3>4
  <2>2. CASE t.strategy # None
    <3>1. u.strategy = t.strategy
      BY <1>2, <1>3, <2>2 DEF StrategyDefault, TemplateDefaulted
    <3> QED
      BY <3>1 DEF Strategy
  <2> QED
    BY <2>1, <2>2
<1>7. DesiredReplicas(new) = DesiredReplicas(spec)
  BY <1>1 DEF DesiredReplicas, WantsHPA
<1>8. Deployment(new) = Deployment(spec)
  <2>1. ScratchVolumes(u) = ScratchVolumes(t)
    BY <1>3, SameContainers
  <2> QED
    BY <1>1, <1>3, <1>6, <1>7, <2>1 DEF Deployment, t
<1> QED
  BY <1>1, <1>4, <1>5, <1>8 DEF Built, WantsIngress, WantsHPA, new

\* A write that leaves the spec alone, whether the webhooks were installed, removed
\* or lost since the spec was stored, leaves every object as the operator would
\* build it: what Default adds is what the builders assume (strategy,
\* TargetedResources).
THEOREM TouchRollsNothingOut == Spec => UntouchedIsUnchanged
<1>1. AdmissionSound /\ [Next]_vars =>
        [answer'.request = "touch" => Built(stored'.spec) = Built(stored.spec)]_vars
  <2> SUFFICES ASSUME AdmissionSound, Next, answer'.request = "touch"
               PROVE  Built(stored'.spec) = Built(stored.spec)
    OBVIOUS
  <2>1. \E fin \in BOOLEAN : Touch(fin)
    <3>1. \A request, spec : Review(request, spec) => answer'.request = request
      BY DEF Review
    <3>2. \A spec : ~Create(spec) /\ ~Update(spec)
      BY <3>1 DEF Create, Update, Put
    <3>3. ~Release
      BY <3>1 DEF Release
    <3>4. \A n, p, state : ~Scale(n) /\ ~WritePolicy(p) /\ ~SwitchWebhooks(state)
      BY DEF Scale, WritePolicy, SwitchWebhooks
    <3>5. ~Delete /\ ~DeletePolicies
      BY DEF Delete, DeletePolicies
    <3> QED
      BY <3>2, <3>3, <3>4, <3>5 DEF Next
  <2>2. PICK fin \in BOOLEAN : Touch(fin)
    BY <2>1
  <2>3. /\ stored # None
        /\ stored' = IF answer'.ok
                     THEN [stored EXCEPT !.spec = Mutated(stored.spec),
                                         !.fin = fin \/ stored.fin]
                     ELSE stored
    BY <2>2 DEF Touch, Put
  <2>4. Storable(stored) /\ stored.spec \in FullSpec /\ Defaulted(stored.spec)
    BY <2>3 DEF AdmissionSound, StoredSound, Storable, StoredWebApp
  <2>5. CASE answer'.ok
    <3>1. stored'.spec = Mutated(stored.spec)
      BY <2>3, <2>4, <2>5 DEF Storable, StoredWebApp
    <3>2. SchemaDefault(stored.spec) = stored.spec
      BY <2>4, SchemaDefaultSound
    <3> QED
      BY <2>4, <3>1, <3>2, DefaultBuildsTheSame DEF Mutated
  <2>6. CASE ~answer'.ok
    BY <2>3, <2>6
  <2> QED
    BY <2>5, <2>6
<1> QED
  BY <1>1, AdmissionInvariant, PTL DEF Spec, UntouchedIsUnchanged

-------------------------------------------------------------------------------
(* Induction on a list *)

LEMMA Induction ==
  ASSUME NEW S, 0 \in S, \A n \in Nat : n \in S => n + 1 \in S
  PROVE  \A n \in Nat : n \in S
<1> DEFINE R == OpToRel(<, Nat)
           T == Nat \ S
<1> SUFFICES ASSUME T # {}
             PROVE  FALSE
  OBVIOUS
<1>1. PICK x \in T : \A y \in T : ~ (<<y, x>> \in R)
  BY NatLessThanWellFounded, WFMin
<1>2. \A y \in Nat : y < x => <<y, x>> \in R
  BY DEF OpToRel
<1>3. x # 0 /\ x - 1 \in Nat /\ x - 1 < x
  OBVIOUS
<1>4. x - 1 \in S
  BY <1>1, <1>2, <1>3
<1> QED
  BY <1>3, <1>4

LEMMA FlattenDefined ==
  ASSUME NEW ss, Len(ss) \in Nat
  PROVE  \E g : /\ g = [i \in 1 .. Len(ss) |->
                          IF i = 1 THEN ss[i] ELSE g[i - 1] \o ss[i]]
                /\ FlattenSeq(ss) = IF Len(ss) = 0 THEN ss ELSE g[Len(ss)]
<1> DEFINE Body(g, i) == IF i = 1 THEN ss[i] ELSE g[i - 1] \o ss[i]
           Is(g, n) == g = [i \in 1 .. n |-> Body(g, i)]
           S == {n \in Nat : \E g : Is(g, n)}
<1>1. \A g, h, i : (i # 1 => g[i - 1] = h[i - 1]) => Body(g, i) = Body(h, i)
  OBVIOUS
<1> HIDE DEF Body
<1>2. 0 \in S
  <2>1. Is([i \in 1 .. 0 |-> ss], 0)
    OBVIOUS
  <2> QED
    BY <2>1
<1>3. ASSUME NEW n \in Nat, n \in S PROVE n + 1 \in S
  <2>1. PICK g : Is(g, n)
    BY <1>3
  <2> DEFINE h == [i \in 1 .. n + 1 |-> Body(g, i)]
  <2>2. \A i \in 1 .. n : h[i] = g[i]
    BY <2>1
  <2>3. \A i \in 1 .. n + 1 : h[i] = Body(g, i)
    OBVIOUS
  <2>4. h = [i \in 1 .. n + 1 |-> h[i]]
    OBVIOUS
  <2> HIDE DEF h
  <2>5. \A i \in 1 .. n + 1 : Body(g, i) = Body(h, i)
    <3>1. \A i \in 1 .. n + 1 : i # 1 => i - 1 \in 1 .. n
      OBVIOUS
    <3> QED
      BY <1>1, <2>2, <3>1
  <2>6. Is(h, n + 1)
    BY <2>3, <2>4, <2>5
  <2> QED
    BY <2>6
<1>4. \E g : Is(g, Len(ss))
  <2> HIDE DEF S
  <2>1. Len(ss) \in S
    BY <1>2, <1>3, Induction
  <2> QED
    BY <2>1 DEF S
<1> DEFINE f == CHOOSE g : Is(g, Len(ss))
<1>5. Is(f, Len(ss))
  BY <1>4
<1>6. FlattenSeq(ss) = IF Len(ss) = 0 THEN ss ELSE f[Len(ss)]
  BY DEF FlattenSeq, Body
<1> QED
  BY <1>5, <1>6 DEF Body

-------------------------------------------------------------------------------
(* Lists of lists *)

\* The lists one after the other: each keeps its order, from where it starts.
Places(flat, ss, start, n) ==
  /\ \A i \in 1 .. n : start[i] \in Nat
  /\ \A i \in 1 .. n : \A j \in 1 .. Len(ss[i]) :
       start[i] + j \in 1 .. Len(flat) /\ flat[start[i] + j] = ss[i][j]
  /\ \A k \in 1 .. Len(flat) :
       \E i \in 1 .. n : \E j \in 1 .. Len(ss[i]) : k = start[i] + j

LEMMA PlacesOne ==
  ASSUME NEW S, NEW ss, ss[1] \in Seq(S), NEW start, start[1] = 0
  PROVE  Places(ss[1], ss, start, 1)
BY DEF Places

LEMMA PlacesMore ==
  ASSUME NEW S, NEW ss, NEW n \in Nat \ {0}, NEW flat \in Seq(S),
         NEW more \in Seq(S), ss[n + 1] = more, \A i \in 1 .. n : ss[i] \in Seq(S),
         NEW start, start[n + 1] = Len(flat), Places(flat, ss, start, n)
  PROVE  Places(flat \o more, ss, start, n + 1)
<1> DEFINE new == flat \o more
<1>1. /\ new \in Seq(S) /\ Len(new) = Len(flat) + Len(more)
      /\ Len(flat) \in Nat /\ Len(more) \in Nat
      /\ \A k \in 1 .. Len(flat) : new[k] = flat[k]
      /\ \A k \in 1 .. Len(more) : new[Len(flat) + k] = more[k]
  OBVIOUS
<1> HIDE DEF new
<1>2. \A i \in 1 .. n + 1 : i \in 1 .. n \/ i = n + 1
  OBVIOUS
<1>3. \A i \in 1 .. n + 1 : start[i] \in Nat
  BY <1>1, <1>2 DEF Places
<1>4. ASSUME NEW i \in 1 .. n + 1, NEW j \in 1 .. Len(ss[i])
      PROVE  start[i] + j \in 1 .. Len(new) /\ new[start[i] + j] = ss[i][j]
  <2>1. CASE i \in 1 .. n
    <3>1. start[i] + j \in 1 .. Len(flat) /\ flat[start[i] + j] = ss[i][j]
      BY <2>1 DEF Places
    <3> QED
      BY <1>1, <3>1
  <2>2. CASE i = n + 1
    BY <1>1, <2>2
  <2> QED
    BY <1>2, <2>1, <2>2
<1>5. ASSUME NEW k \in 1 .. Len(new)
      PROVE  \E i \in 1 .. n + 1 : \E j \in 1 .. Len(ss[i]) : k = start[i] + j
  <2>1. CASE k \in 1 .. Len(flat)
    <3>1. PICK i \in 1 .. n : \E j \in 1 .. Len(ss[i]) : k = start[i] + j
      BY <2>1 DEF Places
    <3>2. i \in 1 .. n + 1
      OBVIOUS
    <3> QED
      BY <3>1, <3>2
  <2>2. CASE k \notin 1 .. Len(flat)
    <3>1. k - Len(flat) \in 1 .. Len(more) /\ k = Len(flat) + (k - Len(flat))
      BY <1>1, <2>2
    <3>2. n + 1 \in 1 .. n + 1
      OBVIOUS
    <3> QED
      BY <3>1, <3>2
  <2> QED
    BY <2>1, <2>2
<1> QED
  BY <1>3, <1>4, <1>5 DEF Places, new

LEMMA FlattenPlaces ==
  ASSUME NEW S, NEW ss \in Seq(Seq(S))
  PROVE  /\ FlattenSeq(ss) \in Seq(S)
         /\ \E start : Places(FlattenSeq(ss), ss, start, Len(ss))
<1>1. Len(ss) \in Nat /\ \A i \in 1 .. Len(ss) : ss[i] \in Seq(S)
  OBVIOUS
<1>2. PICK g : /\ g = [i \in 1 .. Len(ss) |->
                         IF i = 1 THEN ss[i] ELSE g[i - 1] \o ss[i]]
               /\ FlattenSeq(ss) = IF Len(ss) = 0 THEN ss ELSE g[Len(ss)]
  BY <1>1, FlattenDefined
<1> DEFINE start == [i \in 1 .. Len(ss) |-> IF i = 1 THEN 0 ELSE Len(g[i - 1])]
           Placed(n) == g[n] \in Seq(S) /\ Places(g[n], ss, start, n)
           T == {n \in Nat : n \in 1 .. Len(ss) => Placed(n)}
<1>3. \A i \in 1 .. Len(ss) : g[i] = IF i = 1 THEN ss[i] ELSE g[i - 1] \o ss[i]
  BY <1>2
<1>4. \A i \in 1 .. Len(ss) : start[i] = IF i = 1 THEN 0 ELSE Len(g[i - 1])
  OBVIOUS
<1> HIDE DEF start
<1>5. ASSUME NEW n \in Nat, n \in T PROVE n + 1 \in T
  <2> SUFFICES ASSUME n + 1 \in 1 .. Len(ss)
               PROVE  Placed(n + 1)
    OBVIOUS
  <2>1. CASE n = 0
    <3>1. g[1] = ss[1] /\ start[1] = 0 /\ ss[1] \in Seq(S)
      BY <1>1, <1>3, <1>4, <2>1
    <3> QED
      <4>1. n + 1 = 1
        BY <2>1
      <4>2. g[1] \in Seq(S) /\ Places(ss[1], ss, start, 1)
        BY <3>1, PlacesOne
      <4> QED
        BY <3>1, <4>1, <4>2
  <2>2. CASE n # 0
    <3>1. n \in 1 .. Len(ss) /\ n \in Nat \ {0} /\ \A i \in 1 .. n : i \in 1 .. Len(ss)
      BY <1>1, <2>2
    <3>2. g[n] \in Seq(S) /\ Places(g[n], ss, start, n)
      BY <1>5, <3>1
    <3>3. /\ g[n + 1] = g[n] \o ss[n + 1] /\ start[n + 1] = Len(g[n])
          /\ ss[n + 1] \in Seq(S)
      <4>1. n + 1 # 1 /\ (n + 1) - 1 = n
        BY <2>2
      <4>2. g[n + 1] = g[(n + 1) - 1] \o ss[n + 1]
        BY <1>3, <4>1
      <4>3. start[n + 1] = Len(g[(n + 1) - 1])
        BY <1>4, <4>1
      <4> QED
        BY <1>1, <4>1, <4>2, <4>3
    <3>4. \A i \in 1 .. n : ss[i] \in Seq(S)
      BY <1>1, <3>1
    <3>5. Places(g[n] \o ss[n + 1], ss, start, n + 1)
      BY <3>1, <3>2, <3>3, <3>4, PlacesMore
    <3>6. g[n + 1] \in Seq(S)
      BY <3>2, <3>3
    <3> QED
      BY <3>3, <3>5, <3>6
  <2> QED
    BY <2>1, <2>2
<1>6. Len(ss) # 0 => Placed(Len(ss))
  <2>1. 0 \in T
    OBVIOUS
  <2> HIDE DEF T
  <2>2. Len(ss) \in T
    BY <1>1, <1>5, <2>1, Induction
  <2> QED
    BY <1>1, <2>2 DEF T
<1>7. CASE Len(ss) # 0
  BY <1>2, <1>6, <1>7
<1>8. CASE Len(ss) = 0
  <2>1. ss = <<>> /\ FlattenSeq(ss) = <<>>
    BY <1>2, <1>8
  <2>2. Places(<<>>, ss, start, 0)
    <3>1. \A i : i \notin 1 .. 0
      OBVIOUS
    <3>2. \A k : k \notin 1 .. Len(<<>>)
      OBVIOUS
    <3> QED
      BY <3>1, <3>2 DEF Places
  <2>3. <<>> \in Seq(S)
    OBVIOUS
  <2> QED
    BY <1>8, <2>1, <2>2, <2>3
<1> QED
  BY <1>7, <1>8

\* Where no number and protocol is declared twice, no port is left out.
LEMMA AllPortsDeclared ==
  ASSUME NEW S, NEW t, NEW ports \in Seq(S), ports = DeclaredPorts(t),
         \A i, j \in DOMAIN ports : PortKey(ports[i]) = PortKey(ports[j]) => i = j
  PROVE  AllPorts(t) = ports
<1> DEFINE Seen(n) == \E j \in 1 .. n - 1 : PortKey(ports[j]) = PortKey(ports[n])
           Body(f, n) == IF n = 0 THEN <<>>
                         ELSE IF Seen(n) THEN f[n - 1] ELSE Append(f[n - 1], ports[n])
           Is(f) == f = [n \in 0 .. Len(ports) |-> Body(f, n)]
           upto == [n \in 0 .. Len(ports) |-> SubSeq(ports, 1, n)]
<1>1. Len(ports) \in Nat /\ DOMAIN ports = 1 .. Len(ports)
  OBVIOUS
<1>2. \A n \in 1 .. Len(ports) : ~Seen(n)
  <2> SUFFICES ASSUME NEW n \in 1 .. Len(ports), NEW j \in 1 .. n - 1
               PROVE  PortKey(ports[j]) # PortKey(ports[n])
    OBVIOUS
  <2>1. n \in DOMAIN ports /\ j \in DOMAIN ports /\ j # n
    BY <1>1
  <2> QED
    BY <2>1
<1>3. \A f : \A n \in 0 .. Len(ports) :
        Body(f, n) = IF n = 0 THEN <<>> ELSE Append(f[n - 1], ports[n])
  <2> HIDE DEF Seen
  <2>1. \A n \in 0 .. Len(ports) : n = 0 \/ n \in 1 .. Len(ports)
    BY <1>1
  <2> QED
    BY <1>2, <2>1
<1>4. AllPorts(t) = (CHOOSE f : Is(f))[Len(ports)]
  BY DEF AllPorts
<1> HIDE DEF Body, Seen
<1>5. SubSeq(ports, 1, 0) = <<>>
  OBVIOUS
<1>6. \A n \in 1 .. Len(ports) :
        SubSeq(ports, 1, n) = Append(SubSeq(ports, 1, n - 1), ports[n])
  OBVIOUS
<1>7. Is(upto)
  <2>1. \A n \in 0 .. Len(ports) : upto[n] = Body(upto, n)
    <3>1. \A n \in 0 .. Len(ports) :
            n # 0 => n \in 1 .. Len(ports) /\ n - 1 \in 0 .. Len(ports)
      BY <1>1
    <3>2. \A n \in 0 .. Len(ports) : upto[n] = SubSeq(ports, 1, n)
      OBVIOUS
    <3> HIDE DEF upto
    <3> SUFFICES ASSUME NEW n \in 0 .. Len(ports)
                 PROVE  upto[n] = Body(upto, n)
      OBVIOUS
    <3>3. CASE n = 0
      BY <1>3, <1>5, <3>2, <3>3
    <3>4. CASE n # 0
      <4>1. Body(upto, n) = Append(upto[n - 1], ports[n])
        BY <1>3, <3>4
      <4>2. n \in 1 .. Len(ports) /\ n - 1 \in 0 .. Len(ports)
        BY <3>1, <3>4
      <4>3. upto[n - 1] = SubSeq(ports, 1, n - 1)
        BY <3>2, <4>2
      <4>4. upto[n] = Append(SubSeq(ports, 1, n - 1), ports[n])
        BY <1>6, <3>2, <4>2
      <4> QED
        BY <4>1, <4>3, <4>4
    <3> QED
      BY <3>3, <3>4
  <2>2. upto = [n \in 0 .. Len(ports) |-> upto[n]]
    OBVIOUS
  <2> HIDE DEF upto
  <2> QED
    BY <2>1, <2>2
<1> DEFINE kept == CHOOSE f : Is(f)
<1>8. Is(kept)
  BY <1>7
<1> HIDE DEF kept, upto
<1> DEFINE T == {n \in Nat : n \in 0 .. Len(ports) => kept[n] = SubSeq(ports, 1, n)}
<1>9. 0 \in T
  BY <1>1, <1>3, <1>5, <1>8
<1>10. ASSUME NEW n \in Nat, n \in T PROVE n + 1 \in T
  <2> SUFFICES ASSUME n + 1 \in 0 .. Len(ports)
               PROVE  kept[n + 1] = SubSeq(ports, 1, n + 1)
    OBVIOUS
  <2>1. /\ n \in 0 .. Len(ports) /\ n + 1 \in 1 .. Len(ports)
        /\ n + 1 # 0 /\ (n + 1) - 1 = n
    BY <1>1
  <2>2. kept[n] = SubSeq(ports, 1, n)
    BY <1>10, <2>1
  <2>3. kept[n + 1] = Body(kept, n + 1)
    BY <1>8
  <2>4. Body(kept, n + 1) = Append(kept[(n + 1) - 1], ports[n + 1])
    BY <1>3, <2>1
  <2>5. SubSeq(ports, 1, n + 1) = Append(SubSeq(ports, 1, (n + 1) - 1), ports[n + 1])
    BY <1>6, <2>1
  <2> QED
    BY <2>1, <2>2, <2>3, <2>4, <2>5
<1>11. kept[Len(ports)] = SubSeq(ports, 1, Len(ports))
  <2> HIDE DEF T
  <2>1. Len(ports) \in T
    BY <1>1, <1>9, <1>10, Induction
  <2> QED
    BY <1>1, <2>1 DEF T
<1>12. SubSeq(ports, 1, Len(ports)) = ports
  OBVIOUS
<1> QED
  BY <1>4, <1>11, <1>12 DEF kept

-------------------------------------------------------------------------------
(* What a valid template declares *)

\* Lists of lists that are sequences, whatever is in them.
LEMMA ListsFlatten ==
  ASSUME NEW ss, NEW lists, IsList(lists), DOMAIN ss = DOMAIN lists,
         ss = [i \in DOMAIN ss |-> ss[i]], \A i \in DOMAIN ss : IsList(ss[i])
  PROVE  \E S, start : /\ FlattenSeq(ss) \in Seq(S)
                       /\ Places(FlattenSeq(ss), ss, start, Len(ss))
<1> DEFINE S == UNION {Range(ss[i]) : i \in DOMAIN ss}
<1>1. Len(lists) \in Nat /\ DOMAIN lists = 1 .. Len(lists)
  BY DEF IsList
<1>2. \A i \in DOMAIN ss : ss[i] \in Seq(S)
  <2> SUFFICES ASSUME NEW i \in DOMAIN ss
               PROVE  ss[i] \in Seq(S)
    OBVIOUS
  <2>1. ss[i] \in Seq(Range(ss[i])) /\ Range(ss[i]) \subseteq S
    BY DEF IsList
  <2> HIDE DEF S
  <2> QED
    BY <2>1
<1> HIDE DEF S
<1>3. ss \in Seq(Seq(S))
  <2>1. ss \in [1 .. Len(lists) -> Seq(S)]
    BY <1>1, <1>2
  <2> QED
    BY <1>1, <2>1
<1> QED
  BY <1>3, FlattenPlaces

\* Every port a container declares has a place of its own among them all.
LEMMA DeclaredPlaces ==
  ASSUME NEW t, TemplateTypes(t)
  PROVE  /\ \E S : DeclaredPorts(t) \in Seq(S)
         /\ \A k \in DOMAIN DeclaredPorts(t) :
              \E i \in DOMAIN t.containers : \E j \in DOMAIN t.containers[i].ports :
                DeclaredPorts(t)[k] = t.containers[i].ports[j]
         /\ \A i \in DOMAIN t.containers : \E start \in Nat :
              \A j \in DOMAIN t.containers[i].ports :
                /\ start + j \in DOMAIN DeclaredPorts(t)
                /\ DeclaredPorts(t)[start + j] = t.containers[i].ports[j]
<1> DEFINE ss == [i \in DOMAIN t.containers |-> t.containers[i].ports]
<1>1. /\ IsList(t.containers) /\ DOMAIN ss = DOMAIN t.containers
      /\ \A i \in DOMAIN t.containers : IsList(t.containers[i].ports)
  BY DEF TemplateTypes, ContainerTypes
<1>2. ss = [i \in DOMAIN ss |-> ss[i]]
  OBVIOUS
<1>3. \A i \in DOMAIN ss : ss[i] = t.containers[i].ports
  OBVIOUS
<1>4. DeclaredPorts(t) = FlattenSeq(ss)
  BY DEF DeclaredPorts
<1> HIDE DEF ss
<1>5. PICK S, start : /\ DeclaredPorts(t) \in Seq(S)
                      /\ Places(DeclaredPorts(t), ss, start, Len(ss))
  BY <1>1, <1>2, <1>3, <1>4, ListsFlatten
<1>6. DOMAIN ss = 1 .. Len(ss) /\ \A i \in DOMAIN ss : DOMAIN ss[i] = 1 .. Len(ss[i])
  <2>1. DOMAIN t.containers = 1 .. Len(t.containers) /\ Len(t.containers) \in Nat
    BY <1>1 DEF IsList
  <2>2. Len(ss) = Len(t.containers)
    BY <1>1, <1>2, <2>1
  <2> QED
    BY <1>1, <1>3, <2>1, <2>2 DEF IsList
<1>7. DOMAIN DeclaredPorts(t) = 1 .. Len(DeclaredPorts(t))
  BY <1>5
<1>8. \A i \in DOMAIN ss : \A j \in DOMAIN ss[i] :
        /\ start[i] \in Nat /\ start[i] + j \in DOMAIN DeclaredPorts(t)
        /\ DeclaredPorts(t)[start[i] + j] = ss[i][j]
  BY <1>5, <1>6, <1>7 DEF Places
<1>9. \A i \in DOMAIN ss : start[i] \in Nat
  BY <1>5, <1>6 DEF Places
<1>10. ASSUME NEW i \in DOMAIN t.containers
       PROVE  \E from \in Nat :
                \A j \in DOMAIN t.containers[i].ports :
                  /\ from + j \in DOMAIN DeclaredPorts(t)
                  /\ DeclaredPorts(t)[from + j] = t.containers[i].ports[j]
  <2>1. i \in DOMAIN ss /\ ss[i] = t.containers[i].ports /\ start[i] \in Nat
    BY <1>1, <1>3, <1>9
  <2>2. \A j \in DOMAIN t.containers[i].ports :
          /\ start[i] + j \in DOMAIN DeclaredPorts(t)
          /\ DeclaredPorts(t)[start[i] + j] = t.containers[i].ports[j]
    BY <1>8, <2>1
  <2> QED
    BY <2>1, <2>2
<1>11. ASSUME NEW k \in DOMAIN DeclaredPorts(t)
       PROVE  \E i \in DOMAIN t.containers : \E j \in DOMAIN t.containers[i].ports :
                DeclaredPorts(t)[k] = t.containers[i].ports[j]
  <2>1. PICK i \in 1 .. Len(ss) : \E j \in 1 .. Len(ss[i]) : k = start[i] + j
    <3>1. \A l \in 1 .. Len(DeclaredPorts(t)) :
            \E i \in 1 .. Len(ss) : \E j \in 1 .. Len(ss[i]) : l = start[i] + j
      BY <1>5, Zenon DEF Places
    <3> QED
      BY <1>7, <3>1, Zenon
  <2>2. PICK j \in 1 .. Len(ss[i]) : k = start[i] + j
    BY <2>1
  <2>3. i \in DOMAIN ss /\ j \in DOMAIN ss[i]
    BY <1>6, <2>1, <2>2
  <2>4. DeclaredPorts(t)[k] = ss[i][j]
    BY <1>8, <2>2, <2>3
  <2> QED
    BY <1>1, <1>3, <2>3, <2>4
<1> QED
  BY <1>5, <1>10, <1>11

\* Names unique among all ports are unique among those of one container.
LEMMA PortsOfValid ==
  ASSUME NEW t, TemplateTypes(t), ValidPorts(t), ValidPortNames(t)
  PROVE  /\ AllPorts(t) = DeclaredPorts(t) /\ AllPorts(t) # <<>>
         /\ \E S : AllPorts(t) \in Seq(S)
         /\ \A i, j \in DOMAIN AllPorts(t) :
              PortKey(AllPorts(t)[i]) = PortKey(AllPorts(t)[j]) => i = j
         /\ \A i, j \in DOMAIN AllPorts(t) :
              PortName(AllPorts(t)[i]) = PortName(AllPorts(t)[j]) => i = j
         /\ \A i \in DOMAIN t.containers :
              \A j, k \in DOMAIN t.containers[i].ports :
                PortName(t.containers[i].ports[j]) = PortName(t.containers[i].ports[k])
                  => j = k
<1> DEFINE ports == DeclaredPorts(t)
<1>1. /\ ports # <<>>
      /\ \A i, j \in DOMAIN ports : PortKey(ports[i]) = PortKey(ports[j]) => i = j
  BY DEF ValidPorts, NoneTwice, PortKey
<1>2. PICK S : ports \in Seq(S)
  BY DeclaredPlaces
<1>3. AllPorts(t) = ports
  BY <1>1, <1>2, AllPortsDeclared
<1>4. \A i, j \in DOMAIN ports : PortName(ports[i]) = PortName(ports[j]) => i = j
  <2>1. /\ DOMAIN PortNames(t) = DOMAIN ports
        /\ \A i \in DOMAIN ports : PortNames(t)[i] = PortName(ports[i])
    BY <1>3 DEF PortNames
  <2>2. \A i, j \in DOMAIN PortNames(t) : PortNames(t)[i] = PortNames(t)[j] => i = j
    BY DEF ValidPortNames, IsInjective
  <2> QED
    BY <2>1, <2>2
<1>5. ASSUME NEW i \in DOMAIN t.containers,
             NEW j \in DOMAIN t.containers[i].ports,
             NEW k \in DOMAIN t.containers[i].ports,
             PortName(t.containers[i].ports[j]) = PortName(t.containers[i].ports[k])
      PROVE  j = k
  <2>1. PICK start \in Nat :
          \A m \in DOMAIN t.containers[i].ports :
            /\ start + m \in DOMAIN ports
            /\ ports[start + m] = t.containers[i].ports[m]
    BY DeclaredPlaces
  <2>2. start + j = start + k
    BY <1>4, <1>5, <2>1
  <2>3. j \in Nat /\ k \in Nat
    <3>1. IsList(t.containers[i].ports)
      BY DEF TemplateTypes, ContainerTypes
    <3> QED
      BY <3>1 DEF IsList
  <2> QED
    BY <2>2, <2>3
<1> QED
  BY <1>1, <1>2, <1>3, <1>4, <1>5

\* A volume's name holds its container's, so that it is unique in the pod.
LEMMA VolumesOfValid ==
  ASSUME NEW t, TemplateTypes(t), TemplateValid(t)
  PROVE  LET volumes == ScratchVolumes(t)
         IN  \A k, l \in DOMAIN volumes : volumes[k].name = volumes[l].name => k = l
<1> DEFINE cs == t.containers
           Volume(i, j) ==
             [name   |-> ScratchVolumeName(cs[i], cs[i].scratchVolumes[j]),
              medium |-> IF cs[i].scratchVolumes[j].medium = "Memory" THEN "Memory"
                         ELSE "",
              sizeLimit |-> cs[i].scratchVolumes[j].sizeLimit]
           ss == [i \in DOMAIN cs |->
                    [j \in DOMAIN cs[i].scratchVolumes |-> Volume(i, j)]]
           volumes == ScratchVolumes(t)
<1>1. volumes = FlattenSeq(ss)
  BY DEF ScratchVolumes
<1>2. \A i, j : Volume(i, j).name = <<cs[i].scratchVolumes[j].name, cs[i].name>>
  BY DEF ScratchVolumeName
<1> HIDE DEF Volume
<1>3. /\ IsList(cs) /\ \A i \in DOMAIN cs : IsList(cs[i].scratchVolumes)
      /\ \A i, j \in DOMAIN cs : cs[i].name = cs[j].name => i = j
      /\ \A i \in DOMAIN cs : \A j, k \in DOMAIN cs[i].scratchVolumes :
           cs[i].scratchVolumes[j].name = cs[i].scratchVolumes[k].name => j = k
  BY DEF TemplateTypes, ContainerTypes, TemplateValid, ContainerValid, NoneTwice, Name
<1> HIDE DEF cs, volumes
<1>4. /\ DOMAIN ss = DOMAIN cs /\ ss = [i \in DOMAIN ss |-> ss[i]]
      /\ \A i \in DOMAIN cs :
           ss[i] = [j \in DOMAIN cs[i].scratchVolumes |-> Volume(i, j)]
  OBVIOUS
<1> HIDE DEF ss
<1>5. \A i \in DOMAIN cs :
        /\ DOMAIN ss[i] = DOMAIN cs[i].scratchVolumes
        /\ \A j \in DOMAIN cs[i].scratchVolumes : ss[i][j] = Volume(i, j)
  BY <1>4
<1>6. \A i \in DOMAIN ss : IsList(ss[i])
  <2> SUFFICES ASSUME NEW i \in DOMAIN cs
               PROVE  IsList(ss[i])
    BY <1>4
  <2> DEFINE vs == cs[i].scratchVolumes
  <2>1. Len(vs) \in Nat /\ DOMAIN vs = 1 .. Len(vs)
    BY <1>3 DEF IsList
  <2>2. ss[i] = [j \in 1 .. Len(vs) |-> Volume(i, j)]
    BY <1>4, <2>1
  <2>3. ss[i] \in [1 .. Len(vs) -> Range(ss[i])]
    BY <2>2 DEF Range
  <2> QED
    BY <2>1, <2>3 DEF IsList
<1>7. PICK S, start : volumes \in Seq(S) /\ Places(volumes, ss, start, Len(ss))
  BY <1>1, <1>3, <1>4, <1>6, ListsFlatten
<1>8. DOMAIN ss = 1 .. Len(ss) /\ \A i \in DOMAIN ss : DOMAIN ss[i] = 1 .. Len(ss[i])
  <2>1. DOMAIN cs = 1 .. Len(cs) /\ Len(cs) \in Nat
    BY <1>3 DEF IsList
  <2>2. Len(ss) = Len(cs)
    BY <1>4, <2>1
  <2> QED
    BY <1>4, <1>6, <2>1, <2>2 DEF IsList
<1> SUFFICES ASSUME NEW k \in DOMAIN volumes, NEW l \in DOMAIN volumes,
                    volumes[k].name = volumes[l].name
             PROVE  k = l
  BY DEF volumes
<1>9. ASSUME NEW n \in DOMAIN volumes
      PROVE  \E i \in DOMAIN cs : \E j \in DOMAIN cs[i].scratchVolumes :
               n = start[i] + j /\ volumes[n] = Volume(i, j)
  <2>1. n \in 1 .. Len(volumes)
    BY <1>7
  <2>2. PICK i \in 1 .. Len(ss) : \E j \in 1 .. Len(ss[i]) : n = start[i] + j
    BY <1>7, <2>1 DEF Places
  <2>3. PICK j \in 1 .. Len(ss[i]) : n = start[i] + j
    BY <2>2
  <2>4. volumes[n] = ss[i][j]
    BY <1>7, <2>3 DEF Places
  <2>5. i \in DOMAIN cs /\ j \in DOMAIN cs[i].scratchVolumes
    BY <1>4, <1>5, <1>8
  <2> QED
    BY <1>5, <2>3, <2>4, <2>5
<1>10. PICK i \in DOMAIN cs : \E j \in DOMAIN cs[i].scratchVolumes :
         k = start[i] + j /\ volumes[k] = Volume(i, j)
  BY <1>9
<1>11. PICK j \in DOMAIN cs[i].scratchVolumes :
         k = start[i] + j /\ volumes[k] = Volume(i, j)
  BY <1>10
<1>12. PICK p \in DOMAIN cs : \E q \in DOMAIN cs[p].scratchVolumes :
         l = start[p] + q /\ volumes[l] = Volume(p, q)
  BY <1>9
<1>13. PICK q \in DOMAIN cs[p].scratchVolumes :
         l = start[p] + q /\ volumes[l] = Volume(p, q)
  BY <1>12
<1>14. <<cs[i].scratchVolumes[j].name, cs[i].name>> =
       <<cs[p].scratchVolumes[q].name, cs[p].name>>
  BY <1>2, <1>11, <1>13
<1>15. i = p
  BY <1>3, <1>14
<1>16. j = q
  BY <1>3, <1>14, <1>15
<1> QED
  BY <1>11, <1>13, <1>15, <1>16

-------------------------------------------------------------------------------
(* What can be built *)

LEMMA ValidIsRoutable ==
  ASSUME NEW t, TemplateTypes(t), ValidPorts(t), ValidPortNames(t)
  PROVE  /\ BackendPort(t) # None
         /\ \E i \in DOMAIN AllPorts(t) : PortName(AllPorts(t)[i]) = BackendPort(t)
<1> DEFINE ports == AllPorts(t)
<1>1. ports # <<>> /\ \E S : ports \in Seq(S)
  BY PortsOfValid
<1>2. DOMAIN ports = 1 .. Len(ports) /\ 1 \in DOMAIN ports
  BY <1>1
<1>3. \A i \in DOMAIN ports : PortName(ports[i]) # None
  <2> SUFFICES ASSUME NEW i \in DOMAIN ports
               PROVE  PortName(ports[i]) # None
    OBVIOUS
  <2>1. PICK j \in DOMAIN t.containers : \E k \in DOMAIN t.containers[j].ports :
          ports[i] = t.containers[j].ports[k]
    BY DeclaredPlaces, PortsOfValid
  <2> QED
    BY <2>1 DEF TemplateTypes, ContainerTypes, PortTypes
<1>4. CASE t.ingressPortName # NoName
  <2>1. Contains(PortNames(t), t.ingressPortName)
    BY <1>4 DEF ValidPortNames
  <2>2. BackendPort(t) = t.ingressPortName
    BY <1>1, <1>4, <2>1 DEF BackendPort
  <2>3. PICK i \in 1 .. Len(PortNames(t)) : PortNames(t)[i] = t.ingressPortName
    BY <2>1 DEF Contains
  <2>4. /\ PortNames(t) = [j \in DOMAIN ports |-> PortName(ports[j])]
        /\ Len(PortNames(t)) = Len(ports)
    BY <1>1, <1>2 DEF PortNames
  <2>5. i \in DOMAIN ports /\ PortName(ports[i]) = t.ingressPortName
    BY <1>2, <2>3, <2>4
  <2> QED
    BY <2>2, <2>5 DEF TemplateTypes
<1>5. CASE /\ t.ingressPortName = NoName
           /\ \E i \in DOMAIN ports : ports[i].name = DefaultPortName
  <2>1. PICK i \in DOMAIN ports : ports[i].name = DefaultPortName
    BY <1>5
  <2>2. BackendPort(t) = DefaultPortName
    BY <1>1, <1>5 DEF BackendPort
  <2>3. PortName(ports[i]) = DefaultPortName
    BY <2>1 DEF PortName, NoName, DefaultPortName
  <2> QED
    BY <2>2, <2>3, TemplateAssumption
<1>6. CASE /\ t.ingressPortName = NoName
           /\ ~\E i \in DOMAIN ports : ports[i].name = DefaultPortName
  <2>1. BackendPort(t) = PortName(ports[1])
    BY <1>1, <1>6 DEF BackendPort
  <2> QED
    BY <1>2, <1>3, <2>1
<1> QED
  BY <1>4, <1>5, <1>6

\* What the checks of a spec (ValidateSpec) let through the builders can build and
\* the API server takes.
LEMMA ValidIsBuildable ==
  ASSUME NEW spec \in FullSpec, SchemaValid(spec), ValidateSpec(spec)
  PROVE  /\ \A k \in Kinds : Wants(k, spec) => Buildable(k, spec)
         /\ Accepts(Built(spec))
         /\ Works(Built(spec))
<1> DEFINE t == spec.template
           ports == AllPorts(t)
           built == Built(spec)
           deployment == Deployment(spec)
<1>1. /\ t \in Templates /\ TemplateTypes(t) /\ TemplateValid(t)
      /\ ValidPorts(t) /\ ValidPortNames(t)
      /\ \A i \in DOMAIN t.containers : ValidScratch(t.containers[i])
      /\ spec.autoscaling => ValidAutoscaling(spec)
  BY TemplateAssumption DEF FullSpec, SchemaValid, ValidateSpec, NoneTwice, Name
<1>2. /\ ports # <<>> /\ (\E S : ports \in Seq(S))
      /\ \A i, j \in DOMAIN ports : PortKey(ports[i]) = PortKey(ports[j]) => i = j
      /\ \A i, j \in DOMAIN ports : PortName(ports[i]) = PortName(ports[j]) => i = j
  BY <1>1, PortsOfValid
<1>3. BackendPort(t) # None
  BY <1>1, ValidIsRoutable
<1>4. \A k \in Kinds : Wants(k, spec) => Buildable(k, spec)
  <2>1. t \notin Portless /\ t \notin Misrouted
    BY <1>1, <1>2, <1>3, TemplateAssumption
  <2>2. spec.autoscaling => spec.maxReplicas # None
    BY <1>1 DEF ValidAutoscaling
  <2> QED
    BY <2>1, <2>2 DEF Wants, WantsHPA, Buildable
<1>5. /\ built.deployment = deployment /\ built.service.ports = ServicePorts(t)
      /\ built.ingress # None => /\ spec.domain # None
                                 /\ built.ingress.backend = BackendPort(t)
      /\ built.hpa # None => spec.autoscaling /\ built.hpa = HPA(spec)
  BY DEF Built, Service, Ingress, WantsIngress, WantsHPA
<1>6. /\ DOMAIN ServicePorts(t) = DOMAIN ports
      /\ \A i \in DOMAIN ports :
           /\ ServicePorts(t)[i].name = PortName(ports[i])
           /\ ServicePorts(t)[i].port = ports[i].number
           /\ ServicePorts(t)[i].protocol = Protocol(ports[i])
      /\ ServicePorts(t) # <<>>
  <2>1. ServicePorts(t) = [i \in DOMAIN ports |-> [name     |-> PortName(ports[i]),
                                                   port     |-> ports[i].number,
                                                   protocol |-> Protocol(ports[i])]]
    BY DEF ServicePorts
  <2>2. DOMAIN ServicePorts(t) # {}
    BY <1>2, <2>1
  <2> QED
    BY <2>1, <2>2
<1>7. /\ deployment.volumes = ScratchVolumes(t)
      /\ DOMAIN deployment.containers = DOMAIN t.containers
      /\ \A i \in DOMAIN t.containers :
           /\ deployment.containers[i].name = t.containers[i].name
           /\ deployment.containers[i].ports = ContainerPorts(t.containers[i])
           /\ deployment.containers[i].requests = t.containers[i].requests
           /\ deployment.containers[i].mounts = VolumeMounts(t.containers[i])
  BY DEF Deployment
<1> HIDE DEF t, ports, built, deployment
<1>8. \A i, j \in DOMAIN ServicePorts(t) :
        ServicePorts(t)[i].name = ServicePorts(t)[j].name => i = j
  BY <1>2, <1>6
<1>9. \A i, j \in DOMAIN ServicePorts(t) :
        <<ServicePorts(t)[i].port, ServicePorts(t)[i].protocol>> =
        <<ServicePorts(t)[j].port, ServicePorts(t)[j].protocol>> => i = j
  BY <1>2, <1>6 DEF PortKey
<1>10. \A i, j \in DOMAIN ScratchVolumes(t) :
         ScratchVolumes(t)[i].name = ScratchVolumes(t)[j].name => i = j
  BY <1>1, VolumesOfValid
<1>11. \A i, j \in DOMAIN t.containers :
         t.containers[i].name = t.containers[j].name => i = j
  BY <1>1 DEF TemplateValid, NoneTwice, Name
<1>12. ASSUME NEW i \in DOMAIN t.containers
       PROVE  LET c == deployment.containers[i]
              IN  /\ \A j, k \in DOMAIN c.ports : c.ports[j].name = c.ports[k].name => j = k
                  /\ \A j, k \in DOMAIN c.mounts :
                       c.mounts[j].mountPath = c.mounts[k].mountPath => j = k
  <2> DEFINE c == t.containers[i]
  <2>1. \A j, k \in DOMAIN c.ports :
          PortName(c.ports[j]) = PortName(c.ports[k]) => j = k
    BY <1>1, PortsOfValid
  <2>2. \A j, k \in DOMAIN c.scratchVolumes :
          c.scratchVolumes[j].mountPath = c.scratchVolumes[k].mountPath => j = k
    BY <1>1 DEF ValidScratch, NoneTwice
  <2> HIDE DEF c
  <2>3. /\ DOMAIN ContainerPorts(c) = DOMAIN c.ports
        /\ \A j \in DOMAIN c.ports : ContainerPorts(c)[j].name = PortName(c.ports[j])
    BY DEF ContainerPorts
  <2>4. /\ DOMAIN VolumeMounts(c) = DOMAIN c.scratchVolumes
        /\ \A j \in DOMAIN c.scratchVolumes :
             VolumeMounts(c)[j].mountPath = c.scratchVolumes[j].mountPath
    BY DEF VolumeMounts
  <2>5. /\ deployment.containers[i].ports = ContainerPorts(c)
        /\ deployment.containers[i].mounts = VolumeMounts(c)
    BY <1>7 DEF c
  <2> QED
    BY <2>1, <2>2, <2>3, <2>4, <2>5
<1>13. built.hpa # None => built.hpa.max # None /\ built.hpa.max >= built.hpa.min
  <2>1. HPA(spec).max = spec.maxReplicas
        /\ HPA(spec).min = IF spec.minReplicas # None THEN spec.minReplicas ELSE 1
    BY DEF HPA
  <2> QED
    BY <1>1, <1>5, <2>1 DEF ValidAutoscaling
<1>14. Accepts(built)
  BY <1>5, <1>6, <1>7, <1>8, <1>9, <1>10, <1>11, <1>12, <1>13
  DEF Accepts, NoneTwice, Name
<1>15. Works(built)
  <2>1. built.ingress # None =>
          \E i \in DOMAIN built.service.ports :
            built.service.ports[i].name = built.ingress.backend
    BY <1>1, <1>5, <1>6, ValidIsRoutable DEF ports
  <2>2. spec.autoscaling =>
          \A i \in DOMAIN t.containers :
            TargetedResources(spec) \subseteq DOMAIN t.containers[i].requests
    BY <1>1 DEF ValidAutoscaling, RequestsForTargets, t
  <2>3. DOMAIN HPA(spec).metrics = TargetedResources(spec)
    BY DEF HPA
  <2> QED
    BY <1>5, <1>7, <2>1, <2>2, <2>3 DEF Works
<1> QED
  BY <1>4, <1>14, <1>15 DEF built

\* Whatever the webhooks admitted (ValidateSpec) the controller can build (Deployment,
\* Service, Ingress, HPA), the API server takes, and the Ingress and the HPA can work
\* with, also after its count was scaled: no list of containers makes the checks of
\* names, ports and volumes and the builders disagree.
THEOREM ReviewedCanBeBuilt == Spec => []ReviewedIsBuildable
<1>1. AdmissionSound => ReviewedIsBuildable
  <2> SUFFICES ASSUME AdmissionSound, judged # None
               PROVE  /\ \A k \in Kinds : Wants(k, stored.spec) => Buildable(k, stored.spec)
                      /\ Accepts(Built(stored.spec))
                      /\ Works(Built(stored.spec))
    BY DEF ReviewedIsBuildable
  <2>1. stored # None /\ ValidateSpec(stored.spec)
    BY DEF AdmissionSound, ReviewedValid
  <2>2. stored.spec \in FullSpec /\ SchemaValid(stored.spec)
    BY <2>1 DEF AdmissionSound, StoredSound, Storable, StoredWebApp
  <2> QED
    BY <2>1, <2>2, ValidIsBuildable
<1> QED
  BY <1>1, AdmissionInvariant, PTL

===============================================================================
