----------------------------- MODULE MCAdmission -----------------------------
(***************************************************************************)
(* Values of the admission model's constants for TLC.                      *)
(***************************************************************************)
EXTENDS WebAppAdmission

CONSTANT d1

Port(name, number, protocol) ==
  [name |-> name, number |-> number, protocol |-> protocol]

Container(name, ports) ==
  [name |-> name, ports |-> ports, requests |-> <<>>, limits |-> <<>>,
   scratchVolumes |-> <<>>]

Scratch(name, path, size) ==
  [name |-> name, mountPath |-> path, medium |-> "", sizeLimit |-> size]

OfTemplate(containers, ingressPort) ==
  [containers |-> containers, ingressPortName |-> ingressPort,
   serviceType |-> "", strategy |-> None, serviceAccountName |-> None,
   podAnnotations |-> {}]

Plain(template) ==
  [template |-> template, domain |-> d1, autoscaling |-> FALSE,
   minReplicas |-> None, maxReplicas |-> None, replicas |-> None,
   targets |-> [r \in Resources |-> None]]

Single == OfTemplate(<<Container("web", <<Port(NoName, 80, "")>>)>>, NoName)

-----------------------------------------------------------------------------
(* Port lists of two containers, with explicit, generated and missing names *)

PortLists ==
  {<<>>,
   <<Port(NoName, 80, "")>>,
   <<Port(DefaultPortName, 80, "UDP"), Port(NoName, 80, "TCP")>>,
   <<Port(<<"port", 80>>, 81, "")>>,
   <<Port(<<"port", 80, "udp">>, 82, ""), Port(NoName, 80, "UDP")>>}

PortSpecs ==
  {Plain(OfTemplate(<<Container("web", web), Container("side", side)>>, name)) :
     web, side \in PortLists,
     name \in {NoName, DefaultPortName, <<"port", 80>>, <<"port", 81>>}}

-----------------------------------------------------------------------------
(* Scratch volumes, strategies, accounts and annotations *)

Cache(path, size) == <<Scratch("tmp", path, size)>>

WithScratch(web, side) ==
  [Single EXCEPT !.containers =
     <<[@[1] EXCEPT !.scratchVolumes = web],
       [Container("side", <<>>) EXCEPT !.scratchVolumes = side]>>]

PodSpecs ==
  {Plain(WithScratch(Cache("/tmp", None), Cache("/tmp", 1))),
   Plain(WithScratch(Cache("/tmp", 0), <<>>)),
   Plain(WithScratch(Cache("/a", 1) \o <<Scratch("b", "/a", 1)>>, <<>>)),
   Plain(WithScratch(Cache("/a", 2), Cache("/a", 2)))}
  \cup
  {Plain([Single EXCEPT !.strategy = [type |-> type, rollingUpdate |-> params]]) :
     type \in {"", "RollingUpdate", "Recreate"}, params \in {None, 1}}
  \cup
  {Plain([Single EXCEPT !.serviceAccountName = account,
                        !.podAnnotations = keys]) :
     account \in {None, "robot"}, keys \in {{}, {<<"x", "y">>}}}

-----------------------------------------------------------------------------
(* Resources and autoscaling *)

WithResources(requests, limits) ==
  [Single EXCEPT !.containers[1].requests = requests,
                 !.containers[1].limits = limits]

Lists == {<<>>, [r \in {"cpu"} |-> 1], [r \in {"memory"} |-> 1],
          [r \in Resources |-> 2]}

Scaled(template, cpu, memory, bounds) ==
  [Plain(template) EXCEPT !.autoscaling = TRUE,
     !.minReplicas = bounds[1], !.maxReplicas = bounds[2],
     !.targets = [r \in Resources |-> IF r = "cpu" THEN cpu ELSE memory]]

ScalingSpecs ==
  {Scaled(WithResources(list, <<>>), target[1], target[2], <<None, 2>>) :
     list \in Lists,
     target \in {<<None, None>>, <<70, None>>, <<None, 50>>, <<70, 50>>}}
  \cup
  {Scaled(WithResources([r \in Resources |-> 1], <<>>), None, None, bounds) :
     bounds \in {<<None, None>>, <<2, 1>>, <<2, 2>>, <<None, 3>>}}
  \cup
  {Plain(WithResources(requests, limits)) : requests, limits \in Lists}
  \cup
  {[Plain(Single) EXCEPT !.replicas = n] : n \in {0, 3}}

MCEdits ==
  {Plain(Single),
   [Plain(Single) EXCEPT !.replicas = 3],
   [Plain([Single EXCEPT !.containers[1].ports = <<>>]) EXCEPT !.domain = None],
   Scaled(WithResources([r \in Resources |-> 1], <<>>), None, None, <<None, 3>>)}

MCSpecs == PortSpecs \cup PodSpecs \cup ScalingSpecs \cup MCEdits

MCBudget == [update |-> 1, scale |-> 1, policy |-> 1, switch |-> 1]

-----------------------------------------------------------------------------

Unbounding ==
  [enforcement |-> "Enforce", selects |-> "yes", maxReplicas |-> None,
   allowedServiceAccounts |-> {}, forbiddenPodAnnotationPrefixes |-> {},
   maxScratchSize |-> None, resources |-> None]

Bounding(min, max, requests, limits) ==
  [Unbounding EXCEPT !.resources =
     [minRequests |-> min, maxLimits |-> max,
      requireRequests |-> requests, requireLimits |-> limits]]

Ceiling(mode, selects) ==
  [Unbounding EXCEPT !.enforcement = mode, !.selects = selects, !.maxReplicas = 2]

MCPolicies ==
  {Ceiling("Enforce", "yes"), Ceiling("Warn", "yes"), Ceiling("Enforce", "no"),
   Ceiling("Enforce", "invalid"),
   [Unbounding EXCEPT !.maxScratchSize = 1,
                      !.forbiddenPodAnnotationPrefixes = {<<"x">>},
                      !.allowedServiceAccounts = {"default"}],
   [Unbounding EXCEPT !.allowedServiceAccounts = {Blank}],
   [Unbounding EXCEPT !.forbiddenPodAnnotationPrefixes = {<<>>}],
   Bounding([r \in {"memory"} |-> 2], [r \in Resources |-> 1], FALSE, FALSE),
   Bounding([r \in {"cpu"} |-> 1], [r \in Resources |-> 1], TRUE, TRUE)}

AllTemplates ==
  UNION {{spec.template, SchemaDefault(spec).template,
          Default(SchemaDefault(spec)).template} : spec \in MCSpecs}

WithoutPorts == {t \in AllTemplates : AllPorts(t) = <<>>}

WithoutBackend == {t \in AllTemplates : BackendPort(t) = None} \ WithoutPorts

\* TLC evaluates the definitions above once, but those the cfg names each time.
MCTemplates == AllTemplates

NoPorts == WithoutPorts

UnknownPort == WithoutBackend

=============================================================================
