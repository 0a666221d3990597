--------------------------- MODULE WebAppManifests ---------------------------
(***************************************************************************)
(* The builders of internal/resources in detail.  A spec here is a spec of *)
(* WebAppResources whose template is a record: the containers with their   *)
(* ports, resources and scratch volumes, and the fields of the pod and the *)
(* Service that admission looks at.  Names are sequences of their parts,   *)
(* so that a name somebody writes may be one the operator would generate.  *)
(***************************************************************************)
EXTENDS WebAppResources, SequencesExt

NoName == <<>>

DefaultPortName == <<"http">>

Protocol(port) == IF port.protocol = "" THEN "TCP" ELSE port.protocol

PortName(port) ==
  IF port.name # NoName THEN port.name
  ELSE IF Protocol(port) = "UDP" THEN <<"port", port.number, "udp">>
  ELSE <<"port", port.number>>

PortKey(port) == <<port.number, Protocol(port)>>

DeclaredPorts(t) ==
  FlattenSeq([i \in DOMAIN t.containers |-> t.containers[i].ports])

\* The first port of each number and protocol, in the order of declaration.
AllPorts(t) ==
  LET ports == DeclaredPorts(t)
      Seen(n) == \E j \in 1 .. n - 1 : PortKey(ports[j]) = PortKey(ports[n])
      kept[n \in 0 .. Len(ports)] ==
        IF n = 0 THEN <<>>
        ELSE IF Seen(n) THEN kept[n - 1] ELSE Append(kept[n - 1], ports[n])
  IN  kept[Len(ports)]

PortNames(t) ==
  LET ports == AllPorts(t) IN [i \in DOMAIN ports |-> PortName(ports[i])]

\* None: there is no port, or none of the name asked for.
BackendPort(t) ==
  LET ports == AllPorts(t)
      Named(name) == \E i \in DOMAIN ports : ports[i].name = name
  IN  IF ports = <<>> THEN None
      ELSE IF t.ingressPortName # NoName
      THEN IF Contains(PortNames(t), t.ingressPortName) THEN t.ingressPortName
           ELSE None
      ELSE IF Named(DefaultPortName) THEN DefaultPortName
      ELSE PortName(ports[1])

ServicePorts(t) ==
  LET ports == AllPorts(t)
  IN  [i \in DOMAIN ports |-> [name     |-> PortName(ports[i]),
                               port     |-> ports[i].number,
                               protocol |-> Protocol(ports[i])]]

Service(spec) ==
  [type  |-> IF spec.template.serviceType = "" THEN "ClusterIP"
             ELSE spec.template.serviceType,
   ports |-> ServicePorts(spec.template)]

Ingress(spec) == [host |-> spec.domain, backend |-> BackendPort(spec.template)]

DefaultTargetCPU == 70

\* CPU is what is targeted when nothing is.
TargetedResources(spec) ==
  LET set == {r \in {"cpu", "memory"} : spec.targets[r] # None}
  IN  IF set = {} THEN {"cpu"} ELSE set

HPA(spec) ==
  [min     |-> IF spec.minReplicas # None THEN spec.minReplicas ELSE 1,
   max     |-> spec.maxReplicas,
   metrics |-> [r \in TargetedResources(spec) |->
                  IF spec.targets[r] = None THEN DefaultTargetCPU
                  ELSE spec.targets[r]]]

\* A rolling update's parameters go along with that type only.
Strategy(t) ==
  IF t.strategy = None \/ t.strategy.type = ""
  THEN [type |-> "RollingUpdate", rollingUpdate |-> None]
  ELSE [type |-> t.strategy.type,
        rollingUpdate |-> IF t.strategy.type = "RollingUpdate"
                          THEN t.strategy.rollingUpdate ELSE None]

\* A hash of both names keeps the volumes of different containers apart.
ScratchVolumeName(c, v) == <<v.name, c.name>>

ScratchVolumes(t) ==
  FlattenSeq([i \in DOMAIN t.containers |->
    LET c == t.containers[i]
    IN  [j \in DOMAIN c.scratchVolumes |->
           [name   |-> ScratchVolumeName(c, c.scratchVolumes[j]),
            medium |-> IF c.scratchVolumes[j].medium = "Memory" THEN "Memory"
                       ELSE "",
            sizeLimit |-> c.scratchVolumes[j].sizeLimit]]])

VolumeMounts(c) ==
  [j \in DOMAIN c.scratchVolumes |->
     [name      |-> ScratchVolumeName(c, c.scratchVolumes[j]),
      mountPath |-> c.scratchVolumes[j].mountPath]]

ContainerPorts(c) ==
  [j \in DOMAIN c.ports |->
     [name |-> PortName(c.ports[j]), number |-> c.ports[j].number,
      protocol |-> Protocol(c.ports[j])]]

Deployment(spec) ==
  LET t == spec.template
  IN  [replicas    |-> DesiredReplicas(spec),
       strategy    |-> Strategy(t),
       account     |-> t.serviceAccountName,
       annotations |-> t.podAnnotations,
       volumes     |-> ScratchVolumes(t),
       containers  |-> [i \in DOMAIN t.containers |->
                          LET c == t.containers[i]
                          IN  [name     |-> c.name,
                               ports    |-> ContainerPorts(c),
                               requests |-> c.requests,
                               limits   |-> c.limits,
                               mounts   |-> VolumeMounts(c)]]]

\* Everything the operator would apply for a spec.
Built(spec) ==
  [deployment |-> Deployment(spec),
   service    |-> Service(spec),
   ingress    |-> IF WantsIngress(spec) THEN Ingress(spec) ELSE None,
   hpa        |-> IF WantsHPA(spec) THEN HPA(spec) ELSE None]

-------------------------------------------------------------------------------
(* What a pod template is *)

IsList(s) == s \in Seq(Range(s))

PortTypes(p) ==
  /\ p = [name |-> p.name, number |-> p.number, protocol |-> p.protocol]
  /\ PortName(p) # None

ContainerTypes(c) ==
  /\ c = [name |-> c.name, ports |-> c.ports, requests |-> c.requests,
          limits |-> c.limits, scratchVolumes |-> c.scratchVolumes]
  /\ IsList(c.ports) /\ IsList(c.scratchVolumes)
  /\ \A j \in DOMAIN c.ports : PortTypes(c.ports[j])

TemplateTypes(t) ==
  /\ t = [containers         |-> t.containers,
          ingressPortName    |-> t.ingressPortName,
          serviceType        |-> t.serviceType,
          strategy           |-> t.strategy,
          serviceAccountName |-> t.serviceAccountName,
          podAnnotations     |-> t.podAnnotations]
  /\ IsList(t.containers)
  /\ \A i \in DOMAIN t.containers : ContainerTypes(t.containers[i])
  /\ t.ingressPortName # None
  /\ t.strategy # None => t.strategy = [type          |-> t.strategy.type,
                                       rollingUpdate |-> t.strategy.rollingUpdate]

\* The templates WebAppResources names are those the builders find wanting.
ASSUME TemplateAssumption ==
  /\ \A t \in Templates : TemplateTypes(t)
  /\ Portless = {t \in Templates : AllPorts(t) = <<>>}
  /\ Misrouted = {t \in Templates : BackendPort(t) = None} \ Portless
  /\ DefaultPortName # None

-------------------------------------------------------------------------------
(* What the API server demands of these objects (external) *)

NoneTwice(s, Key(_)) == \A i, j \in DOMAIN s : Key(s[i]) = Key(s[j]) => i = j

Name(x) == x.name

Accepts(built) ==
  LET Ports == built.service.ports
  IN  /\ Ports # <<>>
      /\ NoneTwice(Ports, Name)
      /\ NoneTwice(Ports, LAMBDA p : <<p.port, p.protocol>>)
      /\ NoneTwice(built.deployment.volumes, Name)
      /\ NoneTwice(built.deployment.containers, Name)
      /\ \A i \in DOMAIN built.deployment.containers :
           LET c == built.deployment.containers[i]
           IN  /\ NoneTwice(c.ports, Name)
               /\ NoneTwice(c.mounts, LAMBDA m : m.mountPath)
      /\ built.hpa # None => built.hpa.max # None /\ built.hpa.max >= built.hpa.min

\* Its Ingress routes to a port its Service has, and its HPA can measure every
\* resource it targets in every container.
Works(built) ==
  /\ built.ingress # None =>
       \E i \in DOMAIN built.service.ports :
         built.service.ports[i].name = built.ingress.backend
  /\ built.hpa # None =>
       \A i \in DOMAIN built.deployment.containers :
         DOMAIN built.hpa.metrics
           \subseteq DOMAIN built.deployment.containers[i].requests

===============================================================================
