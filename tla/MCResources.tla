---------------------------- MODULE MCResources ----------------------------
(***************************************************************************)
(* Histories of a component: an application of its resources that stops    *)
(* after some write, a complete one with other options, a deletion in      *)
(* which a step may fail, and its retry.                                   *)
(***************************************************************************)
EXTENDS MCCollectors, WorkloadResources

Options(istio, vpaCRD, vpa, n) ==
    [istio |-> istio, vpaCRD |-> vpaCRD, vpa |-> vpa, vpaMax |-> IF n = 1 THEN 100 ELSE 4000,
     config |-> <<"config", n>>, env |-> <<"env", n>>, files |-> <<"files", n>>, tls |-> <<"tls", n>>,
     backendPorts |-> {n}, multiplier |-> n,
     podLabels |-> IF n = 1 THEN "inject" :> "false" @@ "team" :> "a" ELSE NoLabels]

FirstOptions == {Options(istio, vpa, vpa, 2) : istio, vpa \in BOOLEAN}
SecondOptions == {Options(istio, vpa[1], vpa[2], 1) : istio \in BOOLEAN, vpa \in {<<FALSE, FALSE>>, <<TRUE, FALSE>>, <<TRUE, TRUE>>}}

-----------------------------------------------------------------------------
\* A configuration and the role of the Pods that run it are made in different
\* packages.

RulesFor(c) ==
    LET used(name) == Static(name) \in DOMAIN c.receivers \cup DOMAIN c.processors IN
    [clusterRole |->
        (IF used("k8s_attributes") THEN withK8sAttributeRules ELSE {})
            \cup (IF used("k8s_cluster") THEN withK8sClusterRules ELSE {})
            \cup (IF used("kubelet_stats") THEN withKubeletStatsRules ELSE {})
            \cup (IF used("prometheus/app-pods") \/ used("prometheus/istio") THEN withPrometheusRules ELSE {})
            \cup (IF used("kymastats") THEN withKymaStatsRules ELSE {}),
     role |-> IF Static("k8s_leader_elector") \in ToSet(c.service) THEN withLeaderElectionRules ELSE {}]

RBACOf ==
    CASE AgentBuilt -> makeMetricAgentRBAC
      [] GatewayBuilt -> makeOTLPGatewayRBAC
      [] LogAgentBuilt -> makeLogAgentRBAC

\* A collector starts with the configuration: every component, connector,
\* variable and extension that is used is defined, the variables of an exporter
\* hold the values of its own pipeline (ComponentBuilder), and the role of its Pods
\* lets each component read what it watches (make...RBAC).
CollectorStarts ==
    CollectorBuilt =>
        /\ Startable(ConfigOf)
        /\ RulesFor(ConfigOf).clusterRole \subseteq RBACOf.clusterRole
        /\ RulesFor(ConfigOf).role \subseteq RBACOf.role

-----------------------------------------------------------------------------
\* The objects of a component.

\* A partial application, or a complete one before a deletion that fails.
BuildResources ==
    /\ built.kind = "none"
    /\ \E name \in Components, first \in FirstOptions, opts \in SecondOptions :
         \E n \in 0..Len(ApplySteps(name, first)), failed \in 0..Len(DeleteSteps(name, opts)) :
            /\ failed = 0 \/ n = Len(ApplySteps(name, first))
            /\ built' = [kind |-> "resources", name |-> name, first |-> first, stopped |-> n,
                         opts |-> opts, failed |-> failed]

ResourcesBuilt == built.kind = "resources"

\* Removing a CRD removes its objects: Istio's and the autoscaler's are there only
\* while Istio is active and the autoscaler is installed.
WithCRDs(cluster, opts) ==
    Remaining(cluster, {k \in DOMAIN cluster :
                            \/ ~opts.istio /\ k[1] \in {"DestinationRule", "PeerAuthentication"}
                            \/ ~opts.vpaCRD /\ k[1] = "VerticalPodAutoscaler"})

\* A policy that an earlier release left.
Upgraded(name) == <<"NetworkPolicy", name>> :> [labels |-> BaseLabels(name), spec |-> [selector |-> NoLabels, rules |-> {}]]

Workload(name) == <<IF name = SelfMonitor THEN "Deployment" ELSE "DaemonSet", name>>

AfterFirst == ApplyFirst(Upgraded(built.name), built.name, built.first, built.stopped)
AfterSecond == ApplyResources(WithCRDs(AfterFirst, built.opts), built.name, built.opts)

\* Whatever was there before, a complete application leaves the cluster as if it
\* had been the first: no object, annotation or label of earlier options
\* survives (ApplyResources; VPA, DestinationRules and Istio annotations come and
\* go with the options).  Whatever a Pod needs exists before its workload does,
\* even if the application stops halfway, and the checksum is that of exactly
\* what the Pod reads, so that a change restarts it.
ApplyConverges ==
    ResourcesBuilt =>
        LET workload == AfterSecond[Workload(built.name)].spec
        IN
        /\ AfterSecond = ApplyResources(<<>>, built.name, built.opts)
        /\ \A cluster \in {AfterFirst, AfterSecond} :
             Workload(built.name) \in DOMAIN cluster =>
                LET t == cluster[Workload(built.name)].spec IN
                /\ \A r \in t.refs : r.optional \/ r.key \in DOMAIN cluster
                /\ <<"ServiceAccount", t.account>> \in DOMAIN cluster
                /\ LabelsMatch(t.selector, t.labels)
                /\ t.memory.request <= t.memory.limit
        /\ \A i \in 1..2 :
             ToSet(workload.annotations["checksum"][i]) =
                {AfterSecond[r.key].spec : r \in {r \in workload.refs :
                                                    r.key[1] = IF i = 1 THEN "ConfigMap" ELSE "Secret"}}

\* A gateway of an earlier release, one for each signal.
LegacyGateway(name, opts) ==
    applyCommonResources(name, makeOTLPGatewayRBAC)
    \o <<Put("Deployment", name, NoLabels, opts.config), Put("Secret", name, NoLabels, opts.env),
         Put("ConfigMap", name, NoLabels, opts.config),
         MakeNetworkPolicy(name, DefaultSelector(name), "-metrics", {WithEgressToAny})>>
    \o (IF opts.istio THEN <<Put("PeerAuthentication", name, NoLabels, "strict")>> ELSE <<>>)

WithLegacyGateway(cluster, name, opts) ==
    PerformAll(cluster, LegacyGateway(name, opts), BaseLabels(name))

\* After a deletion that failed and its retry nothing of the component is left,
\* whatever options its objects were made with (DeleteResources), but for the
\* Secret with the variables of an agent, which goes with its owner.  The cleanup
\* of the gateways of an earlier release takes all of them and nothing of the
\* gateway that replaces them (DeleteLegacyGatewayResources).
CleanupIsComplete ==
    ResourcesBuilt =>
        /\ \A cluster \in {AfterFirst, AfterSecond} :
             LET once == DeleteResources(WithCRDs(cluster, built.opts), built.name, built.opts, built.failed)
                 twice == DeleteResources(once, built.name, built.opts, 0)
             IN  DOMAIN twice \subseteq
                     IF built.name \in {"log-agent", "metric-agent"} THEN {<<"Secret", built.name>>} ELSE {}
        /\ built.name = OTLPGateway =>
             PerformAll(WithLegacyGateway(AfterSecond, "trace-gateway", built.opts),
                        DeleteLegacyGatewayResources("trace-gateway", built.opts), NoLabels) = AfterSecond

-----------------------------------------------------------------------------
\* All components together.

BuildTraffic ==
    /\ built.kind = "none"
    /\ \E istio \in BOOLEAN, n \in 1..2 : built' = [kind |-> "traffic", opts |-> Options(istio, FALSE, FALSE, n)]

TrafficBuilt == built.kind = "traffic"

Everything(opts) ==
    ApplyResources(ApplyResources(ApplyResources(ApplyResources(ApplyResources(<<>>,
        "log-agent", opts), "metric-agent", opts), OTLPGateway, opts), FluentBit, opts), SelfMonitor, opts)

Pod(labels, ns) == [labels |-> labels, ns |-> ns]
ManagerPod == Pod("name" :> "manager", "kyma-system")

\* Traffic to a port passes the sidecar, which asks for mTLS, unless an annotation
\* takes the port out.
Intercepted(t, port, istio) ==
    /\ istio /\ t.labels["inject"] = "true"
    /\ ~("includeInboundPorts" \in DOMAIN t.annotations)
    /\ "excludeInboundPorts" \in DOMAIN t.annotations => port \notin t.annotations["excludeInboundPorts"]

\* In a cluster where only the policies of this module count, the self-monitor
\* reaches every Pod behind a Service that is marked for it, the manager reaches
\* the self-monitor, alerts reach the manager, every Pod reaches the gateway behind
\* each OTLP Service, and agents reach any backend; a sidecar is not in the way of
\* scraping.  Selectors, labels, ports and annotations are chosen in different
\* places (make...NetworkPolicies, make...Service, make...DaemonSet).
TrafficIsAllowed ==
    TrafficBuilt =>
        LET cluster == Everything(built.opts)
            templates == {cluster[k].spec : k \in {k \in DOMAIN cluster : k[1] \in {"DaemonSet", "Deployment"}}}
            services == {cluster[k] : k \in {k \in DOMAIN cluster : k[1] = "Service"}}
            behind(s) == {t \in templates : LabelsMatch(s.spec.selector, t.labels)}
            pod(t) == Pod(t.labels, "kyma-system")
            monitor == pod(cluster[Workload(SelfMonitor)].spec)
        IN
        /\ \A s \in services :
             /\ Cardinality(behind(s)) = 1
             /\ \A t \in behind(s), port \in s.spec.ports :
                  /\ "self-monitor" \in DOMAIN s.labels =>
                        Reachable(cluster, monitor, pod(t), port) /\ ~Intercepted(t, port, built.opts.istio)
                  /\ port \in OTLPPorts =>
                        Reachable(cluster, Pod(NoLabels, "app"), pod(t), port) /\ ~Intercepted(t, port, built.opts.istio)
        /\ Reachable(cluster, ManagerPod, monitor, "prometheus")
        /\ Reachable(cluster, monitor, ManagerPod, "webhook")
        /\ \A t \in templates : pod(t) = monitor \/ Reachable(cluster, pod(t), Pod(NoLabels, "app"), "other")

=============================================================================
