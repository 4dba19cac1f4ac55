------------------------- MODULE WorkloadResources -------------------------
(***************************************************************************)
(* The Kubernetes objects of the agents, the gateway, Fluent Bit and the   *)
(* self-monitor: what each applier writes, in which order, and what its    *)
(* deleter removes.  The cluster is a function from <<kind, name>> to the  *)
(* labels and the specification of an object; an applier is the sequence   *)
(* of writes it makes, so that an error after the first n of them leaves   *)
(* the cluster with these n.                                               *)
(***************************************************************************)
EXTENDS SequencesExt, Naturals

CONSTANT Absent       \* no value

NoLabels == <<>>

-----------------------------------------------------------------------------
\* Labels.

ModuleLabels == "module" :> "telemetry" @@ "part-of" :> "telemetry" @@ "managed-by" :> "telemetry-manager"

DefaultLabels(name, component) == ModuleLabels @@ "name" :> name @@ "component" :> component

DefaultSelector(name) == "name" :> name

defaultFluentBitLabels == DefaultLabels("fluent-bit", "agent") @@ "instance" :> "telemetry"

\* A selector with the name of the objects, which the Pods do not carry.
fluentBitNameSelector == DefaultSelector("telemetry-fluent-bit") @@ "instance" :> "telemetry"

defaultFluentBitSelector == DefaultSelector("fluent-bit") @@ "instance" :> "telemetry"

ScrapingAllowed == "metrics-scraping" :> "allowed"

LabelsMatch(selector, labels) ==
    \A k \in DOMAIN selector : k \in DOMAIN labels /\ labels[k] = selector[k]

-----------------------------------------------------------------------------
\* Writes.

Put(kind, name, labels, spec) ==
    [op |-> "put", key |-> <<kind, name>>, labels |-> labels, spec |-> spec]
Drop(kind, name) == [op |-> "drop", key |-> <<kind, name>>, labels |-> NoLabels, spec |-> Absent]
DropLabelled(kind, selector) ==
    [op |-> "dropLabelled", key |-> <<kind, "">>, labels |-> selector, spec |-> Absent]

\* Annotations of a Pod template that others set and that survive an update.
mergePodAnnotations(new, old) ==
    new @@ [k \in DOMAIN old \cap {"restartedAt", "checksum"} |-> old[k]]

mergeMetadata(new, old) == new @@ old

\* Get, then Create or Update through the client that stamps the labels in base.
CreateOrUpdate(cluster, s, base) ==
    LET old == cluster[s.key]
        labels == base @@ (IF s.key \in DOMAIN cluster THEN mergeMetadata(s.labels, old.labels) ELSE s.labels)
        spec == IF s.key \in DOMAIN cluster /\ s.key[1] \in {"DaemonSet", "Deployment"}
                THEN [s.spec EXCEPT !.annotations = mergePodAnnotations(@, old.spec.annotations)]
                ELSE s.spec
    IN  s.key :> [labels |-> labels, spec |-> spec] @@ cluster

Remaining(cluster, keys) == [k \in DOMAIN cluster \ keys |-> cluster[k]]

DeleteObject(cluster, key) == Remaining(cluster, {key})

DeleteObjectsByLabelSelector(cluster, kind, selector) ==
    Remaining(cluster, {k \in DOMAIN cluster : k[1] = kind /\ LabelsMatch(selector, cluster[k].labels)})

Perform(cluster, s, base) ==
    CASE s.op = "put" -> CreateOrUpdate(cluster, s, base)
      [] s.op = "drop" -> DeleteObject(cluster, s.key)
      [] s.op = "dropLabelled" -> DeleteObjectsByLabelSelector(cluster, s.key[1], s.labels)

\* (The comparison with Absent makes TLC evaluate each cluster before the next.)
RECURSIVE PerformAll(_, _, _)
PerformAll(cluster, steps, base) ==
    IF cluster = Absent \/ steps = <<>> THEN cluster
    ELSE PerformAll(Perform(cluster, Head(steps), base), Tail(steps), base)

-----------------------------------------------------------------------------
\* Network policies.  A policy restricts a direction only if it has a rule for it.

AllPorts == {"metrics", "envoy", "otlp-grpc", "otlp-http", "http", "exporter", "prometheus", "webhook", "other"}

Rule(direction, peer, anyNamespace, ports) ==
    [direction |-> direction, peer |-> peer, anyNamespace |-> anyNamespace, ports |-> ports]

WithIngressFromAny(ports) == Rule("ingress", NoLabels, TRUE, ports)
WithIngressFromPods(selector, ports) == Rule("ingress", selector, FALSE, ports)
WithIngressFromPodsInAllNamespaces(selector, ports) == Rule("ingress", selector, TRUE, ports)
WithEgressToAny == Rule("egress", NoLabels, TRUE, AllPorts)
WithEgressToPods(selector, ports) == Rule("egress", selector, FALSE, ports)

MakeNetworkPolicy(name, selector, suffix, rules) ==
    Put("NetworkPolicy", "kyma-project.io--" \o name \o suffix, NoLabels, [selector |-> selector, rules |-> rules])

\* Deletes what an earlier release called the policy.
CleanupOldNetworkPolicy(name) == Drop("NetworkPolicy", name)

PolicyRules(cluster, pod, direction) ==
    {cluster[k].spec.rules : k \in {k \in DOMAIN cluster : /\ k[1] = "NetworkPolicy"
                                     /\ LabelsMatch(cluster[k].spec.selector, pod.labels)
                                     /\ \E r \in cluster[k].spec.rules : r.direction = direction}}

\* What Kubernetes makes of the policies.
Permits(cluster, pod, peer, port, direction) ==
    LET rules == PolicyRules(cluster, pod, direction) IN
    rules = {} \/ \E r \in UNION rules : /\ r.direction = direction
                                         /\ LabelsMatch(r.peer, peer.labels)
                                         /\ r.anyNamespace \/ pod.ns = peer.ns
                                         /\ port \in r.ports

Reachable(cluster, from, to, port) ==
    Permits(cluster, from, to, port, "egress") /\ Permits(cluster, to, from, port, "ingress")

-----------------------------------------------------------------------------
\* What a component may do with the API server.

withLeaderElectionRules == {"leases"}
withK8sClusterRules ==
    {"events", "namespaces", "namespaces/status", "nodes", "nodes/spec", "persistentvolumes",
     "persistentvolumeclaims", "pods", "pods/status", "replicationcontrollers",
     "replicationcontrollers/status", "resourcequotas", "services", "endpointslices", "daemonsets",
     "deployments", "replicasets", "statefulsets", "jobs", "cronjobs", "horizontalpodautoscalers"}
withKubeletStatsRules ==
    {"nodes", "nodes/stats", "nodes/proxy", "nodes/pods", "persistentvolumeclaims", "persistentvolumes"}
withPrometheusRules ==
    {"nodes", "nodes/metrics", "services", "endpoints", "pods", "/metrics", "/metrics/cadvisor"}
withK8sAttributeRules == {"namespaces", "pods", "nodes", "replicasets"}
withKymaStatsRules == {"telemetries", "metricpipelines", "tracepipelines", "logpipelines"}

makeMetricAgentRBAC ==
    [clusterRole |-> withKubeletStatsRules \cup withPrometheusRules \cup withK8sClusterRules,
     role |-> withLeaderElectionRules]
makeLogAgentRBAC == [clusterRole |-> withK8sAttributeRules, role |-> {}]
makeOTLPGatewayRBAC ==
    [clusterRole |-> withK8sAttributeRules \cup withKymaStatsRules, role |-> withLeaderElectionRules]

-----------------------------------------------------------------------------
\* Pod templates: what a Pod refers to, of which some may be absent, and what
\* decides about its restart (checksum) and about its traffic.

Ref(kind, name, optional) == [key |-> <<kind, name>>, optional |-> optional]

MakeWorkloadMetadata(name, component, user, extra, annotations) ==
    [labels |-> extra @@ user @@ DefaultLabels(name, component), annotations |-> annotations]

Template(metadata, selector, account, refs, memory) ==
    [labels |-> metadata.labels, annotations |-> metadata.annotations, selector |-> selector,
     account |-> account, refs |-> refs, memory |-> memory]

\* A checksum that leaves the Secrets out.
CalculateConfigMaps(configMaps, secrets) == <<configMaps, <<>>>>

\* The data of ConfigMaps and Secrets in the order of their names.
Calculate(configMaps, secrets) == <<configMaps, secrets>>

Interception(istio, annotations) == IF istio THEN annotations ELSE <<>>

\* A collector takes its configuration from the ConfigMap and its variables from
\* the Secret of its own name, if there is one.
makePodSpec(name) == {Ref("ConfigMap", name, FALSE), Ref("Secret", name, TRUE)}

makeServiceAccount(name) == Put("ServiceAccount", name, NoLabels, Absent)
makeConfigMap(name, data) == Put("ConfigMap", name, NoLabels, data)
makeSecret(name, data) == Put("Secret", name, NoLabels, data)
makeService(name, labels, selector, ports) ==
    Put("Service", name, labels, [selector |-> selector, ports |-> ports])
MetricsServiceName(name) == name \o "-metrics"
makeMetricsService(name) ==
    makeService(MetricsServiceName(name), "self-monitor" :> "enabled", DefaultSelector(name), {"metrics"})

withClusterRole(name, rules) == Put("ClusterRole", name, NoLabels, rules)
withClusterRoleBinding(name) == Put("ClusterRoleBinding", name, NoLabels, name)
withRole(name, rules) == Put("Role", name, NoLabels, rules)
withRoleBinding(name) == Put("RoleBinding", name, NoLabels, name)

applyCommonResources(name, rbac) ==
    <<makeServiceAccount(name), withClusterRole(name, rbac.clusterRole), withClusterRoleBinding(name)>>
    \o (IF rbac.role = {} THEN <<>> ELSE <<withRole(name, rbac.role), withRoleBinding(name)>>)
    \o <<makeMetricsService(name), CleanupOldNetworkPolicy(name)>>

\* A deletion of the cluster-wide objects only.
deleteClusterResources(name) ==
    <<Drop("ClusterRoleBinding", name), Drop("ClusterRole", name), Drop("ServiceAccount", name),
      Drop("Service", MetricsServiceName(name))>>

deleteCommonResources(name) ==
    <<Drop("ClusterRoleBinding", name), Drop("ClusterRole", name), Drop("RoleBinding", name),
      Drop("Role", name), Drop("ServiceAccount", name), Drop("Service", MetricsServiceName(name))>>

\* Memory in MiB: what the autoscaler may choose, and what a template asks for.
makeVPA(name, min, max) ==
    Put("VerticalPodAutoscaler", name, NoLabels, [min |-> min, max |-> IF max < min THEN min ELSE max])

applyVPA(name, min, opts) ==
    IF ~opts.vpaCRD THEN <<>>
    ELSE IF opts.vpa THEN <<makeVPA(name, min, opts.vpaMax)>>
    ELSE <<Drop("VerticalPodAutoscaler", name)>>

IngressMetricsPorts(istio) == {"metrics"} \cup IF istio THEN {"envoy"} ELSE {}

-----------------------------------------------------------------------------
\* The log agent and the metric agent.

agentMemoryRequest == 64
agentMemoryLimit == 1200

Agent(name) ==
    IF name = "log-agent" THEN [rbac |-> makeLogAgentRBAC, labels |-> "inject" :> "true"]
    ELSE [rbac |-> makeMetricAgentRBAC,
          labels |-> "metric-scrape" :> "true" @@ "metric-export" :> "true" @@ "inject" :> "true"
                        @@ ScrapingAllowed]

makeLogAgentAnnotations(checksum, opts) ==
    "checksum" :> checksum @@ Interception(opts.istio, "excludeInboundPorts" :> {"metrics"})

\* Only what goes to a backend passes the sidecar of the metric agent.
makeMetricAgentAnnotations(checksum, opts) ==
    "checksum" :> checksum
    @@ Interception(opts.istio, "excludeInboundPorts" :> {"metrics"} @@ "outputCerts" :> TRUE
                                @@ "includeOutboundPorts" :> opts.backendPorts)

makeAgentDaemonSet(name, checksum, opts) ==
    Put("DaemonSet", name, NoLabels,
        Template(MakeWorkloadMetadata(name, "agent", opts.podLabels, Agent(name).labels,
                                      IF name = "log-agent" THEN makeLogAgentAnnotations(checksum, opts)
                                      ELSE makeMetricAgentAnnotations(checksum, opts)),
                 DefaultSelector(name), name, makePodSpec(name),
                 [request |-> agentMemoryRequest,
                  limit |-> IF opts.vpaCRD /\ opts.vpa THEN 2 * agentMemoryRequest ELSE agentMemoryLimit]))

makeAgentNetworkPolicies(name, istio) ==
    <<MakeNetworkPolicy(name, DefaultSelector(name), "-metrics",
                        {WithIngressFromPodsInAllNamespaces(ScrapingAllowed, IngressMetricsPorts(istio))}),
      MakeNetworkPolicy(name, DefaultSelector(name), "", {WithEgressToAny})>>

ApplyAgent(name, opts) ==
    applyCommonResources(name, Agent(name).rbac)
    \o (IF opts.env = Absent THEN <<>> ELSE <<makeSecret(name, opts.env)>>)
    \o <<makeConfigMap(name, opts.config)>>
    \o makeAgentNetworkPolicies(name, opts.istio)
    \o <<makeAgentDaemonSet(name, Calculate(<<opts.config>>, IF opts.env = Absent THEN <<>> ELSE <<opts.env>>),
                            opts)>>
    \o applyVPA(name, agentMemoryRequest, opts)

\* The Secret with the variables stays.
DeleteAgent(name, opts) ==
    deleteCommonResources(name)
    \o <<DropLabelled("NetworkPolicy", DefaultSelector(name)), Drop("ConfigMap", name), Drop("DaemonSet", name)>>
    \o (IF opts.vpaCRD THEN <<Drop("VerticalPodAutoscaler", name)>> ELSE <<>>)

-----------------------------------------------------------------------------
\* The gateway.

OTLPGateway == "otlp-gateway"
otlpGatewayBaseMemoryRequest == 128
OTLPServices == <<"otlp", "otlp-logs", "otlp-traces", "otlp-metrics">>
DestinationRules == <<"otlp-logs", "otlp-traces", "otlp-metrics", "otlp">>
OTLPPorts == {"otlp-grpc", "otlp-http"}

makeOTLPService(name) == makeService(name, NoLabels, DefaultSelector(OTLPGateway), OTLPPorts)

makeGatewayResourceRequirements(opts) ==
    LET base == 750 + opts.multiplier * 1000
        limit == IF opts.vpaMax # 0 /\ base > 2 * opts.vpaMax THEN 2 * opts.vpaMax ELSE base
    IN  [request |-> otlpGatewayBaseMemoryRequest,
         limit |-> IF opts.vpaCRD /\ opts.vpa THEN 2 * otlpGatewayBaseMemoryRequest ELSE limit]

makeAnnotations(checksum, opts) ==
    "checksum" :> checksum @@ Interception(opts.istio, "includeInboundPorts" :> {} @@ "interceptionMode" :> "TPROXY")

makeGatewayMetadata(checksum, opts) ==
    MakeWorkloadMetadata(OTLPGateway, "gateway", opts.podLabels,
                         "ingest" :> "true" @@ "export" :> "true" @@ "inject" :> "true",
                         makeAnnotations(checksum, opts))

makeGatewayDaemonSet(checksum, opts) ==
    Put("DaemonSet", OTLPGateway, NoLabels,
        Template(makeGatewayMetadata(checksum, opts), DefaultSelector(OTLPGateway), OTLPGateway, makePodSpec(OTLPGateway),
                 makeGatewayResourceRequirements(opts)))

makeGatewayNetworkPolicies(istio) ==
    <<MakeNetworkPolicy(OTLPGateway, DefaultSelector(OTLPGateway), "-metrics",
                        {WithIngressFromPodsInAllNamespaces(ScrapingAllowed, IngressMetricsPorts(istio))}),
      MakeNetworkPolicy(OTLPGateway, DefaultSelector(OTLPGateway), "",
                        {WithIngressFromAny(OTLPPorts), WithEgressToAny})>>

makeDestinationRule(service) == Put("DestinationRule", service, NoLabels, "no mTLS")
makePeerAuthentication == Put("PeerAuthentication", OTLPGateway, NoLabels, DefaultSelector(OTLPGateway))

ApplyGateway(opts) ==
    applyCommonResources(OTLPGateway, makeOTLPGatewayRBAC)
    \o <<makeSecret(OTLPGateway, opts.env), makeConfigMap(OTLPGateway, opts.config)>>
    \o makeGatewayNetworkPolicies(opts.istio)
    \o <<makeGatewayDaemonSet(Calculate(<<opts.config>>, <<opts.env>>), opts)>>
    \o applyVPA(OTLPGateway, otlpGatewayBaseMemoryRequest, opts)
    \o [i \in 1..4 |-> makeOTLPService(OTLPServices[i])]
    \o (IF opts.istio THEN [i \in 1..4 |-> makeDestinationRule(DestinationRules[i])] \o <<makePeerAuthentication>>
        ELSE <<>>)

DeleteGateway(opts) ==
    deleteCommonResources(OTLPGateway)
    \o <<Drop("Secret", OTLPGateway), Drop("ConfigMap", OTLPGateway),
         DropLabelled("NetworkPolicy", DefaultSelector(OTLPGateway)), Drop("DaemonSet", OTLPGateway)>>
    \o (IF opts.vpaCRD THEN <<Drop("VerticalPodAutoscaler", OTLPGateway)>> ELSE <<>>)
    \o [i \in 1..4 |-> Drop("Service", OTLPServices[i])]
    \o (IF opts.istio THEN [i \in 1..4 |-> Drop("DestinationRule", DestinationRules[i])]
                           \o <<Drop("PeerAuthentication", OTLPGateway)>>
        ELSE <<>>)

\* The gateways of earlier releases, one for each signal.
DeleteLegacyGatewayResources(name, opts) ==
    deleteCommonResources(name)
    \o <<Drop("Deployment", name), Drop("Secret", name), Drop("ConfigMap", name),
         DropLabelled("NetworkPolicy", DefaultSelector(name))>>
    \o (IF opts.istio THEN <<Drop("PeerAuthentication", name)>> ELSE <<>>)

-----------------------------------------------------------------------------
\* Fluent Bit.

FluentBit == "telemetry-fluent-bit"
FluentBitConfigMaps == <<FluentBit, FluentBit \o "-luascripts", FluentBit \o "-sections", FluentBit \o "-files">>
FluentBitEnvSecret == FluentBit \o "-env"
FluentBitTLSConfigSecret == FluentBit \o "-output-tls-config"

fluentBitVolumes ==
    {Ref("ConfigMap", FluentBit, FALSE), Ref("ConfigMap", FluentBit \o "-luascripts", FALSE),
     Ref("ConfigMap", FluentBit \o "-sections", TRUE), Ref("ConfigMap", FluentBit \o "-files", TRUE),
     Ref("Secret", FluentBitTLSConfigSecret, FALSE)}

makeFluentBitDaemonSet(checksum, opts) ==
    Put("DaemonSet", FluentBit, NoLabels,
        Template([labels |-> "inject" :> "true" @@ "log-export" :> "true" @@ opts.podLabels @@ defaultFluentBitLabels,
                  annotations |-> "checksum" :> checksum @@ "excludeInboundPorts" :> {"http", "exporter"}],
                 defaultFluentBitSelector, FluentBit,
                 fluentBitVolumes \cup {Ref("Secret", FluentBitEnvSecret, TRUE)},
                 [request |-> 50, limit |-> 1536]))

makeFluentBitMetricsPorts(istio) == {"http", "exporter"} \cup IF istio THEN {"envoy"} ELSE {}

makeFluentBitNetworkPolicies(istio) ==
    <<MakeNetworkPolicy(FluentBit, defaultFluentBitSelector, "-metrics",
                        {WithIngressFromPodsInAllNamespaces(ScrapingAllowed, makeFluentBitMetricsPorts(istio))}),
      MakeNetworkPolicy(FluentBit, defaultFluentBitSelector, "", {WithEgressToAny})>>

makeFluentBitClusterRole == withClusterRole(FluentBit, {"namespaces", "pods"})
makeFluentBitMetricsService ==
    makeService(MetricsServiceName(FluentBit), "self-monitor" :> "enabled", defaultFluentBitSelector, {"http"})
makeFluentBitExporterMetricsService ==
    makeService(FluentBit \o "-exporter-metrics", NoLabels, defaultFluentBitSelector, {"exporter"})
makeFluentBitConfigMap == makeConfigMap(FluentBit, <<"service">>)
makeFluentBitLuaConfigMap == makeConfigMap(FluentBit \o "-luascripts", <<"lua">>)

ApplyFluentBit(opts) ==
    <<makeServiceAccount(FluentBit), makeFluentBitClusterRole, withClusterRoleBinding(FluentBit),
      makeFluentBitExporterMetricsService, makeFluentBitMetricsService,
      makeFluentBitConfigMap, makeFluentBitLuaConfigMap,
      makeConfigMap(FluentBit \o "-sections", opts.config), makeConfigMap(FluentBit \o "-files", opts.files),
      makeSecret(FluentBitEnvSecret, opts.env), makeSecret(FluentBitTLSConfigSecret, opts.tls),
      makeFluentBitDaemonSet(Calculate(<<<<"service">>, opts.files, <<"lua">>, opts.config>>, <<opts.env, opts.tls>>), opts)>>
    \o makeFluentBitNetworkPolicies(opts.istio)
    \o <<CleanupOldNetworkPolicy(FluentBit)>>

DeleteFluentBit ==
    <<Drop("ServiceAccount", FluentBit), Drop("ClusterRole", FluentBit), Drop("ClusterRoleBinding", FluentBit),
      Drop("Service", FluentBit \o "-exporter-metrics"), Drop("Service", MetricsServiceName(FluentBit))>>
    \o [i \in 1..4 |-> Drop("ConfigMap", FluentBitConfigMaps[i])]
    \o <<Drop("DaemonSet", FluentBit), DropLabelled("NetworkPolicy", DefaultSelector("fluent-bit")),
         Drop("Secret", FluentBitEnvSecret), Drop("Secret", FluentBitTLSConfigSecret)>>

-----------------------------------------------------------------------------
\* The self-monitor.

SelfMonitor == "self-monitor"

makeSelfMonitorNetworkPolicies ==
    <<MakeNetworkPolicy(SelfMonitor, DefaultSelector(SelfMonitor), "",
          {WithEgressToPods("name" :> "fluent-bit", {"http"}),
           WithEgressToPods("name" :> "metric-agent", {"metrics"}),
           WithEgressToPods("name" :> "log-agent", {"metrics"}),
           WithEgressToPods("component" :> "gateway", {"metrics"}),
           WithEgressToPods("name" :> "manager", {"webhook"})}),
      MakeNetworkPolicy(SelfMonitor, DefaultSelector(SelfMonitor), "-metrics",
          {WithIngressFromPods("name" :> "manager", {"prometheus"}),
           WithIngressFromPodsInAllNamespaces(ScrapingAllowed, {"prometheus"})})>>

makeSelfMonitorPodSpec == {Ref("ConfigMap", SelfMonitor, FALSE)}

makeDeployment(checksum, opts) ==
    Put("Deployment", SelfMonitor, NoLabels,
        Template([labels |-> "inject" :> "false" @@ ScrapingAllowed @@ opts.podLabels
                                @@ DefaultLabels(SelfMonitor, "monitor"),
                  annotations |-> "checksum" :> checksum],
                 DefaultSelector(SelfMonitor), SelfMonitor, makeSelfMonitorPodSpec,
                 [request |-> 50, limit |-> 512]))

makeSelfMonitorRole == withRole(SelfMonitor, {"services", "endpoints", "pods"})
makeSelfMonitorService == makeService(SelfMonitor, NoLabels, DefaultSelector(SelfMonitor), {"prometheus"})

ApplySelfMonitor(opts) ==
    <<makeServiceAccount(SelfMonitor), makeSelfMonitorRole, withRoleBinding(SelfMonitor)>>
    \o makeSelfMonitorNetworkPolicies
    \o <<makeConfigMap(SelfMonitor, opts.config), makeDeployment(Calculate(<<opts.config>>, <<>>), opts),
         makeSelfMonitorService, CleanupOldNetworkPolicy(SelfMonitor)>>

\* Unlike the others it returns at the first error.
DeleteSelfMonitor ==
    <<Drop("Deployment", SelfMonitor), Drop("ConfigMap", SelfMonitor),
      DropLabelled("NetworkPolicy", DefaultSelector(SelfMonitor)), Drop("RoleBinding", SelfMonitor),
      Drop("Role", SelfMonitor), Drop("ServiceAccount", SelfMonitor), Drop("Service", SelfMonitor)>>

-----------------------------------------------------------------------------
\* A component's applier and deleter.

Components == {"log-agent", "metric-agent", OTLPGateway, FluentBit, SelfMonitor}

BaseLabels(name) ==
    CASE name = OTLPGateway -> DefaultLabels(name, "gateway")
      [] name = FluentBit -> defaultFluentBitLabels
      [] name = SelfMonitor -> DefaultLabels(name, "monitor")
      [] OTHER -> DefaultLabels(name, "agent")

ApplySteps(name, opts) ==
    CASE name = OTLPGateway -> ApplyGateway(opts)
      [] name = FluentBit -> ApplyFluentBit(opts)
      [] name = SelfMonitor -> ApplySelfMonitor(opts)
      [] OTHER -> ApplyAgent(name, opts)

DeleteSteps(name, opts) ==
    CASE name = OTLPGateway -> DeleteGateway(opts)
      [] name = FluentBit -> DeleteFluentBit
      [] name = SelfMonitor -> DeleteSelfMonitor
      [] OTHER -> DeleteAgent(name, opts)

\* The first n writes of an application.
ApplyFirst(cluster, name, opts, n) ==
    PerformAll(cluster, SubSeq(ApplySteps(name, opts), 1, n), BaseLabels(name))

ApplyResources(cluster, name, opts) ==
    PerformAll(cluster, ApplySteps(name, opts), BaseLabels(name))

\* A deletion of which step `failed` fails (0: none does).
DeleteResources(cluster, name, opts, failed) ==
    LET steps == DeleteSteps(name, opts) IN
    PerformAll(cluster,
               IF failed = 0 THEN steps
               ELSE IF name = SelfMonitor THEN SubSeq(steps, 1, failed - 1)
               ELSE RemoveAt(steps, failed),
               NoLabels)

=============================================================================
