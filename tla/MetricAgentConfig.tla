------------------------- MODULE MetricAgentConfig -------------------------
(***************************************************************************)
(* The metric agent's collector configuration                              *)
(* (internal/otelcollector/config/metricagent).                            *)
(*                                                                         *)
(* One agent serves all MetricPipelines: its receivers emit the UNION of   *)
(* what the pipelines ask for, and the filters of each output service      *)
(* pipeline must take away again what that pipeline did not ask for.       *)
(*                                                                         *)
(* A metric is a record: the receiver that emits it (src), the resource    *)
(* its name starts with (res), its tier, and n to tell two of a kind       *)
(* apart.  Tier "default" is on in the receiver and in the pipelines,      *)
(* "drop" is on in the receiver and off in the pipelines, "optional" is    *)
(* off in both; the last two are what additionalMetrics can add.           *)
(***************************************************************************)
EXTENDS CollectorConfig

CONSTANT Namespaces

Metric(src, res, tier, n) == [src |-> src, res |-> res, tier |-> tier, n |-> n]

kubeletStatsReceiverContainerMetrics == {Metric("kubelet", "container", "default", n) : n \in 1..2}
kubeletStatsReceiverNodeMetrics == {Metric("kubelet", "node", "default", 1)}
kubeletStatsReceiverPodMetrics == {Metric("kubelet", "pod", "default", n) : n \in 1..2}
kubeletStatsReceiverVolumeMetrics == {Metric("kubelet", "volume", "default", n) : n \in 1..2}
kubeletStatsReceiverExtraMetrics ==
    {Metric("kubelet", "node", "drop", 1)}
        \cup {Metric("kubelet", r, "optional", 1) : r \in {"container", "node", "pod"}}

KubeletStatsReceiverMetrics ==
    kubeletStatsReceiverContainerMetrics \cup kubeletStatsReceiverNodeMetrics
        \cup kubeletStatsReceiverPodMetrics \cup kubeletStatsReceiverVolumeMetrics
        \cup kubeletStatsReceiverExtraMetrics

k8sClusterReceiverPodMetrics == {Metric("cluster", "pod", "default", 1)}
k8sClusterReceiverContainerMetrics == {Metric("cluster", "container", "default", 1)}
k8sClusterReceiverStatefulSetMetrics == {Metric("cluster", "statefulset", "default", 1)}
k8sClusterReceiverJobMetrics == {Metric("cluster", "job", "default", n) : n \in 1..2}
k8sClusterReceiverDeploymentMetrics == {Metric("cluster", "deployment", "default", 1)}
k8sClusterReceiverDaemonSetMetrics == {Metric("cluster", "daemonset", "default", 1)}
k8sClusterReceiverExtraMetrics ==
    {Metric("cluster", r, "drop", 1) : r \in {"container", "other"}}
        \cup {Metric("cluster", r, "optional", 1) : r \in {"container", "node", "pod", "other"}}

K8sClusterReceiverMetrics ==
    k8sClusterReceiverPodMetrics \cup k8sClusterReceiverContainerMetrics
        \cup k8sClusterReceiverStatefulSetMetrics \cup k8sClusterReceiverJobMetrics
        \cup k8sClusterReceiverDeploymentMetrics \cup k8sClusterReceiverDaemonSetMetrics
        \cup k8sClusterReceiverExtraMetrics

RuntimeMetrics == KubeletStatsReceiverMetrics \cup K8sClusterReceiverMetrics
ScrapedMetrics == {Metric("prometheus", "app", "default", 1), Metric("istio", "istio", "default", 1)}
EnvoyMetrics == {Metric("istio", "envoy", "default", 1)}
diagnosticMetricNames == {Metric(src, "diagnostic", "default", 1) : src \in {"prometheus", "istio"}}
Metrics == RuntimeMetrics \cup ScrapedMetrics \cup EnvoyMetrics \cup diagnosticMetricNames

\* The metrics whose name matches the pattern of a resource.
Pattern(r) == {m \in RuntimeMetrics : m.res = r}

Resources ==
    {"pod", "container", "node", "volume", "deployment", "daemonset", "statefulset", "job"}

-----------------------------------------------------------------------------
\* What the pipelines ask for together.  p.runtime, p.prometheus and p.istio
\* have a field on, and what the input can be asked for in detail.

IsRuntimeResourceEnabled(p, r) == r \in p.runtime.resources

shouldEnableRuntimeResources(ps) ==
    {r \in Resources : \E i \in DOMAIN ps : ps[i].runtime.on /\ IsRuntimeResourceEnabled(ps[i], r)}

shouldEnableRuntimeMetricsScraping(ps) == \E i \in DOMAIN ps : ps[i].runtime.on
shouldEnablePrometheusMetricsScraping(ps) == \E i \in DOMAIN ps : ps[i].prometheus.on
shouldEnableIstioMetricsScraping(ps) == \E i \in DOMAIN ps : ps[i].istio.on
shouldEnableEnvoyMetricsScraping(ps) == \E i \in DOMAIN ps : ps[i].istio.on /\ ps[i].istio.envoy

getPipelinesWithRuntimeInput(ps) == SelectSeq(ps, LAMBDA p : p.runtime.on)
getPipelinesWithPrometheusInput(ps) == SelectSeq(ps, LAMBDA p : p.prometheus.on)
getPipelinesWithIstioInput(ps) == SelectSeq(ps, LAMBDA p : p.istio.on)

getRuntimeAdditionalMetrics(ps) ==
    UNION {ps[i].runtime.additional : i \in {j \in DOMAIN ps : ps[j].runtime.on}}

-----------------------------------------------------------------------------
\* Receivers.  A setting overrides what the receiver does by default.

getRuntimeAdditionalResourceMetrics(additional, r) == additional \cap Pattern(r)

kubeletStatsMetricGroups(resources, additional) ==
    {r \in {"container", "pod", "node", "volume"} :
        r \in resources \/ getRuntimeAdditionalResourceMetrics(additional, r) # {}}

\* The groups of settings: metrics a receiver emits unless told otherwise but that
\* nobody gets by default, and metrics it emits only when asked to.
KubeletStatsDefaultMetricsToDrop == {m \in KubeletStatsReceiverMetrics : m.tier = "drop"}
K8sClusterDefaultMetricsToDrop == {m \in K8sClusterReceiverMetrics : m.tier = "drop"}
KubeletStatsOptionalMetrics == {m \in KubeletStatsReceiverMetrics : m.tier = "optional"}
K8sClusterOptionalMetrics == {m \in K8sClusterReceiverMetrics : m.tier = "optional"}

\* The default metrics of a resource that is wanted only for additional metrics
\* are off: those of other resources are off with their metric group.
disableKubeletStatsMetrics(resources, additional) ==
    KubeletStatsDefaultMetricsToDrop
        \cup {m \in KubeletStatsReceiverMetrics :
                /\ m.tier = "default"
                /\ m.res \notin resources
                /\ getRuntimeAdditionalResourceMetrics(additional, m.res) # {}}

disableK8sClusterMetrics(resources) ==
    K8sClusterDefaultMetricsToDrop
        \cup {m \in K8sClusterReceiverMetrics : m.tier = "default" /\ m.res \notin resources}

\* The disabled metrics are set first, the additional ones after them.
enableKubeletStatsAdditionalMetrics(disabled, additional) ==
    [m \in additional |-> TRUE] @@ [m \in disabled |-> FALSE]
enableK8sClusterAdditionalMetrics(disabled, additional) ==
    [m \in additional |-> TRUE] @@ [m \in disabled |-> FALSE]

kubeletStatsMetrics(resources, additional) ==
    enableKubeletStatsAdditionalMetrics(disableKubeletStatsMetrics(resources, additional), additional)
k8sClusterMetrics(resources, additional) ==
    enableK8sClusterAdditionalMetrics(disableK8sClusterMetrics(resources), additional)

\* What the receiver emits of its metrics (the receiver is not part of src/).
Emitted(metrics, optional, settings) ==
    {m \in metrics : IF m \in DOMAIN settings THEN settings[m] ELSE m \notin optional}

kubeletStatsReceiver(resources, additional) ==
    [emits |-> {m \in Emitted(KubeletStatsReceiverMetrics, KubeletStatsOptionalMetrics,
                              kubeletStatsMetrics(resources, additional)) :
                  m.res \in kubeletStatsMetricGroups(resources, additional)}]

k8sClusterReceiver(resources, additional) ==
    [emits |-> Emitted(K8sClusterReceiverMetrics, K8sClusterOptionalMetrics,
                       k8sClusterMetrics(resources, additional))]

\* The scrape jobs of both application receivers apply to a target; the Pods
\* receiver and the Services receiver share what they emit.
prometheusReceiverConfig == [emits |-> {m \in Metrics : m.src = "prometheus"}]

prometheusIstioReceiverConfig(envoy) ==
    [emits |-> {m \in Metrics : m.src = "istio" /\ (m \in EnvoyMetrics => envoy)}]

-----------------------------------------------------------------------------
\* Scrape targets.  A target is a container of a Pod, found through the Pod or
\* through a Service: its scheme is the annotation's where there is one and
\* where the job looks at it, else https exactly if Istio injected a sidecar.

inferSchemeFromIstioInjectedLabel(t) == IF t.sidecar THEN "https" ELSE "http"
inferSchemeFromAnnotation(t) ==
    IF t.scheme = "none" THEN inferSchemeFromIstioInjectedLabel(t) ELSE t.scheme

Scrapable(t) == t.sameNode /\ t.annotated /\ t.running /\ ~t.initContainer

prometheusPodsRelabelConfigs(t) ==
    Scrapable(t) /\ inferSchemeFromIstioInjectedLabel(t) = "http"

prometheusEndpointsRelabelConfigs(t, requireHTTPS) ==
    /\ Scrapable(t)
    /\ ~t.istioProxy
    /\ inferSchemeFromAnnotation(t) = (IF requireHTTPS THEN "https" ELSE "http")

\* The jobs that scrape target t when it is annotated on its Pod or Service.
ScrapeJobs(t, opts) ==
    {job \in {"app-pods", "app-services", "app-services-secure", "istio-proxy"} :
        CASE job = "app-pods" -> t.role = "pod" /\ prometheusPodsRelabelConfigs(t)
          [] job = "app-services" -> t.role = "endpoints" /\ prometheusEndpointsRelabelConfigs(t, FALSE)
          [] job = "app-services-secure" ->
                opts.istioActive /\ t.role = "endpoints" /\ prometheusEndpointsRelabelConfigs(t, TRUE)
          [] OTHER -> t.role = "pod" /\ t.sameNode /\ t.istioProxy /\ t.running}

-----------------------------------------------------------------------------
\* Input and enrichment processors, the same for every pipeline.

addMemoryLimiterProcessor == Proc("memory_limiter", Opaque("memory_limiter", "75%"))

dropNonPVCVolumesMetricsProcessor == FilterProcessor("metrics", {[noise |-> {"nonPVC"}]})
addFilterDropNonPVCVolumesMetricsProcessor(resources) ==
    Proc("filter/drop-non-pvc-volumes-metrics",
         IF "volume" \in resources THEN dropNonPVCVolumesMetricsProcessor ELSE Nil)

dropVirtualNetworkInterfacesProcessor ==
    FilterProcessor("metrics", {[noise |-> {"virtualInterface"}, metric |-> Pattern("node")]})

addDropServiceNameProcessor ==
    Proc("transform/drop-service-name", TransformProcessor("metrics", <<Set("service", "none", Always)>>))

insertSkipEnrichmentAttributeProcessor ==
    TransformProcessor("metrics",
        <<Set("skip", TRUE,
              [metric |-> UNION {Pattern(r) :
                            r \in {"node", "statefulset", "daemonset", "deployment", "job"}}])>>)

addSetInstrumentationScopeProcessor(input) ==
    Proc("transform/set-instrumentation-scope-" \o input, InstrumentationScopeProcessor(input))

addSetKymaInputNameProcessor(input) ==
    Proc("transform/set-kyma-input-name-" \o input,
         TransformProcessor("metrics", KymaInputNameProcessorStatements(input)))

addIstioNoiseFilterProcessor ==
    Proc("istio_noise_filter",
         [kind |-> "filter", on |-> [s \in Signals |-> {[noise |-> {"istioTelemetry"}]}]])

EnrichmentProcessors(opts) ==
    <<Proc("transform/drop-unknown-service-name",
           OnlyOTel(opts, TransformProcessor("metrics", DropUnknownServiceNameProcessorStatements))),
      Proc("k8s_attributes", K8sAttributesProcessor(opts)),
      Proc("transform/restore-otel-service-attrs",
           OnlyOTel(opts, TransformProcessor("metrics", RestoreOtelServiceAnnotationsProcessorStatements))),
      Proc("service_enrichment", OnlyKyma(opts, ResolveServiceName))>>

-----------------------------------------------------------------------------
\* Filters of one output service pipeline.

KymaInputNameEquals(input) == [input |-> {input}]

\* Mutant: one filter ID for all pipelines: only the first pipeline's would be stored.
addDropRuntimeMetricsProcessorShared(p, r) ==
    Component("processor", <<"filter/drop-runtime-" \o r \o "-metrics">>,
        IF ~p.runtime.on \/ IsRuntimeResourceEnabled(p, r) THEN Nil
        ELSE FilterProcessor("metrics",
                {KymaInputNameEquals("runtime")
                    @@ [metric |-> Pattern(r)
                                     \ getRuntimeAdditionalResourceMetrics(p.runtime.additional, r)]}))

addDropRuntimeMetricsProcessor(p, r) ==
    Component("processor", <<"filter/drop-runtime-" \o r \o "-metrics", "-">> \o p.name,
        IF ~p.runtime.on \/ IsRuntimeResourceEnabled(p, r) THEN Nil
        ELSE FilterProcessor("metrics",
                {KymaInputNameEquals("runtime")
                    @@ [metric |-> Pattern(r)
                                     \ getRuntimeAdditionalResourceMetrics(p.runtime.additional, r)]}))

addDropRuntimePodMetricsProcessor(p) == addDropRuntimeMetricsProcessor(p, "pod")
addDropRuntimeContainerMetricsProcessor(p) == addDropRuntimeMetricsProcessor(p, "container")
addDropRuntimeNodeMetricsProcessor(p) == addDropRuntimeMetricsProcessor(p, "node")
addDropRuntimeVolumeMetricsProcessor(p) == addDropRuntimeMetricsProcessor(p, "volume")
addDropRuntimeDeploymentMetricsProcessor(p) == addDropRuntimeMetricsProcessor(p, "deployment")
addDropRuntimeDaemonSetMetricsProcessor(p) == addDropRuntimeMetricsProcessor(p, "daemonset")
addDropRuntimeStatefulSetMetricsProcessor(p) == addDropRuntimeMetricsProcessor(p, "statefulset")
addDropRuntimeJobMetricsProcessor(p) == addDropRuntimeMetricsProcessor(p, "job")

\* The default metrics of the pipeline's own resources.
DefaultMetrics(r) == {m \in Pattern(r) : m.tier = "default"}

additionalMetricsToDrop(all, p) ==
    all \ (p.runtime.additional
              \cup UNION {DefaultMetrics(r) : r \in {x \in Resources : IsRuntimeResourceEnabled(p, x)}})

addDropAdditionalRuntimeMetricsProcessor(all, p) ==
    Component("processor", <<"filter/drop-runtime-additional-metrics", "-">> \o p.name,
        IF ~p.runtime.on \/ all = {} \/ additionalMetricsToDrop(all, p) = {} THEN Nil
        ELSE FilterProcessor("metrics",
                {KymaInputNameEquals("runtime") @@ [metric |-> additionalMetricsToDrop(all, p)]}))

dropDiagnosticMetricsFilterProcessor(input) ==
    FilterProcessor("metrics", {KymaInputNameEquals(input) @@ [metric |-> diagnosticMetricNames]})

addDropPrometheusDiagnosticMetricsProcessor(p) ==
    Proc("filter/drop-diagnostic-metrics-if-input-source-prometheus",
         IF ~p.prometheus.on \/ p.prometheus.diagnostic THEN Nil
         ELSE dropDiagnosticMetricsFilterProcessor("prometheus"))

addDropIstioDiagnosticMetricsProcessor(p) ==
    Proc("filter/drop-diagnostic-metrics-if-input-source-istio",
         IF ~p.istio.on \/ p.istio.diagnostic THEN Nil
         ELSE dropDiagnosticMetricsFilterProcessor("istio"))

addDropEnvoyMetricsIfDisabledProcessor(p) ==
    Proc("filter/drop-envoy-metrics-if-disabled",
         IF p.istio.on /\ p.istio.envoy THEN Nil
         ELSE FilterProcessor("metrics", {KymaInputNameEquals("istio") @@ [metric |-> EnvoyMetrics]}))

NamespaceFilterProcessor(p, input, config) ==
    Component("processor", ComponentIDNamespacePerInputFilterProcessor(p, input),
        IF ~config.on \/ ~shouldFilterByNamespace(config.namespaces) THEN Nil
        ELSE FilterProcessor("metrics",
                filterByNamespace(config.namespaces, KymaInputNameEquals(input), Namespaces)))

addRuntimeNamespaceFilterProcessor(p) == NamespaceFilterProcessor(p, "runtime", p.runtime)
addPrometheusNamespaceFilterProcessor(p) == NamespaceFilterProcessor(p, "prometheus", p.prometheus)
addIstioNamespaceFilterProcessor(p) == NamespaceFilterProcessor(p, "istio", p.istio)

addUserDefinedTransformProcessor(p) ==
    Component("processor", ComponentIDUserDefinedTransformProcessor(p), UserDefinedTransform(p, "metrics"))
addUserDefinedFilterProcessor(p) ==
    Component("processor", ComponentIDUserDefinedFilterProcessor(p), UserDefinedFilter(p, "metrics"))

addInsertClusterAttributesProcessor ==
    Proc("transform/insert-cluster-attributes",
         TransformProcessor("metrics", InsertClusterAttributesProcessorStatements))
addDropSkipEnrichmentAttributeProcessor ==
    Proc("transform/drop-skip-enrichment-attribute",
         TransformProcessor("metrics", <<Set("skip", FALSE, Always)>>))
addDropKymaAttributesProcessor ==
    Proc("transform/drop-kyma-attributes",
         TransformProcessor("metrics", DropKymaAttributesProcessorStatements))
addCumulativeToDeltaProcessor(p) ==
    Proc("cumulativetodelta", IF p.delta THEN Opaque("cumulativetodelta", "auto") ELSE Nil)
addBatchProcessor == Proc("batch", Opaque("batch", 1024))

-----------------------------------------------------------------------------
\* Connectors: metrics marked to skip enrichment go straight to the outputs of
\* their input, all others through the enrichment service pipeline.

enrichmentServicePipelineID == <<"metrics", "/enrichment-conditional">>
formatOutputMetricServicePipelineID(p) == <<"metrics", "/output-">> \o p.name
formatOutputPipelineIDs(ps) == [i \in DOMAIN ps |-> formatOutputMetricServicePipelineID(ps[i])]

RouterID(name) == <<"routing", "/", name>>

inputRoutingConnector(ps) ==
    [kind |-> "routing", default |-> <<enrichmentServicePipelineID>>,
     table |-> <<[where |-> [skip |-> {TRUE}], pipelines |-> formatOutputPipelineIDs(ps)]>>]

enrichmentRoutingConnectorTableEntry(ps, input) ==
    [where |-> KymaInputNameEquals(input), pipelines |-> formatOutputPipelineIDs(ps)]

enrichmentRoutingConnector(runtime, prometheus, istio) ==
    [kind |-> "routing", default |-> <<>>,
     table |-> SelectSeq(<<enrichmentRoutingConnectorTableEntry(runtime, "runtime"),
                           enrichmentRoutingConnectorTableEntry(prometheus, "prometheus"),
                           enrichmentRoutingConnectorTableEntry(istio, "istio")>>,
                         LAMBDA entry : entry.pipelines # <<>>)]

addExporterForInputRouter(input, ps) ==
    Component("exporter", RouterID(input \o "-input"), inputRoutingConnector(ps))
addReceiverForInputRouter(input, ps, enabled) ==
    Component("receiver", RouterID(input \o "-input"), IF enabled THEN inputRoutingConnector(ps) ELSE Nil)

addExporterForEnrichmentRouter(runtime, prometheus, istio) ==
    Component("exporter", RouterID("enrichment"), enrichmentRoutingConnector(runtime, prometheus, istio))
addReceiverForEnrichmentRouter(runtime, prometheus, istio) ==
    Component("receiver", RouterID("enrichment"),
        IF runtime = <<>> /\ prometheus = <<>> /\ istio = <<>> THEN Nil
        ELSE enrichmentRoutingConnector(runtime, prometheus, istio))

-----------------------------------------------------------------------------
\* The build: input pipelines, the enrichment pipeline, one output each.

When(condition, c, pid, components) ==
    IF condition THEN AddServicePipeline(c, pid, components) ELSE c

AddInputPipelines(c, ps) ==
    LET resources == shouldEnableRuntimeResources(ps)
        additional == getRuntimeAdditionalMetrics(ps)
        runtime == When(shouldEnableRuntimeMetricsScraping(ps), c, <<"metrics", "/input-runtime">>,
            <<Recv("kubelet_stats",
                   kubeletStatsReceiver(resources, additional \cap KubeletStatsReceiverMetrics)),
              Recv("k8s_cluster",
                   k8sClusterReceiver(resources, additional \cap K8sClusterReceiverMetrics)),
              addMemoryLimiterProcessor,
              addFilterDropNonPVCVolumesMetricsProcessor(resources),
              Proc("filter/drop-virtual-network-interfaces", dropVirtualNetworkInterfacesProcessor),
              addDropServiceNameProcessor,
              Proc("transform/insert-skip-enrichment-attribute", insertSkipEnrichmentAttributeProcessor),
              addSetInstrumentationScopeProcessor("runtime"),
              addSetKymaInputNameProcessor("runtime"),
              addExporterForInputRouter("runtime", getPipelinesWithRuntimeInput(ps))>>)
        prometheus == When(shouldEnablePrometheusMetricsScraping(ps), runtime, <<"metrics", "/input-prometheus">>,
            <<Recv("prometheus/app-pods", prometheusReceiverConfig),
              Recv("prometheus/app-services", prometheusReceiverConfig),
              addMemoryLimiterProcessor,
              addDropServiceNameProcessor,
              addSetInstrumentationScopeProcessor("prometheus"),
              addSetKymaInputNameProcessor("prometheus"),
              addExporterForInputRouter("prometheus", getPipelinesWithPrometheusInput(ps))>>)
    IN  When(shouldEnableIstioMetricsScraping(ps), prometheus, <<"metrics", "/input-istio">>,
            <<Recv("prometheus/istio",
                   prometheusIstioReceiverConfig(shouldEnableEnvoyMetricsScraping(ps))),
              addMemoryLimiterProcessor,
              addDropServiceNameProcessor,
              addIstioNoiseFilterProcessor,
              addSetInstrumentationScopeProcessor("istio"),
              addSetKymaInputNameProcessor("istio"),
              addExporterForInputRouter("istio", getPipelinesWithIstioInput(ps))>>)

AddEnrichmentPipeline(c, ps, opts) ==
    LET runtime == getPipelinesWithRuntimeInput(ps)
        prometheus == getPipelinesWithPrometheusInput(ps)
        istio == getPipelinesWithIstioInput(ps)
    IN  AddServicePipeline(c, enrichmentServicePipelineID,
            <<addReceiverForInputRouter("runtime", runtime, runtime # <<>>),
              addReceiverForInputRouter("prometheus", prometheus, prometheus # <<>>),
              addReceiverForInputRouter("istio", istio, istio # <<>>)>>
            \o EnrichmentProcessors(opts)
            \o <<addExporterForEnrichmentRouter(runtime, prometheus, istio)>>)

AddOutputPipeline(c, ps, p) ==
    LET runtime == getPipelinesWithRuntimeInput(ps)
        prometheus == getPipelinesWithPrometheusInput(ps)
        istio == getPipelinesWithIstioInput(ps)
    IN  AddServicePipeline(addOAuth2Extension(c, p), formatOutputMetricServicePipelineID(p),
            <<addReceiverForEnrichmentRouter(runtime, prometheus, istio),
              addReceiverForInputRouter("runtime", runtime, p.runtime.on),
              addReceiverForInputRouter("prometheus", prometheus, p.prometheus.on),
              addReceiverForInputRouter("istio", istio, p.istio.on),
              addDropRuntimePodMetricsProcessor(p),
              addDropRuntimeContainerMetricsProcessor(p),
              addDropRuntimeNodeMetricsProcessor(p),
              addDropRuntimeVolumeMetricsProcessor(p),
              addDropRuntimeDeploymentMetricsProcessor(p),
              addDropRuntimeDaemonSetMetricsProcessor(p),
              addDropRuntimeStatefulSetMetricsProcessor(p),
              addDropRuntimeJobMetricsProcessor(p),
              addDropAdditionalRuntimeMetricsProcessor(getRuntimeAdditionalMetrics(ps), p),
              addDropPrometheusDiagnosticMetricsProcessor(p),
              addDropIstioDiagnosticMetricsProcessor(p),
              addDropEnvoyMetricsIfDisabledProcessor(p),
              addRuntimeNamespaceFilterProcessor(p),
              addPrometheusNamespaceFilterProcessor(p),
              addIstioNamespaceFilterProcessor(p),
              addInsertClusterAttributesProcessor,
              addDropSkipEnrichmentAttributeProcessor,
              addDropKymaAttributesProcessor,
              addUserDefinedTransformProcessor(p),
              addUserDefinedFilterProcessor(p),
              addCumulativeToDeltaProcessor(p),
              addBatchProcessor,
              OTLPExporter(p, BatchingMaxQueueSize \div Len(ps))>>)

BuildMetricAgent(listed, opts) ==
    LET ps == SortedByName(listed)
        started == AddExtension(NewConfig, Static("k8s_leader_elector"), [kind |-> "leader"], NoComponents)
        shared == AddEnrichmentPipeline(AddInputPipelines(started, ps), ps, opts)
    IN  FoldLeft(LAMBDA c, p : AddOutputPipeline(c, ps, p), shared, ps)

=============================================================================
