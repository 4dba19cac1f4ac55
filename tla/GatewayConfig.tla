--------------------------- MODULE GatewayConfig ---------------------------
(***************************************************************************)
(* The OTLP gateway's collector configuration                              *)
(* (internal/otelcollector/config/otlpgateway).                            *)
(*                                                                         *)
(* Three builders write into ONE configuration: traces, then logs, then    *)
(* metrics.  They share the OTLP receiver and the processors with static   *)
(* IDs, of which the configuration keeps the first one stored; a processor *)
(* shared between signals therefore carries the statements of all signals. *)
(***************************************************************************)
EXTENDS CollectorConfig

CONSTANT GatewayNamespaces

\* p.otlp is the OTLP input: whether it is on and which namespaces it takes.
IsOTLPInputEnabled(p) == p.otlp.on

otlpReceiverConfig == [kind |-> "otlp"]
memoryLimiterConfig == Opaque("memory_limiter", "75%")
istioNoiseFilterProcessorConfig ==
    [kind |-> "filter", on |-> [s \in Signals |-> {[noise |-> {"istioTelemetry"}]}]]

\* The batch size is that of the signal whose builder runs first.
BatchOf(size) == Proc("batch", Opaque("batch", size))

OTelProc(opts, name, statements) == Proc(name, OnlyOTel(opts, AllSignalsTransformProcessor(statements)))
AllProc(name, statements) == Proc(name, AllSignalsTransformProcessor(statements))

UserProc(p, signal) ==
    <<Component("processor", ComponentIDUserDefinedTransformProcessor(p), UserDefinedTransform(p, signal)),
      Component("processor", ComponentIDUserDefinedFilterProcessor(p), UserDefinedFilter(p, signal))>>

-----------------------------------------------------------------------------
TraceComponents(p, opts) ==
    <<Recv("otlp", otlpReceiverConfig),
      Proc("memory_limiter", memoryLimiterConfig),
      Proc("transform/drop-istio-service-enrichment",
           OnlyOTel(opts, TransformProcessor("traces", <<Set("service", "none", [proxy |-> {TRUE}])>>))),
      OTelProc(opts, "transform/drop-unknown-service-name", DropUnknownServiceNameProcessorStatements),
      Proc("k8s_attributes", K8sAttributesProcessor(opts)),
      OTelProc(opts, "transform/restore-otel-service-attrs",
               RestoreOtelServiceAnnotationsProcessorStatements),
      Proc("istio_noise_filter", istioNoiseFilterProcessorConfig),
      AllProc("transform/insert-cluster-attributes", InsertClusterAttributesProcessorStatements),
      Proc("service_enrichment", OnlyKyma(opts, ResolveServiceName)),
      AllProc("transform/drop-kyma-attributes", DropKymaAttributesProcessorStatements)>>
    \o UserProc(p, "traces") \o <<BatchOf(512)>>

formatTraceServicePipelineID(p) == <<"traces", "/">> \o p.name

buildTracePipelines(c, ps, opts) ==
    FoldLeft(LAMBDA acc, p :
                AddServicePipeline(addOAuth2Extension(acc, p), formatTraceServicePipelineID(p),
                    Append(TraceComponents(p, opts), OTLPExporter(p, BatchingMaxQueueSize \div Len(ps)))),
             c, ps)

-----------------------------------------------------------------------------
\* Every log is dropped: it has a time or an observed time.
dropIfInputSourceOTLPProcessor == FilterProcessor("logs", {Always})

addDropIfInputSourceOTLPProcessor(p) ==
    Proc("filter/drop-if-input-source-otlp",
         IF IsOTLPInputEnabled(p) THEN Nil ELSE dropIfInputSourceOTLPProcessor)

addNamespaceFilterProcessor(p) ==
    Component("processor", ComponentIDNamespaceFilterProcessor(p),
        IF ~IsOTLPInputEnabled(p) \/ ~shouldFilterByNamespace(p.otlp.namespaces) THEN Nil
        ELSE FilterProcessor("logs", filterByNamespace(p.otlp.namespaces, Always, GatewayNamespaces)))

LogComponents(p, opts) ==
    <<Recv("otlp", otlpReceiverConfig),
      Proc("memory_limiter", memoryLimiterConfig),
      Proc("transform/set-observed-time-if-zero", Opaque("transform-time", "now")),
      OTelProc(opts, "transform/drop-unknown-service-name", DropUnknownServiceNameProcessorStatements),
      Proc("k8s_attributes", K8sAttributesProcessor(opts)),
      OTelProc(opts, "transform/restore-otel-service-attrs",
               RestoreOtelServiceAnnotationsProcessorStatements),
      Proc("istio_noise_filter", istioNoiseFilterProcessorConfig),
      addDropIfInputSourceOTLPProcessor(p),
      addNamespaceFilterProcessor(p),
      AllProc("transform/insert-cluster-attributes", InsertClusterAttributesProcessorStatements),
      Proc("service_enrichment", OnlyKyma(opts, ResolveServiceName)),
      AllProc("transform/drop-kyma-attributes", DropKymaAttributesProcessorStatements),
      Proc("istio_enrichment", Opaque("istio_enrichment", "version"))>>
    \o UserProc(p, "logs") \o <<BatchOf(512)>>

formatLogServicePipelineID(p) == <<"logs", "/">> \o p.name

buildLogPipelines(c, ps, opts) ==
    FoldLeft(LAMBDA acc, p :
                AddServicePipeline(addOAuth2Extension(acc, p), formatLogServicePipelineID(p),
                    Append(LogComponents(p, opts), OTLPExporter(p, BatchingMaxQueueSize \div Len(ps)))),
             c, ps)

-----------------------------------------------------------------------------
\* Metrics of both receivers are marked with their input, enriched together and
\* then given to every pipeline.

InputName(input) ==
    Proc("transform/set-kyma-input-name-" \o input,
         TransformProcessor("metrics", KymaInputNameProcessorStatements(input)))

ForwardConnector == [kind |-> "forward", default |-> <<>>, table |-> <<>>]
ForwardID(name) == <<"forward", "/", name>>
ForwardTo(name) == Component("exporter", ForwardID(name), ForwardConnector)
ForwardFrom(name) == Component("receiver", ForwardID(name), ForwardConnector)

MetricEnrichmentComponents(opts) ==
    <<ForwardFrom("input"),
      Proc("memory_limiter", memoryLimiterConfig),
      Proc("transform/set-instrumentation-scope-kyma", InstrumentationScopeProcessor("kyma")),
      OTelProc(opts, "transform/drop-unknown-service-name", DropUnknownServiceNameProcessorStatements),
      Proc("k8s_attributes", K8sAttributesProcessor(opts)),
      OTelProc(opts, "transform/restore-otel-service-attrs",
               RestoreOtelServiceAnnotationsProcessorStatements),
      Proc("service_enrichment", OnlyKyma(opts, ResolveServiceName)),
      AllProc("transform/insert-cluster-attributes", InsertClusterAttributesProcessorStatements),
      ForwardTo("enrichment")>>

addMetricDropOTLPIfInputDisabledProcessor(p) ==
    Proc("filter/drop-if-input-source-otlp",
         IF IsOTLPInputEnabled(p) THEN Nil ELSE FilterProcessor("metrics", {[input |-> {"otlp"}]}))

\* Mutant: the namespace condition alone, as for logs.
metricFilterByNamespaceAnyInput(selector) ==
    FilterProcessor("metrics", filterByNamespace(selector, Always, GatewayNamespaces))

\* The metrics of Kyma's own resources pass whatever their namespace.
metricFilterByNamespaceProcessorConfig(selector) ==
    FilterProcessor("metrics", filterByNamespace(selector, [input |-> Inputs \ {"kyma"}], GatewayNamespaces))

addMetricOTLPNamespaceFilterProcessor(p) ==
    Component("processor", ComponentIDNamespacePerInputFilterProcessor(p, "otlp"),
        IF ~IsOTLPInputEnabled(p) \/ ~shouldFilterByNamespace(p.otlp.namespaces) THEN Nil
        ELSE metricFilterByNamespaceProcessorConfig(p.otlp.namespaces))

MetricOutputComponents(p) ==
    <<ForwardFrom("enrichment"),
      addMetricDropOTLPIfInputDisabledProcessor(p),
      addMetricOTLPNamespaceFilterProcessor(p),
      AllProc("transform/drop-kyma-attributes", DropKymaAttributesProcessorStatements)>>
    \o UserProc(p, "metrics")
    \o <<Proc("cumulativetodelta", IF p.delta THEN Opaque("cumulativetodelta", "auto") ELSE Nil),
         BatchOf(1024)>>

formatMetricOutputServicePipelineID(p) == <<"metrics", "/">> \o p.name \o <<"-output">>

buildMetricPipelines(c, ps, opts) ==
    LET leader == AddExtension(c, Static("k8s_leader_elector"), [kind |-> "leader"], NoComponents)
        otlp == AddServicePipeline(leader, <<"metrics", "/input-otlp">>,
                    <<Recv("otlp", otlpReceiverConfig), InputName("otlp"), ForwardTo("input")>>)
        stats == AddServicePipeline(otlp, <<"metrics", "/input-kyma-stats">>,
                    <<Recv("kymastats", [kind |-> "kymastats"]), InputName("kyma"), ForwardTo("input")>>)
        shared == AddServicePipeline(stats, <<"metrics", "/enrichment">>, MetricEnrichmentComponents(opts))
    IN  IF ps = <<>> THEN c
        ELSE FoldLeft(LAMBDA acc, p :
                AddServicePipeline(addOAuth2Extension(acc, p), formatMetricOutputServicePipelineID(p),
                    Append(MetricOutputComponents(p), OTLPExporter(p, BatchingMaxQueueSize \div Len(ps)))),
             shared, ps)

\* opts.traces, opts.logs and opts.metrics are the pipelines as they were listed.
BuildGateway(opts) ==
    LET traces == buildTracePipelines(NewConfig, SortedByName(opts.traces), opts)
        logs == buildLogPipelines(traces, SortedByName(opts.logs), opts)
    IN  buildMetricPipelines(logs, SortedByName(opts.metrics), opts)

=============================================================================
