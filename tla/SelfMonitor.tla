----------------------------- MODULE SelfMonitor ----------------------------
(***************************************************************************)
(* The self-monitor's view of the telemetry flow (internal/selfmonitor):   *)
(* the time series it keeps and the pipeline labels it gives them, the     *)
(* alert rules over those series, the probers that read the alerts back,   *)
(* and the webhook that turns alerts into reconcile requests.              *)
(*                                                                         *)
(* A time series is what a collector reports of one exporter, receiver or  *)
(* plugin: the metric, the data type (Nil for Fluent Bit), the Service it  *)
(* was scraped through, the pipeline type and name its exporter label      *)
(* carries, its receiver label, and its rate or value.  A pipeline name is *)
(* a sequence of tokens, so that a name with a dot can be told apart.      *)
(***************************************************************************)
EXTENDS Integers, Sequences, Functions

CONSTANT Nil

-----------------------------------------------------------------------------
\* Scraping (config_builder.go).

otelCollectorMetrics ==
    {"exporter_sent", "exporter_send_failed", "exporter_enqueue_failed", "receiver_refused"}
fluentBitMetrics ==
    {"output_proc_bytes", "output_dropped_records", "input_bytes", "input_storage_chunks_down"}

scrapableMetricsRegex == otelCollectorMetrics \cup fluentBitMetrics

\* The name groups of the relabelling rules match letters, digits and hyphens:
\* a series whose name holds a dot stays without the pipeline_name label.
NameLabel(name) == IF name = Nil THEN Nil ELSE IF "." \in Range(name) THEN Nil ELSE name

makeScrapeConfig(exposed) ==
    {[s EXCEPT !.name = NameLabel(@)] : s \in {x \in exposed : x.metric \in scrapableMetricsRegex}}

-----------------------------------------------------------------------------
\* Expressions (expr_builder.go): the groups of an aggregation that pass the
\* comparison.  A sum or maximum of values that are never negative exceeds the
\* bound 0, and a maximum any bound, exactly if one of them does.

Select(series, metric, data, service) ==
    {s \in series : s.metric = metric /\ s.data = data /\ s.service = service}

NamesAbove(selected, bound) == {s.name : s \in {x \in selected : x.value > bound}}

NamesAtZero(selected) == {s.name : s \in selected} \ NamesAbove(selected, 0)

ruleDataType(t) ==
    CASE t = "metric" -> "metric_points" [] t = "trace" -> "spans" [] t = "log" -> "log_records"

ruleNamePrefix(t) == CASE t = "metric" -> "Metric" [] t = "trace" -> "Trace" [] t = "log" -> "Log"

pipelineComponentType(t) ==
    CASE t = "metric" -> "metricpipeline" [] t = "trace" -> "tracepipeline" [] t = "log" -> "logpipeline"

makeRule(t, base, pipelineNames) ==
    {[alertname |-> <<ruleNamePrefix(t), base>>, pipeline_name |-> n, pipeline_type |-> Nil] :
        n \in pipelineNames}

\* The rules of an OpenTelemetry Collector (otelcol_rule_builder.go).
exporterSentExpr(series, t, service) ==
    NamesAbove(Select(series, "exporter_sent", ruleDataType(t), service), 0)
exporterDroppedExpr(series, t, service) ==
    NamesAbove(Select(series, "exporter_send_failed", ruleDataType(t), service), 0)
exporterEnqueueFailedExpr(series, t, service) ==
    NamesAbove(Select(series, "exporter_enqueue_failed", ruleDataType(t), service), 0)

allDataDroppedExpr(series, t, service) ==
    (exporterEnqueueFailedExpr(series, t, service) \cup exporterDroppedExpr(series, t, service))
        \ exporterSentExpr(series, t, service)

someDataDroppedExpr(series, t, service) ==
    (exporterEnqueueFailedExpr(series, t, service) \cup exporterDroppedExpr(series, t, service))
        \cap exporterSentExpr(series, t, service)

\* Summed by receiver: the alerts carry no pipeline_name.
throttlingExpr(series, t, service) ==
    {Nil : s \in {x \in Select(series, "receiver_refused", ruleDataType(t), service) : x.value > 0}}

gatewayRules(series, t, service) ==
    makeRule(t, "GatewayAllDataDropped", allDataDroppedExpr(series, t, service))
        \cup makeRule(t, "GatewaySomeDataDropped", someDataDroppedExpr(series, t, service))
        \cup makeRule(t, "GatewayThrottling", throttlingExpr(series, t, service))

agentRules(series, t, service) ==
    makeRule(t, "AgentAllDataDropped", allDataDroppedExpr(series, t, service))
        \cup makeRule(t, "AgentSomeDataDropped", someDataDroppedExpr(series, t, service))

\* The rules of Fluent Bit (fluent_bit_rule_builder.go).
FluentBitService == "telemetry-fluent-bit-metrics"
inputStorageChunksDown300Chunks == 300

FluentBit(series, metric) == Select(series, metric, Nil, FluentBitService)

fluentBitDroppedExpr(series) == NamesAbove(FluentBit(series, "output_dropped_records"), 0)
fluentBitSentExpr(series) == NamesAbove(FluentBit(series, "output_proc_bytes"), 0)
bufferInUseExpr(series) ==
    NamesAbove(FluentBit(series, "input_storage_chunks_down"), inputStorageChunksDown300Chunks)
noLogsDeliveredExpr(series) ==
    NamesAbove(FluentBit(series, "input_bytes"), 0)
        \cap NamesAtZero(FluentBit(series, "output_proc_bytes"))

fluentBitRules(series) ==
    makeRule("log", "FluentBitAllDataDropped",
             fluentBitDroppedExpr(series) \ fluentBitSentExpr(series))
        \cup makeRule("log", "FluentBitSomeDataDropped",
                      fluentBitDroppedExpr(series) \cap fluentBitSentExpr(series))
        \cup makeRule("log", "FluentBitBufferInUse", bufferInUseExpr(series))
        \cup makeRule("log", "FluentBitNoLogsDelivered", noLogsDeliveredExpr(series))

GatewayService == "telemetry-otlp-gateway-metrics"
MetricAgentService == "telemetry-metric-agent-metrics"
LogAgentService == "telemetry-log-agent-metrics"

\* The alerts the rules raise on the scraped series.
MakeRules(series) ==
    gatewayRules(series, "metric", GatewayService)
        \cup agentRules(series, "metric", MetricAgentService)
        \cup gatewayRules(series, "trace", GatewayService)
        \cup gatewayRules(series, "log", GatewayService)
        \cup agentRules(series, "log", LogAgentService)
        \cup fluentBitRules(series)

\* alertWaitTime: an alert is pending until its expression has held for a
\* minute; before are the series of a minute ago.
Alerts(before, now) ==
    LET raisedBefore == MakeRules(makeScrapeConfig(before))
    IN  {[labels |-> a, state |-> IF a \in raisedBefore THEN "firing" ELSE "pending"] :
            a \in MakeRules(makeScrapeConfig(now))}

-----------------------------------------------------------------------------
\* Matching an alert to a pipeline (rules.go).

RulesAny == "any"

\* Mutant: a rule is recognised by the end of its name alone.
matchesRuleNameUnprefixed(labels, unprefixedRuleName, t) ==
    unprefixedRuleName \in {RulesAny, labels.alertname[2]}

matchesRuleName(labels, unprefixedRuleName, t) ==
    /\ labels.alertname[1] = ruleNamePrefix(t)
    /\ unprefixedRuleName # RulesAny =>
           labels.alertname = <<ruleNamePrefix(t), unprefixedRuleName>>

matchesRule(labels, unprefixedRuleName, pipelineName, t) ==
    /\ matchesRuleName(labels, unprefixedRuleName, t)
    /\ labels.pipeline_name # Nil =>
         /\ labels.pipeline_type # Nil => labels.pipeline_type = pipelineComponentType(t)
         /\ labels.pipeline_name = pipelineName

-----------------------------------------------------------------------------
\* Probing (prober).

isFiringWithMatcher(alerts, rule, pipelineName, t) ==
    \E a \in alerts : a.state = "firing" /\ matchesRule(a.labels, rule, pipelineName, t)

ProbeGateway(alerts, pipelineName, t) ==
    [allDataDropped  |-> isFiringWithMatcher(alerts, "GatewayAllDataDropped", pipelineName, t),
     someDataDropped |-> isFiringWithMatcher(alerts, "GatewaySomeDataDropped", pipelineName, t),
     throttling      |-> isFiringWithMatcher(alerts, "GatewayThrottling", pipelineName, t)]

ProbeAgent(alerts, pipelineName, t) ==
    [allDataDropped  |-> isFiringWithMatcher(alerts, "AgentAllDataDropped", pipelineName, t),
     someDataDropped |-> isFiringWithMatcher(alerts, "AgentSomeDataDropped", pipelineName, t)]

ProbeFluentBit(alerts, pipelineName) ==
    LET firing(rule) == isFiringWithMatcher(alerts, rule, pipelineName, "log")
    IN  [allDataDropped  |-> firing("FluentBitAllDataDropped"),
         someDataDropped |-> firing("FluentBitSomeDataDropped"),
         bufferFillingUp |-> firing("FluentBitBufferInUse"),
         noLogsDelivered |-> firing("FluentBitNoLogsDelivered")]

FluentBitHealthy(probe) == \A f \in DOMAIN probe : ~probe[f]

-----------------------------------------------------------------------------
\* The alert webhook (webhook/handler.go).  A list that fails yields no events.

toReconcileEvents(pipelines, alerts, t, listed) ==
    {p \in pipelines :
        /\ listed
        /\ p.type = t
        /\ \E a \in alerts : matchesRule(a.labels, RulesAny, p.name, t)}

ServeHTTP(request, pipelines, listed) ==
    IF request.method # "POST" \/ ~request.wellFormed THEN {}
    ELSE UNION {toReconcileEvents(pipelines, request.alerts, t, listed) :
                    t \in {"metric", "trace", "log"}}

=============================================================================
