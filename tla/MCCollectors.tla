---------------------------- MODULE MCCollectors ----------------------------
(***************************************************************************)
(* The builders of the collectors' configurations, each called once with   *)
(* every input of a bounded family: a reconciliation hands a builder its   *)
(* pipelines and options, and the properties say what must be true of the  *)
(* result.                                                                 *)
(***************************************************************************)
EXTENDS Built, MetricAgentConfig, GatewayConfig, LogAgentConfig

-----------------------------------------------------------------------------
\* Pipelines.  Their names are such that their variables do not collide:
\* sanitizeEnvVarName maps "a-b" and "a.b" to the same name.

PlainOutput ==
    [protocol |-> "grpc", path |-> FALSE, auth |-> "none", headers |-> {},
     ca |-> FALSE, cert |-> FALSE, key |-> FALSE]
SecuredOutput ==
    [protocol |-> "http", path |-> TRUE, auth |-> "oauth2", headers |-> {<<"x", "-", "id">>},
     ca |-> TRUE, cert |-> TRUE, key |-> TRUE]
BasicOutput == [PlainOutput EXCEPT !.auth = "basic", !.ca = TRUE, !.headers = {<<"y">>}]

Everywhere == [include |-> {}, exclude |-> {}]
Only(ns) == [include |-> {ns}, exclude |-> {}]
AllBut(ns) == [include |-> {}, exclude |-> {ns}]

Off == [on |-> FALSE, resources |-> {}, additional |-> {}, namespaces |-> Everywhere,
        diagnostic |-> FALSE, envoy |-> FALSE]

MetricPipeline(name, rank, runtime, prometheus, istio, output, filter) ==
    [type |-> "metricpipeline", name |-> name, rank |-> rank, runtime |-> runtime,
     prometheus |-> prometheus, istio |-> istio, output |-> output, resolvable |-> TRUE,
     transforms |-> filter # {}, filter |-> filter, delta |-> rank = 2]

Runtime(resources, additional, selector) ==
    [Off EXCEPT !.on = TRUE, !.resources = resources, !.additional = additional, !.namespaces = selector]
Scraped(selector, diagnostic, envoy) ==
    [Off EXCEPT !.on = TRUE, !.namespaces = selector, !.diagnostic = diagnostic, !.envoy = envoy]

ResourceChoices ==
    {Resources, {}, {"pod"}, Resources \ {"pod", "volume"}, {"container", "job"}}

AdditionalChoices ==
    {{}, {Metric("kubelet", "pod", "default", 1)},
     {Metric("kubelet", "pod", "optional", 1), Metric("cluster", "other", "drop", 1)},
     {Metric("kubelet", "node", "drop", 1), Metric("cluster", "container", "optional", 1)},
     {Metric("kubelet", "volume", "default", 1), Metric("cluster", "job", "default", 1)}}

RuntimeInputs == {Off} \cup {Runtime(r, a, AllBut("kyma-system")) : r \in ResourceChoices, a \in AdditionalChoices}

\* Prometheus and Istio inputs go together.
ScrapeChoices ==
    {<<Off, Off>>, <<Scraped(Only("app"), FALSE, FALSE), Scraped(Everywhere, FALSE, TRUE)>>,
     <<Scraped(Everywhere, TRUE, FALSE), Off>>, <<Off, Scraped(AllBut("app"), TRUE, FALSE)>>}

\* The agent is built only for pipelines that require it.
RequiresAgent(p) == p.runtime.on \/ p.prometheus.on \/ p.istio.on

MetricPipelinesA ==
    {p \in {MetricPipeline(<<"a">>, 1, r, s[1], s[2], SecuredOutput, {}) :
              r \in RuntimeInputs, s \in ScrapeChoices} : RequiresAgent(p)}
MetricPipelinesB ==
    {MetricPipeline(<<"b", "-", "1">>, 2, x[1], x[2][1], x[2][2], BasicOutput,
                    {Metric("cluster", "pod", "default", 1)}) :
        x \in {<<Off, <<Scraped(Everywhere, FALSE, FALSE), Scraped(Everywhere, TRUE, TRUE)>>>>,
               <<Runtime(Resources, {}, Everywhere), <<Off, Off>>>>,
               <<Runtime({"pod", "statefulset"}, {Metric("kubelet", "volume", "default", 1),
                                                  Metric("kubelet", "container", "optional", 1)},
                         Only("app")),
                 <<Off, Scraped(Everywhere, FALSE, FALSE)>>>>,
               <<Runtime({"volume"}, {Metric("cluster", "other", "drop", 1)}, Everywhere),
                 <<Scraped(Everywhere, TRUE, FALSE), Off>>>>}}

BuildMetricAgentConfig ==
    /\ built.kind = "none"
    /\ \E a \in MetricPipelinesA, b \in MetricPipelinesB, otel \in BOOLEAN :
         built' = [kind |-> "metricagent", pipelines |-> <<b, a>>, opts |-> [otel |-> otel, istioActive |-> otel]]

\* The gateway's pipelines, one of each kind with every choice of OTLP input.
OTLPInputs ==
    {[on |-> FALSE, namespaces |-> Everywhere], [on |-> TRUE, namespaces |-> Everywhere],
     [on |-> TRUE, namespaces |-> Only("app")], [on |-> TRUE, namespaces |-> AllBut("kyma-system")]}

GatewayPipeline(type, name, rank, otlp, output) ==
    [type |-> type, name |-> name, rank |-> rank, otlp |-> otlp, output |-> output,
     resolvable |-> TRUE, transforms |-> rank = 1, filter |-> {}, delta |-> rank = 1]

\* Two pipelines of a kind, in the order in which they are listed.
Two(type, first, second) ==
    <<GatewayPipeline(type, <<"b", "-", "1">>, 2, second, BasicOutput),
      GatewayPipeline(type, <<"a">>, 1, first, SecuredOutput)>>

TraceInput == [on |-> TRUE, namespaces |-> Everywhere]

BuildGatewayConfig ==
    /\ built.kind = "none"
    /\ \E t \in {<<>>, Two("tracepipeline", TraceInput, TraceInput)}, otel \in BOOLEAN,
          l1, l2, m1, m2 \in OTLPInputs :
         \E logs \in {<<>>, Two("logpipeline", l1, l2)}, metrics \in {<<>>, Two("metricpipeline", m1, m2)} :
            /\ t # <<>> \/ logs # <<>> \/ metrics # <<>>
            /\ built' = [kind |-> "gateway", traces |-> t, logs |-> logs, metrics |-> metrics, otel |-> otel]

\* The log agent's pipelines: namespaces and containers to read from.
LogRuntime(ns, containers, keep) ==
    [namespaces |-> ns, containers |-> containers, keepOriginalBody |-> keep]

LogPipeline(name, rank, runtime, output) ==
    [type |-> "logpipeline", name |-> name, rank |-> rank, runtime |-> runtime, output |-> output,
     resolvable |-> TRUE, transforms |-> rank = 1, filter |-> {}]

NamespaceChoices == {Nil, Everywhere, Only("app"), AllBut("app"), Only("kyma-system"), AllBut("kyma-system")}
ContainerChoices == {Nil, Only("server"), AllBut("server")}

BuildLogAgentConfig ==
    /\ built.kind = "none"
    /\ \E n \in NamespaceChoices, c \in ContainerChoices, keep, otel, own \in BOOLEAN :
         built' = [kind |-> "logagent",
                   pipelines |-> <<LogPipeline(<<"b", "-", "1">>, 2, LogRuntime(Nil, Nil, ~keep), BasicOutput),
                                   LogPipeline(<<"a">>, 1, LogRuntime(n, c, keep), SecuredOutput)>>,
                   opts |-> [otel |-> otel, collectAgentLogs |-> own]]

AgentBuilt == built.kind = "metricagent"
GatewayBuilt == built.kind = "gateway"
LogAgentBuilt == built.kind = "logagent"

-----------------------------------------------------------------------------
\* What a collector emits: a metric from a namespace, and possibly one of those
\* that are noise to everybody.

Datum(signal, metric, ns, noise, scope) ==
    [live |-> TRUE, signal |-> signal, input |-> "none", metric |-> metric, ns |-> ns,
     skip |-> FALSE, noise |-> noise, proxy |-> FALSE, service |-> "unknown", annotated |-> FALSE,
     kyma |-> FALSE, cluster |-> FALSE, scope |-> scope, user |-> <<>>]

ReceiverOf(m) ==
    CASE m.src = "kubelet" -> Static("kubelet_stats")
      [] m.src = "cluster" -> Static("k8s_cluster")
      [] m.src = "prometheus" -> Static("prometheus/app-pods")
      [] OTHER -> Static("prometheus/istio")

\* Where the agent running c delivers metric m, if its receiver emits it.
AgentReached(c, m, ns, noise) ==
    IF ReceiverOf(m) \notin DOMAIN c.receivers \/ m \notin c.receivers[ReceiverOf(m)].emits THEN {}
    ELSE ReachedFrom(c, ReceiverOf(m), Datum("metrics", m, ns, noise, "receiver"))

InNamespace(selector, ns) ==
    ns \notin selector.exclude /\ (selector.include = {} \/ ns \in selector.include \cup {"none"})

\* What the specification of pipeline p selects by itself.
Selects(p, m, ns) ==
    CASE m \in RuntimeMetrics ->
            /\ p.runtime.on /\ InNamespace(p.runtime.namespaces, ns)
            /\ \/ m \in p.runtime.additional
               \/ m.tier = "default" /\ m.res \in p.runtime.resources
      [] m.src = "prometheus" ->
            /\ p.prometheus.on /\ InNamespace(p.prometheus.namespaces, ns)
            /\ (m \in diagnosticMetricNames => p.prometheus.diagnostic)
      [] OTHER ->
            /\ p.istio.on /\ InNamespace(p.istio.namespaces, ns)
            /\ (m \in diagnosticMetricNames => p.istio.diagnostic)
            /\ (m \in EnvoyMetrics => p.istio.envoy)

\* Data of m that no pipeline should get.
NoiseOf(m) ==
    CASE m.res = "volume" -> "nonPVC"
      [] m.src = "kubelet" /\ m.res = "node" -> "virtualInterface"
      [] m.src = "istio" -> "istioTelemetry"
      [] OTHER -> "no"

DeliveredTo(reached, p) == {r \in reached : r.exporter = ComponentIDOTLPExporter(p)}

\* A target is scraped by at most one job: a Pod or Service annotated for scraping,
\* with or without a sidecar.
TargetsScrapedOnce(opts) ==
    \A role \in {"pod", "endpoints"}, scheme \in {"none", "http", "https"},
       sidecar, proxy, initContainer \in BOOLEAN :
        LET t == [role |-> role, scheme |-> scheme, sidecar |-> sidecar, sameNode |-> TRUE,
                  annotated |-> TRUE, running |-> TRUE, initContainer |-> initContainer,
                  istioProxy |-> proxy]
        IN  (proxy => sidecar /\ ~initContainer) => Cardinality(ScrapeJobs(t, opts)) <= 1

\* Every MetricPipeline gets, once, exactly the metrics that its own
\* specification selects, whatever the other pipelines served by the same metric
\* agent select (metricagent Build: receivers emit the union of all pipelines).
\* Volumes that are no claims, virtual network interfaces and Istio's calls to
\* the telemetry components reach nobody; for volumes this needs a pipeline
\* that collects them, an additional volume metric alone is not enough.  No target is
\* scraped by two jobs, which would deliver its metrics twice.
AgentDeliversSelection ==
    AgentBuilt =>
        LET c == BuildMetricAgent(built.pipelines, built.opts) IN
        /\ \A m \in Metrics, ns \in Namespaces \cup {"none"} :
             LET reached == AgentReached(c, m, ns, "no") IN
             \A i \in DOMAIN built.pipelines :
                LET p == built.pipelines[i] IN
                Cardinality(DeliveredTo(reached, p)) =
                    IF Selects(p, m, ns) /\ m \notin p.filter THEN 1 ELSE 0
        /\ \A m \in Metrics :
             \/ NoiseOf(m) = "no"
             \/ m.res = "volume" /\ "volume" \notin shouldEnableRuntimeResources(built.pipelines)
             \/ AgentReached(c, m, "app", NoiseOf(m)) = {}
        /\ TargetsScrapedOnce(built.opts)

-----------------------------------------------------------------------------
\* The gateway.

GatewayConfigOf == BuildGateway(built)

\* What the gateway gets: a datum of each signal through the OTLP receiver, and
\* metrics of Kyma's own resources through the stats receiver.
GatewayInputs == {<<"logs", "otlp">>, <<"traces", "otlp">>, <<"metrics", "otlp">>, <<"metrics", "kymastats">>}

GatewayReached(c, input, ns, noise) ==
    IF Static(input[2]) \notin DOMAIN c.receivers THEN {}
    ELSE ReachedFrom(c, Static(input[2]), Datum(input[1], "any", ns, noise,
                                                  IF input[2] = "otlp" THEN "app" ELSE "receiver"))

\* What a pipeline of the gateway takes of an input.
Takes(p, input, ns) ==
    \/ input[2] = "kymastats"
    \/ p.type = "tracepipeline"
    \/ p.otlp.on /\ InNamespace(p.otlp.namespaces, ns)

PipelinesOf(signal) ==
    CASE signal = "logs" -> ToSet(built.logs)
      [] signal = "traces" -> ToSet(built.traces)
      [] signal = "metrics" -> ToSet(built.metrics)

\* A log pipeline and a metric pipeline without OTLP input share a filter.
OTLPFilterShared ==
    \E l \in ToSet(built.logs), m \in ToSet(built.metrics) : ~l.otlp.on /\ ~m.otlp.on

DeliversSelection ==
    LET c == GatewayConfigOf IN
    \A input \in GatewayInputs, ns \in GatewayNamespaces \cup {"none"} :
        LET reached == GatewayReached(c, input, ns, "no") IN
        /\ \A p \in PipelinesOf(input[1]) :
             Cardinality(DeliveredTo(reached, p)) = IF Takes(p, input, ns) THEN 1 ELSE 0
        /\ \A r \in reached : \E p \in PipelinesOf(input[1]) : r.exporter = ComponentIDOTLPExporter(p)
        /\ input = <<"metrics", "otlp">> \/ input = <<"metrics", "kymastats">>
             \/ GatewayReached(c, input, ns, "istioTelemetry") = {}

\* Every pipeline of the gateway gets once what is sent to it or what the stats
\* receiver finds, of its own signal and of the namespaces it takes, whichever
\* pipelines share the gateway (otlpgateway Build), but for the one filter that log
\* and metric pipelines share: see OTLPInputCanBeDisabled.
GatewayDeliversSelection ==
    GatewayBuilt /\ ~OTLPFilterShared => DeliversSelection

\* docs/user/resources/05-metricpipeline.md: "If set to `true`, no push-based OTLP
\* signals are collected", whatever the other pipelines of the gateway are.
OTLPInputCanBeDisabled ==
    GatewayBuilt =>
        \A p \in ToSet(built.metrics) :
            ~p.otlp.on => DeliveredTo(GatewayReached(GatewayConfigOf, <<"metrics", "otlp">>, "app", "no"), p) = {}

-----------------------------------------------------------------------------
\* The log agent.

LogAgentOf == BuildLogAgent(built.pipelines, built.opts)

Files ==
    [ns : {"app", "kyma-system"}, pod : {"pod"}, container : {"server", "other"}]
        \cup AgentPaths \cup SystemAgentPaths

\* What a LogPipeline selects: the system namespaces only if it says anything
\* about namespaces, the agents only if that is switched on.
SelectsFile(runtime, file) ==
    /\ IF runtime.namespaces = Nil THEN file.ns \notin SystemNamespaces
       ELSE InNamespace(runtime.namespaces, file.ns)
    /\ runtime.containers # Nil => InNamespace(runtime.containers, file.container)
    /\ file \notin SystemAgentPaths
    /\ file \in AgentPaths => built.opts.collectAgentLogs

\* The lines an application may write.
LineFields == {"message", "msg", "level", "log.level", "trace_id", "traceparent", "span_id", "other"}
Lines ==
    {LogLine("plain", {}, {}), LogLine("braced", {}, {})}
        \cup UNION {{LogLine("json", fields, bad) : bad \in SUBSET (fields \cap {"trace_id", "traceparent", "span_id"})} :
                     fields \in SUBSET LineFields}

\* What a log record has no place for: text between braces that is no JSON, the message
\* beside a msg, a malformed trace context, and a span ID whose place a traceparent takes.
NoPlaceFor(line) ==
    LET has(f) == f \in line.fields
        bad(f) == f \in line.malformed
    IN  {f \in Content(line) :
            \/ line.class = "braced"
            \/ f = "message" /\ has("msg")
            \/ f = "trace_id" /\ bad(f)
            \/ f = "span_id" /\ IF has("trace_id") THEN bad(f) ELSE has("traceparent") /\ ~bad("traceparent")}

\* What an application logs does not get lost on the way to a log record: every field
\* of a JSON line, and plain text, ends up in the body, in an attribute, in the
\* severity or in the trace context, except what NoPlaceFor names.  A line in braces
\* is kept as a whole where the pipeline asks for it, and only there is nothing lost.
KeepsContent(p, operators) ==
    \A line \in Lines :
        LET r == RunOperators(operators, 1, NewRecord(line))
            held == UNION {r.fields[f] : f \in DOMAIN r.fields \ {"log.original"}} \cup r.parsed
        IN  /\ Content(line) \ held = NoPlaceFor(line)
            /\ {"log.iostream"} = DOMAIN r.fields \cap {"stream", "log.iostream", "logtag"}
            /\ IF p.runtime.keepOriginalBody /\ line.class # "plain"
               THEN "log.original" \in DOMAIN r.fields /\ r.fields["log.original"] = Content(line)
               ELSE "log.original" \notin DOMAIN r.fields


-----------------------------------------------------------------------------
\* All three configurations.

ConfigOf ==
    CASE AgentBuilt -> BuildMetricAgent(built.pipelines, built.opts)
      [] GatewayBuilt -> GatewayConfigOf
      [] LogAgentBuilt -> LogAgentOf

CollectorBuilt == AgentBuilt \/ GatewayBuilt \/ LogAgentBuilt

ExportedBy(c) ==
    CASE AgentBuilt -> UNION {AgentReached(c, m, "app", "no") : m \in Metrics}
      [] GatewayBuilt -> UNION {GatewayReached(c, input, "app", "no") : input \in GatewayInputs}
      [] LogAgentBuilt -> UNION {ReachedFrom(c, r, Datum("logs", "any", "app", "no", "app")) : r \in DOMAIN c.receivers}

\* What a collector exports carries no attribute that only the manager's own
\* processors use, and carries what they add: the cluster, the instrumentation
\* scope of the input and a service name unless a metric skips enrichment.  The
\* processors of a service pipeline depend on each other's order for this.
ExportsClean ==
    CollectorBuilt =>
        \A r \in ExportedBy(ConfigOf) :
            /\ r.datum.input = "none" /\ ~r.datum.skip /\ ~r.datum.kyma
            /\ r.datum.cluster /\ r.datum.scope # "receiver"
            /\ (AgentBuilt => enrichmentServicePipelineID \in ToSet(r.path)) <=> (r.datum.service = "derived")

\* The configuration does not depend on the order in which the API server lists
\* the pipelines, which would restart the collectors for nothing.
ConfigIgnoresListOrder ==
    /\ AgentBuilt => BuildMetricAgent(Reverse(built.pipelines), built.opts) = ConfigOf
    /\ LogAgentBuilt => BuildLogAgent(Reverse(built.pipelines), built.opts) = ConfigOf
    /\ GatewayBuilt => BuildGateway([built EXCEPT !.traces = Reverse(@), !.logs = Reverse(@),
                                                  !.metrics = Reverse(@)]) = ConfigOf

=============================================================================
