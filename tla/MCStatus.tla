------------------------------ MODULE MCStatus ------------------------------
(***************************************************************************)
(* The status of pipelines on bounded families of inputs: every result of  *)
(* validation, the states of a workload's Pods, and the flow of telemetry  *)
(* through every exporter now and a minute ago.                            *)
(***************************************************************************)
EXTENDS Built, Integers, Sequences, FiniteSets, TLC

PH == INSTANCE PipelineHealth

-----------------------------------------------------------------------------
\* Pipelines of every mode; a name is used by pipelines of several types.

StatusPipeline(type, mode, name, otlp, runtime) ==
    [type |-> type, mode |-> mode, name |-> <<name>>, otlp |-> otlp, runtime |-> runtime,
     agent |-> runtime]

StatusPipelines ==
    {StatusPipeline("trace", "trace", "a", TRUE, FALSE),
     StatusPipeline("trace", "trace", "b", TRUE, FALSE),
     StatusPipeline("metric", "metric", "a", TRUE, TRUE),
     StatusPipeline("metric", "metric", "b", TRUE, FALSE),
     StatusPipeline("log", "log", "a", TRUE, TRUE),
     StatusPipeline("log", "log", "b", FALSE, TRUE),
     StatusPipeline("log", "fluentbit", "c", FALSE, TRUE)}

\* Traces and metrics are pushed to the gateway; logs may come from the log agent alone,
\* or from Fluent Bit.  A type and a name belong to one pipeline.
IsPipeline(p) ==
    \/ p.mode = "trace" /\ p.type = "trace" /\ p.otlp /\ ~p.agent
    \/ p.mode = "metric" /\ p.type = "metric" /\ p.otlp
    \/ p.mode = "log" /\ p.type = "log" /\ p.runtime = p.agent
    \/ p.mode = "fluentbit" /\ p.type = "log"

ArePipelines(pipelines) ==
    /\ \A p \in pipelines : /\ IsPipeline(p)
                            /\ p.otlp \in BOOLEAN /\ p.agent \in BOOLEAN
                            /\ p.name # Nil /\ PH!NameLabel(p.name) = p.name
    /\ \A p, q \in pipelines : p.type = q.type /\ p.name = q.name => p = q

ASSUME PipelinesAssumption == ArePipelines(StatusPipelines)

\* The exporters that serve pipeline p.
ExporterOf(p, service) == [service |-> service, type |-> p.type, name |-> p.name]

ExportersOf(p) ==
    IF p.mode = "fluentbit" THEN {ExporterOf(p, PH!FluentBitService)}
    ELSE {ExporterOf(p, s) : s \in
             (IF p.otlp THEN {PH!GatewayService} ELSE {})
                 \cup (IF ~p.agent THEN {}
                       ELSE {IF p.type = "metric" THEN PH!MetricAgentService ELSE PH!LogAgentService})}

FlowExporters(pipelines) == UNION {ExportersOf(p) : p \in pipelines}

MetricsOf(e) == IF e.service = PH!FluentBitService THEN PH!fluentBitMetrics
                ELSE PH!otelCollectorMetrics \ {"receiver_refused"}

Quiet(e) == MetricsOf(e) \cap {"exporter_sent", "output_proc_bytes", "input_bytes"}
Failing(e) == MetricsOf(e) \cap {"exporter_send_failed", "output_dropped_records"}

\* The series a flow exposes: facts[e] are the metrics of e above their bound.
\* A series at its bound is exposed too, as is one no rule is about.
ExporterSeries(flow, e, m) ==
    [metric |-> m, service |-> e.service, name |-> e.name, receiver |-> Nil,
     data |-> IF e.service = PH!FluentBitService THEN Nil ELSE PH!ruleDataType(e.type),
     value |-> (IF m = "input_storage_chunks_down" THEN 300 ELSE 0)
                   + (IF m \in flow.facts[e] THEN 1 ELSE 0)]

ReceiverSeries(flow, t) ==
    [metric |-> "receiver_refused", service |-> PH!GatewayService, name |-> Nil,
     receiver |-> "otlp", data |-> PH!ruleDataType(t),
     value |-> IF t \in flow.refused THEN 1 ELSE 0]

Exposed(flow) ==
    UNION {{ExporterSeries(flow, e, m) : m \in MetricsOf(e)} : e \in DOMAIN flow.facts}
        \cup {ReceiverSeries(flow, t) : t \in {"metric", "trace", "log"}}

BuildFlow ==
    /\ built.kind = "none"
    /\ \E e1, e2 \in FlowExporters(StatusPipelines) :
         \E facts \in SUBSET MetricsOf(e1) \ {Quiet(e1)} :
         \E earlier, later \in {Quiet(e2), Failing(e2), Failing(e2) \cup Quiet(e2)} :
         \E refused \in {{}, {e1.type}}, rest \in BOOLEAN :
            LET flow(second) ==
                    [facts |-> [e \in FlowExporters(StatusPipelines) |->
                                    IF e = e1 THEN facts ELSE IF e = e2 THEN second
                                    ELSE IF rest THEN Quiet(e) ELSE {}],
                     refused |-> refused]
            IN  built' = [kind |-> "flow", pipelines |-> StatusPipelines,
                          before |-> flow(earlier), now |-> flow(later)]

-----------------------------------------------------------------------------
\* What is true of exporter e in both flows.

Lasting(Fact(_, _), e) == Fact(built.before, e) /\ Fact(built.now, e)

Dropping(flow, e) ==
    flow.facts[e] \cap {"exporter_send_failed", "exporter_enqueue_failed", "output_dropped_records"} # {}
Sending(flow, e) == flow.facts[e] \cap {"exporter_sent", "output_proc_bytes"} # {}

DropsAll(flow, e) == Dropping(flow, e) /\ ~Sending(flow, e)
DropsSome(flow, e) == Dropping(flow, e) /\ Sending(flow, e)
DeliversNothing(flow, e) == "input_bytes" \in flow.facts[e] /\ ~Sending(flow, e)
BufferIsFull(flow, e) == "input_storage_chunks_down" \in flow.facts[e]

AtGateway(e) == e.service = PH!GatewayService

\* The reasons that apply to pipeline p, by the exporters that serve it.
Troubles(p) ==
    UNION {(IF Lasting(DropsAll, e)
            THEN {IF AtGateway(e) THEN "GatewayAllTelemetryDataDropped" ELSE "AgentAllTelemetryDataDropped"}
            ELSE {})
           \cup (IF Lasting(DropsSome, e)
                 THEN {IF AtGateway(e) THEN "GatewaySomeTelemetryDataDropped" ELSE "AgentSomeTelemetryDataDropped"}
                 ELSE {})
           \cup (IF Lasting(DeliversNothing, e) THEN {"AgentNoLogsDelivered"} ELSE {})
           \cup (IF Lasting(BufferIsFull, e) THEN {"AgentBufferFillingUp"} ELSE {})
           \cup (IF AtGateway(e) /\ p.type \in built.before.refused \cap built.now.refused
                 THEN {"GatewayThrottling"} ELSE {}) : e \in ExportersOf(p)}

Severity(reason) ==
    CASE reason \in {"GatewayAllTelemetryDataDropped", "AgentAllTelemetryDataDropped"} -> 5
      [] reason \in {"GatewaySomeTelemetryDataDropped", "AgentSomeTelemetryDataDropped"} -> 4
      [] reason = "AgentNoLogsDelivered" -> 3
      [] reason = "AgentBufferFillingUp" -> 2
      [] reason = "GatewayThrottling" -> 1
      [] OTHER -> 0

Configured(alerts) == [config |-> PH!Condition("True", "GatewayConfigured"), alerts |-> alerts,
                       answers |-> {"gateway", "agent"}]

\* TelemetryFlowHealthy tells of each pipeline what its own exporters do: alert
\* names, label sets and matchers of four probers have to fit together so that no
\* trouble is missed and none of another pipeline, type or component is reported.
\* The worst trouble is named, except that a MetricPipeline's gateway comes before
\* its agent (metricpipeline/status.go, flowHealthReasonFor).  And whoever is in
\* trouble is reconciled when the alerts reach the webhook.
FlowHealthIsJustified ==
    built.kind = "flow" =>
        LET alerts == PH!Alerts(Exposed(built.before), Exposed(built.now))
            firing == {a \in alerts : a.state = "firing"}
            notified == PH!ServeHTTP([method |-> "POST", wellFormed |-> TRUE, alerts |-> firing],
                                     built.pipelines, TRUE)
        IN  \A p \in built.pipelines :
              LET condition == PH!setFlowHealthCondition(p, Configured(alerts))
                  troubles == Troubles(p)
              IN  IF troubles = {} THEN condition = PH!Condition("True", "FlowHealthy")
                  ELSE /\ condition.status = "False"
                       /\ condition.reason \in troubles
                       /\ p \in notified
                       /\ \A t \in troubles :
                            \/ Severity(t) <= Severity(condition.reason)
                            \/ /\ p.mode = "metric"
                               /\ t \in {"AgentAllTelemetryDataDropped", "AgentSomeTelemetryDataDropped"}

-----------------------------------------------------------------------------
\* Validation: at most two subjects are ill formed.

WellFormed(fields) == {f \in [fields -> BOOLEAN] : Cardinality({x \in fields : ~f[x]}) <= 2}

NoTLS == [cert |-> "none", key |-> "none", ca |-> "none"]

BuildValidation ==
    /\ built.kind = "none"
    /\ \E params \in PH!TLSParams, secretView \in PH!SecretViews, lockView \in PH!LockViews :
         \/ \E f \in WellFormed({"endpoint", "transform", "filter", "metrics"}), otlp \in BOOLEAN :
              /\ otlp \/ params = NoTLS
              /\ built' = [kind |-> "otelspec", secretView |-> secretView, lockView |-> lockView,
                           spec |-> [otlp |-> otlp, secret |-> TRUE, tls |-> params] @@ f]
         \/ \E f \in WellFormed({"endpoint", "files", "filters", "custom", "hostname"}), http \in BOOLEAN :
              /\ lockView # "absent"
              /\ http \/ params = NoTLS
              /\ built' = [kind |-> "fluentbitspec", secretView |-> secretView, lockView |-> lockView,
                           spec |-> [http |-> http, secret |-> TRUE, tls |-> params] @@ f]

TLSFails ==
    LET params == built.spec.tls
    IN  \/ (params.cert = "none") # (params.key = "none")
        \/ {"unresolved", "unparsable"} \cap {params.cert, params.key, params.ca} # {}
        \/ params.key = "mismatch"
        \/ params.ca = "notCA"

ReasonHolds(reason) ==
    LET spec == built.spec IN
    CASE reason \in {"GatewayConfigured", "AgentConfigured"} -> TRUE
      [] reason = "FipsModeEnabled"         -> built.kind = "fluentbitspec"
      [] reason = "MaxPipelinesExceeded"    -> built.lockView = "other"
      [] reason = "ReferencedSecretMissing" -> built.secretView = "missing"
      [] reason = "EndpointInvalid"         -> ~spec.endpoint
      [] reason = "OTTLSpecInvalid"         -> ~spec.transform \/ ~spec.filter
      [] reason = "RuntimeAdditionalMetricInvalid" -> ~spec.metrics
      [] reason = "ValidationFailed" -> built.secretView = "apiFailure" \/ built.lockView = "absent"
      [] reason = "TLSCertificateExpired"   -> "expired" \in {spec.tls.cert, spec.tls.ca}
      [] reason = "TLSCertificateAboutToExpire" -> "expiring" \in {spec.tls.cert, spec.tls.ca}
      [] reason = "TLSConfigurationInvalid" ->
             \/ TLSFails
             \* The Fluent Bit validator's last four errors fall through to this reason.
             \/ /\ built.kind = "fluentbitspec"
                /\ ~spec.files \/ ~spec.filters \/ ~spec.custom \/ ~spec.hostname

OTelJustified ==
    LET error == PH!validate(built.spec, built.secretView, built.lockView)
        condition == PH!evaluateConfigGeneratedCondition(error)
    IN  /\ (condition.status = "True") <=> PH!isReconcilable(FALSE, error)
        /\ ReasonHolds(condition.reason)
        \* Without a slot of the lock a pipeline is rendered only while its
        \* certificate is about to expire: that check comes before the lock's.
        /\ PH!isReconcilable(FALSE, error) =>
             built.lockView = "holder" \/ condition.reason = "TLSCertificateAboutToExpire"

FluentBitJustified ==
    LET error == PH!ValidateFluentBit(built.spec, built.secretView, built.lockView)
    IN  \A fips \in BOOLEAN, enabled \in {Nil, TRUE, FALSE} :
          LET condition == PH!evaluateFluentBitConfigGeneratedCondition(fips, error)
              reconcilable == PH!IsReconcilableFluentBit(fips, FALSE, enabled, error)
          IN  /\ reconcilable => condition.status = "True"
              \* A pipeline whose runtime input is disabled is reported as configured.
              /\ condition.status = "True" => reconcilable \/ enabled = FALSE
              /\ reconcilable => built.lockView # "other"
              /\ ReasonHolds(condition.reason)

-----------------------------------------------------------------------------
\* Readiness: at most two Pods, each in one of the states a kubelet reports.

Container(waiting, terminated) == [waiting |-> waiting, terminated |-> terminated]
Up == Container(Nil, FALSE)

PodIn(phase, scheduled, ready, containers) ==
    [phase |-> phase, scheduled |-> scheduled, ready |-> ready, containers |-> containers]

HealthyPods == {PodIn("Running", TRUE, TRUE, <<Up, Up>>)}
StartingPods ==
    {PodIn("Running", TRUE, FALSE, <<Up>>),
     PodIn("Pending", TRUE, FALSE, <<>>),
     PodIn("Pending", TRUE, FALSE, <<Up, Container("ContainerCreating", FALSE)>>),
     PodIn("Pending", TRUE, FALSE, <<Container("PodInitializing", FALSE), Container("ErrImagePull", FALSE)>>)}
BrokenPods ==
    {PodIn("Running", TRUE, FALSE, <<Up, Container("CrashLoopBackOff", TRUE)>>),
     PodIn("Running", TRUE, FALSE, <<Container("OOMKilled", FALSE), Up>>),
     PodIn("Pending", FALSE, FALSE, <<>>),
     PodIn("Pending", TRUE, FALSE, <<Up, Container("ErrImagePull", FALSE)>>),
     PodIn("Failed", TRUE, FALSE, <<>>)}

\* A Pod is broken if it has failed or cannot be scheduled, if the first container that
\* waits is not just starting, or if a container waits although the Pod was running.
Broken(pod) ==
    \/ pod.phase = "Failed"
    \/ /\ pod.phase = "Pending"
       /\ \/ ~pod.scheduled
          \/ \E i \in DOMAIN pod.containers :
                /\ pod.containers[i].waiting \notin {Nil} \cup PH!Starting
                /\ \A j \in 1 .. i - 1 : pod.containers[j].waiting = Nil
    \/ /\ pod.phase = "Running" /\ ~pod.ready
       /\ \E i \in DOMAIN pod.containers : pod.containers[i].waiting # Nil

ASSUME PodsAssumption ==
    /\ \A pod \in BrokenPods : Broken(pod)
    /\ \A pod \in HealthyPods \cup StartingPods : ~Broken(pod)

SomePods == UNION {[1 .. n -> HealthyPods \cup StartingPods \cup BrokenPods] : n \in 0 .. 2}

Workloads ==
    {[read |-> read, desired |-> desired, updated |-> updated, ready |-> ready,
      listed |-> listed, pods |-> IF listed THEN pods ELSE <<>>] :
        read \in {"found", "absent", "failed"}, desired \in 0 .. 2, updated \in 0 .. 2,
        ready \in 0 .. 2, listed \in BOOLEAN, pods \in SomePods}

BuildReadiness ==
    /\ built.kind = "none"
    /\ \E ds \in Workloads, p \in StatusPipelines, generated \in {"True", "False"} :
         /\ p.name \in {<<"a">>, <<"c">>}
         /\ ds.read = "found" \/ (ds.listed /\ ds.pods = <<>>)
         /\ built' = [kind |-> "readiness", ds |-> ds, pipeline |-> p, generated |-> generated]

WorkloadJustified(condition) ==
    LET ds == built.ds
        broken == \E i \in DOMAIN ds.pods : Broken(ds.pods[i])
        done == ds.updated = ds.desired /\ ds.ready >= ds.desired
    IN  CASE condition.reason \in {"GatewayReady", "AgentReady"} ->
               condition.status = "True" /\ ds.read = "found" /\ done
          [] condition.reason = "RolloutInProgress" ->
               condition.status = "True" /\ ds.read = "found" /\ ~done /\ ds.listed /\ ~broken
          [] condition.reason \in {"GatewayNotReady", "AgentNotReady"} ->
               /\ condition.status = "False"
               /\ ds.read # "found" \/ (~done /\ (broken \/ ~ds.listed \/ ds.pods = <<>>))
          [] condition.reason = "GatewayConfigurationNotGenerated" ->
               condition.status = "False" /\ built.generated = "False"
          [] condition.reason = "AgentNotRequired" -> ~built.pipeline.agent

\* The probes the health of pipeline p rests on.  A MetricPipeline's agent is asked
\* about even if it has no input of the agent.
Probes(p) ==
    CASE p.mode = "trace" -> {"gateway"}
      [] p.mode = "metric" -> {"gateway", "agent"}
      [] p.mode = "log" -> {probe \in {"gateway", "agent"} :
                               IF probe = "gateway" THEN p.otlp ELSE p.agent}
      [] p.mode = "fluentbit" -> {"agent"}

ReadinessJustified ==
    \A answers \in SUBSET {"gateway", "agent"} :
      LET status == PH!updateStatus(built.pipeline,
                       [config |-> PH!Condition(built.generated, "any"), answers |-> answers,
                        alerts |-> {}, agent |-> built.ds, gateway |-> built.ds])
      IN  /\ \A type \in {"AgentHealthy", "GatewayHealthy"} :
               status[type] # Nil => WorkloadJustified(status[type])
          /\ built.generated = "False" <=> status.TelemetryFlowHealthy.reason = "ConfigurationNotGenerated"
          /\ (status.TelemetryFlowHealthy.status = "Unknown") <=>
                 built.generated = "True" /\ ~(Probes(built.pipeline) \subseteq answers)
          /\ \A probe \in {"gateway", "agent"} :
               status.TelemetryFlowHealthy.reason =
                   (IF probe = "gateway" THEN "GatewayProbingFailed" ELSE "AgentProbingFailed") =>
                   probe \in Probes(built.pipeline) \ answers

\* The conditions of a status are true.  ConfigurationGenerated is True exactly for
\* the pipelines isReconcilable lets through, and its reason names a check that
\* fails: two switch statements in two files, of two reconcilers, have to classify
\* every error alike.  A health condition says Ready only of a rolled out workload,
\* RolloutInProgress only if no Pod is broken, and NotReady only if one is, none
\* exists or they cannot be read (workloadstatus).  The health of the flow is Unknown
\* exactly if a probe it rests on fails, and the reason names one that does.
ConditionIsJustified ==
    /\ built.kind = "otelspec" => OTelJustified
    /\ built.kind = "fluentbitspec" => FluentBitJustified
    /\ built.kind = "readiness" => ReadinessJustified

=============================================================================
