--------------------------- MODULE PipelineHealth ---------------------------
(***************************************************************************)
(* The status of a pipeline (updateStatus of the four pipeline             *)
(* reconcilers): the readiness of the workload that serves it              *)
(* (internal/workloadstatus), the flow health the probers report, and how  *)
(* both and the result of validation become the status conditions.         *)
(* Together with the Fluent Bit validator, which is not shared with the    *)
(* OTel pipelines.                                                         *)
(***************************************************************************)
EXTENDS PipelineValidation, SelfMonitor

-----------------------------------------------------------------------------
\* Workload readiness.  A Pod has a phase, is scheduled and ready or not, and a
\* sequence of containers: what each waits for (Nil if it does not wait), and
\* whether it was terminated before.

Starting == {"PodInitializing", "ContainerCreating"}

\* Only the first container that waits counts; while it is starting, the Pod is
\* not in error.
checkPodPendingState(pod) ==
    LET waiting == {i \in DOMAIN pod.containers : pod.containers[i].waiting # Nil}
    IN  Check(/\ pod.phase = "Pending"
              /\ pod.scheduled => waiting # {} /\ pod.containers[Min(waiting)].waiting \notin Starting,
              "PodIsPending")

checkPodFailedState(pod) == Check(pod.phase = "Failed", "PodIsFailing")

checkPodsWaitingState(pod, c) == Check(pod.phase = "Running" /\ c.waiting # Nil, "PodIsPending")

PodError(pod) ==
    IF pod.phase = "Running" /\ pod.ready THEN "nil"
    ELSE FirstError(<<checkPodPendingState(pod), checkPodFailedState(pod),
                      FirstError([i \in DOMAIN pod.containers |->
                                      checkPodsWaitingState(pod, pod.containers[i])])>>)

\* listed: whether the list of the Pods succeeds.
checkPodStatus(ds) ==
    IF ~ds.listed THEN "PodsListing"
    ELSE IF ds.pods = <<>> THEN "NoPodsDeployed"
    ELSE FirstError([i \in DOMAIN ds.pods |-> PodError(ds.pods[i])])

\* read is what the API answers: "found", "absent" or "failed".
IsReady(ds) ==
    CASE ds.read = "absent" -> "DaemonSetNotFound"
      [] ds.read = "failed" -> "DaemonSetFetching"
      [] OTHER -> IF ds.updated = ds.desired /\ ds.ready >= ds.desired THEN "nil"
                  ELSE FirstError(<<checkPodStatus(ds), "RolloutInProgress">>)

WorkloadCondition(error, ready, notReady) ==
    CASE error = "nil" -> Condition("True", ready)
      [] error = "RolloutInProgress" -> Condition("True", "RolloutInProgress")
      [] OTHER -> Condition("False", notReady)

GetGatewayHealthyCondition(ds, configGeneratedStatus) ==
    IF configGeneratedStatus = "False" THEN Condition("False", "GatewayConfigurationNotGenerated")
    ELSE WorkloadCondition(IsReady(ds), "GatewayReady", "GatewayNotReady")

GetAgentHealthyCondition(ds) == WorkloadCondition(IsReady(ds), "AgentReady", "AgentNotReady")

-----------------------------------------------------------------------------
\* The Fluent Bit validator.  A specification has an http or a custom output,
\* and says of each check whether its subject is well formed.

fluentBitTLSValidationRequired(spec) ==
    spec.http /\ {spec.tls.cert, spec.tls.key, spec.tls.ca} # {"none"}

\* The lock is acquired, not just looked up: an absent ConfigMap is created.
TryAcquireLock(lockView) == Check(lockView = "other", "MaxPipelinesExceeded")

ValidateFluentBit(spec, secretView, lockView) ==
    FirstError(<<
        TryAcquireLock(lockView),
        SecretRefValidator(spec, secretView),
        Check(spec.http /\ ~spec.endpoint, "EndpointInvalid"),
        IF fluentBitTLSValidationRequired(spec) THEN TLSCertValidator(spec.tls) ELSE "nil",
        Check(~spec.files, "DuplicateFileNames"),
        Check(~spec.filters, "InvalidCustomFilter"),
        Check(~spec.http /\ ~spec.custom, "InvalidCustomOutput"),
        Check(spec.http /\ ~spec.hostname, "InvalidHostname")>>)

\* enabled is Nil where the runtime input says nothing.
IsReconcilableFluentBit(fips, deleting, enabled, error) ==
    ~fips /\ ~deleting /\ enabled # FALSE /\ error \in {"nil", "CertAboutToExpire"}

\* Errors without a branch of their own fall through to the TLS condition.
evaluateFluentBitConfigGeneratedCondition(fips, error) ==
    IF fips THEN Condition("False", "FipsModeEnabled")
    ELSE CASE error = "nil"                  -> Condition("True", "AgentConfigured")
           [] error = "MaxPipelinesExceeded" -> Condition("False", "MaxPipelinesExceeded")
           [] error = "SecretRefNotFound"    -> Condition("False", "ReferencedSecretMissing")
           [] error = "EndpointInvalid"      -> Condition("False", "EndpointInvalid")
           [] error = "APIRequestFailed"     -> Condition("False", "ValidationFailed")
           [] OTHER                          -> EvaluateTLSCertCondition(error)

-----------------------------------------------------------------------------
\* Flow health.

FirstThat(cases, default) ==
    LET holding == {i \in DOMAIN cases : cases[i][1]}
    IN  IF holding = {} THEN default ELSE cases[Min(holding)][2]

gatewayFlowHealthReasonFor(g) ==
    FirstThat(<<<<g.allDataDropped, "GatewayAllTelemetryDataDropped">>,
                <<g.someDataDropped, "GatewaySomeTelemetryDataDropped">>,
                <<g.throttling, "GatewayThrottling">>>>, "FlowHealthy")

agentFlowHealthReasonFor(a) ==
    FirstThat(<<<<a.allDataDropped, "AgentAllTelemetryDataDropped">>,
                <<a.someDataDropped, "AgentSomeTelemetryDataDropped">>>>, "FlowHealthy")

\* MetricPipelines: the gateway's trouble first.
flowHealthReasonFor(g, a) ==
    FirstThat(<<<<g.allDataDropped, "GatewayAllTelemetryDataDropped">>,
                <<g.someDataDropped, "GatewaySomeTelemetryDataDropped">>,
                <<g.throttling, "GatewayThrottling">>,
                <<a.allDataDropped, "AgentAllTelemetryDataDropped">>,
                <<a.someDataDropped, "AgentSomeTelemetryDataDropped">>>>, "FlowHealthy")

\* OTel LogPipelines: the worst reason of the two; "" is no reason.
combineFlowHealthReasons(agentReason, gatewayReason) ==
    LET reasons == {agentReason, gatewayReason}
        among(agent, gateway) ==
            <<{agent, gateway} \cap reasons # {}, IF agentReason = agent THEN agent ELSE gateway>>
    IN  FirstThat(<<among("AgentAllTelemetryDataDropped", "GatewayAllTelemetryDataDropped"),
                    among("AgentSomeTelemetryDataDropped", "GatewaySomeTelemetryDataDropped"),
                    <<"AgentBufferFillingUp" \in reasons, "AgentBufferFillingUp">>,
                    <<"GatewayThrottling" \in reasons, "GatewayThrottling">>>>, "FlowHealthy")

fluentBitFlowHealthReasonFor(f) ==
    FirstThat(<<<<f.allDataDropped, "AgentAllTelemetryDataDropped">>,
                <<f.someDataDropped, "AgentSomeTelemetryDataDropped">>,
                <<f.noLogsDelivered, "AgentNoLogsDelivered">>,
                <<f.bufferFillingUp, "AgentBufferFillingUp">>>>, "FlowHealthy")

requiresGatewayProbing(p) == p.otlp
requiresAgentProbing(p) == p.runtime

FlowCondition(reason) == Condition(IF reason = "FlowHealthy" THEN "True" ELSE "False", reason)

NotGenerated == Condition("False", "ConfigurationNotGenerated")
GatewayProbingFailed == Condition("Unknown", "GatewayProbingFailed")
AgentProbingFailed == Condition("Unknown", "AgentProbingFailed")

\* obs: what a reconciliation observes - configGenerated (a condition), the two
\* DaemonSets, the alerts, and which probes the self-monitor answers: every probe is
\* a query of its own, and the first that fails ends the evaluation.
evaluateTraceFlowHealth(p, obs) ==
    IF obs.config.status = "False" THEN NotGenerated
    ELSE IF "gateway" \notin obs.answers THEN GatewayProbingFailed
    ELSE FlowCondition(gatewayFlowHealthReasonFor(ProbeGateway(obs.alerts, p.name, "trace")))

evaluateMetricFlowHealth(p, obs) ==
    IF obs.config.status = "False" THEN NotGenerated
    ELSE IF "gateway" \notin obs.answers THEN GatewayProbingFailed
    ELSE IF "agent" \notin obs.answers THEN AgentProbingFailed
    ELSE FlowCondition(flowHealthReasonFor(ProbeGateway(obs.alerts, p.name, "metric"),
                                           ProbeAgent(obs.alerts, p.name, "metric")))

evaluateLogFlowHealth(p, obs) ==
    LET agent == IF ~requiresAgentProbing(p) THEN ""
                 ELSE agentFlowHealthReasonFor(ProbeAgent(obs.alerts, p.name, "log"))
        gateway == IF ~requiresGatewayProbing(p) THEN ""
                   ELSE gatewayFlowHealthReasonFor(ProbeGateway(obs.alerts, p.name, "log"))
    IN  IF obs.config.status = "False" THEN NotGenerated
        ELSE IF requiresAgentProbing(p) /\ "agent" \notin obs.answers THEN AgentProbingFailed
        ELSE IF requiresGatewayProbing(p) /\ "gateway" \notin obs.answers THEN GatewayProbingFailed
        ELSE FlowCondition(combineFlowHealthReasons(agent, gateway))

evaluateFluentBitFlowHealth(p, obs) ==
    LET probe == ProbeFluentBit(obs.alerts, p.name)
    IN  IF obs.config.status = "False" THEN NotGenerated
        ELSE IF "agent" \notin obs.answers THEN AgentProbingFailed
        ELSE Condition(IF FluentBitHealthy(probe) THEN "True" ELSE "False",
                       fluentBitFlowHealthReasonFor(probe))

-----------------------------------------------------------------------------
\* The conditions of a status; Nil for one the pipeline does not have.  p.mode
\* is "trace", "metric", "log" (OTel) or "fluentbit".

NotRequired == Condition("True", "AgentNotRequired")

setAgentHealthyCondition(p, obs) ==
    IF p.mode = "trace" THEN Nil
    ELSE IF p.mode = "fluentbit" \/ p.agent THEN GetAgentHealthyCondition(obs.agent)
    ELSE NotRequired

setGatewayHealthyCondition(p, obs) ==
    IF p.mode = "fluentbit" \/ (p.mode = "log" /\ ~p.otlp) THEN Nil
    ELSE GetGatewayHealthyCondition(obs.gateway, obs.config.status)

setFlowHealthCondition(p, obs) ==
    CASE p.mode = "trace" -> evaluateTraceFlowHealth(p, obs)
      [] p.mode = "metric" -> evaluateMetricFlowHealth(p, obs)
      [] p.mode = "log" -> evaluateLogFlowHealth(p, obs)
      [] p.mode = "fluentbit" -> evaluateFluentBitFlowHealth(p, obs)

updateStatus(p, obs) ==
    [AgentHealthy           |-> setAgentHealthyCondition(p, obs),
     GatewayHealthy         |-> setGatewayHealthyCondition(p, obs),
     ConfigurationGenerated |-> obs.config,
     TelemetryFlowHealthy   |-> setFlowHealthCondition(p, obs)]

=============================================================================
