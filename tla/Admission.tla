------------------------------ MODULE Admission -----------------------------
(***************************************************************************)
(* The admission webhooks of LogPipelines and MetricPipelines: one         *)
(* defaulter and one validator per kind and served version, and what the   *)
(* API server makes of a client's write with them and with the conversion. *)
(***************************************************************************)
EXTENDS Conversion, FiniteSets

On(flag) == flag # Nil /\ flag = TRUE

\* The value, or its default where it is missing.
Given(value, default) == IF value = Nil THEN default ELSE value

DefaultProtocol(output) ==
    IF output.protocol = "" THEN [output EXCEPT !.protocol = "grpc"] ELSE output

ExcludeSystem == Selector({}, SystemNamespaces)
AnyNamespace == Selector({}, {})

-----------------------------------------------------------------------------
\* Defaults of a LogPipeline.

NewApplicationInput ==
    [enabled |-> TRUE, keepAnnotations |-> Nil, dropLabels |-> Nil, keepOriginalBody |-> TRUE,
     namespaces |-> AlphaSelector({}, {}, FALSE), containers |-> Selector(Nil, Nil)]

\* A LogPipeline with another input, and the default protocol of its output.
LogPipelineWith(spec, input) ==
    [input |-> input,
     output |-> [custom |-> spec.output.custom, http |-> spec.output.http,
                 otlp |-> IF spec.output.otlp = Nil THEN Nil ELSE DefaultProtocol(spec.output.otlp)],
     filters |-> spec.filters, files |-> spec.files, variables |-> spec.variables,
     transform |-> spec.transform, filter |-> spec.filter]

ApplicationDefaults(input) ==
    LET app == Given(input, NewApplicationInput)
    IN  [enabled |-> Given(app.enabled, TRUE), keepAnnotations |-> app.keepAnnotations,
         dropLabels |-> app.dropLabels, keepOriginalBody |-> Given(app.keepOriginalBody, TRUE),
         namespaces |-> app.namespaces, containers |-> app.containers]

OTLPInputDefaultAlpha(input) ==
    LET otlp == Given(input, [disabled |-> FALSE, namespaces |-> Nil])
    IN  [disabled |-> otlp.disabled, namespaces |-> Given(otlp.namespaces, AnyNamespace)]

LogPipelineDefaultAlpha(spec) ==
    LogPipelineWith(spec, [application |-> ApplicationDefaults(spec.input.application),
                           otlp |-> IF spec.output.otlp = Nil THEN spec.input.otlp
                                    ELSE OTLPInputDefaultAlpha(spec.input.otlp)])

NewRuntimeInput ==
    [enabled |-> TRUE, keepAnnotations |-> Nil, dropLabels |-> Nil, keepOriginalBody |-> TRUE,
     namespaces |-> Nil, containers |-> Nil]

OTLPInputDefaultBeta(input) ==
    LET otlp == Given(input, [enabled |-> Nil, namespaces |-> Nil])
        enabled == Given(otlp.enabled, TRUE)
    IN  [enabled |-> enabled,
         namespaces |-> IF enabled THEN Given(otlp.namespaces, AnyNamespace) ELSE otlp.namespaces]

RuntimeWith(run, enabled, namespaces) ==
    [enabled |-> enabled, keepAnnotations |-> run.keepAnnotations, dropLabels |-> run.dropLabels,
     keepOriginalBody |-> IF enabled THEN Given(run.keepOriginalBody, TRUE) ELSE run.keepOriginalBody,
     namespaces |-> namespaces, containers |-> run.containers]

\* Mutant: an empty selector is taken for a missing one.
RuntimeDefaultsReplaceEmpty(input) ==
    LET run == Given(input, NewRuntimeInput)
        enabled == Given(run.enabled, TRUE)
    IN  RuntimeWith(run, enabled, IF enabled /\ run.namespaces \in {Nil, AnyNamespace} THEN ExcludeSystem
                                  ELSE run.namespaces)

RuntimeDefaults(input) ==
    LET run == Given(input, NewRuntimeInput)
        enabled == Given(run.enabled, TRUE)
    IN  RuntimeWith(run, enabled, IF enabled THEN Given(run.namespaces, ExcludeSystem) ELSE run.namespaces)

LogPipelineDefaultBeta(spec) ==
    LogPipelineWith(spec, [runtime |-> RuntimeDefaults(spec.input.runtime),
                           otlp |-> IF spec.output.otlp = Nil THEN spec.input.otlp
                                    ELSE OTLPInputDefaultBeta(spec.input.otlp)])

-----------------------------------------------------------------------------
\* Defaults of a MetricPipeline.

Resources == {"pod", "container", "node", "volume", "daemonset", "deployment", "statefulset", "job"}

applyRuntimeInputResourceDefaults(resources) ==
    [r \in Resources |-> IF resources = Nil \/ resources[r] = Nil THEN TRUE ELSE resources[r]]

InputEnabled(input) == input # Nil /\ On(input.enabled)

PrometheusDefaults(input) ==
    IF ~InputEnabled(input) THEN input
    ELSE [enabled |-> TRUE, namespaces |-> Given(input.namespaces, ExcludeSystem),
          diagnostics |-> Given(input.diagnostics, FALSE)]

IstioDefaults(input) ==
    IF ~InputEnabled(input) THEN input
    ELSE [enabled |-> TRUE, namespaces |-> Given(input.namespaces, ExcludeSystem),
          diagnostics |-> Given(input.diagnostics, FALSE), envoy |-> Given(input.envoy, FALSE)]

RuntimeInputDefaults(input) ==
    IF ~InputEnabled(input) THEN input
    ELSE [enabled |-> TRUE, resources |-> applyRuntimeInputResourceDefaults(input.resources),
          additionalMetrics |-> input.additionalMetrics, namespaces |-> Given(input.namespaces, ExcludeSystem)]

applyOTLPOutputDefaults(output) ==
    [otlp |-> DefaultProtocol(output.otlp), temporality |-> Given(output.temporality, "preserve")]

MetricPipelineWith(spec, otlp) ==
    [input |-> [prometheus |-> PrometheusDefaults(spec.input.prometheus),
                istio |-> IstioDefaults(spec.input.istio),
                runtime |-> RuntimeInputDefaults(spec.input.runtime), otlp |-> otlp],
     output |-> applyOTLPOutputDefaults(spec.output), transform |-> spec.transform, filter |-> spec.filter]

MetricPipelineDefaultAlpha(spec) == MetricPipelineWith(spec, OTLPInputDefaultAlpha(spec.input.otlp))

MetricPipelineDefaultBeta(spec) == MetricPipelineWith(spec, OTLPInputDefaultBeta(spec.input.otlp))

-----------------------------------------------------------------------------
\* Validation.  A transform or filter is "none", "valid" or "invalid" OTTL.

ValidateFilterTransform(spec) == spec.filter # "invalid" /\ spec.transform # "invalid"

\* The deprecation warnings of an admitted LogPipeline; in alpha runtime is the application input.
Deprecations(spec, runtime) ==
    {w \in {"filters", "output.custom", "output.http", "variables", "files", "dropLabels", "keepAnnotations"} :
        \/ w = "filters" /\ spec.filters # "none"
        \/ w = "output.custom" /\ spec.output.custom # ""
        \/ w = "output.http" /\ spec.output.http # Nil
        \/ w = "variables" /\ spec.variables # "none"
        \/ w = "files" /\ spec.files # "none"
        \/ w = "dropLabels" /\ InputEnabled(runtime) /\ runtime.dropLabels # Nil
        \/ w = "keepAnnotations" /\ InputEnabled(runtime) /\ runtime.keepAnnotations # Nil}

Answer(admitted, warnings) == [admitted |-> admitted, warnings |-> IF admitted THEN warnings ELSE {}]

LogPipelineValidateAlpha(spec) ==
    Answer(ValidateFilterTransform(spec), Deprecations(spec, spec.input.application))

LogPipelineValidateBeta(spec) ==
    Answer(ValidateFilterTransform(spec), Deprecations(spec, spec.input.runtime))

validRuntimeMetrics == {"known"}

ValidRuntimeMetrics(spec) ==
    InputEnabled(spec.input.runtime) => spec.input.runtime.additionalMetrics \subseteq validRuntimeMetrics

MetricPipelineValidateBeta(spec) ==
    Answer(ValidateFilterTransform(spec) /\ ValidRuntimeMetrics(spec), {})

MetricPipelineValidateAlpha(spec) ==
    Answer(ValidateFilterTransform(spec) /\ ValidRuntimeMetrics(MetricPipelineSpecToBeta(spec)), {})

-----------------------------------------------------------------------------
\* What the schemas of the custom resource definitions admit of a LogPipeline.

Has(list) == list # "none"

OutputsAdmitted(output) ==
    Cardinality({o \in {"custom", "http", "otlp"} :
                   \/ o = "custom" /\ output.custom # ""
                   \/ o = "http" /\ output.http # Nil
                   \/ o = "otlp" /\ output.otlp # Nil}) = 1

\* A value or a reference to one.
HasValue(v) == v.value # "" \/ v.valueFrom # Nil

\* What v1beta1 alone demands: no value of the output is empty.  authentication and headers
\* are "incomplete" where a user, a password or a header has neither value nor valueFrom.
OutputComplete(output) ==
    /\ output.http # Nil => HasValue(output.http.host)
    /\ output.otlp # Nil => /\ HasValue(output.otlp.endpoint)
                            /\ output.otlp.authentication # "incomplete"
                            /\ output.otlp.headers # "incomplete"

\* What both versions demand; in alpha runtime is the application input.
SpecAdmitted(spec, runtime) ==
    /\ OutputsAdmitted(spec.output)
    /\ IF spec.output.otlp # Nil
       THEN /\ runtime # Nil => runtime.dropLabels = Nil /\ runtime.keepAnnotations = Nil
            /\ ~Has(spec.filters) /\ ~Has(spec.files) /\ ~Has(spec.variables)
       ELSE ~Has(spec.transform) /\ ~Has(spec.filter) /\ spec.input.otlp = Nil

AdmittedInAlpha(spec) == SpecAdmitted(spec, spec.input.application)
AdmittedInBeta(spec) == SpecAdmitted(spec, spec.input.runtime) /\ OutputComplete(spec.output)

SelectorAdmitted(selector) == selector = Nil \/ selector.include = {} \/ selector.exclude = {}

-----------------------------------------------------------------------------
\* Writes of clients, as the API server carries them out: it reads the object in
\* the version of the request, calls the webhooks, counts a changed spec as a new
\* generation and stores the object in the hub version.

Log == "LogPipeline"

DefaultAlpha(kind, spec) == IF kind = Log THEN LogPipelineDefaultAlpha(spec) ELSE MetricPipelineDefaultAlpha(spec)
DefaultBeta(kind, spec) == IF kind = Log THEN LogPipelineDefaultBeta(spec) ELSE MetricPipelineDefaultBeta(spec)
ConvertTo(kind, alpha) == IF kind = Log THEN LogPipelineConvertTo(alpha) ELSE MetricPipelineConvertTo(alpha)
ConvertFrom(kind, beta) == IF kind = Log THEN LogPipelineConvertFrom(beta) ELSE MetricPipelineConvertFrom(beta)
ValidateAlpha(kind, spec) == IF kind = Log THEN LogPipelineValidateAlpha(spec) ELSE MetricPipelineValidateAlpha(spec)
ValidateBeta(kind, spec) == IF kind = Log THEN LogPipelineValidateBeta(spec) ELSE MetricPipelineValidateBeta(spec)

\* copied: the annotation that a client of v1beta1 takes over from another pipeline
Created(kind, version, spec, copied) ==
    IF version = "alpha" THEN ConvertTo(kind, [spec |-> DefaultAlpha(kind, spec), generation |-> 1])
    ELSE [spec |-> DefaultBeta(kind, spec), generation |-> 1, data |-> copied]

Generation(old, new) == IF old.spec = new THEN old.generation ELSE old.generation + 1

\* keep: the client sends the annotations back that it has read
Updated(kind, stored, version, spec, keep) ==
    IF version = "alpha"
    THEN LET new == DefaultAlpha(kind, spec)
         IN  ConvertTo(kind, [spec |-> new, generation |-> Generation(ConvertFrom(kind, stored), new)])
    ELSE LET new == DefaultBeta(kind, spec)
         IN  [spec |-> new, generation |-> Generation(stored, new),
              data |-> IF keep THEN stored.data ELSE Nil]

=============================================================================
