----------------------------- MODULE Conversion -----------------------------
(***************************************************************************)
(* The conversion webhook: LogPipelines and MetricPipelines between the    *)
(* two served versions of the API, v1alpha1 ("alpha") and v1beta1 ("beta", *)
(* the hub in which the controllers work).                                 *)
(*                                                                         *)
(* A spec is a record with the fields of its Go type.  Fields that both    *)
(* versions declare alike and the generated code copies through one        *)
(* pointer (authentication, headers, Fluent Bit filters and the like) are  *)
(* opaque values.  A list of names is a set; Nil is a nil pointer, and for *)
(* the lists whose nil the code tests, a nil slice.                        *)
(***************************************************************************)
EXTENDS Naturals

CONSTANTS Nil, SystemNamespaces, ValidNames

Selector(include, exclude) == [include |-> include, exclude |-> exclude]

sanitizeNamespaceNames(names) == names \cap ValidNames

Sanitized(selector) == Selector(sanitizeNamespaceNames(selector.include),
                                sanitizeNamespaceNames(selector.exclude))

-----------------------------------------------------------------------------
\* Shared types.

ValueType(v) == [value |-> v.value, valueFrom |-> v.valueFrom]

ValueTypeOrNil(v) == IF v = Nil THEN Nil ELSE ValueType(v)

OTLPInputToBeta(in) ==
    IF in = Nil THEN Nil
    ELSE [enabled |-> ~in.disabled,
          namespaces |-> IF in.namespaces = Nil THEN Nil ELSE Sanitized(in.namespaces)]

OTLPInputToAlpha(in) ==
    IF in = Nil THEN Nil
    ELSE [disabled |-> in.enabled # Nil /\ in.enabled = FALSE,
          namespaces |-> IF in.namespaces = Nil THEN Nil ELSE Sanitized(in.namespaces)]

OTLPOutputToBeta(in) ==
    [protocol |-> in.protocol, endpoint |-> ValueType(in.endpoint), path |-> in.path,
     authentication |-> in.authentication, headers |-> in.headers, tls |-> in.tls,
     compression |-> ""]

\* compression is a field of v1beta1 alone
OTLPOutputToAlpha(in) ==
    [protocol |-> in.protocol, endpoint |-> ValueType(in.endpoint), path |-> in.path,
     authentication |-> in.authentication, headers |-> in.headers, tls |-> in.tls]

-----------------------------------------------------------------------------
\* LogPipeline.

FluentBitHTTPOutputTLSToOutputTLS(in) ==
    [insecure |-> in.disabled, insecureSkipVerify |-> in.skipCertificateValidation,
     ca |-> ValueTypeOrNil(in.ca), cert |-> ValueTypeOrNil(in.cert), key |-> ValueTypeOrNil(in.key)]

OutputTLSToFluentBitHTTPOutputTLS(in) ==
    [disabled |-> in.insecure, skipCertificateValidation |-> in.insecureSkipVerify,
     ca |-> ValueTypeOrNil(in.ca), cert |-> ValueTypeOrNil(in.cert), key |-> ValueTypeOrNil(in.key)]

FluentBitHTTPOutputToBeta(in) ==
    [host |-> ValueType(in.host), request |-> in.request, tls |-> FluentBitHTTPOutputTLSToOutputTLS(in.tls)]

FluentBitHTTPOutputToAlpha(in) ==
    [host |-> ValueType(in.host), request |-> in.request, tls |-> OutputTLSToFluentBitHTTPOutputTLS(in.tls)]

LogPipelineOutputToBeta(in) ==
    [custom |-> in.custom,
     http |-> IF in.http = Nil THEN Nil ELSE FluentBitHTTPOutputToBeta(in.http),
     otlp |-> IF in.otlp = Nil THEN Nil ELSE OTLPOutputToBeta(in.otlp)]

LogPipelineOutputToAlpha(in) ==
    [custom |-> in.custom,
     http |-> IF in.http = Nil THEN Nil ELSE FluentBitHTTPOutputToAlpha(in.http),
     otlp |-> IF in.otlp = Nil THEN Nil ELSE OTLPOutputToAlpha(in.otlp)]

AlphaSelector(include, exclude, system) ==
    [include |-> include, exclude |-> exclude, system |-> system]

\* Input with the fields that an application input and a runtime input share.
RuntimeInput(in, namespaces, containers) ==
    [enabled |-> in.enabled, keepAnnotations |-> in.keepAnnotations, dropLabels |-> in.dropLabels,
     keepOriginalBody |-> in.keepOriginalBody, namespaces |-> namespaces, containers |-> containers]

NamespacesToBeta(ns) ==
    Selector(sanitizeNamespaceNames(ns.include),
             IF ns.include = {} /\ ns.exclude = {} /\ ~ns.system THEN SystemNamespaces
             ELSE sanitizeNamespaceNames(ns.exclude))

ContainersToBeta(containers) ==
    IF containers.include # Nil \/ containers.exclude # Nil
    THEN Selector(containers.include, containers.exclude)
    ELSE Nil

ApplicationToRuntime(app) ==
    IF app = Nil THEN Nil
    ELSE RuntimeInput(app, NamespacesToBeta(app.namespaces), ContainersToBeta(app.containers))

LogPipelineInputToBeta(in) ==
    [otlp |-> OTLPInputToBeta(in.otlp), runtime |-> ApplicationToRuntime(in.application)]

NamespacesToAlpha(ns) ==
    IF ns = Nil THEN AlphaSelector({}, {}, FALSE)
    ELSE AlphaSelector(ns.include, ns.exclude, ns.include = {} /\ ns.exclude = {})

ContainersToAlpha(containers) ==
    IF containers = Nil THEN Selector(Nil, Nil) ELSE Selector(containers.include, containers.exclude)

RuntimeToApplication(run) ==
    IF run = Nil THEN Nil
    ELSE RuntimeInput(run, NamespacesToAlpha(run.namespaces), ContainersToAlpha(run.containers))

LogPipelineInputToAlpha(in) ==
    [otlp |-> OTLPInputToAlpha(in.otlp), application |-> RuntimeToApplication(in.runtime)]

LogPipelineSpecToBeta(in) ==
    [input |-> LogPipelineInputToBeta(in.input), output |-> LogPipelineOutputToBeta(in.output),
     filters |-> in.filters, files |-> in.files, variables |-> in.variables,
     transform |-> in.transform, filter |-> in.filter]

LogPipelineSpecToAlpha(in) ==
    [input |-> LogPipelineInputToAlpha(in.input), output |-> LogPipelineOutputToAlpha(in.output),
     filters |-> in.filters, files |-> in.files, variables |-> in.variables,
     transform |-> in.transform, filter |-> in.filter]

\* marshalData: the alpha object goes along in an annotation of the beta one.
marshalData(spec, generation) == [spec |-> spec, generation |-> generation]

LogPipelineConvertTo(alpha) ==
    [spec |-> LogPipelineSpecToBeta(alpha.spec), generation |-> alpha.generation,
     data |-> marshalData(alpha.spec, alpha.generation)]

\* Mutant: the annotation is taken for the object whatever happened since.
LogPipelineConvertFromData(beta) ==
    [spec |-> IF beta.data # Nil THEN beta.data.spec ELSE LogPipelineSpecToAlpha(beta.spec),
     generation |-> beta.generation]

\* unmarshalData: the annotated spec counts as long as the object was not changed.
LogPipelineConvertFrom(beta) ==
    [spec |-> IF beta.data # Nil /\ beta.data.generation = beta.generation
              THEN beta.data.spec
              ELSE LogPipelineSpecToAlpha(beta.spec),
     generation |-> beta.generation]

-----------------------------------------------------------------------------
\* MetricPipeline.

MetricPipelineRuntimeInputToBeta(in) ==
    IF in = Nil THEN Nil
    ELSE [enabled |-> in.enabled, resources |-> in.resources, additionalMetrics |-> in.additionalMetrics,
          namespaces |-> IF in.namespaces = Nil THEN Nil ELSE Sanitized(in.namespaces)]

MetricPipelineRuntimeInputToAlpha(in) ==
    IF in = Nil THEN Nil
    ELSE [enabled |-> in.enabled, resources |-> in.resources, additionalMetrics |-> in.additionalMetrics,
          namespaces |-> in.namespaces]

MetricPipelineInputToBeta(in) ==
    [prometheus |-> in.prometheus, runtime |-> MetricPipelineRuntimeInputToBeta(in.runtime),
     istio |-> in.istio, otlp |-> OTLPInputToBeta(in.otlp)]

MetricPipelineInputToAlpha(in) ==
    [prometheus |-> in.prometheus, runtime |-> MetricPipelineRuntimeInputToAlpha(in.runtime),
     istio |-> in.istio, otlp |-> OTLPInputToAlpha(in.otlp)]

MetricPipelineOTLPOutputToBeta(in) ==
    [otlp |-> OTLPOutputToBeta(in.otlp), temporality |-> in.temporality]

MetricPipelineOTLPOutputToAlpha(in) ==
    [otlp |-> OTLPOutputToAlpha(in.otlp), temporality |-> in.temporality]

MetricPipelineSpecToBeta(in) ==
    [input |-> MetricPipelineInputToBeta(in.input), output |-> MetricPipelineOTLPOutputToBeta(in.output),
     transform |-> in.transform, filter |-> in.filter]

MetricPipelineSpecToAlpha(in) ==
    [input |-> MetricPipelineInputToAlpha(in.input), output |-> MetricPipelineOTLPOutputToAlpha(in.output),
     transform |-> in.transform, filter |-> in.filter]

MetricPipelineConvertTo(alpha) ==
    [spec |-> MetricPipelineSpecToBeta(alpha.spec), generation |-> alpha.generation, data |-> Nil]

MetricPipelineConvertFrom(beta) ==
    [spec |-> MetricPipelineSpecToAlpha(beta.spec), generation |-> beta.generation]

=============================================================================
