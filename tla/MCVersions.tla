----------------------------- MODULE MCVersions -----------------------------
(***************************************************************************)
(* Pipelines written through the two versions of the API: single writes,   *)
(* and histories of two writes by clients of either version.               *)
(***************************************************************************)
EXTENDS Built, Naturals, TLC

CONSTANTS
    ValidNames,     \* names a namespace may have
    Cluster         \* the namespaces there are

\* Every namespace has a valid name.
ASSUME NamesAssumption == SystemNamespaces \subseteq ValidNames /\ Cluster \subseteq ValidNames

AD == INSTANCE Admission

Pick(include, exclude) == [include |-> include, exclude |-> exclude]
Plain(v) == [value |-> v, valueFrom |-> Nil]
FromSecret == [value |-> "", valueFrom |-> "key"]

-----------------------------------------------------------------------------
\* Specs of v1alpha1.

AlphaNamespaces ==
    {AD!AlphaSelector({}, {}, FALSE), AD!AlphaSelector({}, {}, TRUE), AD!AlphaSelector({"app"}, {}, FALSE),
     AD!AlphaSelector({}, {"app"}, FALSE), AD!AlphaSelector({"Bad"}, {}, FALSE),
     AD!AlphaSelector({"app", "Bad"}, {}, FALSE)}

Application(enabled, namespaces, containers, flag, keepBody) ==
    [enabled |-> enabled, namespaces |-> namespaces, containers |-> containers,
     keepAnnotations |-> flag, dropLabels |-> flag, keepOriginalBody |-> keepBody]

Applications(flags) ==
    {Nil} \cup {Application(enabled, namespaces, containers, flag, keepBody) :
                  enabled \in {Nil, TRUE, FALSE}, namespaces \in AlphaNamespaces,
                  containers \in {Pick(Nil, Nil), Pick({"main"}, Nil)}, flag \in flags,
                  keepBody \in {Nil, FALSE}}

AlphaOTLPInputs ==
    {Nil} \cup [disabled : BOOLEAN, namespaces : {Nil, Pick({}, {}), Pick({"app"}, {}), Pick({}, {"Bad"})}]

AlphaOTLPOutput(protocol) ==
    [protocol |-> protocol, endpoint |-> Plain("backend"), path |-> "", authentication |-> Nil,
     headers |-> "none", tls |-> Nil]

\* Outputs that v1alpha1 admits and v1beta1 does not.
IncompleteOTLPOutputs ==
    {[AlphaOTLPOutput("http") EXCEPT !.endpoint = Plain("")],
     [AlphaOTLPOutput("http") EXCEPT !.endpoint = FromSecret, !.headers = "incomplete"],
     [AlphaOTLPOutput("http") EXCEPT !.authentication = "incomplete"]}

NoOutput == [custom |-> "", http |-> Nil, otlp |-> Nil]

AlphaHTTPOutput(host, disabled) ==
    [NoOutput EXCEPT !.http =
        [host |-> host, request |-> "json",
         tls |-> [disabled |-> disabled, skipCertificateValidation |-> ~disabled,
                  ca |-> Plain("ca"), cert |-> Nil, key |-> Nil]]]

LogSpec(input, output, legacy, ottl) ==
    [input |-> input, output |-> output, filters |-> legacy, files |-> legacy, variables |-> legacy,
     transform |-> ottl, filter |-> "none"]

AlphaLogSpecs ==
    {LogSpec([application |-> application, otlp |-> otlp],
             [NoOutput EXCEPT !.otlp = output], "none", ottl) :
        application \in Applications({Nil}), otlp \in AlphaOTLPInputs,
        output \in {AlphaOTLPOutput(""), [AlphaOTLPOutput("http") EXCEPT !.endpoint = FromSecret]},
        ottl \in {"none", "invalid"}}
    \cup {LogSpec([application |-> Nil, otlp |-> otlp], [NoOutput EXCEPT !.otlp = output], "none", "none") :
        otlp \in AlphaOTLPInputs, output \in IncompleteOTLPOutputs}
    \cup {LogSpec([application |-> application, otlp |-> Nil], output, legacy, "none") :
        application \in Applications({Nil, TRUE}), legacy \in {"none", "some"},
        output \in {AlphaHTTPOutput(FromSecret, TRUE), AlphaHTTPOutput(Plain("backend"), FALSE),
                    AlphaHTTPOutput(Plain(""), FALSE), [NoOutput EXCEPT !.custom = "stdout"]}}

AlphaPullInputs ==
    {Nil} \cup [enabled : {Nil, TRUE, FALSE}, namespaces : {Nil, Pick({}, {}), Pick({"app"}, {})},
                diagnostics : {Nil, TRUE}]

AlphaRuntimeInputs ==
    {Nil} \cup [enabled : {TRUE, FALSE}, namespaces : {Nil, Pick({"app"}, {}), Pick({"Bad"}, {})},
                resources : {Nil, [r \in AD!Resources |-> IF r = "pod" THEN FALSE ELSE Nil]},
                additionalMetrics : {{}, {"known"}, {"unknown"}}]

MetricSpec(prometheus, runtime, otlp, output) ==
    [input |-> [prometheus |-> prometheus, runtime |-> runtime, otlp |-> otlp,
                istio |-> IF prometheus = Nil THEN Nil ELSE [envoy |-> Nil] @@ prometheus],
     output |-> output, transform |-> "none", filter |-> "valid"]

AlphaMetricSpecs ==
    {MetricSpec(prometheus, runtime, otlp, [otlp |-> AlphaOTLPOutput(""), temporality |-> Nil]) :
        prometheus \in AlphaPullInputs, runtime \in AlphaRuntimeInputs, otlp \in AlphaOTLPInputs}

AlphaSpecs(kind) == IF kind = AD!Log THEN AlphaLogSpecs ELSE AlphaMetricSpecs

\* Specs of v1beta1: those a client changes a pipeline to.
Compressed(output) == [compression |-> "gzip"] @@ output

BetaRuntimes ==
    {Nil} \cup {Application(enabled, namespaces, containers, Nil, Nil) :
                  enabled \in {Nil, FALSE}, namespaces \in {Nil, Pick({}, {}), Pick({"shop"}, {}), Pick({}, {"shop"})},
                  containers \in {Nil, Pick(Nil, {"main"})}}

BetaOTLPInputs == {Nil} \cup [enabled : {Nil, FALSE}, namespaces : {Nil, Pick({"shop"}, {})}]

BetaSpecs(kind, otlp) ==
    IF kind # AD!Log
    THEN {MetricSpec(prometheus, Nil, input, [otlp |-> Compressed(AlphaOTLPOutput("grpc")), temporality |-> "delta"]) :
            prometheus \in AlphaPullInputs, input \in BetaOTLPInputs}
    ELSE IF otlp
    THEN {LogSpec([runtime |-> runtime, otlp |-> input],
                  [NoOutput EXCEPT !.otlp = Compressed(AlphaOTLPOutput(""))], "none", "none") :
            runtime \in BetaRuntimes, input \in BetaOTLPInputs}
    ELSE {LogSpec([runtime |-> runtime, otlp |-> Nil], [NoOutput EXCEPT !.custom = "http"], "none", "none") :
            runtime \in BetaRuntimes}

\* Histories start with a smaller family.
FirstSpecs(kind) ==
    {s \in AlphaSpecs(kind) :
        /\ s.input.otlp = Nil \/ s.input.otlp.disabled
        /\ kind = AD!Log => AD!OutputComplete(s.output)
        /\ IF kind = AD!Log
           THEN /\ s.transform = "none" /\ s.filters = "none"
                /\ s.input.application # Nil =>
                     s.input.application.enabled = Nil /\ s.input.application.keepOriginalBody = Nil
                /\ s.output.otlp # Nil => s.output.otlp.protocol = ""
           ELSE s.input.prometheus = Nil /\ (s.input.runtime # Nil => s.input.runtime.additionalMetrics = {})}

-----------------------------------------------------------------------------
\* Specs that the schemas admit: records with the fields of the Go types.  Fields that are
\* not named here may have any value.

IsFlag(f) == f \in BOOLEAN \cup {Nil}

IsSelector(s) == s = AD!Selector(s.include, s.exclude)

IsValue(v) == v = AD!ValueType(v)

IsAlphaNamespaces(s) ==
    /\ s = AD!AlphaSelector(s.include, s.exclude, s.system)
    /\ s.system \in BOOLEAN
    /\ s.include = {} \/ s.exclude = {}
    /\ s.system => s.include = {} /\ s.exclude = {}

\* v1beta1 has a pattern for the names of namespaces
IsBetaNamespaces(s) ==
    s = Nil \/ (IsSelector(s) /\ s.include \subseteq ValidNames /\ s.exclude \subseteq ValidNames)

IsApplication(a) ==
    /\ a = AD!RuntimeInput(a, a.namespaces, a.containers)
    /\ IsFlag(a.enabled)
    /\ IsAlphaNamespaces(a.namespaces)

IsBetaRuntime(r) ==
    /\ r = AD!RuntimeInput(r, r.namespaces, r.containers)
    /\ IsFlag(r.enabled)
    /\ IsBetaNamespaces(r.namespaces)
    /\ r.containers = Nil \/ IsSelector(r.containers)

IsAlphaOTLPInput(i) ==
    /\ i = [disabled |-> i.disabled, namespaces |-> i.namespaces]
    /\ i.disabled \in BOOLEAN

IsBetaOTLPInput(i) ==
    /\ i = [enabled |-> i.enabled, namespaces |-> i.namespaces]
    /\ IsFlag(i.enabled)
    /\ IsBetaNamespaces(i.namespaces)

IsAlphaOTLPOutput(o) ==
    /\ o = [protocol |-> o.protocol, endpoint |-> o.endpoint, path |-> o.path,
            authentication |-> o.authentication, headers |-> o.headers, tls |-> o.tls]
    /\ IsValue(o.endpoint)

IsBetaOTLPOutput(o) ==
    /\ o = [protocol |-> o.protocol, endpoint |-> o.endpoint, path |-> o.path,
            authentication |-> o.authentication, headers |-> o.headers, tls |-> o.tls,
            compression |-> o.compression]
    /\ IsValue(o.endpoint)

IsAlphaLogSpec(s) ==
    /\ s.input.application = Nil \/ IsApplication(s.input.application)
    /\ s.input.otlp = Nil \/ IsAlphaOTLPInput(s.input.otlp)
    /\ s.output.otlp = Nil \/ IsAlphaOTLPOutput(s.output.otlp)

IsBetaHTTPOutput(h) ==
    /\ h = [host |-> h.host, request |-> h.request, tls |-> h.tls]
    /\ IsValue(h.host)
    /\ h.tls = [insecure |-> h.tls.insecure, insecureSkipVerify |-> h.tls.insecureSkipVerify,
                ca |-> h.tls.ca, cert |-> h.tls.cert, key |-> h.tls.key]
    /\ \A v \in {h.tls.ca, h.tls.cert, h.tls.key} : v = Nil \/ IsValue(v)

\* An OTLP input goes with an OTLP output only.
IsBetaLogSpec(s) ==
    /\ s.input.runtime = Nil \/ IsBetaRuntime(s.input.runtime)
    /\ s.input.otlp = Nil \/ IsBetaOTLPInput(s.input.otlp)
    /\ s.output.http = Nil \/ IsBetaHTTPOutput(s.output.http)
    /\ s.output.otlp = Nil \/ IsBetaOTLPOutput(s.output.otlp)
    /\ s.output.otlp = Nil => s.input.otlp = Nil

IsMetricRuntime(i) ==
    i = [enabled |-> i.enabled, resources |-> i.resources, additionalMetrics |-> i.additionalMetrics,
         namespaces |-> i.namespaces]

IsAlphaMetricSpec(s) ==
    /\ s.input.runtime = Nil \/ IsMetricRuntime(s.input.runtime)
    /\ s.input.otlp = Nil \/ IsAlphaOTLPInput(s.input.otlp)
    /\ IsAlphaOTLPOutput(s.output.otlp)

IsBetaMetricSpec(s) ==
    /\ s.input.runtime = Nil \/ (IsMetricRuntime(s.input.runtime) /\ IsBetaNamespaces(s.input.runtime.namespaces))
    /\ s.input.otlp = Nil \/ IsBetaOTLPInput(s.input.otlp)
    /\ IsBetaOTLPOutput(s.output.otlp)

IsAlphaSpec(kind, s) == IF kind = AD!Log THEN IsAlphaLogSpec(s) ELSE IsAlphaMetricSpec(s)
IsBetaSpec(kind, s) == IF kind = AD!Log THEN IsBetaLogSpec(s) ELSE IsBetaMetricSpec(s)

\* The families above are of these shapes.
ASSUME SpecsAssumption ==
    \A kind \in {AD!Log, "MetricPipeline"} :
        /\ \A s \in AlphaSpecs(kind) : IsAlphaSpec(kind, s)
        /\ \A s \in BetaSpecs(kind, TRUE) \cup BetaSpecs(kind, FALSE) : IsBetaSpec(kind, s)

-----------------------------------------------------------------------------
BuildVersions ==
    /\ built.kind = "none"
    /\ \E kind \in {AD!Log, "MetricPipeline"} : \E spec \in AlphaSpecs(kind) :
         built' = [kind |-> "versions", of |-> kind, spec |-> spec]

\* What a LogPipeline that is created through v1beta1 can have in its annotation: nothing,
\* or the copy of a pipeline that was written through v1alpha1, at this generation.
Annotations(alpha) ==
    {Nil} \cup {AD!marshalData(AD!LogPipelineDefaultAlpha(alpha), g) : g \in 1..2}

BuildHistory ==
    /\ built.kind = "none"
    /\ \E kind \in {AD!Log, "MetricPipeline"}, alphaFirst, keep \in BOOLEAN : \E alpha \in FirstSpecs(kind) :
         \E beta \in BetaSpecs(kind, kind = AD!Log /\ alpha.output.otlp # Nil),
            copied \in IF kind = AD!Log /\ ~alphaFirst /\ keep THEN Annotations(alpha) ELSE {Nil} :
           built' = [kind |-> "history", of |-> kind, alpha |-> alpha, beta |-> beta,
                     alphaFirst |-> alphaFirst, keep |-> keep, copied |-> copied]

-----------------------------------------------------------------------------
\* What a stored spec makes the controllers do.

Chosen(selector) ==
    {n \in Cluster : (selector.include = {} \/ n \in selector.include) /\ n \notin selector.exclude}

Does(input, rest) == IF AD!InputEnabled(input) THEN <<Chosen(input.namespaces), rest>> ELSE Nil

WithoutCompression(output) == [f \in DOMAIN output \ {"compression"} |-> output[f]]

Effect(kind, spec) ==
    LET in == spec.input
    IN  IF kind = AD!Log
        THEN <<IF in.runtime = Nil THEN Nil
               ELSE Does(in.runtime, [f \in {"keepOriginalBody", "keepAnnotations", "dropLabels"} |-> in.runtime[f]]),
               IF in.runtime = Nil \/ in.runtime.containers = Nil THEN Pick(Nil, Nil) ELSE in.runtime.containers,
               Does(in.otlp, Nil),
               spec.output.custom, spec.output.http,
               IF spec.output.otlp = Nil THEN Nil ELSE WithoutCompression(spec.output.otlp),
               spec.filters, spec.files, spec.variables, spec.transform, spec.filter>>
        ELSE <<Does(in.prometheus, in.prometheus), Does(in.istio, in.istio),
               Does(in.runtime, IF in.runtime = Nil THEN Nil ELSE <<in.runtime.resources, in.runtime.additionalMetrics>>),
               Does(in.otlp, Nil),
               WithoutCompression(spec.output.otlp), spec.output.temporality, spec.transform, spec.filter>>

Converted(kind, spec) == AD!ConvertTo(kind, [spec |-> spec, generation |-> 1]).spec

\* The namespaces a v1alpha1 LogPipeline is documented to select.
Documented(ns) ==
    IF ns.include # {} THEN Cluster \cap ns.include
    ELSE IF ns.exclude # {} THEN Cluster \ ns.exclude
    ELSE IF ns.system THEN Cluster ELSE Cluster \ SystemNamespaces

(***************************************************************************)
(* It does not matter through which version a pipeline is written: the     *)
(* defaulters of v1alpha1 followed by the conversion, and the conversion   *)
(* followed by the defaulters of v1beta1, lead to a spec with the same     *)
(* effect; both validators give the same answer; defaulting again changes  *)
(* nothing; what the conversion makes of an admitted LogPipeline is        *)
(* admitted by the schema of v1beta1, unless an endpoint, a host, a user,  *)
(* a password or a header is empty, which only v1beta1 forbids; and its    *)
(* application input collects from the namespaces that v1alpha1 documents, *)
(* unless it includes only names that are no namespace names: these are    *)
(* dropped and nothing is left to include.                                 *)
(***************************************************************************)
VersionsAgree ==
    built.kind = "versions" =>
        LET kind == built.of
            alpha == AD!DefaultAlpha(kind, built.spec)
            beta == AD!DefaultBeta(kind, Converted(kind, built.spec))
        IN  /\ Effect(kind, Converted(kind, alpha)) = Effect(kind, beta)
            /\ AD!ValidateAlpha(kind, alpha) = AD!ValidateBeta(kind, beta)
            /\ AD!DefaultAlpha(kind, alpha) = alpha /\ AD!DefaultBeta(kind, beta) = beta
            /\ (kind = AD!Log /\ AD!AdmittedInAlpha(alpha)) =>
                 /\ AD!AdmittedInBeta(beta) <=> AD!OutputComplete(alpha.output)
                 /\ AD!SelectorAdmitted(beta.input.runtime.namespaces)
                 /\ LET ns == alpha.input.application.namespaces
                    IN  (ns.include # {} => ns.include \cap ValidNames # {})
                          => Chosen(Converted(kind, alpha).input.runtime.namespaces) = Documented(ns)

\* A MetricPipeline has no annotation: names that are no namespace names are lost.
Clean(input) ==
    IF input = Nil \/ input.namespaces = Nil THEN input ELSE [input EXCEPT !.namespaces = AD!Sanitized(@)]

Cleaned(kind, spec) ==
    IF kind = AD!Log THEN spec
    ELSE LET in == spec.input
         IN  [spec EXCEPT !.input = [prometheus |-> in.prometheus, istio |-> in.istio,
                                     runtime |-> Clean(in.runtime), otlp |-> Clean(in.otlp)]]

(***************************************************************************)
(* Clients of the two versions do not undo each other's writes: a client   *)
(* of v1alpha1 reads what it wrote last, even if v1beta1 cannot express    *)
(* it, and once a client of v1beta1 has changed the pipeline, a client of  *)
(* v1alpha1 that writes back what it reads leaves the effect of the change *)
(* alone (the compression of the output, unknown to v1alpha1, excepted):   *)
(* it never reads the outdated spec kept in the annotation.  One case is   *)
(* excepted: a pipeline created through v1beta1 with an annotation copied  *)
(* from a pipeline of the same generation is read as that pipeline.        *)
(***************************************************************************)
ConversionKeepsSpec ==
    built.kind = "history" =>
        LET kind == built.of
            Read(object) == AD!ConvertFrom(kind, object).spec
            Write(object, version) ==
                AD!Updated(kind, object, version, IF version = "alpha" THEN built.alpha ELSE built.beta, built.keep)
            KeepsAlpha(object) == Read(object) = Cleaned(kind, AD!DefaultAlpha(kind, built.alpha))
            KeepsEffect(object) ==
                Effect(kind, AD!Updated(kind, object, "alpha", Read(object), FALSE).spec) = Effect(kind, object.spec)
            first == AD!Created(kind, IF built.alphaFirst THEN "alpha" ELSE "beta",
                                IF built.alphaFirst THEN built.alpha ELSE built.beta, built.copied)
            second == Write(first, IF built.alphaFirst THEN "beta" ELSE "alpha")
        IN  /\ (built.copied = Nil \/ built.copied.generation # first.generation) => KeepsEffect(first)
            /\ KeepsEffect(second)
            /\ IF built.alphaFirst THEN KeepsAlpha(first) ELSE KeepsAlpha(second)
            /\ built.alphaFirst => second.spec = AD!DefaultBeta(kind, built.beta)

=============================================================================
