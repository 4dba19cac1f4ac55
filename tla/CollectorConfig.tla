-------------------------- MODULE CollectorConfig --------------------------
(***************************************************************************)
(* The configuration of an OpenTelemetry Collector as                      *)
(* internal/otelcollector/config/common builds it, and what a collector    *)
(* running it does with one datum.                                         *)
(*                                                                         *)
(* A configuration is built by folding a sequence of component additions   *)
(* over a service pipeline.  Receivers, processors and extensions keep the *)
(* FIRST configuration stored under a component ID, exporters the last     *)
(* one: a component shared by several service pipelines has one            *)
(* configuration, whatever each of its users asked for.                    *)
(*                                                                         *)
(* Component IDs and environment variables are sequences of tokens, so     *)
(* that two names which the code formats alike are equal here too.  A      *)
(* filter is a set of conditions, a condition restricts some fields of a   *)
(* datum; a transformation is a sequence of attribute assignments.         *)
(***************************************************************************)
EXTENDS Common, Naturals, Sequences, SequencesExt, FiniteSets, TLC

Signals == {"logs", "metrics", "traces"}
Inputs == {"none", "otlp", "kyma", "runtime", "prometheus", "istio"}

-----------------------------------------------------------------------------
\* The component builder.

NoComponents == [id \in {} |-> Nil]

defaultExtensions == <<<<"health_check">>, <<"pprof">>, <<"cgroup_runtime">>>>

NewConfig ==
    [receivers |-> NoComponents, processors |-> NoComponents,
     exporters |-> NoComponents, connectors |-> NoComponents,
     extensions |-> [id \in ToSet(defaultExtensions) |-> [kind |-> "default"]],
     service |-> defaultExtensions,
     pipelines |-> [pid \in {} |-> Nil],
     env |-> [key \in {} |-> Nil],
     failed |-> FALSE]

isConnector(id) == Head(id) \in {"routing", "forward"}

Component(add, id, config) ==
    [add |-> add, id |-> id, config |-> config, env |-> NoComponents, failed |-> FALSE]

\* Both maps are written: the value of the left operand wins.
KeepFirst(table, id, config) == table @@ (id :> config)
Overwrite(table, id, config) == (id :> config) @@ table

AddReceiver(c, pid, x) ==
    LET stored == IF isConnector(x.id)
                  THEN [c EXCEPT !.connectors = KeepFirst(@, x.id, x.config)]
                  ELSE [c EXCEPT !.receivers = KeepFirst(@, x.id, x.config)]
    IN  [stored EXCEPT !.pipelines[pid].receivers = Append(@, x.id)]

AddProcessor(c, pid, x) ==
    [c EXCEPT !.processors = KeepFirst(@, x.id, x.config),
              !.pipelines[pid].processors = Append(@, x.id)]

AddExporter(c, pid, x) ==
    LET stored == IF isConnector(x.id)
                  THEN [c EXCEPT !.connectors = Overwrite(@, x.id, x.config)]
                  ELSE [c EXCEPT !.exporters = Overwrite(@, x.id, x.config)]
    IN  [stored EXCEPT !.env = x.env @@ @,
                       !.pipelines[pid].exporters = Append(@, x.id)]

AddComponent(c, pid, x) ==
    IF x.failed THEN [c EXCEPT !.failed = TRUE]
    ELSE IF x.config = Nil THEN c
    ELSE CASE x.add = "receiver" -> AddReceiver(c, pid, x)
           [] x.add = "processor" -> AddProcessor(c, pid, x)
           [] x.add = "exporter" -> AddExporter(c, pid, x)

\* The components are added in order, up to the first that fails.
RECURSIVE AddComponents(_, _, _)
AddComponents(c, pid, components) ==
    IF c.failed \/ components = <<>> THEN c
    ELSE AddComponents(AddComponent(c, pid, Head(components)), pid, Tail(components))

AddServicePipeline(c, pid, components) ==
    AddComponents([c EXCEPT !.pipelines =
                     (pid :> [receivers |-> <<>>, processors |-> <<>>, exporters |-> <<>>]) @@ @],
                  pid, components)

\* Mutant: the extension is defined but the service does not enable it.
AddExtensionDisabled(c, id, config, env) ==
    [c EXCEPT !.extensions = KeepFirst(@, id, config), !.env = env @@ @]

AddExtension(c, id, config, env) ==
    IF c.failed THEN c
    ELSE [c EXCEPT !.extensions = KeepFirst(@, id, config),
                   !.env = env @@ @,
                   !.service = IF id \in ToSet(@) THEN @ ELSE Append(@, id)]

-----------------------------------------------------------------------------
\* Component IDs that carry a pipeline, and the constructors of processors.
\* A pipeline p has p.type ("tracepipeline", ...) and p.name, a token sequence.

QualifiedName(p) == <<p.type, "-">> \o p.name

ComponentIDOTLPExporter(p) ==
    <<IF p.output.protocol = "http" THEN "otlp_http" ELSE "otlp_grpc", "/">> \o QualifiedName(p)

ComponentIDOAuth2Extension(p) == <<"oauth2client", "/">> \o QualifiedName(p)

ComponentIDUserDefinedFilterProcessor(p) ==
    <<"filter", "/", p.type, "-user-defined-">> \o p.name

ComponentIDUserDefinedTransformProcessor(p) ==
    <<"transform", "/", p.type, "-user-defined-">> \o p.name

ComponentIDNamespaceFilterProcessor(p) ==
    <<"filter", "/">> \o p.name \o <<"-filter-by-namespace">>

ComponentIDNamespacePerInputFilterProcessor(p, input) ==
    <<"filter", "/">> \o p.name \o <<"-filter-by-namespace-", input, "-input">>

Static(name) == <<name>>

Recv(name, config) == Component("receiver", Static(name), config)
Proc(name, config) == Component("processor", Static(name), config)

FilterProcessor(signal, conditions) ==
    [kind |-> "filter", on |-> [s \in Signals |-> IF s = signal THEN conditions ELSE {}]]

TransformProcessor(signal, statements) ==
    [kind |-> "transform", on |-> [s \in Signals |-> IF s = signal THEN statements ELSE <<>>]]

AllSignalsTransformProcessor(statements) ==
    [kind |-> "transform", on |-> [s \in Signals |-> statements]]

Opaque(kind, detail) == [kind |-> kind, detail |-> detail]

\* Assignment of an attribute of the datum where it satisfies a condition.
Set(attr, value, where) == [attr |-> attr, value |-> value, where |-> where]
Always == [f \in {} |-> {}]

KymaInputNameProcessorStatements(input) == <<Set("input", input, Always)>>

\* Mutant: of the manager's attributes only the input is deleted.
DropInputAttributeStatements == <<Set("input", "none", Always)>>

DropKymaAttributesProcessorStatements == <<Set("input", "none", Always), Set("kyma", FALSE, Always)>>

InsertClusterAttributesProcessorStatements == <<Set("cluster", TRUE, Always)>>
DropUnknownServiceNameProcessorStatements == <<Set("service", "none", [service |-> {"unknown"}])>>
RestoreOtelServiceAnnotationsProcessorStatements ==
    <<Set("service", "annotation", [annotated |-> {TRUE}, kyma |-> {TRUE}]),
      Set("kyma", FALSE, Always)>>
InstrumentationScopeProcessor(input) == 
    TransformProcessor("metrics", <<Set("scope", input, [scope |-> {"receiver"}])>>)

\* The Pod's labels (or, with OTel enrichment, its annotations) become
\* temporary kyma.* attributes; OTel enrichment also derives the service.
K8sAttributesProcessor(opts) ==
    AllSignalsTransformProcessor(
        <<Set("kyma", TRUE, Always)>>
            \o (IF opts.otel THEN <<Set("service", "derived", [service |-> {"none"}])>> ELSE <<>>))

\* Kyma's enrichment reads the service from those attributes, else falls back.
ResolveServiceName ==
    AllSignalsTransformProcessor(
        <<Set("service", "derived", [service |-> {"none", "unknown"}, kyma |-> {TRUE}]),
          Set("service", "fallback", [service |-> {"none", "unknown"}])>>)

OnlyOTel(opts, config) == IF opts.otel THEN config ELSE Nil
OnlyKyma(opts, config) == IF opts.otel THEN Nil ELSE config

TransformSpecsToProcessorStatements(p) == <<Set("user", p.name, Always)>>
UserDefinedTransform(p, signal) ==
    IF p.transforms THEN TransformProcessor(signal, TransformSpecsToProcessorStatements(p)) ELSE Nil
UserDefinedFilter(p, signal) ==
    IF p.filter = {} THEN Nil ELSE FilterProcessor(signal, {[metric |-> p.filter]})

\* Drop what comes from an excluded namespace, and what comes from a known
\* namespace that is not included; a datum without a namespace is kept.
filterByNamespace(selector, where, AllNamespaces) ==
    (IF selector.exclude = {} THEN {} ELSE {where @@ [ns |-> selector.exclude]})
        \cup (IF selector.include = {} THEN {}
              ELSE {where @@ [ns |-> AllNamespaces \ selector.include]})

shouldFilterByNamespace(selector) == selector.exclude # {} \/ selector.include # {}

-----------------------------------------------------------------------------
\* Environment variables, the OTLP exporter and the OAuth2 extension.

\* Names have one case here: those of pipelines are lower case, and so is their
\* type; names of headers that differ in case only are not told apart.
sanitizeEnvVarName(name) ==
    [i \in DOMAIN name |-> IF name[i] \in {".", "-"} THEN "_" ELSE name[i]]

formatEnvVarKey(prefix, p) == <<prefix, "_", p.type, "_">> \o sanitizeEnvVarName(p.name)

formatHeaderEnvVarKey(header, p) ==
    formatEnvVarKey("HEADER", p) \o <<"_">> \o sanitizeEnvVarName(header)

\* The variables one output needs.
makeBasicAuthEnvVar(p) ==
    IF p.output.auth = "basic" THEN {formatEnvVarKey("BASIC_AUTH_HEADER", p)} ELSE {}
makeOTLPEndpointEnvVar(p) == {formatEnvVarKey("OTLP_ENDPOINT", p)}
makeHeaderEnvVar(p) == {formatHeaderEnvVarKey(h, p) : h \in p.output.headers}
makeTLSEnvVar(p) ==
    (IF p.output.ca THEN {formatEnvVarKey("OTLP_TLS_CA_PEM", p)} ELSE {})
        \cup (IF p.output.cert /\ p.output.key
              THEN {formatEnvVarKey(x, p) : x \in {"OTLP_TLS_CERT_PEM", "OTLP_TLS_KEY_PEM"}} ELSE {})

makeOTLPExporterEnvVars(p) ==
    [k \in makeBasicAuthEnvVar(p) \cup makeOTLPEndpointEnvVar(p) \cup makeHeaderEnvVar(p)
             \cup makeTLSEnvVar(p) |-> QualifiedName(p)]

\* Token URL, client ID and client secret.
OAuth2Keys(p) ==
    {formatEnvVarKey(x, p) : x \in {"OAUTH2_TOKEN_URL", "OAUTH2_CLIENT_ID", "OAUTH2_CLIENT_SECRET"}}

makeOAuth2ExtensionEnvVars(p) == [k \in OAuth2Keys(p) |-> QualifiedName(p)]

oauth2Extension(p) == [kind |-> "oauth2", uses |-> DOMAIN makeOAuth2ExtensionEnvVars(p)]

tls(p) ==
    (IF p.output.ca THEN {formatEnvVarKey("OTLP_TLS_CA_PEM", p)} ELSE {})
        \cup (IF p.output.cert THEN {formatEnvVarKey("OTLP_TLS_CERT_PEM", p)} ELSE {})
        \cup (IF p.output.key THEN {formatEnvVarKey("OTLP_TLS_KEY_PEM", p)} ELSE {})

headers(p) ==
    (IF p.output.auth = "basic" THEN {formatEnvVarKey("BASIC_AUTH_HEADER", p)} ELSE {})
        \cup {formatHeaderEnvVarKey(h, p) : h \in p.output.headers}

NewSendingQueue(size) == [enabled |-> size # 0, size |-> size]

otlpExporter(p, queueSize) ==
    [kind |-> "otlp", of |-> QualifiedName(p),
     endpoint |-> IF p.output.path THEN p.type ELSE "all",
     uses |-> {formatEnvVarKey("OTLP_ENDPOINT", p)} \cup headers(p) \cup tls(p),
     auth |-> IF p.output.auth = "oauth2" THEN ComponentIDOAuth2Extension(p) ELSE Nil,
     queue |-> NewSendingQueue(queueSize)]

OTLPExporter(p, queueSize) ==
    [add |-> "exporter", id |-> ComponentIDOTLPExporter(p),
     config |-> otlpExporter(p, queueSize),
     env |-> makeOTLPExporterEnvVars(p), failed |-> ~p.resolvable]

BatchingMaxQueueSize == 256

\* The extension of a pipeline with OAuth2; secrets that cannot be resolved
\* end the build.
addOAuth2Extension(c, p) ==
    CASE p.output.auth # "oauth2" -> c
      [] p.output.auth = "oauth2" /\ ~p.resolvable -> [c EXCEPT !.failed = TRUE]
      [] OTHER -> AddExtension(c, ComponentIDOAuth2Extension(p), oauth2Extension(p),
                               makeOAuth2ExtensionEnvVars(p))

\* Mutant: the pipelines in the order in which the API server lists them.
AsListed(ps) == ps

\* Pipelines are sorted by name before anything is built from them.
SortedByName(ps) == SortSeq(ps, LAMBDA a, b : a.rank < b.rank)

-----------------------------------------------------------------------------
\* What a collector does with a datum (the collector is not part of src/).

Matches(condition, d) == \A f \in DOMAIN condition : d[f] \in condition[f]

ApplyStatements(statements, d) ==
    FoldLeft(LAMBDA acc, s : IF Matches(s.where, acc) THEN [acc EXCEPT ![s.attr] = s.value] ELSE acc,
             d, statements)

ApplyProcessor(p, d) ==
    CASE p.kind = "filter" ->
            IF \E cond \in p.on[d.signal] : Matches(cond, d)
            THEN [d EXCEPT !.live = FALSE] ELSE d
      [] p.kind = "transform" -> ApplyStatements(p.on[d.signal], d)
      [] OTHER -> d

RECURSIVE ProcessBy(_, _, _)
ProcessBy(c, ids, d) ==
    IF ~d.live \/ ids = <<>> THEN d
    ELSE ProcessBy(c, Tail(ids), ApplyProcessor(c.processors[Head(ids)], d))

Process(c, pid, d) == ProcessBy(c, c.pipelines[pid].processors, d)

\* A forward connector feeds every service pipeline that receives from it, a
\* routing connector those of the first entry that matches.
Route(c, id, d) ==
    LET conn == c.connectors[id]
        hits == {i \in DOMAIN conn.table : Matches(conn.table[i].where, d)}
    IN  IF conn.kind = "forward"
        THEN {pid \in DOMAIN c.pipelines : id \in ToSet(c.pipelines[pid].receivers)}
        ELSE ToSet(IF hits = {} THEN conn.default
                   ELSE conn.table[CHOOSE i \in hits : \A j \in hits : i <= j].pipelines)

\* The exporters a datum reaches that has come along path, a sequence of
\* service pipelines: each with the datum as it arrives and the way it took.
RECURSIVE Reached(_, _, _)
Reached(c, path, d) ==
    LET out == Process(c, Last(path), d)
        exporters == ToSet(c.pipelines[Last(path)].exporters)
    IN  IF ~out.live THEN {}
        ELSE {[exporter |-> id, datum |-> out, path |-> path] :
                id \in {x \in exporters : ~isConnector(x)}}
             \cup UNION {UNION {Reached(c, Append(path, next), out) : next \in Route(c, id, out)} :
                           id \in {x \in exporters : isConnector(x)}}

\* Where a datum goes that is emitted by receiver r.  The ID of a service
\* pipeline starts with the signal it carries.
ReachedFrom(c, r, d) ==
    UNION {Reached(c, <<pid>>, d) :
             pid \in {x \in DOMAIN c.pipelines :
                        Head(x) = d.signal /\ r \in ToSet(c.pipelines[x].receivers)}}

-----------------------------------------------------------------------------
\* A collector starts only with a configuration in which everything that is
\* named is also there.

UsesDefined(c) ==
    \A pid \in DOMAIN c.pipelines :
        LET sp == c.pipelines[pid] IN
        /\ \A id \in ToSet(sp.receivers) :
             id \in DOMAIN (IF isConnector(id) THEN c.connectors ELSE c.receivers)
        /\ ToSet(sp.processors) \subseteq DOMAIN c.processors
        /\ \A id \in ToSet(sp.exporters) :
             id \in DOMAIN (IF isConnector(id) THEN c.connectors ELSE c.exporters)
        /\ sp.receivers # <<>> /\ sp.exporters # <<>>

\* Each connector has a service pipeline on both sides, and a routing connector
\* names only service pipelines that receive from it.
ConnectorsWired(c) ==
    \A id \in DOMAIN c.connectors :
        /\ \E pid \in DOMAIN c.pipelines : id \in ToSet(c.pipelines[pid].exporters)
        /\ \E pid \in DOMAIN c.pipelines : id \in ToSet(c.pipelines[pid].receivers)
        /\ c.connectors[id].kind = "routing" =>
             \A pid \in ToSet(c.connectors[id].default)
                        \cup UNION {ToSet(c.connectors[id].table[i].pipelines) :
                                      i \in DOMAIN c.connectors[id].table} :
                /\ pid \in DOMAIN c.pipelines
                /\ id \in ToSet(c.pipelines[pid].receivers)

\* The variables an exporter or extension uses are in the Secret, and the
\* authenticator of an exporter is an extension the service enables.
ReferencesResolved(c) ==
    /\ \A id \in DOMAIN c.exporters :
         /\ c.exporters[id].uses \subseteq DOMAIN c.env
         /\ \A key \in c.exporters[id].uses : c.env[key] = c.exporters[id].of
         /\ c.exporters[id].auth # Nil =>
              /\ c.exporters[id].auth \in DOMAIN c.extensions
              /\ c.exporters[id].auth \in ToSet(c.service)
              /\ c.extensions[c.exporters[id].auth].uses \subseteq DOMAIN c.env
    /\ DOMAIN c.extensions = ToSet(c.service)

Startable(c) == UsesDefined(c) /\ ConnectorsWired(c) /\ ReferencesResolved(c)

=============================================================================
