-------------------------- MODULE LogAgentConfig ---------------------------
(***************************************************************************)
(* The log agent's collector configuration                                 *)
(* (internal/otelcollector/config/logagent): which container log files     *)
(* each LogPipeline tails, the operators that turn a line into a log       *)
(* record, and the service pipeline per LogPipeline.                       *)
(*                                                                         *)
(* A log file belongs to a container of a Pod in a namespace; a path       *)
(* pattern names the three, "*" matching any.  A record is its body, its   *)
(* attributes, and what was parsed out of them.                            *)
(***************************************************************************)
EXTENDS CollectorConfig

-----------------------------------------------------------------------------
\* The files a pipeline tails.  p.runtime.namespaces is Nil or a selector,
\* p.runtime.containers likewise.

makePath(ns, pod, container) == [ns |-> ns, pod |-> pod, container |-> container]

PathMatches(path, file) == \A f \in DOMAIN path : path[f] \in {"*", file[f]}

Selected(selector, side) == IF selector = Nil THEN {} ELSE selector[side]

OrAny(set) == IF set = {} THEN {"*"} ELSE set

createIncludePath(runtime) ==
    {makePath(ns, "*", container) : ns \in OrAny(Selected(runtime.namespaces, "include")),
                                    container \in OrAny(Selected(runtime.containers, "include"))}

AgentPaths == {makePath("kyma-system", "telemetry-fluent-bit", "fluent-bit"),
               makePath("kyma-system", "telemetry-log-agent", "collector")}
SystemAgentPaths == {makePath("kyma-system", "system-log-agent", "collector"),
                     makePath("kyma-system", "system-log-collector", "collector")}


createExcludePath(runtime, collectAgentLogs) ==
    (IF collectAgentLogs THEN {} ELSE AgentPaths)
        \cup SystemAgentPaths
        \cup {makePath(ns, "*", "*") : ns \in IF runtime.namespaces = Nil THEN SystemNamespaces
                                              ELSE runtime.namespaces.exclude}
        \cup {makePath("*", "*", c) : c \in Selected(runtime.containers, "exclude")}

-----------------------------------------------------------------------------
\* Operators.  Each passes the record to its output, by default the operator
\* after it; if is what the record's attributes must hold for it to act.  A route is
\* taken by a record that has the attribute and, where matches is set, a value of the
\* route's pattern.

Operator(id, type, if) ==
    [id |-> id, type |-> type, if |-> if, from |-> "", to |-> "", output |-> "", routes |-> <<>>]

MoveOp(id, from, to, if) == [Operator(id, "move", if) EXCEPT !.from = from, !.to = to]
RemoveOp(id, from, if) == [Operator(id, "remove", if) EXCEPT !.from = from]

RouteTo(attribute, matches, output) == [attribute |-> attribute, matches |-> matches, output |-> output]
RouterOp(id, routes) == [Operator(id, "router", {}) EXCEPT !.routes = routes, !.output = "noop"]

makeContainerParser == Operator("containerd-parser", "container", {})
makeMoveToLogStream == MoveOp("move-to-log-stream", "stream", "log.iostream", {"stream"})
makeDropAttributeLogTag == RemoveOp("drop-attribute-log-tag", "logtag", {})
makeBodyRouter == RouterOp("body-router", <<RouteTo("body", TRUE, "json-parser")>>)
makeJSONParser == Operator("json-parser", "json_parser", {})
makeMoveBodyToLogOriginal == MoveOp("move-body-to-attributes-log-original", "body", "log.original", {})
makeRemoveBody == RemoveOp("remove-body", "body", {})
makeMoveMessageToBody == MoveOp("move-message-to-body", "message", "body", {"message"})
makeMoveMsgToBody == MoveOp("move-msg-to-body", "msg", "body", {"msg"})

makeSeverityParserFromLevel ==
    [Operator("parse-level", "severity_parser", {"level"}) EXCEPT !.from = "level"]
makeRemoveLevel == RemoveOp("remove-level", "level", {"level"})
makeSeverityParserFromLogLevel ==
    [Operator("parse-log-level", "severity_parser", {"log.level"}) EXCEPT !.from = "log.level"]
makeRemoveLogLevel == RemoveOp("remove-log-level", "log.level", {"log.level"})

makeTraceRouter ==
    RouterOp("trace-router", <<RouteTo("trace_id", FALSE, "trace-parser"),
                               RouteTo("traceparent", TRUE, "trace-parent-parser")>>)
makeTraceParser ==
    [Operator("trace-parser", "trace_parser", {}) EXCEPT !.from = "trace_id", !.output = "remove-trace-id"]
makeTraceParentParser ==
    [Operator("trace-parent-parser", "regex_parser", {})
        EXCEPT !.from = "traceparent", !.output = "remove-trace-parent"]
makeRemoveTraceParent == RemoveOp("remove-trace-parent", "traceparent", {})
makeRemoveTraceID == RemoveOp("remove-trace-id", "trace_id", {"trace_id"})
makeRemoveSpanID == RemoveOp("remove-span-id", "span_id", {"span_id"})
makeRemoveTraceFlags == RemoveOp("remove-trace-flags", "trace_flags", {"trace_flags"})
makeNoop == Operator("noop", "noop", {})

makeOperators(p) ==
    <<makeContainerParser, makeMoveToLogStream, makeDropAttributeLogTag, makeBodyRouter, makeJSONParser>>
    \o <<IF p.runtime.keepOriginalBody THEN makeMoveBodyToLogOriginal ELSE makeRemoveBody>>
    \o <<makeMoveMessageToBody, makeMoveMsgToBody, makeSeverityParserFromLevel, makeRemoveLevel,
         makeSeverityParserFromLogLevel, makeRemoveLogLevel, makeTraceRouter, makeTraceParentParser,
         makeTraceParser, makeRemoveTraceParent, makeRemoveTraceID, makeRemoveSpanID,
         makeRemoveTraceFlags, makeNoop>>

fileLogReceiver(p, collectAgentLogs) ==
    [kind |-> "filelog", storage |-> "file_storage",
     include |-> createIncludePath(p.runtime),
     exclude |-> createExcludePath(p.runtime, collectAgentLogs),
     operators |-> makeOperators(p)]

\* Whether the receiver tails a file (the receiver is not part of src/).
Tails(receiver, file) ==
    /\ \E path \in receiver.include : PathMatches(path, file)
    /\ ~\E path \in receiver.exclude : PathMatches(path, file)

-----------------------------------------------------------------------------
\* What the operators do with a record (they are not part of src/).  A line is plain
\* text, text that begins with { and ends with } and is no JSON (braced), or JSON with
\* these fields, of which those in malformed are no trace context.  fields maps the
\* body and the attributes to what they hold of the line; parsed is what became the
\* severity or the trace context.  A parser that fails passes the record on.

LogLine(class, fields, malformed) == [class |-> class, fields |-> fields, malformed |-> malformed]

Content(line) == IF line.class = "json" THEN line.fields ELSE {"text"}

NewRecord(line) ==
    [line |-> line, parsed |-> {},
     fields |-> [body |-> Content(line), stream |-> {"stream"}, logtag |-> {}]]

\* The pattern of the body is ^{.*}$, that of traceparent the one of its parser.
ValueMatches(line, attribute) ==
    IF attribute = "body" THEN line.class # "plain" ELSE attribute \notin line.malformed

Holds(record, route) ==
    /\ route.attribute \in DOMAIN record.fields
    /\ route.matches => ValueMatches(record.line, route.attribute)

Without(fields, name) == [f \in DOMAIN fields \ {name} |-> fields[f]]

TraceFields == {"trace_id", "span_id", "trace_flags"}

Act(op, record) ==
    IF ~(op.if \subseteq DOMAIN record.fields) THEN record
    ELSE CASE op.type = "move" /\ op.from \in DOMAIN record.fields ->
                 [record EXCEPT !.fields = (op.to :> @[op.from]) @@ Without(@, op.from)]
           [] op.type = "remove" -> [record EXCEPT !.fields = Without(@, op.from)]
           [] op.type = "json_parser" ->
                 [record EXCEPT !.fields = [f \in record.line.fields |-> {f}] @@ @]
           [] op.type = "severity_parser" -> [record EXCEPT !.parsed = @ \cup {op.from}]
           [] op.type = "trace_parser" ->
                 [record EXCEPT !.parsed = @ \cup (TraceFields \ record.line.malformed)]
           [] op.type = "regex_parser" ->
                 [record EXCEPT !.parsed = @ \cup {op.from},
                                !.fields = [f \in TraceFields |-> {op.from}] @@ @]
           [] OTHER -> record

\* The position an operator hands the record to; 0 where a router drops it.
NextOperator(ops, i, record) ==
    LET named(id) == CHOOSE j \in DOMAIN ops : ops[j].id = id
        hits == {r \in DOMAIN ops[i].routes : Holds(record, ops[i].routes[r])}
    IN  CASE ops[i].type = "router" /\ hits # {} ->
                named(ops[i].routes[CHOOSE r \in hits : \A s \in hits : r <= s].output)
          [] ops[i].output # "" /\ hits = {} -> named(ops[i].output)
          [] ops[i].output = "" /\ hits = {} -> IF ops[i].type = "router" THEN 0 ELSE i + 1

RECURSIVE RunOperators(_, _, _)
RunOperators(ops, i, record) ==
    IF i > Len(ops) THEN record
    ELSE IF i = 0 THEN [record EXCEPT !.fields = NoComponents, !.parsed = {}]
    ELSE LET acted == Act(ops[i], record) IN RunOperators(ops, NextOperator(ops, i, acted), acted)

-----------------------------------------------------------------------------
formatFileLogReceiverID(p) == <<"file_log", "/">> \o p.name

LogAgentProcessors(p, opts) ==
    LET log(name, statements) == Proc(name, TransformProcessor("logs", statements))
        otel(name, statements) == Proc(name, OnlyOTel(opts, TransformProcessor("logs", statements)))
    IN  <<Proc("memory_limiter", Opaque("memory_limiter", "80%")),
          log("transform/set-instrumentation-scope-runtime", <<Set("scope", "runtime", Always)>>),
          otel("transform/drop-unknown-service-name", DropUnknownServiceNameProcessorStatements),
          Proc("k8s_attributes", K8sAttributesProcessor(opts)),
          otel("transform/restore-otel-service-attrs", RestoreOtelServiceAnnotationsProcessorStatements),
          log("transform/insert-cluster-attributes", InsertClusterAttributesProcessorStatements),
          Proc("service_enrichment", OnlyKyma(opts, ResolveServiceName)),
          log("transform/drop-kyma-attributes", DropKymaAttributesProcessorStatements),
          Component("processor", ComponentIDUserDefinedTransformProcessor(p), UserDefinedTransform(p, "logs")),
          Component("processor", ComponentIDUserDefinedFilterProcessor(p), UserDefinedFilter(p, "logs"))>>

exporterQueueSize == 200000000

BuildLogAgent(listed, opts) ==
    LET storage == AddExtension(NewConfig, Static("file_storage"), [kind |-> "storage"], NoComponents)
    IN  FoldLeft(LAMBDA c, p :
                    AddServicePipeline(addOAuth2Extension(c, p), <<"logs", "/">> \o p.name,
                        <<Component("receiver", formatFileLogReceiverID(p),
                                    fileLogReceiver(p, opts.collectAgentLogs))>>
                        \o LogAgentProcessors(p, opts)
                        \o <<OTLPExporter(p, exporterQueueSize)>>),
                 storage, SortedByName(listed))

=============================================================================
