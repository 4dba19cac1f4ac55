----------------------------- MODULE MCFluentBit ----------------------------
(***************************************************************************)
(* Fluent Bit configurations of two LogPipelines, and what Fluent Bit does *)
(* with them: which files it reads, through which filters a record goes,   *)
(* to which output, with which values.                                     *)
(***************************************************************************)
EXTENDS MCResources

FB == INSTANCE FluentBitConfig

-----------------------------------------------------------------------------
\* Pipelines.

Given(v) == [value |-> v, ref |-> Nil]
RefTo(key) == [ns |-> <<"app">>, name |-> <<"backend", "-", "access">>, key |-> <<key>>]
Referenced(key) == [value |-> "", ref |-> RefTo(key)]

HTTP(host, user, password, ca, cert, key) ==
    [host |-> host, user |-> user, password |-> password, ca |-> ca, cert |-> cert, key |-> key,
     dedot |-> ca = Nil, insecure |-> FALSE, skipVerify |-> FALSE, uri |-> "", port |-> ""]

ToHTTP(http) == [http |-> http, custom |-> <<>>]
ToCustom(lines) == [http |-> Nil, custom |-> lines]

Line(key, value) == [form |-> "param", key |-> key, value |-> value]
Comment == [form |-> "comment", key |-> "", value |-> ""]
Bare == [form |-> "bare", key |-> "name", value |-> ""]

FluentBitOutputs ==
    {ToHTTP(HTTP(Given("backend"), Nil, Nil, Nil, Nil, Nil)),
     ToHTTP(HTTP(Referenced("host"), Referenced("user"), Referenced("password"), Given("ca"), Nil, Nil)),
     ToHTTP(HTTP(Referenced("host"), Nil, Nil, Referenced("ca"), Referenced("cert"), Given("key"))),
     ToCustom(<<Line("name", "stdout"), Comment>>),
     ToCustom(<<Line("alias", <<"mine">>), Line("name", "stdout")>>),
     ToCustom(<<Bare>>)}

Grep == <<Line("name", "grep"), Line("regex", "level")>>
Modify == <<Comment, Line("name", "modify"), Line("add", "team")>>
Multi == <<Line("name", "multiline"), Line("multiline.parser", "java")>>

FluentBitFilters == {<<>>, <<Multi>>, <<Grep, Multi, Modify>>, <<Modify, Grep>>, <<Grep, <<Bare>>>>}

Choice(include, exclude) == [include |-> include, exclude |-> exclude]

PickedNamespaces == {Nil, Choice({"app"}, {}), Choice({}, {"app"}), Choice({}, {}),
                     Choice({"app", "kyma-system"}, {})}
PickedContainers == {Nil, Choice({"main"}, {}), Choice({}, {"main"})}

FluentBitPipeline(name, output, filters, namespaces, containers, flag) ==
    [name |-> <<name>>, output |-> output, filters |-> filters, namespaces |-> namespaces,
     containers |-> containers, keepAnnotations |-> flag, dropLabels |-> flag,
     keepOriginalBody |-> flag, variables |-> <<[name |-> <<name, "-token">>, ref |-> RefTo("token")]>>,
     files |-> <<[name |-> name, content |-> <<"of", name>>]>>]

BuildFluentBitConfig ==
    /\ built.kind = "none"
    /\ \E output, other \in FluentBitOutputs, filters \in FluentBitFilters,
          namespaces \in PickedNamespaces, containers \in PickedContainers,
          flag \in {Nil, TRUE, FALSE}, collect, swap \in BOOLEAN,
          missing \in {"none", "user", "ca"} :
         /\ flag = Nil \/ containers = Nil
         /\ missing = "none" \/ namespaces = Nil
         /\ LET p == FluentBitPipeline("a", output, filters, namespaces, containers, flag)
                q == FluentBitPipeline("b", other, <<Grep>>, Nil, Nil, Nil)
            IN  built' = [kind |-> "fluentbit", collect |-> collect,
                          pipelines |-> IF swap THEN <<q, p>> ELSE <<p, q>>,
                          secrets |-> {"host", "user", "password", "ca", "cert", "token"} \ {missing}]

-----------------------------------------------------------------------------
\* Fluent Bit.

Secrets == [ref \in {RefTo(k) : k \in built.secrets} |-> <<"secret", ref.key>>]

FBConfig == FB!Build(built.pipelines, Secrets, built.collect, "cluster")

LogFiles == [ns : {"app", "shop"}, pod : {"web"}, container : {"main", "side"}]
                \cup {[ns |-> "kyma-system", pod |-> "telemetry-fluent-bit", container |-> "fluent-bit"],
                      [ns |-> "kyma-system", pod |-> "telemetry-log-agent", container |-> "collector"],
                      [ns |-> "kyma-system", pod |-> "system-log-agent", container |-> "collector"],
                      [ns |-> "kyma-system", pod |-> "manager", container |-> "main"]}

Values(section, key) == {x[2] : x \in {y \in section.params : y[1] = key}}
Value(section, key) == CHOOSE v \in Values(section, key) : TRUE

OfKind(sections, kind) == SelectSeq(sections, LAMBDA s : s.kind = kind)

TailsFile(input, file) ==
    /\ \E path \in Value(input, "path") : PathMatches(path, file)
    /\ \A path \in Value(input, "exclude_path") : ~PathMatches(path, file)

MatchesTag(section, tag) == IsPrefix(Value(section, "match"), tag)

\* The filters and outputs of all files that a record with this tag meets.
Meets(config, tag, kind) ==
    FlattenSeq([i \in DOMAIN built.pipelines |->
        SelectSeq(OfKind(config.sections[built.pipelines[i].name], kind),
                  LAMBDA s : MatchesTag(s, tag))])

-----------------------------------------------------------------------------
\* What the user asked for.

Picks(selector, value) ==
    \/ selector = Nil
    \/ /\ selector.include = {} \/ value \in selector.include
       /\ value \notin selector.exclude

OwnLogs(file) == file.pod = "telemetry-fluent-bit"
OtherAgentLogs(file) == file.pod \in {"telemetry-log-agent", "system-log-agent"}

Wants(p, file) ==
    /\ IF p.namespaces = Nil THEN file.ns \notin SystemNamespaces ELSE Picks(p.namespaces, file.ns)
    /\ Picks(p.containers, file.container)
    /\ ~OtherAgentLogs(file)
    /\ OwnLogs(file) => built.collect

FilterName(lines) == FB!GetByKey(FB!parseMultiline(lines), "name")

\* Multiline filters join lines and have to see them before anything else does;
\* the user's other filters see the record with its Kubernetes metadata, and the
\* application name is added last.
WantedFilters(p) ==
    LET names == [i \in DOMAIN p.filters |-> FilterName(p.filters[i])]
        http == p.output.http # Nil
    IN  SelectSeq(names, LAMBDA n : n = "multiline")
            \o <<"record_modifier", "kubernetes">>
            \o (IF http THEN <<"modify">> ELSE <<>>)
            \o SelectSeq(names, LAMBDA n : n # "multiline")
            \o (IF http THEN <<"lua">> ELSE <<>>)

\* The data behind value v.
DataOf(v) == IF v.value # "" THEN v.value ELSE Secrets[v.ref]

\* The output's parameter carries v, directly or through the environment.
Carries(config, section, key, v) ==
    IF v = Nil THEN Values(section, key) = {}
    ELSE LET given == Value(section, key)
         IN  IF v.value # "" THEN given = [given |-> v.value]
             ELSE given.env \in DOMAIN config.env /\ config.env[given.env] = DataOf(v)

CarriesFile(config, section, key, v) ==
    IF v = Nil THEN Values(section, key) = {}
    ELSE LET file == Value(section, key)
         IN  file \in DOMAIN config.tls /\ config.tls[file] = DataOf(v)

OutputIsComplete(config, p, section) ==
    IF p.output.http = Nil THEN TRUE
    ELSE LET http == p.output.http
         IN  /\ Carries(config, section, "host", http.host)
             /\ Carries(config, section, "http_user", http.user)
             /\ Carries(config, section, "http_passwd", http.password)
             /\ CarriesFile(config, section, "tls.ca_file", http.ca)
             /\ CarriesFile(config, section, "tls.crt_file", http.cert)
             /\ CarriesFile(config, section, "tls.key_file", http.key)

\* The self-monitor attributes the metrics of a section to the pipeline by alias;
\* a custom output may bring its own.
Attributed(p, section) ==
    Value(section, "alias") = p.name \/ FB!ContainsKey(p.output.custom, "alias")

\* Every LogPipeline gets the container logs it selects, and no others: Fluent Bit
\* reads exactly the selected files for it, passes their records through its own
\* filters in the order multiline, metadata, custom, enrichment, and hands them to
\* its output and to no other pipeline's; all values, variables and files the
\* sections refer to are there with the data of the right reference, whatever the
\* other pipeline contains and in whatever order the pipelines are listed.
FluentBitDeliversSelection ==
    (built.kind = "fluentbit" /\ ~FB!BuildFails(built.pipelines, Secrets)) =>
        LET config == FBConfig
        IN  \A i \in DOMAIN built.pipelines :
              LET p == built.pipelines[i]
                  inputs == OfKind(config.sections[p.name], "input")
                  tag == Value(inputs[1], "tag")
                  filters == Meets(config, tag, "filter")
                  outputs == Meets(config, tag, "output")
              IN  /\ Len(inputs) = 1
                  /\ \A f \in LogFiles : TailsFile(inputs[1], f) <=> Wants(p, f)
                  /\ [k \in DOMAIN filters |-> Value(filters[k], "name")] = WantedFilters(p)
                  /\ \A k \in DOMAIN filters : Value(filters[k], "name") = "kubernetes" =>
                        /\ Value(filters[k], "annotations") = (p.keepAnnotations = TRUE)
                        /\ Value(filters[k], "labels") = (p.dropLabels # TRUE)
                        /\ Value(filters[k], "keep_log") = (p.keepOriginalBody # FALSE)
                        /\ Value(filters[k], "kube_tag_prefix") = tag
                  /\ Len(outputs) = 1
                  /\ outputs = OfKind(config.sections[p.name], "output")
                  /\ OutputIsComplete(config, p, outputs[1])
                  /\ Attributed(p, outputs[1]) /\ Value(inputs[1], "alias") = p.name
                  /\ \A v \in ToSet(p.variables) : config.env[v.name] = Secrets[v.ref]
                  /\ \A f \in ToSet(p.files) : config.files[f.name] = f.content

=============================================================================
