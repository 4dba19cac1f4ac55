--------------------------- MODULE FluentBitConfig --------------------------
(***************************************************************************)
(* Fluent Bit's configuration (internal/fluentbit/config): per LogPipeline *)
(* a file of input, filter and output sections, and for all of them the    *)
(* files, the environment Secret and the TLS Secret those sections refer   *)
(* to.                                                                     *)
(*                                                                         *)
(* A name is a sequence of tokens.  A section is its kind and its          *)
(* parameters, a set of <<key, value>>: Build writes them in an order that *)
(* depends only on keys and values.  A custom section is a sequence of     *)
(* lines, each a "param" with key and value, a "comment", or "bare", a     *)
(* word without a value.  A value v of the API is given (v.value), or      *)
(* taken from a key of a Secret (v.ref).                                   *)
(***************************************************************************)
EXTENDS Integers, Sequences, SequencesExt

CONSTANTS Nil, SystemNamespaces

-----------------------------------------------------------------------------
\* Custom sections (config/validation.go, builder/section_builder.go).

\* A bare line is an error to the one parser and skipped by the other.
ParseCustomSectionFails(lines) == \E i \in DOMAIN lines : lines[i].form = "bare"

parseMultiline(lines) == SelectSeq(lines, LAMBDA l : l.form = "param")

ContainsKey(params, key) == \E i \in DOMAIN params : params[i].key = key
GetByKey(params, key) == params[CHOOSE i \in DOMAIN params :
                                    /\ params[i].key = key
                                    /\ \A j \in 1 .. (i - 1) : params[j].key # key].value

Section(kind, params) == [kind |-> kind, params |-> params]

AddIfNotEmpty(key, value) == IF value = "" THEN {} ELSE {<<key, value>>}
AddIfNotEmptyOrDefault(key, value, default) == {<<key, IF value = "" THEN default ELSE value>>}
AddAll(params) == {<<params[i].key, params[i].value>> : i \in DOMAIN params}

-----------------------------------------------------------------------------
\* Input (builder/input.go).

\* "<name>.*" as a tag stands for the name and the path of the file; as a match
\* it stands for every tag with the name and a dot at its front.
TagOf(p) == p.name \o <<".", "var">>
MatchOf(p) == p.name \o <<".">>

makeLogPath(ns, pod, container) == [ns |-> ns, pod |-> pod, container |-> container]

OrAny(selector) == IF selector = Nil \/ selector.include = {} THEN {"*"} ELSE selector.include

createIncludePath(p) ==
    {makeLogPath(ns, "*", container) : ns \in OrAny(p.namespaces), container \in OrAny(p.containers)}

createExcludePath(p, collectAgentLogs) ==
    (IF collectAgentLogs THEN {} ELSE {makeLogPath("kyma-system", "telemetry-fluent-bit", "fluent-bit")})
        \cup {makeLogPath("kyma-system", pod, "collector") :
                 pod \in {"system-log-agent", "system-log-collector", "telemetry-log-agent"}}
        \cup {makeLogPath(ns, "*", "*") :
                 ns \in IF p.namespaces = Nil THEN SystemNamespaces ELSE p.namespaces.exclude}
        \cup {makeLogPath("*", "*", c) : c \in IF p.containers = Nil THEN {} ELSE p.containers.exclude}

createInputSection(p, includePath, excludePath) ==
    Section("input", {<<"name", "tail">>, <<"alias", p.name>>, <<"path", includePath>>,
                      <<"exclude_path", excludePath>>, <<"multiline.parser", "cri">>,
                      <<"tag", TagOf(p)>>, <<"db", p.name>>, <<"storage.type", "filesystem">>})

-----------------------------------------------------------------------------
\* Filters (builder/custom_filter.go, kubernetes_filter.go, sections_config_builder.go).

isMultilineFilter(params) == ContainsKey(params, "name") /\ GetByKey(params, "name") = "multiline"

\* Mutant: filters keep the place they have in the list.
createCustomFiltersInPlace(p, multiline) ==
    IF multiline THEN <<>>
    ELSE [i \in DOMAIN p.filters |->
            Section("filter", AddAll(parseMultiline(p.filters[i])) \cup {<<"match", MatchOf(p)>>})]

createCustomFilters(p, multiline) ==
    LET ofType == SelectSeq(p.filters, LAMBDA f : isMultilineFilter(parseMultiline(f)) = multiline)
    IN  [i \in DOMAIN ofType |->
            Section("filter", AddAll(parseMultiline(ofType[i])) \cup {<<"match", MatchOf(p)>>})]

createRecordModifierFilter(p, clusterName) ==
    <<Section("filter", {<<"name", "record_modifier">>, <<"match", MatchOf(p)>>,
                         <<"record", clusterName>>})>>

OrDefault(flag, default) == IF flag = Nil THEN default ELSE flag

createKubernetesFilter(p) ==
    <<Section("filter", {<<"name", "kubernetes">>, <<"match", MatchOf(p)>>, <<"merge_log", TRUE>>,
                         <<"kube_tag_prefix", TagOf(p)>>,
                         <<"annotations", OrDefault(p.keepAnnotations, FALSE)>>,
                         <<"labels", ~OrDefault(p.dropLabels, FALSE)>>,
                         <<"keep_log", OrDefault(p.keepOriginalBody, TRUE)>>})>>

IsHTTPOutputDefined(p) == p.output.http # Nil
IsCustomOutputDefined(p) == p.output.custom # <<>>

createTimestampModifyFilter(p) ==
    IF ~IsHTTPOutputDefined(p) THEN <<>>
    ELSE <<Section("filter", {<<"name", "modify">>, <<"match", MatchOf(p)>>, <<"copy", "time @timestamp">>})>>

createLuaFilter(p) ==
    IF ~IsHTTPOutputDefined(p) THEN <<>>
    ELSE <<Section("filter", {<<"name", "lua">>, <<"match", MatchOf(p)>>,
                              <<"call", IF p.output.http.dedot THEN "dedot_and_enrich_app_name"
                                        ELSE "enrich_app_name">>})>>

-----------------------------------------------------------------------------
\* Values and the variables that carry them (builder/env_var.go, output.go).

IsValid(v) == v # Nil /\ (v.value # "" \/ v.ref # Nil)

formatEnvVarName(prefix, ref) ==
    LET plain == prefix \o <<"_">> \o ref.ns \o <<"_">> \o ref.name \o <<"_">> \o ref.key
    IN  [i \in DOMAIN plain |-> IF plain[i] \in {".", "-"} THEN "_" ELSE plain[i]]

\* A reference is resolved by Fluent Bit, from its environment.
resolveValue(v, p) ==
    IF v.value # "" THEN [given |-> v.value] ELSE [env |-> formatEnvVarName(p.name, v.ref)]

Resolved(key, v, p) == IF IsValid(v) THEN {<<key, resolveValue(v, p)>>} ELSE {}

TLSFile(p, suffix) == p.name \o <<suffix>>

generateCustomOutput(p) ==
    LET params == parseMultiline(p.output.custom)
    IN  Section("output",
                AddAll(params)
                    \cup (IF ContainsKey(params, "alias") THEN {} ELSE {<<"alias", p.name>>})
                    \cup {<<"match", MatchOf(p)>>, <<"storage.total_limit_size", "1G">>,
                          <<"retry_limit", 300>>})

generateHTTPOutput(p) ==
    LET http == p.output.http
    IN  Section("output",
                {<<"name", "http">>, <<"match", MatchOf(p)>>, <<"alias", p.name>>,
                 <<"storage.total_limit_size", "1G">>, <<"retry_limit", 300>>,
                 <<"tls", ~http.insecure>>, <<"tls.verify", ~http.skipVerify>>}
                    \cup AddIfNotEmpty("uri", http.uri)
                    \cup AddIfNotEmptyOrDefault("port", http.port, "443")
                    \cup Resolved("host", http.host, p)
                    \cup Resolved("http_passwd", http.password, p)
                    \cup Resolved("http_user", http.user, p)
                    \cup (IF IsValid(http.ca) THEN {<<"tls.ca_file", TLSFile(p, "-ca.crt")>>} ELSE {})
                    \cup (IF IsValid(http.cert) THEN {<<"tls.crt_file", TLSFile(p, "-cert.crt")>>} ELSE {})
                    \cup (IF IsValid(http.key) THEN {<<"tls.key_file", TLSFile(p, "-key.key")>>} ELSE {}))

createOutputSection(p) ==
    IF IsCustomOutputDefined(p) THEN <<generateCustomOutput(p)>>
    ELSE IF IsHTTPOutputDefined(p) THEN <<generateHTTPOutput(p)>> ELSE <<>>

PipelineMode(p) == IF p.output.http # Nil \/ p.output.custom # <<>> THEN "fluentbit" ELSE "otel"

validateCustomSectionsFails(p) ==
    \/ ParseCustomSectionFails(p.output.custom)
    \/ \E i \in DOMAIN p.filters : ParseCustomSectionFails(p.filters[i])

SectionsFail(p) == PipelineMode(p) # "fluentbit" \/ validateCustomSectionsFails(p)

buildFluentBitSectionsConfig(p, collectAgentLogs, clusterName) ==
    <<createInputSection(p, createIncludePath(p), createExcludePath(p, collectAgentLogs))>>
        \o createCustomFilters(p, TRUE)
        \o createRecordModifierFilter(p, clusterName)
        \o createKubernetesFilter(p)
        \o createTimestampModifyFilter(p)
        \o createCustomFilters(p, FALSE)
        \o createLuaFilter(p)
        \o createOutputSection(p)

-----------------------------------------------------------------------------
\* What the sections refer to (builder/secrets_config_builder.go).  secrets maps
\* the references that resolve to their data.  Entries are <<key, data>>; later
\* ones replace earlier ones, as in maps.Copy.

Missing == <<"missing">>

getSecretData(secrets, ref, targetKey) ==
    IF ref \in DOMAIN secrets THEN <<<<targetKey, secrets[ref]>>>> ELSE <<Missing>>

shouldCopySecret(v) == v # Nil /\ v.value = "" /\ v.ref # Nil

getEnvConfigSecret(secrets, p, v) ==
    IF shouldCopySecret(v) THEN getSecretData(secrets, v.ref, formatEnvVarName(p.name, v.ref)) ELSE <<>>

getFromValueOrSecret(secrets, v, targetKey) ==
    IF v.value # "" THEN <<<<targetKey, v.value>>>> ELSE getSecretData(secrets, v.ref, targetKey)

extractHTTPSecrets(secrets, p) ==
    IF p.output.http = Nil THEN <<>>
    ELSE getEnvConfigSecret(secrets, p, p.output.http.host)
             \o getEnvConfigSecret(secrets, p, p.output.http.user)
             \o getEnvConfigSecret(secrets, p, p.output.http.password)

extractVariableSecrets(secrets, p) ==
    FlattenSeq([i \in DOMAIN p.variables |->
                   IF p.variables[i].ref = Nil THEN <<>>
                   ELSE getSecretData(secrets, p.variables[i].ref, p.variables[i].name)])

buildEnvConfigSecret(secrets, pipelines) ==
    FlattenSeq([i \in DOMAIN pipelines |->
                   extractHTTPSecrets(secrets, pipelines[i]) \o extractVariableSecrets(secrets, pipelines[i])])

PipelineTLS(secrets, p) ==
    IF ~IsHTTPOutputDefined(p) THEN <<>>
    ELSE LET http == p.output.http
         IN  (IF IsValid(http.ca) THEN getFromValueOrSecret(secrets, http.ca, TLSFile(p, "-ca.crt")) ELSE <<>>)
             \o (IF IsValid(http.cert) /\ IsValid(http.key)
                 THEN getFromValueOrSecret(secrets, http.cert, TLSFile(p, "-cert.crt"))
                          \o getFromValueOrSecret(secrets, http.key, TLSFile(p, "-key.key"))
                 ELSE <<>>)

buildTLSFileConfigSecret(secrets, pipelines) ==
    FlattenSeq([i \in DOMAIN pipelines |-> PipelineTLS(secrets, pipelines[i])])

buildFluentBitFilesConfig(p) == [i \in DOMAIN p.files |-> <<p.files[i].name, p.files[i].content>>]

\* The map a sequence of entries leaves behind.
Copied(entries) ==
    [key \in {entries[i][1] : i \in DOMAIN entries} |->
        entries[CHOOSE i \in DOMAIN entries :
                  /\ entries[i][1] = key
                  /\ \A j \in (i + 1) .. Len(entries) : entries[j][1] # key][2]]

BuildFails(pipelines, secrets) ==
    \/ \E i \in DOMAIN pipelines : SectionsFail(pipelines[i])
    \/ Contains(buildEnvConfigSecret(secrets, pipelines), Missing)
    \/ Contains(buildTLSFileConfigSecret(secrets, pipelines), Missing)

Build(pipelines, secrets, collectAgentLogs, clusterName) ==
    [sections |-> Copied([i \in DOMAIN pipelines |->
                             <<pipelines[i].name,
                               buildFluentBitSectionsConfig(pipelines[i], collectAgentLogs, clusterName)>>]),
     files |-> Copied(FlattenSeq([i \in DOMAIN pipelines |-> buildFluentBitFilesConfig(pipelines[i])])),
     env |-> Copied(buildEnvConfigSecret(secrets, pipelines)),
     tls |-> Copied(buildTLSFileConfigSecret(secrets, pipelines))]

=============================================================================
