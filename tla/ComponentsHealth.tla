-------------------------- MODULE ComponentsHealth --------------------------
(***************************************************************************)
(* How the status of the Telemetry resource follows from the conditions of *)
(* the pipelines (internal/reconciler/telemetry: the three component       *)
(* checkers and updateOverallState).  A pipeline's status is a set of      *)
(* conditions with distinct types; a condition of the Telemetry resource   *)
(* has a status and a reason.  Messages are wording and left out.          *)
(***************************************************************************)
EXTENDS Naturals, Sequences

Condition(status, reason) == [status |-> status, reason |-> reason]

AboutToExpire == "TLSCertificateAboutToExpire"

\* condTypes: the order is the priority of negative conditions.
condTypes == <<"ConfigurationGenerated", "GatewayHealthy", "AgentHealthy", "FlowHealthy">>

\* The conditions of one type, of any of the pipelines.
OfType(statuses, type) == {c \in UNION statuses : c.type = type}

checkForResourceBlocksDeletionCondition(statuses, inDeletion) ==
    IF inDeletion /\ statuses # {}
    THEN {Condition("False", "ResourceBlocksDeletion")} ELSE {}

checkForNoPipelineDeployedCondition(statuses) ==
    IF statuses = {} THEN {Condition("True", "NoPipelineDeployed")} ELSE {}

\* Of the pipelines with a negative condition of the first such type, the list
\* decides; its order is the cache's, so any of them may come first.
checkForFirstUnhealthyPipelineCondition(statuses) ==
    LET Negative(i) == {c \in OfType(statuses, condTypes[i]) : c.status = "False"}
        Types == {i \in DOMAIN condTypes : Negative(i) # {}}
    IN  UNION {{Condition(c.status, c.reason) : c \in Negative(i)} :
                  i \in {j \in Types : \A k \in Types : j <= k}}

checkForFirstAboutToExpirePipelineCondition(statuses) ==
    {Condition(c.status, c.reason) :
        c \in {d \in OfType(statuses, "ConfigurationGenerated") : d.reason = AboutToExpire}}

\* The set of conditions Check may return: the first of the checks with a result.
Check(statuses, inDeletion) ==
    LET checks == << checkForResourceBlocksDeletionCondition(statuses, inDeletion),
                     checkForNoPipelineDeployedCondition(statuses),
                     checkForFirstUnhealthyPipelineCondition(statuses),
                     checkForFirstAboutToExpirePipelineCondition(statuses),
                     {Condition("True", "ComponentsRunning")} >>
        first == CHOOSE i \in DOMAIN checks :
                    checks[i] # {} /\ \A j \in 1..(i - 1) : checks[j] = {}
    IN  checks[first]

\* The checkers of metrics and traces repeat that of logs for their own lists.
metricComponentsChecker(statuses, inDeletion) == Check(statuses, inDeletion)
traceComponentsChecker(statuses, inDeletion) == Check(statuses, inDeletion)

enabledHealthCheckers(lists, inDeletion) ==
    [logs : Check(lists.logs, inDeletion),
     metrics : metricComponentsChecker(lists.metrics, inDeletion),
     traces : traceComponentsChecker(lists.traces, inDeletion)]

updateOverallState(conds, inDeletion, dependents) ==
    IF inDeletion THEN IF dependents THEN "Warning" ELSE "Deleting"
    ELSE IF \E k \in DOMAIN conds :
               conds[k].status = "False" \/ conds[k].reason = AboutToExpire
    THEN "Warning" ELSE "Ready"
=============================================================================
