----------------------- MODULE TelemetryModuleProofs -----------------------
(***************************************************************************)
(* What the Telemetry controller guarantees for any set of pipelines, any  *)
(* reports and any number of operations and faults.  One typing invariant, *)
(* and one invariant per property: each says what still wakes the          *)
(* controller as long as the cluster is not as it should be.               *)
(***************************************************************************)
EXTENDS TelemetryModule, TLAPS

\* The pipelines of the cluster and of the cache.
PipelineMap == [Pipelines -> Reports \cup {Unreported, None}]
Steps == {"idle", "finalizer", "webhook", "selfMonitor", "status"}

\* A reconciliation under way has a copy of the Telemetry resource.
TypeInv ==
    /\ telemetry \in Telemetry \cup {None}
    /\ seen \in Telemetry \cup {None}
    /\ obj \in Telemetry \cup {None}
    /\ lastUID \in Nat
    /\ pipelines \in PipelineMap
    /\ cached \in PipelineMap
    /\ selfMonitor \in [objects : {"none", "some", "all"}, owners : SUBSET Nat]
    /\ queued \in BOOLEAN /\ failed \in BOOLEAN /\ skipped \in BOOLEAN /\ unheard \in BOOLEAN
    /\ step \in Steps
    /\ blockers \subseteq Pipelines
    /\ step # "idle" => obj # None

\* The cache holds no resource of the future: uids only grow, and a resource that
\* the cache has seen marked for deletion stays marked.
VersionInv ==
    /\ telemetry # None => telemetry.uid <= lastUID
    /\ seen # None => seen.uid <= lastUID
    /\ (telemetry # None /\ seen # None /\ telemetry.uid = seen.uid /\ seen.deleting)
          => telemetry.deleting

\* What blocks the deletion is known to the controller, whose next look at its
\* caches finds it.
BlockInv ==
    /\ \A p \in blockers : pipelines[p] # None /\ cached[p] # None
    /\ blockers # {} => telemetry # None /\ telemetry.deleting

\* The controller will reach reconcileSelfMonitor again, or an event was lost on it.
Pending ==
    \/ queued \/ skipped \/ unheard
    \/ step \in {"finalizer", "webhook", "selfMonitor"}
    \/ step = "status" /\ failed

\* The self-monitor is what reconcileSelfMonitor leaves for the cached pipelines.
MonitorMatches ==
    /\ ~checkPipelineExist => selfMonitor.objects = "none"
    /\ (\E p \in Pipelines : cached[p] \notin {None, Unreported}) => selfMonitor.objects = "all"

\* The self-monitor has an owner, and is right for the cached pipelines or will be
\* looked at again.
MonitorInv ==
    /\ selfMonitor.objects # "none" => selfMonitor.owners # {}
    /\ seen # None => Pending \/ MonitorMatches

\* The status is right for the cached pipelines unless something still wakes the
\* controller or was lost on it; a pipeline without conditions does not wake it.
StatusInv ==
    (telemetry # None /\ seen = telemetry) =>
        \/ queued \/ skipped \/ unheard \/ step # "idle"
        \/ \E p \in Pipelines : cached[p] = Unreported
        \/ telemetry.status \in StatusFor(telemetry.deleting, cached, checkPipelineExist)

----------------------------------------------------------------------------
\* Check returns conditions of the Telemetry resource (log_component_checker.go).
LEMMA CheckType ==
    ASSUME NEW statuses \in SUBSET (Reports \cup {Unreported}), NEW inDeletion \in BOOLEAN
    PROVE  Check(statuses, inDeletion) \subseteq ComponentConditions
<1> DEFINE c1 == checkForResourceBlocksDeletionCondition(statuses, inDeletion)
           c2 == checkForNoPipelineDeployedCondition(statuses)
           c3 == checkForFirstUnhealthyPipelineCondition(statuses)
           c4 == checkForFirstAboutToExpirePipelineCondition(statuses)
           c5 == {Condition("True", "ComponentsRunning")}
           checks == <<c1, c2, c3, c4, c5>>
           first == CHOOSE i \in DOMAIN checks :
                       checks[i] # {} /\ \A j \in 1..(i - 1) : checks[j] = {}
<1>1. \A c \in UNION statuses : Condition(c.status, c.reason) \in ComponentConditions
  <2> SUFFICES ASSUME NEW c \in UNION statuses
               PROVE  Condition(c.status, c.reason) \in ComponentConditions
    BY Zenon
  <2>1. c \in UNION Reports
    BY Zenon DEF Unreported
  <2>2. c.status \in ConditionStatus
    BY <2>1, TelemetryAssumption, Zenon DEF PipelineConditions
  <2> QED BY <2>1, <2>2, Zenon DEF ComponentConditions, Condition
<1>0. /\ Condition("False", "ResourceBlocksDeletion") \in ComponentConditions
      /\ Condition("True", "NoPipelineDeployed") \in ComponentConditions
      /\ Condition("True", "ComponentsRunning") \in ComponentConditions
  BY Zenon DEF Condition, ComponentConditions, ConditionStatus
<1>2. c1 \subseteq ComponentConditions
  BY <1>0, Zenon DEF checkForResourceBlocksDeletionCondition
<1>3. c2 \subseteq ComponentConditions
  BY <1>0, Zenon DEF checkForNoPipelineDeployedCondition
<1>4. c3 \subseteq ComponentConditions
  <2> SUFFICES ASSUME NEW x \in c3 PROVE x \in ComponentConditions
    BY Zenon
  <2>1. \E i : x \in {Condition(c.status, c.reason) :
                c \in {d \in OfType(statuses, condTypes[i]) : d.status = "False"}}
    BY Zenon DEF checkForFirstUnhealthyPipelineCondition
  <2> QED BY <1>1, <2>1, Zenon DEF OfType
<1>5. c4 \subseteq ComponentConditions
  BY <1>1, Zenon DEF checkForFirstAboutToExpirePipelineCondition, OfType
<1>6. c5 \subseteq ComponentConditions /\ c5 # {}
  BY <1>0, Zenon
<1> HIDE DEF c1, c2, c3, c4, c5
<1>7. DOMAIN checks = 1..5 /\ \A i \in 1..5 : checks[i] \subseteq ComponentConditions
  BY <1>2, <1>3, <1>4, <1>5, <1>6
<1>8. \E i \in 1..5 : checks[i] # {} /\ \A j \in 1..(i - 1) : checks[j] = {}
  BY <1>6
<1> HIDE DEF checks
<1>9. first \in 1..5
  BY <1>7, <1>8, Zenon
<1>10. checks[first] \subseteq ComponentConditions
  BY <1>7, <1>9, Zenon
<1> QED BY <1>10, Zenon DEF Check, checks, c1, c2, c3, c4, c5

\* updateStatus writes a status of the right form.
LEMMA StatusForType ==
    ASSUME NEW ps \in PipelineMap, NEW deleting \in BOOLEAN, NEW found \in BOOLEAN
    PROVE  StatusFor(deleting, ps, found) \subseteq Status
<1>1. ASSUME NEW names \in SUBSET Pipelines
      PROVE  Check(Statuses(ps, names), deleting) \subseteq ComponentConditions
  <2>1. Statuses(ps, names) \subseteq Reports \cup {Unreported}
    BY Zenon DEF Statuses, PipelineMap
  <2> QED BY <2>1, CheckType, Zenon
<1>2. enabledHealthCheckers(Lists(ps), deleting)
        \subseteq [logs : ComponentConditions, metrics : ComponentConditions,
                   traces : ComponentConditions]
  BY <1>1, Zenon
  DEF enabledHealthCheckers, Lists, metricComponentsChecker, traceComponentsChecker, Pipelines
<1>3. ASSUME NEW conds
      PROVE  updateOverallState(conds, deleting, found) \in {"", "Ready", "Warning", "Deleting"}
  BY Zenon DEF updateOverallState
<1>4. ASSUME NEW conds \in enabledHealthCheckers(Lists(ps), deleting)
      PROVE  [state |-> updateOverallState(conds, deleting, found), conds |-> conds] \in Status
  BY <1>2, <1>3, Zenon DEF Status
<1> QED BY <1>4, Zenon DEF StatusFor

\* updateOverallState asks for dependents only in a deletion.
LEMMA FoundMattersInDeletion ==
    ASSUME NEW ps, NEW found, NEW other
    PROVE  StatusFor(FALSE, ps, found) = StatusFor(FALSE, ps, other)
<1>1. \A conds : updateOverallState(conds, FALSE, found) = updateOverallState(conds, FALSE, other)
  BY Zenon DEF updateOverallState
<1>2. \A x : x \in StatusFor(FALSE, ps, found) <=> x \in StatusFor(FALSE, ps, other)
  BY <1>1, Zenon DEF StatusFor
<1> QED BY <1>2, Zenon

\* The typing invariant holds initially and is kept by every step.
LEMMA InitTypeInv == Init => TypeInv
<1> SUFFICES ASSUME Init PROVE TypeInv
  BY Zenon
<1>1. pipelines \in PipelineMap /\ cached \in PipelineMap
  BY Zenon DEF Init, PipelineMap
<1>2. selfMonitor \in [objects : {"none", "some", "all"}, owners : SUBSET Nat]
  BY Zenon DEF Init
<1> QED BY <1>1, <1>2, Zenon DEF Init, TypeInv, Steps, PipelineMap

\* A new Telemetry resource is a Telemetry resource.
LEMMA NewTelemetryType ==
    ASSUME NEW uid \in Nat
    PROVE  NewTelemetry(uid) \in Telemetry /\ NewTelemetry(uid) # None
<1>1. NoStatus \in Status
  BY Zenon DEF NoStatus, Status
<1>2. NewTelemetry(uid) \in Telemetry
  BY <1>1, Zenon DEF NewTelemetry, Telemetry
<1> QED BY <1>2, TelemetryAssumption, Zenon

\* So is one of which handleFinalizer, updateStatus or a user changed one field.
LEMMA EditedType ==
    ASSUME NEW t \in Telemetry
    PROVE  /\ t # None
           /\ \A b \in BOOLEAN :
                 /\ [t EXCEPT !.finalizer = b] \in Telemetry
                 /\ [t EXCEPT !.finalizer = b].uid = t.uid
                 /\ [t EXCEPT !.finalizer = b].deleting = t.deleting
                 /\ [t EXCEPT !.finalizer = b].finalizer = b
           /\ \A x \in Status :
                 /\ [t EXCEPT !.status = x] \in Telemetry
                 /\ [t EXCEPT !.status = x].uid = t.uid
                 /\ [t EXCEPT !.status = x].deleting = t.deleting
                 /\ [t EXCEPT !.status = x].status = x
           /\ [t EXCEPT !.deleting = TRUE] \in Telemetry
           /\ [t EXCEPT !.deleting = TRUE].uid = t.uid
           /\ [t EXCEPT !.deleting = TRUE].deleting
BY TelemetryAssumption, ZenonT(30) DEF Telemetry

\* The typing invariant is kept by every step of the cluster and the controller.
LEMMA NextTypeInv == TypeInv /\ [Next]_vars => TypeInv'
<1> SUFFICES ASSUME TypeInv, [Next]_vars PROVE TypeInv'
  BY Zenon
<1> USE DEF TypeInv, PipelineMap, Steps
<1>1. CASE CreateTelemetry
  <2>1. NewTelemetry(lastUID') \in Telemetry
    BY <1>1, NewTelemetryType DEF CreateTelemetry
  <2> QED BY <1>1, <2>1 DEF CreateTelemetry
<1>2. CASE DeleteTelemetry
  <2>1. telemetry' \in Telemetry \cup {None}
    BY <1>2, Zenon DEF DeleteTelemetry, Telemetry
  <2>2. blockers' \subseteq Pipelines
    BY <1>2, Zenon DEF DeleteTelemetry
  <2> QED BY <1>2, <2>1, <2>2, Zenon DEF DeleteTelemetry
<1>3. CASE SeeTelemetry
  BY <1>3, Zenon DEF SeeTelemetry, cluster
<1>4. ASSUME NEW p \in Pipelines, CreatePipeline(p) \/ ReportPipeline(p) \/ DeletePipeline(p)
      PROVE  TypeInv'
  BY <1>4 DEF CreatePipeline, ReportPipeline, DeletePipeline, ChangePipeline
<1>5. ASSUME NEW p \in Pipelines, SeePipeline(p)
      PROVE  TypeInv'
  BY <1>5, Zenon DEF SeePipeline, cluster
<1>6. CASE TamperSelfMonitor
  BY <1>6, Zenon DEF TamperSelfMonitor, cluster
<1>7. CASE Restart
  BY <1>7, Zenon DEF Restart, cluster
<1>8. CASE CollectSelfMonitor
  BY <1>8, Zenon DEF CollectSelfMonitor, cluster, Live
<1>9. CASE CollectCASecret
  BY <1>9, Zenon DEF CollectCASecret, cluster
<1>10. CASE Reconcile
  BY <1>10, Zenon DEF Reconcile, cluster
<1>11. CASE handleFinalizer
  <2>1. obj \in Telemetry
    BY <1>11, Zenon DEF handleFinalizer
  <2>2. \A b \in BOOLEAN : [obj EXCEPT !.finalizer = b] \in Telemetry
    BY <2>1, Zenon DEF Telemetry
  <2>3. ASSUME NEW new \in Telemetry, Update(new)
        PROVE  /\ telemetry' \in Telemetry \cup {None} /\ obj' \in Telemetry
               /\ step' \in Steps /\ failed' \in BOOLEAN /\ queued' = queued
    BY <2>1, <2>3, Zenon DEF Update, Proceed, Return
  <2>4. /\ telemetry' \in Telemetry \cup {None} /\ obj' \in Telemetry
        /\ step' \in Steps /\ failed' \in BOOLEAN /\ queued' = queued
    <3>1. CASE Update([obj EXCEPT !.finalizer = TRUE]) \/ Update([obj EXCEPT !.finalizer = FALSE])
      BY <2>2, <2>3, <3>1, Zenon
    <3>2. CASE Proceed("webhook") /\ UNCHANGED <<telemetry, obj>>
      BY <2>1, <3>2, Zenon DEF Proceed
    <3>3. CASE Return /\ UNCHANGED <<telemetry, obj>>
      BY <2>1, <3>3, ZenonT(30) DEF Return
    <3> QED BY <1>11, <3>1, <3>2, <3>3, Zenon DEF handleFinalizer
  <2>5. obj' # None
    BY <2>4, TelemetryAssumption, Zenon
  <2> QED BY <1>11, <2>4, <2>5, Zenon DEF handleFinalizer
<1>12. CASE reconcileWebhook
  BY <1>12, Zenon DEF reconcileWebhook, Proceed, Return, cluster
<1>13. CASE reconcileSelfMonitor
  <2>1. obj.uid \in Nat
    BY <1>13, Zenon DEF reconcileSelfMonitor, Telemetry
  <2>2. selfMonitor' \in [objects : {"none", "some", "all"}, owners : SUBSET Nat]
    BY <1>13, <2>1 DEF reconcileSelfMonitor, ApplySelfMonitor, DeleteSelfMonitor
  <2> QED BY <1>13, <2>2, Zenon DEF reconcileSelfMonitor, cluster
<1>14. CASE updateStatus
  <2>1. obj \in Telemetry /\ obj.deleting \in BOOLEAN
    BY <1>14, Zenon DEF updateStatus, Telemetry
  <2>2. \A found \in BOOLEAN : StatusFor(obj.deleting, cached, found) \subseteq Status
    BY <2>1, StatusForType, Zenon DEF PipelineMap
  <2>3. telemetry' \in Telemetry \cup {None}
    <3>1. \A status \in Status : [obj EXCEPT !.status = status] \in Telemetry
      BY <2>1, EditedType, Zenon
    <3>2. \/ telemetry' = telemetry
          \/ \E status \in Status : telemetry' = [obj EXCEPT !.status = status]
      BY <1>14, <2>2, Zenon DEF updateStatus
    <3> QED BY <3>1, <3>2
  <2>4. step' = "idle" /\ obj' = None /\ failed' \in BOOLEAN /\ queued' \in BOOLEAN
    BY <1>14, Zenon DEF updateStatus, Finish
  <2> QED BY <1>14, <2>3, <2>4, Zenon DEF updateStatus
<1>15. CASE UNCHANGED vars
  BY <1>15 DEF vars
<1> QED BY <1>1, <1>2, <1>3, <1>4, <1>5, <1>6, <1>7, <1>8, <1>9, <1>10, <1>11, <1>12,
           <1>13, <1>14, <1>15, Zenon
        DEF Next, Informers, GarbageCollector, Reconciler

\* What a step may do to the Telemetry resource: nothing, remove it, change it
\* without unmarking a deletion, or create it with a fresh uid.
TelemetryStep ==
    \/ telemetry' \in {telemetry, None} /\ lastUID' = lastUID
    \/ /\ telemetry # None /\ telemetry' # None /\ lastUID' = lastUID
       /\ telemetry'.uid = telemetry.uid
       /\ telemetry.deleting => telemetry'.deleting
    \/ /\ telemetry' # None /\ lastUID' = lastUID + 1
       /\ telemetry'.uid = lastUID' /\ ~telemetry'.deleting

\* handleFinalizer adds the finalizer to a resource that is not being deleted, or
\* removes the resource when it finds no pipeline.
LEMMA FinalizerStep ==
    ASSUME TypeInv, handleFinalizer
    PROVE  \/ telemetry' = telemetry
           \/ /\ telemetry = obj /\ obj \in Telemetry /\ ~obj.deleting
              /\ telemetry' = [obj EXCEPT !.finalizer = TRUE]
           \/ /\ telemetry = obj /\ obj \in Telemetry /\ obj.deleting
              /\ ListsFail \/ ~checkPipelineExist
              /\ telemetry' = None
<1>1. obj \in Telemetry /\ \A b \in BOOLEAN : LET new == [obj EXCEPT !.finalizer = b] IN
        new.deleting = obj.deleting /\ new.finalizer = b
  BY EditedType DEF TypeInv, handleFinalizer
<1>2. CASE ~obj.deleting /\ Update([obj EXCEPT !.finalizer = TRUE])
  BY <1>1, <1>2, Zenon DEF Update
<1>3. CASE /\ obj.deleting /\ dependentCRsFound(FALSE)
           /\ Update([obj EXCEPT !.finalizer = FALSE])
  BY <1>1, <1>3, Zenon DEF Update, dependentCRsFound
<1> QED BY <1>2, <1>3, Zenon DEF handleFinalizer

\* updateStatus asks for a retry or writes a status for the cached pipelines.
LEMMA UpdateStatusStep ==
    ASSUME TypeInv, updateStatus
    PROVE  \/ telemetry' = telemetry /\ queued'
           \/ /\ telemetry # None /\ telemetry' # None
              /\ telemetry'.uid = telemetry.uid
              /\ telemetry'.deleting = telemetry.deleting
              /\ telemetry.deleting \in BOOLEAN
              /\ \E found \in BOOLEAN :
                    /\ telemetry'.status \in StatusFor(telemetry.deleting, cached, found)
                    /\ telemetry.deleting => ListsFail \/ found = checkPipelineExist
<1>1. obj \in Telemetry /\ obj.deleting \in BOOLEAN
  BY Zenon DEF TypeInv, updateStatus, Telemetry
<1>2. \A found \in BOOLEAN : StatusFor(obj.deleting, cached, found) \subseteq Status
  BY <1>1, StatusForType, Zenon DEF PipelineMap, TypeInv
<1>3. CASE queued' /\ UNCHANGED telemetry
  BY <1>3, Zenon
<1>4. ASSUME NEW found \in BOOLEAN, NEW status \in StatusFor(obj.deleting, cached, found),
             obj.deleting => dependentCRsFound(found), telemetry = obj,
             telemetry' = [obj EXCEPT !.status = status]
      PROVE  /\ telemetry # None /\ telemetry' # None
             /\ telemetry'.uid = telemetry.uid
             /\ telemetry'.deleting = telemetry.deleting
             /\ telemetry.deleting \in BOOLEAN
             /\ telemetry'.status \in StatusFor(telemetry.deleting, cached, found)
             /\ telemetry.deleting => ListsFail \/ found = checkPipelineExist
  <2>1. obj.deleting => ListsFail \/ found = checkPipelineExist
    BY <1>4, Zenon DEF dependentCRsFound
  <2>2. status \in Status
    BY <1>2, Zenon
  <2>3. PICK new \in Telemetry : new = [obj EXCEPT !.status = status]
    BY <1>1, <2>2, EditedType, Zenon
  <2>4. new # None /\ new.uid = obj.uid /\ new.deleting = obj.deleting /\ new.status = status
    BY <1>1, <2>2, <2>3, EditedType, Zenon
  <2> QED BY <1>1, <1>4, <2>1, <2>3, <2>4, EditedType, Zenon
<1> QED BY <1>3, <1>4, Zenon DEF updateStatus, Finish

\* No step of the model does more than TelemetryStep allows.
LEMMA NextTelemetryStep ==
    ASSUME TypeInv, [Next]_vars PROVE TelemetryStep
<1> USE DEF TelemetryStep
<1>1. CASE CreateTelemetry
  <2>1. lastUID' \in Nat /\ lastUID' = lastUID + 1 /\ telemetry' = NewTelemetry(lastUID')
    BY <1>1 DEF CreateTelemetry, TypeInv
  <2> QED BY <2>1, NewTelemetryType, Zenon DEF NewTelemetry
<1>2. CASE DeleteTelemetry
  BY <1>2, EditedType, Zenon DEF DeleteTelemetry, TypeInv
<1>3. CASE handleFinalizer
  <2>1. lastUID' = lastUID
    BY <1>3, Zenon DEF handleFinalizer
  <2>2. CASE obj \in Telemetry /\ telemetry = obj /\ telemetry' = [obj EXCEPT !.finalizer = TRUE]
    <3>1. /\ obj # None /\ telemetry' # None
          /\ telemetry'.uid = obj.uid /\ telemetry'.deleting = obj.deleting
      BY <2>2, EditedType, Zenon
    <3> QED BY <2>1, <2>2, <3>1, Zenon
  <2> QED BY <1>3, <2>1, <2>2, FinalizerStep, Zenon
<1>4. CASE updateStatus
  <2>1. lastUID' = lastUID
    BY <1>4, Zenon DEF updateStatus
  <2> QED BY <1>4, <2>1, UpdateStatusStep, Zenon
<1>5. CASE UNCHANGED <<telemetry, lastUID>>
  BY <1>5, Zenon
<1> QED BY <1>1, <1>2, <1>3, <1>4, <1>5, Zenon
        DEF Next, Informers, GarbageCollector, Reconciler, vars, cluster, SeeTelemetry, SeePipeline,
            CreatePipeline, ReportPipeline, DeletePipeline, ChangePipeline, TamperSelfMonitor,
            Restart, CollectSelfMonitor, CollectCASecret, Reconcile, reconcileWebhook,
            reconcileSelfMonitor

\* The cache changes only to the present Telemetry resource.
LEMMA NextSeen ==
    ASSUME [Next]_vars
    PROVE  \/ seen' = seen
           \/ seen' = telemetry /\ telemetry' = telemetry /\ lastUID' = lastUID
BY Zenon
DEF Next, Informers, GarbageCollector, Reconciler, vars, cluster, SeeTelemetry, SeePipeline,
    CreatePipeline, ReportPipeline, DeletePipeline, ChangePipeline, TamperSelfMonitor, Restart,
    CollectSelfMonitor, CollectCASecret, Reconcile, reconcileWebhook, reconcileSelfMonitor,
    CreateTelemetry, DeleteTelemetry, handleFinalizer, updateStatus

\* VersionInv is kept by every step.
LEMMA NextVersionInv ==
    ASSUME TypeInv, VersionInv, [Next]_vars PROVE VersionInv'
<1>1. /\ telemetry # None => telemetry.uid \in Nat
      /\ seen # None => seen.uid \in Nat
      /\ lastUID \in Nat
  BY Zenon DEF TypeInv, Telemetry
<1> QED BY <1>1, NextTelemetryStep, NextSeen DEF TelemetryStep, VersionInv

\* BlockInv is kept by every step: the finalizer is removed only when
\* checkPipelineExist finds nothing, and a blocker would be found.
LEMMA NextBlockInv ==
    ASSUME ListsFail = FALSE, TypeInv, BlockInv, [Next]_vars PROVE BlockInv'
<1> USE DEF BlockInv
<1>1. CASE CreateTelemetry
  BY <1>1, Zenon DEF CreateTelemetry
<1>2. CASE DeleteTelemetry
  <2>1. CASE telemetry.finalizer
    <3>1. telemetry \in Telemetry /\ telemetry' = [telemetry EXCEPT !.deleting = TRUE]
      BY <1>2, <2>1, Zenon DEF DeleteTelemetry, TypeInv
    <3>2. telemetry' # None /\ telemetry'.deleting
      BY <3>1, EditedType, Zenon
    <3> QED BY <1>2, <2>1, <3>2, Zenon DEF DeleteTelemetry
  <2>2. CASE ~telemetry.finalizer
    BY <1>2, <2>2, Zenon DEF DeleteTelemetry
  <2> QED BY <2>1, <2>2, Zenon
<1>3. CASE handleFinalizer
  <2>1. UNCHANGED <<blockers, pipelines, cached>>
    BY <1>3, Zenon DEF handleFinalizer
  <2>2. CASE telemetry' = telemetry
    BY <2>1, <2>2, Zenon
  <2>3. CASE obj \in Telemetry /\ telemetry = obj /\ ~obj.deleting
    BY <2>1, <2>3, Zenon
  <2>4. CASE ~checkPipelineExist
    BY <2>1, <2>4, Zenon DEF checkPipelineExist, TypeInv
  <2> QED BY <1>3, <2>2, <2>3, <2>4, FinalizerStep, Zenon
<1>4. CASE updateStatus
  <2>1. UNCHANGED <<blockers, pipelines, cached>>
    BY <1>4, Zenon DEF updateStatus
  <2>2. \/ telemetry' = telemetry
        \/ telemetry' # None /\ telemetry'.deleting = telemetry.deleting
    BY <1>4, UpdateStatusStep, Zenon
  <2> QED BY <2>1, <2>2, Zenon
<1>5. ASSUME NEW p \in Pipelines, NEW to, ChangePipeline(p, to)
      PROVE  BlockInv'
  <2>1. UNCHANGED <<telemetry, cached>> /\ pipelines' = [pipelines EXCEPT ![p] = to]
    BY <1>5, Zenon DEF ChangePipeline
  <2>2. blockers' = IF to = None THEN blockers \ {p} ELSE blockers
    BY <1>5, Zenon DEF ChangePipeline
  <2>3. \A q \in blockers' : q \in blockers /\ pipelines'[q] # None
    BY <2>1, <2>2 DEF TypeInv
  <2> QED BY <2>1, <2>3, Zenon
<1>6. ASSUME NEW p \in Pipelines, SeePipeline(p)
      PROVE  BlockInv'
  <2>1. UNCHANGED <<telemetry, blockers, pipelines>>
    BY <1>6, Zenon DEF SeePipeline, cluster
  <2>2. cached' = [cached EXCEPT ![p] = pipelines[p]]
    BY <1>6, Zenon DEF SeePipeline
  <2> QED BY <2>1, <2>2, Zenon DEF TypeInv, PipelineMap
<1>7. CASE Restart
  BY <1>7, Zenon DEF Restart, cluster
<1>8. CASE UNCHANGED <<telemetry, blockers, pipelines, cached>>
  BY <1>8, Zenon
<1> QED BY <1>1, <1>2, <1>3, <1>4, <1>5, <1>6, <1>7, <1>8, Zenon
        DEF Next, Informers, GarbageCollector, Reconciler, vars, cluster, SeeTelemetry,
            CreatePipeline, ReportPipeline, DeletePipeline, TamperSelfMonitor,
            CollectSelfMonitor, CollectCASecret, Reconcile, reconcileWebhook,
            reconcileSelfMonitor

\* A pipeline the controller sees change wakes it, or is new, or goes unheard.
LEMMA QuietPipeline ==
    ASSUME TypeInv, NEW p \in Pipelines, SeePipeline(p), seen # None
    PROVE  \/ queued' \/ unheard'
           \/ cached[p] = None /\ cached' = [cached EXCEPT ![p] = Unreported]
<1>1. CASE mapPipeline(cached[p], pipelines[p])
  BY <1>1, Zenon DEF SeePipeline, createTelemetryRequests
<1>2. CASE ~mapPipeline(cached[p], pipelines[p])
  <2>1. cached[p] \in {None, Unreported} /\ pipelines[p] \in {None, Unreported}
    BY <1>2, Zenon DEF mapPipeline
  <2>2. cached[p] # pipelines[p] /\ cached' = [cached EXCEPT ![p] = pipelines[p]]
    BY Zenon DEF SeePipeline
  <2>3. CASE cached[p] = None /\ pipelines[p] = Unreported
    BY <2>2, <2>3, Zenon
  <2>4. CASE cached[p] = Unreported /\ pipelines[p] = None
    BY <2>4, Zenon DEF SeePipeline
  <2> QED BY <2>1, <2>2, <2>3, <2>4, SMTT(30)
<1> QED BY <1>1, <1>2, Zenon

\* MonitorInv is kept by every step: an error of reconcileSelfMonitor is retried,
\* and an event that is not mapped to a request changes nothing that matters.
LEMMA NextMonitorInv ==
    ASSUME TypeInv, MonitorInv, [Next]_vars PROVE MonitorInv'
<1> DEFINE Owned == selfMonitor.objects # "none" => selfMonitor.owners # {}
           Woken == seen # None => Pending \/ MonitorMatches
<1>1. Owned'
  <2>1. CASE TamperSelfMonitor
    BY <2>1, Zenon DEF TamperSelfMonitor, MonitorInv, TypeInv
  <2>2. CASE CollectSelfMonitor
    BY <2>2, Zenon DEF CollectSelfMonitor, MonitorInv, TypeInv
  <2>3. CASE reconcileSelfMonitor
    BY <2>3 DEF reconcileSelfMonitor, ApplySelfMonitor, DeleteSelfMonitor, MonitorInv, TypeInv
  <2>4. CASE UNCHANGED selfMonitor
    BY <2>4, SMTT(30) DEF MonitorInv
  <2> QED BY <2>1, <2>2, <2>3, <2>4, Zenon
        DEF Next, Informers, GarbageCollector, Reconciler, vars, cluster, SeeTelemetry, SeePipeline,
            CreatePipeline, ReportPipeline, DeletePipeline, ChangePipeline,
            Restart, CollectCASecret, Reconcile, reconcileWebhook,
            CreateTelemetry, DeleteTelemetry, handleFinalizer, updateStatus
<1>2. Woken'
  <2> USE DEF Pending
  <2>1. ASSUME NEW p \in Pipelines, SeePipeline(p), seen # None
        PROVE  Woken'
    <3>1. /\ UNCHANGED <<seen, selfMonitor, step, failed, skipped>>
          /\ (queued => queued') /\ (unheard => unheard')
      BY <2>1, Zenon DEF SeePipeline
    <3>2. CASE queued' \/ unheard'
      BY <3>2, Zenon
    <3>3. CASE cached[p] = None /\ cached' = [cached EXCEPT ![p] = Unreported]
      <4>1. checkPipelineExist'
        <5>1. cached'[p] = Unreported
          BY <3>3, Zenon DEF TypeInv, PipelineMap
        <5> QED BY <5>1, TelemetryAssumption, Zenon DEF checkPipelineExist, Unreported
      <4>2. (\E q \in Pipelines : cached'[q] \notin {None, Unreported})
               => \E q \in Pipelines : cached[q] \notin {None, Unreported}
        BY <3>3 DEF TypeInv
      <4>3. MonitorMatches => MonitorMatches'
        BY <3>1, <4>1, <4>2, Zenon DEF MonitorMatches
      <4> QED BY <2>1, <3>1, <4>3, Zenon DEF MonitorInv
    <3> QED BY <2>1, <3>2, <3>3, QuietPipeline, Zenon
  <2>2. CASE queued'
    BY <2>2, Zenon
  <2>3. CASE handleFinalizer
    BY <2>3, Zenon DEF handleFinalizer, Update, Proceed, Return
  <2>4. CASE reconcileWebhook
    BY <2>4, Zenon DEF reconcileWebhook, Proceed, Return
  <2>5. CASE reconcileSelfMonitor
    <3>1. CASE step' = "status" /\ failed'
      BY <3>1, Zenon
    <3>2. CASE /\ selfMonitor' = IF checkPipelineExist THEN ApplySelfMonitor("all")
                                 ELSE DeleteSelfMonitor
               /\ UNCHANGED cached
      BY <3>2, Zenon DEF MonitorMatches, ApplySelfMonitor, DeleteSelfMonitor, checkPipelineExist
    <3> QED BY <2>5, <3>1, <3>2, Zenon DEF reconcileSelfMonitor
  <2>6. CASE updateStatus
    <3>1. UNCHANGED <<seen, cached, selfMonitor, skipped, unheard>> /\ step = "status"
      BY <2>6, Zenon DEF updateStatus
    <3>2. (~failed /\ ~queued) \/ queued'
      BY <2>6, Zenon DEF updateStatus, Finish, TypeInv
    <3>3. MonitorMatches => MonitorMatches'
      BY <3>1, Zenon DEF MonitorMatches, checkPipelineExist
    <3> QED BY <3>1, <3>2, <3>3, Zenon DEF MonitorInv
  <2>7. CASE Reconcile
    <3>1. UNCHANGED seen
      BY <2>7, Zenon DEF Reconcile
    <3> QED BY <2>7, <3>1, Zenon DEF Reconcile
  <2>8. CASE Restart
    BY <2>8, Zenon DEF Restart
  <2>9. CASE UNCHANGED <<seen, cached, selfMonitor, step, failed, queued, skipped, unheard>>
    BY <2>9, Zenon DEF MonitorInv, MonitorMatches, checkPipelineExist
  <2>10. CASE UNCHANGED seen /\ seen = None
    BY <2>10, Zenon
  <2> QED BY <2>1, <2>2, <2>3, <2>4, <2>5, <2>6, <2>7, <2>8, <2>9, <2>10, Zenon
        DEF Next, Informers, GarbageCollector, Reconciler, vars, cluster, SeeTelemetry, SeePipeline,
            CreatePipeline, ReportPipeline, DeletePipeline, ChangePipeline, TamperSelfMonitor,
            CollectSelfMonitor, CollectCASecret, CreateTelemetry, DeleteTelemetry
<1> QED BY <1>1, <1>2, Zenon DEF MonitorInv

\* StatusInv is kept by every step: an old copy is refused and retried, and a
\* change made meanwhile is still to be seen.
LEMMA NextStatusInv ==
    ASSUME ListsFail = FALSE, TypeInv, VersionInv, StatusInv, [Next]_vars
    PROVE  StatusInv'
<1>1. CASE CreateTelemetry
  <2>1. telemetry' # None => telemetry'.uid = lastUID + 1
    BY <1>1, Zenon DEF CreateTelemetry, NewTelemetry
  <2>2. seen # None => seen.uid \in Nat /\ seen.uid <= lastUID
    BY Zenon DEF TypeInv, VersionInv, Telemetry
  <2>3. seen' = seen /\ lastUID \in Nat
    BY <1>1, Zenon DEF CreateTelemetry, TypeInv
  <2>4. telemetry' # None => seen' # telemetry'
    BY <2>1, <2>2, <2>3
  <2> QED BY <2>4, Zenon DEF StatusInv
<1>2. CASE DeleteTelemetry
  <2>1. CASE telemetry' # None
    <3>1. telemetry \in Telemetry /\ telemetry' = [telemetry EXCEPT !.deleting = TRUE]
      BY <1>2, <2>1, Zenon DEF DeleteTelemetry, TypeInv
    <3>2. telemetry # None /\ telemetry'.uid = telemetry.uid /\ telemetry'.deleting
      BY <3>1, EditedType, Zenon
    <3>3. ~telemetry.deleting /\ seen' = seen
      BY <1>2, Zenon DEF DeleteTelemetry
    <3>4. seen' # telemetry'
      BY <2>1, <3>2, <3>3, Zenon DEF VersionInv
    <3> QED BY <3>4, Zenon DEF StatusInv
  <2> QED BY <2>1, Zenon DEF StatusInv
<1>3. CASE updateStatus
  <2>1. UNCHANGED <<seen, cached>>
    BY <1>3, Zenon DEF updateStatus
  <2>2. CASE queued'
    BY <2>2, Zenon DEF StatusInv
  <2>3. ASSUME telemetry'.deleting = telemetry.deleting, telemetry.deleting \in BOOLEAN,
               NEW found \in BOOLEAN,
               telemetry'.status \in StatusFor(telemetry.deleting, cached, found),
               telemetry.deleting => ListsFail \/ found = checkPipelineExist
        PROVE  StatusInv'
    <3>1. checkPipelineExist' = checkPipelineExist
      BY <2>1, Zenon DEF checkPipelineExist
    <3>2. telemetry'.status \in StatusFor(telemetry.deleting, cached, checkPipelineExist)
      <4>1. CASE telemetry.deleting
        BY <2>3, <4>1, Zenon
      <4>2. CASE telemetry.deleting = FALSE
        BY <2>3, <4>2, FoundMattersInDeletion, Zenon
      <4> QED BY <2>3, <4>1, <4>2, Zenon
    <3> QED BY <2>1, <2>3, <3>1, <3>2, Zenon DEF StatusInv
  <2> QED BY <1>3, <2>2, <2>3, UpdateStatusStep, Zenon
<1>4. ASSUME NEW p \in Pipelines, SeePipeline(p)
      PROVE  StatusInv'
  <2>1. UNCHANGED <<telemetry, seen, step, skipped>>
    BY <1>4, Zenon DEF SeePipeline, cluster
  <2>2. CASE queued' \/ unheard'
    BY <2>2, Zenon DEF StatusInv
  <2>3. CASE cached[p] = None /\ cached' = [cached EXCEPT ![p] = Unreported]
    <3>1. cached'[p] = Unreported
      BY <2>3, Zenon DEF TypeInv, PipelineMap
    <3> QED BY <3>1, Zenon DEF StatusInv
  <2>4. CASE seen = None
    BY <2>1, <2>4, Zenon DEF StatusInv
  <2> QED BY <1>4, <2>2, <2>3, <2>4, QuietPipeline, Zenon
<1>5. CASE queued' \/ step' # "idle" \/ skipped'
  BY <1>5, Zenon DEF StatusInv
<1>6. CASE UNCHANGED <<telemetry, seen, cached, queued, step, skipped, unheard>>
  <2>1. checkPipelineExist' = checkPipelineExist
    BY <1>6, Zenon DEF checkPipelineExist
  <2> QED BY <1>6, <2>1, Zenon DEF StatusInv
<1>7. CASE Restart
  BY <1>7, Zenon DEF Restart, StatusInv, cluster
<1>8. CASE Reconcile
  <2>1. CASE seen = None /\ UNCHANGED <<seen, telemetry>>
    BY <2>1, Zenon DEF StatusInv
  <2> QED BY <1>5, <1>8, <2>1, Zenon DEF Reconcile, cluster
<1>9. CASE handleFinalizer \/ reconcileWebhook \/ reconcileSelfMonitor
  <2>1. step' # "idle"
    BY <1>9, Zenon
    DEF handleFinalizer, reconcileWebhook, reconcileSelfMonitor, Update, Proceed, Return
  <2> QED BY <1>5, <2>1, Zenon
<1> QED BY <1>1, <1>2, <1>3, <1>4, <1>5, <1>6, <1>7, <1>8, <1>9, Zenon
        DEF Next, Informers, GarbageCollector, Reconciler, vars, cluster, SeeTelemetry,
            CreatePipeline, ReportPipeline, DeletePipeline, ChangePipeline, TamperSelfMonitor,
            CollectSelfMonitor, CollectCASecret

\* The part of the specification that the proofs use.
LEMMA SpecSafety == Spec => Init /\ [][Next]_vars
BY PTL DEF Spec

\* A Telemetry resource whose deletion began while the controller knew a pipeline
\* stays as long as that pipeline does (handleFinalizer).  Lists that fail are
\* excluded: resourcesExist takes an error for "no pipeline".
THEOREM BlockedDeletionStays ==
    ASSUME ListsFail = FALSE
    PROVE  Spec => []DeletionIsBlocked
<1>1. Init => TypeInv /\ BlockInv
  BY InitTypeInv, Zenon DEF Init, BlockInv
<1>2. TypeInv /\ BlockInv /\ [Next]_vars => TypeInv' /\ BlockInv'
  BY NextTypeInv, NextBlockInv, Zenon
<1>3. BlockInv => DeletionIsBlocked
  BY Zenon DEF BlockInv, DeletionIsBlocked
<1> QED BY <1>1, <1>2, <1>3, SpecSafety, PTL

\* At rest the self-monitor is complete and owned by the Telemetry resource, or
\* absent (reconcileSelfMonitor, mapLogPipeline), whatever fails and whatever the
\* lists of dependentCRsFound answer.
THEOREM SelfMonitorAtRest == Spec => []RestingSelfMonitor
<1>1. Init => TypeInv /\ MonitorInv
  BY InitTypeInv DEF Init, MonitorInv
<1>2. TypeInv /\ MonitorInv /\ [Next]_vars => TypeInv' /\ MonitorInv'
  BY NextTypeInv, NextMonitorInv, Zenon
<1>3. TypeInv /\ MonitorInv => RestingSelfMonitor
  <2> SUFFICES ASSUME TypeInv, MonitorInv, AtRest
               PROVE  /\ telemetry = None => selfMonitor.objects = "none"
                      /\ Exists = {} => selfMonitor.objects = "none"
                      /\ (telemetry # None /\ \E p \in Exists : pipelines[p] # Unreported) =>
                            selfMonitor = [objects |-> "all", owners |-> {telemetry.uid}]
    BY Zenon DEF RestingSelfMonitor
  <2>1. telemetry = None => selfMonitor.objects = "none"
    BY Zenon DEF AtRest, Live, MonitorInv
  <2>2. telemetry # None => MonitorMatches
    BY Zenon DEF AtRest, MonitorInv, Pending
  <2>3. Exists = {} => ~checkPipelineExist
    BY Zenon DEF AtRest, Exists, checkPipelineExist
  <2>4. ASSUME telemetry # None, NEW p \in Exists, pipelines[p] # Unreported
        PROVE  selfMonitor = [objects |-> "all", owners |-> {telemetry.uid}]
    <3>1. selfMonitor.objects = "all"
      BY <2>2, <2>4, Zenon DEF AtRest, Exists, MonitorMatches
    <3>2. selfMonitor.owners = {telemetry.uid}
      BY <2>4, <3>1, Zenon DEF AtRest, Live, MonitorInv
    <3> QED BY <3>1, <3>2, Zenon DEF TypeInv
  <2> QED BY <2>1, <2>2, <2>3, <2>4, Zenon DEF MonitorMatches
<1> QED BY <1>1, <1>2, <1>3, SpecSafety, PTL

\* At rest the status of the Telemetry resource is one the pipelines' conditions
\* justify (updateStatus, updateOverallState, mapLogPipeline).  Lists that fail are
\* excluded: resourcesExist takes an error for "no pipeline".
THEOREM StatusAtRest ==
    ASSUME ListsFail = FALSE
    PROVE  Spec => []RestingStatusIsCurrent
<1>1. Init => TypeInv /\ VersionInv /\ StatusInv
  BY InitTypeInv, Zenon DEF Init, VersionInv, StatusInv
<1>2. TypeInv /\ VersionInv /\ StatusInv /\ [Next]_vars => TypeInv' /\ VersionInv' /\ StatusInv'
  BY NextTypeInv, NextVersionInv, NextStatusInv, Zenon
<1>3. TypeInv /\ StatusInv => RestingStatusIsCurrent
  <2> SUFFICES ASSUME TypeInv, StatusInv, AtRest, telemetry # None,
                      \A p \in Exists : pipelines[p] # Unreported
               PROVE  telemetry.status \in StatusFor(telemetry.deleting, pipelines, Exists # {})
    BY Zenon DEF RestingStatusIsCurrent
  <2>1. cached = pipelines /\ seen = telemetry /\ ~queued /\ ~skipped /\ ~unheard
        /\ step = "idle"
    BY Zenon DEF AtRest
  <2>2. ~\E p \in Pipelines : cached[p] = Unreported
    BY <2>1, TelemetryAssumption, Zenon DEF Exists, Unreported
  <2>3. checkPipelineExist = (Exists # {})
    BY <2>1, Zenon DEF checkPipelineExist, Exists
  <2> QED BY <2>1, <2>2, <2>3, Zenon DEF StatusInv
<1> QED BY <1>1, <1>2, <1>3, SpecSafety, PTL
=============================================================================
