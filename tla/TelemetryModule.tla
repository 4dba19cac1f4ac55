--------------------------- MODULE TelemetryModule ---------------------------
(***************************************************************************)
(* The Telemetry controller (controllers/operator and                      *)
(* internal/reconciler/telemetry): the finalizer that keeps the Telemetry  *)
(* resource until the last pipeline is gone, the self-monitor, the owner   *)
(* of the webhook's CA Secret, and the module status.                      *)
(*                                                                         *)
(* The controller reads Telemetry and pipelines from informer caches, each *)
(* of which lags by itself; a pipeline is at most one change ahead of its  *)
(* cache.  A write is accepted when the object has not changed since it    *)
(* was read.  Two versions of the Telemetry resource with equal content    *)
(* are not told apart.                                                     *)
(***************************************************************************)
EXTENDS ComponentsHealth, FiniteSets

CONSTANTS
    LogPipelines, MetricPipelines, TracePipelines,   \* names, disjoint
    Reports,         \* what a pipeline controller may report of a pipeline
    MaxOps,          \* bounds what users and pipeline controllers do
    MaxUID,          \* bounds how often the Telemetry resource is created
    MaxFaults,       \* bounds failed calls, pauses, restarts and outside changes
    ListsFail,       \* a list that fails is one of the faults
    None             \* no such object

Pipelines == LogPipelines \cup MetricPipelines \cup TracePipelines
UIDs == 1..MaxUID

\* The conditions of pipelines and of the Telemetry resource, and that resource.
ConditionStatus == {"True", "False", "Unknown"}
PipelineConditions == [type : STRING, status : ConditionStatus, reason : STRING]
ComponentConditions ==
    [status : ConditionStatus,
     reason : {c.reason : c \in UNION Reports}
                  \cup {"ResourceBlocksDeletion", "NoPipelineDeployed", "ComponentsRunning"}]
Status == [state : {"", "Ready", "Warning", "Deleting"},
           conds : [logs : ComponentConditions, metrics : ComponentConditions,
                    traces : ComponentConditions] \cup {None}]
Telemetry == [uid : Nat, deleting : BOOLEAN, finalizer : BOOLEAN, status : Status]

ASSUME TelemetryAssumption ==
    /\ MaxUID \in Nat /\ MaxOps \in Nat /\ MaxFaults \in Nat
    /\ ListsFail \in BOOLEAN
    /\ UNION Reports \subseteq PipelineConditions
    /\ None \notin Reports \cup {{}} /\ None \notin Telemetry

\* What a pipeline controller may have written to the status of a pipeline.
Unreported == {}
Expiring == {[type |-> "ConfigurationGenerated", status |-> "True", reason |-> AboutToExpire]}
NotFlowing == {[type |-> "ConfigurationGenerated", status |-> "True", reason |-> "Configured"],
               [type |-> "FlowHealthy", status |-> "False", reason |-> "AllDataDropped"]}
ExpiringOrNotFlowing == {Expiring, NotFlowing}

VARIABLES
    telemetry,   \* the Telemetry resource, or None
    lastUID,     \* the uid it was last created with
    seen,        \* the Telemetry resource in the controller's cache
    pipelines,   \* the conditions of each pipeline, or None
    cached,      \* the pipelines in the controller's caches
    selfMonitor, \* the objects of the self-monitor: how many, and their owners
    caOwners,    \* the owners of the CA Secret, or None
    queued,      \* a request waits in the work queue
    step,        \* the next step of the reconciliation
    obj,         \* its copy of the Telemetry resource
    failed,      \* doReconcile has returned an error
    skipped,     \* a request was dropped because the controller was paused
    unheard,     \* a pipeline that had no conditions is gone, and nothing was
                 \* reconciled since: mapLogPipeline drops that event
    ops,
    blockers,    \* history: pipelines the controller knew when the deletion began
    faults

cluster == <<telemetry, lastUID, pipelines, ops, blockers>>
vars == <<telemetry, lastUID, seen, pipelines, cached, selfMonitor, caOwners,
          queued, step, obj, failed, skipped, unheard, ops, blockers, faults>>

NoStatus == [state |-> "", conds |-> None]
NewTelemetry(uid) == [uid |-> uid, deleting |-> FALSE, finalizer |-> FALSE, status |-> NoStatus]

----------------------------------------------------------------------------
Init ==
    /\ telemetry = None /\ lastUID = 0 /\ seen = None
    /\ pipelines = [p \in Pipelines |-> None] /\ cached = pipelines
    /\ selfMonitor = [objects |-> "none", owners |-> {}]
    /\ caOwners = {}
    /\ queued = FALSE /\ step = "idle" /\ obj = None /\ failed = FALSE
    /\ skipped = FALSE /\ unheard = FALSE
    /\ ops = 0 /\ blockers = {} /\ faults = 0

Op == ops < MaxOps /\ ops' = ops + 1
Fault == faults < MaxFaults /\ faults' = faults + 1

(***************************************************************************)
(* Users, the pipeline and gateway controllers, and the informers.         *)
(***************************************************************************)
CreateTelemetry ==
    /\ Op
    /\ telemetry = None /\ lastUID < MaxUID
    /\ lastUID' = lastUID + 1
    /\ telemetry' = NewTelemetry(lastUID')
    /\ blockers' = {}
    /\ UNCHANGED <<seen, pipelines, cached, selfMonitor, caOwners, queued, step,
                   obj, failed, skipped, unheard, faults>>

\* The API server keeps an object with a finalizer.
DeleteTelemetry ==
    /\ Op
    /\ telemetry # None /\ ~telemetry.deleting
    /\ telemetry' = IF telemetry.finalizer
                    THEN [telemetry EXCEPT !.deleting = TRUE] ELSE None
    /\ blockers' = IF telemetry.finalizer
                   THEN {p \in Pipelines : None \notin {cached[p], pipelines[p]}} ELSE {}
    /\ UNCHANGED <<lastUID, seen, pipelines, cached, selfMonitor, caOwners, queued,
                   step, obj, failed, skipped, unheard, faults>>

\* For(&Telemetry{}) has no predicate: every event is a request.
SeeTelemetry ==
    /\ seen # telemetry
    /\ seen' = telemetry
    /\ queued' = TRUE
    /\ UNCHANGED <<cluster, cached, selfMonitor, caOwners, step, obj, failed, skipped,
                   unheard, faults>>

ChangePipeline(p, to) ==
    /\ Op
    /\ cached[p] = pipelines[p]
    /\ pipelines' = [pipelines EXCEPT ![p] = to]
    /\ blockers' = IF to = None THEN blockers \ {p} ELSE blockers
    /\ UNCHANGED <<telemetry, lastUID, seen, cached, selfMonitor, caOwners,
                   queued, step, obj, failed, skipped, unheard, faults>>

CreatePipeline(p) == pipelines[p] = None /\ ChangePipeline(p, Unreported)
ReportPipeline(p) ==
    /\ pipelines[p] # None
    /\ \E to \in Reports \ {pipelines[p]} : ChangePipeline(p, to)
DeletePipeline(p) ==
    pipelines[p] # None /\ ChangePipeline(p, None)

\* Mutant: a deleted pipeline is dropped like one without conditions.
mapPipelineNew(old, new) == new \notin {None, Unreported}

\* mapLogPipeline, mapMetricPipeline and mapTracePipeline are called for the old
\* and for the new object of an event and drop objects without conditions.
mapPipeline(old, new) == \E o \in {old, new} : o \notin {None, Unreported}

\* createTelemetryRequests lists the Telemetry resources in the cache.
createTelemetryRequests == seen # None

SeePipeline(p) ==
    /\ cached[p] # pipelines[p]
    /\ cached' = [cached EXCEPT ![p] = pipelines[p]]
    /\ queued' = (queued \/ (mapPipeline(cached[p], pipelines[p]) /\ createTelemetryRequests))
    /\ unheard' = (unheard \/ (cached[p] = Unreported /\ pipelines[p] = None))
    /\ UNCHANGED <<cluster, seen, selfMonitor, caOwners, step, obj, failed, skipped, faults>>

\* Someone deletes or changes an object of the self-monitor: its owner is enqueued.
TamperSelfMonitor ==
    /\ Fault
    /\ selfMonitor.objects # "none"
    /\ selfMonitor' = [selfMonitor EXCEPT !.objects = "some"]
    /\ queued' = TRUE
    /\ UNCHANGED <<cluster, seen, cached, caOwners, step, obj, failed, skipped, unheard>>

\* A manager that starts again lists everything.
Restart ==
    /\ Fault
    /\ seen' = telemetry /\ cached' = pipelines
    /\ queued' = (telemetry # None)
    /\ step' = "idle" /\ obj' = None /\ failed' = FALSE
    /\ UNCHANGED <<cluster, selfMonitor, caOwners, skipped, unheard>>

\* The owners that still exist.
Live(owners) == {u \in owners : telemetry # None /\ telemetry.uid = u}

CollectSelfMonitor ==
    /\ Live(selfMonitor.owners) # selfMonitor.owners
    /\ selfMonitor' = IF Live(selfMonitor.owners) = {}
                      THEN [objects |-> "none", owners |-> {}]
                      ELSE [selfMonitor EXCEPT !.owners = Live(selfMonitor.owners)]
    /\ queued' = TRUE
    /\ UNCHANGED <<cluster, seen, cached, caOwners, step, obj, failed, skipped, unheard, faults>>

CollectCASecret ==
    /\ caOwners # None /\ Live(caOwners) # caOwners
    /\ caOwners' = IF Live(caOwners) = {} THEN None ELSE Live(caOwners)
    /\ queued' = TRUE
    /\ UNCHANGED <<cluster, seen, cached, selfMonitor, step, obj, failed, skipped, unheard, faults>>

----------------------------------------------------------------------------
(***************************************************************************)
(* The reconciliation.                                                     *)
(***************************************************************************)
\* LoadOverrides and Get: an error is a retry, a paused controller (one of the
\* faults) drops the request, and a missing object ends the reconciliation.
Reconcile ==
    /\ queued /\ step = "idle"
    /\ \/ /\ Fault /\ UNCHANGED <<queued, step, obj, skipped, unheard>>
       \/ /\ Fault /\ queued' = FALSE /\ skipped' = TRUE /\ UNCHANGED <<step, obj, unheard>>
       \/ /\ seen = None
          /\ queued' = FALSE
          /\ UNCHANGED <<step, obj, skipped, unheard, faults>>
       \/ /\ seen # None
          /\ queued' = FALSE /\ skipped' = FALSE /\ unheard' = FALSE
          /\ obj' = seen /\ step' = "finalizer"
          /\ UNCHANGED faults
    /\ UNCHANGED <<cluster, seen, cached, selfMonitor, caOwners, failed>>

\* checkPipelineExist, and the answer of dependentCRsFound when its lists succeed.
checkPipelineExist == \E p \in Pipelines : cached[p] # None

\* resourcesExist answers "no" when its list fails.
dependentCRsFound(found) ==
    \/ found = checkPipelineExist /\ UNCHANGED faults
    \/ ListsFail /\ ~found /\ checkPipelineExist /\ Fault

\* doReconcile goes on with the next step, or returns an error; updateStatus
\* follows in any case.
Proceed(to) == step' = to /\ UNCHANGED <<failed, queued>>
Return == step' = "status" /\ failed' = TRUE /\ UNCHANGED queued

\* An update of the Telemetry resource: refused when it has changed since it was
\* read.  Without a finalizer, an object that is being deleted is gone.  An update
\* that fails for another reason is the last case of handleFinalizer.
Update(new) ==
    \/ /\ telemetry = obj
       /\ telemetry' = IF new.deleting /\ ~new.finalizer THEN None ELSE new
       /\ obj' = new
       /\ Proceed("webhook")
    \/ /\ telemetry # obj
       /\ UNCHANGED <<telemetry, obj>>
       /\ Return

\* Mutant: the deletion is not blocked.
handleFinalizerUnblocked ==
    /\ step = "finalizer"
    /\ Update([obj EXCEPT !.finalizer = ~obj.deleting])
    /\ UNCHANGED <<lastUID, pipelines, ops, blockers, seen, cached, selfMonitor, caOwners,
                   skipped, unheard, faults>>

handleFinalizer ==
    /\ step = "finalizer"
    /\ \/ /\ ~obj.deleting /\ ~obj.finalizer
          /\ Update([obj EXCEPT !.finalizer = TRUE]) /\ UNCHANGED faults
       \/ /\ obj.deleting /\ obj.finalizer
          /\ \E found \in BOOLEAN :
                /\ dependentCRsFound(found)
                /\ IF found THEN Proceed("webhook") /\ UNCHANGED <<telemetry, obj>>
                   ELSE Update([obj EXCEPT !.finalizer = FALSE])
       \/ /\ obj.deleting # obj.finalizer
          /\ Proceed("webhook") /\ UNCHANGED <<telemetry, obj, faults>>
       \/ /\ obj.deleting = obj.finalizer /\ (obj.deleting => ~checkPipelineExist)
          /\ Fault /\ Return /\ UNCHANGED <<telemetry, obj>>
    /\ UNCHANGED <<lastUID, pipelines, ops, blockers, seen, cached, selfMonitor, caOwners,
                   skipped, unheard>>

\* EnsureCertificate creates the CA Secret if need be (module WebhookCert); the
\* Telemetry resource becomes one of its owners.  Skipped in a deletion that no
\* pipeline blocks.
reconcileWebhook ==
    /\ step = "webhook"
    /\ \/ /\ ~obj.deleting \/ checkPipelineExist
          /\ caOwners' = (IF caOwners = None THEN {} ELSE caOwners) \cup {obj.uid}
          /\ Proceed("selfMonitor") /\ UNCHANGED faults
       \/ /\ obj.deleting
          /\ dependentCRsFound(FALSE)
          /\ Proceed("selfMonitor") /\ UNCHANGED caOwners
       \/ Fault /\ Return /\ UNCHANGED caOwners
    /\ UNCHANGED <<cluster, seen, cached, selfMonitor, obj, skipped, unheard>>

\* Mutant: the objects of the self-monitor have no owner.
SelfMonitorWithoutOwner(objects) == [selfMonitor EXCEPT !.objects = objects]

\* OwnerReferenceSetter adds the Telemetry resource to the owners of what it writes.
ApplySelfMonitor(objects) ==
    [objects |-> objects, owners |-> selfMonitor.owners \cup {obj.uid}]

DeleteSelfMonitor == [objects |-> "none", owners |-> {}]

\* Apply or delete, object by object: an error leaves some of them.
reconcileSelfMonitor ==
    /\ step = "selfMonitor"
    /\ \/ /\ selfMonitor' = IF checkPipelineExist THEN ApplySelfMonitor("all")
                            ELSE DeleteSelfMonitor
          /\ step' = "status" /\ UNCHANGED <<failed, faults>>
       \/ /\ Fault /\ step' = "status" /\ failed' = TRUE
          /\ selfMonitor' = IF checkPipelineExist
                            THEN ApplySelfMonitor(IF selfMonitor.objects = "all" THEN "all"
                                                  ELSE "some")
                            ELSE IF selfMonitor.objects = "none" THEN selfMonitor
                            ELSE [selfMonitor EXCEPT !.objects = "some"]
    /\ queued' = (queued \/ (selfMonitor'.objects = "none" /\ selfMonitor.objects # "none"))
    /\ UNCHANGED <<cluster, seen, cached, caOwners, obj, skipped, unheard>>

\* The lists of the three checkers.
Statuses(ps, names) == {ps[p] : p \in {q \in names : ps[q] # None}}
Lists(ps) == [logs |-> Statuses(ps, LogPipelines), metrics |-> Statuses(ps, MetricPipelines),
              traces |-> Statuses(ps, TracePipelines)]

\* What updateStatus may write for a Telemetry resource and pipelines.
StatusFor(deleting, ps, found) ==
    {[state |-> updateOverallState(conds, deleting, found), conds |-> conds] :
        conds \in enabledHealthCheckers(Lists(ps), deleting)}

\* Mutant: an error of the status update is not returned.
FinishIgnoringErrors(err) ==
    step' = "idle" /\ obj' = None /\ failed' = FALSE /\ UNCHANGED queued

\* The end of Reconcile: an error of doReconcile or of updateStatus is a retry.
Finish(err) ==
    /\ step' = "idle" /\ obj' = None /\ failed' = FALSE
    /\ queued' = (queued \/ failed \/ err)

updateStatus ==
    /\ step = "status"
    /\ \/ /\ \E found \in BOOLEAN : \E status \in StatusFor(obj.deleting, cached, found) :
                /\ obj.deleting => dependentCRsFound(found)
                /\ ~obj.deleting => ~found /\ UNCHANGED faults
                /\ \/ /\ telemetry = obj
                      /\ telemetry' = [obj EXCEPT !.status = status]
                      /\ Finish(FALSE)
                   \/ /\ telemetry # obj
                      /\ UNCHANGED telemetry
                      /\ Finish(TRUE)
       \/ Fault /\ UNCHANGED telemetry /\ Finish(TRUE)
    /\ UNCHANGED <<lastUID, pipelines, ops, blockers, seen, cached, selfMonitor, caOwners,
                   skipped, unheard>>

----------------------------------------------------------------------------
Reconciler ==
    Reconcile \/ handleFinalizer \/ reconcileWebhook \/ reconcileSelfMonitor \/ updateStatus
Informers == SeeTelemetry \/ \E p \in Pipelines : SeePipeline(p)
GarbageCollector == CollectSelfMonitor \/ CollectCASecret

Next ==
    \/ CreateTelemetry \/ DeleteTelemetry
    \/ \E p \in Pipelines : CreatePipeline(p) \/ ReportPipeline(p) \/ DeletePipeline(p)
    \/ TamperSelfMonitor \/ Restart
    \/ Informers \/ GarbageCollector \/ Reconciler

\* The work queue is served by one worker, informers and the garbage collector
\* catch up; users need not act, and calls fail only so often.
Spec ==
    /\ Init /\ [][Next]_vars
    /\ WF_vars(Reconciler) /\ WF_vars(SeeTelemetry)
    /\ \A p \in Pipelines : WF_vars(SeePipeline(p))
    /\ WF_vars(CollectSelfMonitor) /\ WF_vars(CollectCASecret)

----------------------------------------------------------------------------
(***************************************************************************)
(* Properties.                                                             *)
(***************************************************************************)
\* Nothing is left to do.  Two kinds of events are lost on the controller: what it
\* ignored while it was paused, and that a pipeline which never got a condition is
\* gone; they matter until the next reconciliation begins.
AtRest ==
    /\ ~queued /\ step = "idle" /\ ~skipped /\ ~unheard
    /\ seen = telemetry /\ cached = pipelines
    /\ Live(selfMonitor.owners) = selfMonitor.owners

Exists == {p \in Pipelines : pipelines[p] # None}

\* Once every request is served, the status of the Telemetry resource is one that
\* the pipelines' present conditions justify, although every step may fail or read
\* an old cache (updateStatus, mapLogPipeline).  A pipeline without conditions wakes
\* nobody, so its creation is reflected only when it reports, and its deletion only
\* by the next reconciliation.
RestingStatusIsCurrent ==
    (AtRest /\ telemetry # None /\ \A p \in Exists : pipelines[p] # Unreported) =>
        telemetry.status \in StatusFor(telemetry.deleting, pipelines, Exists # {})

\* At rest the self-monitor is complete and owned by the Telemetry resource if a
\* pipeline has reported, and absent if there is no pipeline, whatever apply or
\* delete failed half way, was changed from outside or was done by a
\* reconciliation for a Telemetry resource that is gone (reconcileSelfMonitor).  The
\* deletion of a pipeline without conditions is noticed by the next reconciliation.
RestingSelfMonitor ==
    AtRest =>
        /\ telemetry = None => selfMonitor.objects = "none"
        /\ Exists = {} => selfMonitor.objects = "none"
        /\ (telemetry # None /\ \E p \in Exists : pipelines[p] # Unreported) =>
              selfMonitor = [objects |-> "all", owners |-> {telemetry.uid}]

\* A Telemetry resource whose deletion began while the controller knew a pipeline
\* is there as long as that pipeline is, whatever is created, deleted or restarted
\* meanwhile (handleFinalizer: "Block deletion of the resource if there are still
\* some dependent resources").
DeletionIsBlocked == blockers # {} => telemetry # None

\* A Telemetry resource that is being deleted goes once its pipelines are gone:
\* the deletion of the last pipeline wakes the controller, conflicts and failures
\* are retried (handleFinalizer, mapLogPipeline).  The exception, beside a pause, is
\* a pipeline that was deleted before it had conditions: mapLogPipeline drops it,
\* and the resource stays until something else starts a reconciliation.
DeletionCompletes ==
    (telemetry # None /\ telemetry.deleting)
        ~> (telemetry = None \/ Exists # {} \/ skipped \/ unheard)
=============================================================================
