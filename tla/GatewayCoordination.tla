------------------------ MODULE GatewayCoordination ------------------------
(* How pipelines get into the OTLP Gateway.  The pipeline controllers, one      *)
(* worker each, acquire a slot, validate their pipeline and record a reference  *)
(* to it in the coordination ConfigMap; the gateway controller reads the        *)
(* references, fetches the pipelines and renders them into the collector's      *)
(* configuration.  They share nothing but the API server and the manager's      *)
(* informer caches.                                                             *)
(*                                                                              *)
(* A read-modify-write of a ConfigMap or of a status is one step here: it       *)
(* succeeds only under the resource version it was read with, that is, when     *)
(* nothing was written in between, and fails with a conflict otherwise.  As in  *)
(* ResourceLock, a bit per cached ConfigMap says whether it is still current.   *)
EXTENDS OwnerRefs, PipelineValidation

CONSTANTS
    Types,       \* the pipeline kinds, each with a controller and a lock of its own
    TypeOf,      \* TypeOf[p]: the kind of the pipeline called p
    Specs,       \* the specifications users write
    MaxIncarnations, \* bound: how often a name is given to a new pipeline
    MaxOps,      \* bound: changes made by users
    MaxFaults,   \* bound: failed API calls and manager restarts
    MaxMisled,   \* bound: failed Secret reads taken for invalid values
    MaxPauses    \* bound: changes of the override ConfigMap's paused flags

ASSUME TypesAssumption == TypeOf \in [Names -> Types] /\ "gateway" \notin Types

VARIABLES
    obj,         \* obj[p]: the pipeline resource on the API server, NoObj if none
    uids,        \* uids[p]: the last uid given out under the name p
    secret,      \* [version, last]: resource version of the Secret, 0 if absent
    lock,        \* lock[t]: owner references of the lock ConfigMap, {} if absent
    coord,       \* the coordination ConfigMap: [exists, refs]
    gw,          \* gw[p]: what the gateway's configuration renders for p
    objCache, lockCache, coordCache,   \* the informers' copies
    lockCurrent, coordCurrent,         \* do they carry the current resource version?
    queue,       \* requests for pipelines waiting in the controllers' workqueues
    gwQueued,    \* is a request for the gateway waiting?
    work,        \* work[t]: the reconciliation the worker of t is in
    gwWork,      \* the reconciliation of the gateway's worker
    linked,      \* pipelines linked to the Secret's watcher
    paused,      \* controllers paused in the override ConfigMap
    validated,   \* history: the [p, gen, spec] some reconciliation found reconcilable
    ops, faults, misled, pauses   \* how much of the bounds is used up

apiVars == <<obj, uids, secret>>
coordVars == <<coord, coordCurrent>>
lockVars == <<lock, lockCurrent>>
caches == <<objCache, lockCache, coordCache>>
gwVars == <<gw, gwWork>>
budgets == <<ops, faults, misled, pauses>>
vars == <<apiVars, coordVars, lockVars, caches, gwVars, queue, gwQueued, work, linked,
          paused, validated, budgets>>

NoObj == [uid |-> 0]
NoStatus == [gen |-> 0, reason |-> "none"]
Pipeline == [uid : Nat \ {0}, gen : Nat \ {0}, del : BOOLEAN, spec : Specs,
             st : [gen : Nat, reason : STRING]]

\* PipelineReference: a name, a generation and the versions of the Secrets.  It has
\* no uid.  The absent reference has generation 0.
NoRef == [gen |-> 0, sv |-> 0]
Reference == [gen : Nat, sv : Nat]
NoRefs == [p \in Names |-> NoRef]

\* What the collector's configuration holds for a pipeline: its specification with the
\* values taken from the Secret.  The generation is not rendered; it is kept as history.
NotRendered == [gen |-> 0]
Rendered == [gen : Nat \ {0}, spec : Specs, sv : Nat]
NothingRendered == [p \in Names |-> NotRendered]

Idle == [at |-> "idle"]
Stages == {"validate", "add", "remove", "forget", "status"}
GwIdle == [at |-> "idle"]

TypeOK ==
    /\ obj \in [Names -> Pipeline \union {NoObj}]
    /\ uids \in [Names -> Nat]
    /\ secret \in [version : Nat, last : Nat]
    /\ lock \in [Types -> SUBSET OwnerRef]
    /\ coord \in [exists : BOOLEAN, refs : [Names -> Reference]]
    /\ gw \in [Names -> Rendered \union {NotRendered}]
    /\ objCache \in [Names -> Pipeline \union {NoObj}]
    /\ lockCache \in [Types -> SUBSET OwnerRef]
    /\ coordCache \in [exists : BOOLEAN, refs : [Names -> Reference]]
    /\ lockCurrent \in [Types -> BOOLEAN]
    /\ coordCurrent \in BOOLEAN
    /\ queue \in SUBSET Names
    /\ gwQueued \in BOOLEAN
    /\ work \in [Types -> [at : Stages, p : Names, o : Pipeline \union {NoObj},
                           err : BOOLEAN] \union {Idle}]
    /\ gwWork \in [at : {"apply"}, out : [Names -> Rendered \union {NotRendered}]] \union {GwIdle}
    /\ linked \in SUBSET Names
    /\ paused \in SUBSET (Types \union {"gateway"})
    /\ validated \in SUBSET [p : Names, gen : Nat \ {0}, spec : Specs]
    /\ ops \in Nat /\ faults \in Nat /\ misled \in Nat /\ pauses \in Nat

Init ==
    /\ obj = [p \in Names |-> NoObj]
    /\ uids = [p \in Names |-> 0]
    /\ secret = [version |-> 1, last |-> 1]
    /\ lock = [t \in Types |-> {}]
    /\ coord = [exists |-> FALSE, refs |-> NoRefs]
    /\ gw = NothingRendered
    /\ objCache = obj /\ lockCache = lock /\ coordCache = coord
    /\ lockCurrent = [t \in Types |-> TRUE]
    /\ coordCurrent = TRUE
    /\ queue = {} /\ gwQueued = FALSE
    /\ work = [t \in Types |-> Idle]
    /\ gwWork = GwIdle
    /\ linked = {} /\ paused = {} /\ validated = {}
    /\ ops = 0 /\ faults = 0 /\ misled = 0 /\ pauses = 0

-----------------------------------------------------------------------------
\* Users.

UserOp ==
    /\ ops < MaxOps
    /\ ops' = ops + 1
    /\ UNCHANGED <<coordVars, lockVars, caches, gwVars, gwQueued, work, linked, paused,
                   validated, faults, misled, pauses>>

CreatePipeline(p, spec) ==
    /\ UserOp
    /\ obj[p] = NoObj
    /\ uids[p] < MaxIncarnations
    /\ uids' = [uids EXCEPT ![p] = @ + 1]
    /\ obj' = [obj EXCEPT ![p] = [uid |-> uids'[p], gen |-> 1, del |-> FALSE,
                                  spec |-> spec, st |-> NoStatus]]
    /\ UNCHANGED <<secret, queue>>

\* The API server counts a new generation for every change of the specification.
\* A LogPipeline cannot switch between OTLP and Fluent Bit.
EditPipeline(p, spec) ==
    /\ UserOp
    /\ obj[p] # NoObj /\ ~obj[p].del
    /\ spec # obj[p].spec
    /\ spec.otlp = obj[p].spec.otlp
    /\ obj' = [obj EXCEPT ![p].spec = spec, ![p].gen = @ + 1]
    /\ UNCHANGED <<uids, secret, queue>>

\* Background deletion removes the object at once; foreground deletion marks it,
\* which counts as a generation, and removes it later.
DeletePipeline(p) ==
    /\ UserOp
    /\ obj[p] # NoObj /\ ~obj[p].del
    /\ \/ obj' = [obj EXCEPT ![p] = NoObj]
       \/ obj' = [obj EXCEPT ![p].del = TRUE, ![p].gen = @ + 1]
    /\ UNCHANGED <<uids, secret, queue>>

\* The Secret is written or deleted.  Its watcher routes an event to the pipelines
\* linked to it.
ChangeSecret ==
    /\ UserOp
    /\ \/ secret' = [version |-> secret.last + 1, last |-> secret.last + 1]
       \/ secret.version # 0 /\ secret' = [secret EXCEPT !.version = 0]
    /\ queue' = queue \union linked
    /\ UNCHANGED <<obj, uids>>

\* The override ConfigMap pauses a controller, or lets it run again.
TogglePause(c) ==
    /\ pauses < MaxPauses
    /\ pauses' = pauses + 1
    /\ paused' = IF c \in paused THEN paused \ {c} ELSE paused \union {c}
    /\ UNCHANGED <<apiVars, coordVars, lockVars, caches, gwVars, queue, gwQueued, work,
                   linked, validated, ops, faults, misled>>

-----------------------------------------------------------------------------
\* Kubernetes: the end of a foreground deletion, and the garbage collector.

RemoveMarked(p) ==
    /\ obj[p] # NoObj /\ obj[p].del
    /\ obj' = [obj EXCEPT ![p] = NoObj]
    /\ UNCHANGED <<uids, secret, coordVars, lockVars, caches, gwVars, queue, gwQueued,
                   work, linked, paused, validated, budgets>>

Dangling(t) == {r \in lock[t] : obj[r.name].uid # r.uid}

GarbageCollect(t) ==
    /\ Dangling(t) # {}
    /\ lock' = [lock EXCEPT ![t] = @ \ Dangling(t)]
    /\ lockCurrent' = [lockCurrent EXCEPT ![t] = FALSE]
    /\ UNCHANGED <<apiVars, coordVars, caches, gwVars, queue, gwQueued, work, linked,
                   paused, validated, budgets>>

-----------------------------------------------------------------------------
\* Informers and the event handlers of the controllers.

Listed(t) == {p \in Names : TypeOf[p] = t /\ objCache[p] # NoObj}

\* For(&Pipeline): every event of a pipeline, its status included.
SyncPipeline(p) ==
    /\ objCache[p] # obj[p]
    /\ objCache' = [objCache EXCEPT ![p] = obj[p]]
    /\ queue' = queue \union {p}
    /\ UNCHANGED <<apiVars, coordVars, lockVars, lockCache, coordCache, gwVars, gwQueued,
                   work, linked, paused, validated, budgets>>

\* mapLockConfigMapChanges
SyncLock(t) ==
    /\ ~lockCurrent[t]
    /\ lockCurrent' = [lockCurrent EXCEPT ![t] = TRUE]
    /\ lockCache' = [lockCache EXCEPT ![t] = lock[t]]
    /\ queue' = queue \union Listed(t)
    /\ UNCHANGED <<apiVars, coordVars, lock, objCache, coordCache, gwVars, gwQueued, work,
                   linked, paused, validated, budgets>>

\* For(&ConfigMap) of the gateway controller.
SyncCoordination ==
    /\ ~coordCurrent
    /\ coordCurrent' = TRUE
    /\ coordCache' = coord
    /\ gwQueued' = TRUE
    /\ UNCHANGED <<apiVars, coord, lockVars, objCache, lockCache, gwVars, queue, work,
                   linked, paused, validated, budgets>>

\* The manager restarts: what was in memory is gone, the caches are listed anew and
\* everything found is enqueued.
Restart ==
    /\ faults < MaxFaults
    /\ faults' = faults + 1
    /\ objCache' = obj /\ lockCache' = lock /\ coordCache' = coord
    /\ lockCurrent' = [t \in Types |-> TRUE]
    /\ coordCurrent' = TRUE
    /\ queue' = {p \in Names : obj[p] # NoObj}
    /\ gwQueued' = coord.exists
    /\ work' = [t \in Types |-> Idle]
    /\ gwWork' = GwIdle
    /\ linked' = {}
    /\ UNCHANGED <<apiVars, lock, coord, gw, paused, validated, ops, misled, pauses>>

-----------------------------------------------------------------------------
\* Reconcile of a pipeline controller, up to and including TryAcquireLock.

Stage(t) == work[t].at

Started(p) ==
    /\ Stage(TypeOf[p]) = "idle"
    /\ p \in queue
    /\ queue' = queue \ {p}

\* What a reconciliation leaves alone while it holds its request.
ElsewhereUnchanged == UNCHANGED <<apiVars, caches, gwVars, gwQueued, paused, ops, pauses>>

Begin(p, stage, o, err) ==
    work' = [work EXCEPT ![TypeOf[p]] = [at |-> stage, p |-> p, o |-> o, err |-> err]]

ReconcilePaused(p) ==
    /\ Started(p)
    /\ TypeOf[p] \in paused
    /\ UNCHANGED <<work, coordVars, lockVars, linked, validated, faults, misled>>
    /\ ElsewhereUnchanged

\* The pipeline is gone: its Secret watchers are released at once, and its reference
\* is removed next.
ReconcileDeleted(p) ==
    /\ Started(p)
    /\ TypeOf[p] \notin paused
    /\ objCache[p] = NoObj
    /\ linked' = linked \ {p}
    /\ Begin(p, "forget", NoObj, FALSE)
    /\ UNCHANGED <<coordVars, lockVars, validated, faults, misled>>
    /\ ElsewhereUnchanged

\* The outcome of TryAcquireLock: see ResourceLock for its two halves.
TryAcquireLock(t, ref) ==
    CASE lockCache[t] = {}                      -> IF lock[t] = {} THEN "granted" ELSE "conflict"
      [] lockCache[t] # {} /\ ref \in lockCache[t] -> "held"
      [] lockCache[t] # {} /\ ref \notin lockCache[t] ->
             IF ~MayAddOwner(lockCache[t]) THEN "exceeded"
             ELSE IF lockCurrent[t] THEN "granted" ELSE "conflict"

\* ErrMaxPipelinesExceeded is not an error of the reconciliation.
IsRetriedLockError(outcome) == outcome = "conflict"

\* syncSecretWatchers, then the lock.  A pipeline that gets no slot goes straight to
\* its status, and so does one that Fluent Bit serves: the gateway is not its output.
\* A lost race for the ConfigMap is an error, reported after the status update.
ReconcilePipeline(p) ==
    LET t == TypeOf[p]
        o == objCache[p]
        outcome == TryAcquireLock(t, Ref(p, o.uid))
    IN  /\ Started(p)
        /\ t \notin paused
        /\ o # NoObj
        /\ linked' = IF o.spec.secret THEN linked \union {p} ELSE linked \ {p}
        /\ IF outcome = "granted"
           THEN /\ lock' = [lock EXCEPT ![t] = SetOwnerReference(Ref(p, o.uid), lockCache[t])]
                /\ lockCurrent' = [lockCurrent EXCEPT ![t] = FALSE]
           ELSE UNCHANGED lockVars
        /\ Begin(p, IF outcome \in {"held", "granted"} /\ o.spec.otlp THEN "validate" ELSE "status",
                 o, IsRetriedLockError(outcome))
        /\ UNCHANGED <<coordVars, validated, faults, misled>>
        /\ ElsewhereUnchanged

\* The overrides, the pipeline or the sync ConfigMap cannot be read or written (a lost
\* race for the sync ConfigMap included): Reconcile returns the error at once.
ReconcileFails(p) ==
    /\ Stage(TypeOf[p]) = "idle"
    /\ p \in queue
    /\ faults < MaxFaults
    /\ faults' = faults + 1
    /\ UNCHANGED <<linked, queue, work, coordVars, lockVars, validated, misled>>
    /\ ElsewhereUnchanged

-----------------------------------------------------------------------------
\* doReconcile after the lock: validate, then add or remove the reference.

\* What the validator sees: Secrets are read from the API server, the lock ConfigMap
\* from the cache.
SecretView == IF secret.version = 0 THEN "missing" ELSE "ok"

LockView(p, o) ==
    LET cached == lockCache[TypeOf[p]]
    IN  IF cached = {} THEN "absent"
        ELSE IF Ref(p, o.uid) \in cached THEN "holder" ELSE "other"

Verdict(p, o) == validate(o.spec, SecretView, LockView(p, o))

Goto(t, stage, err) ==
    work' = [work EXCEPT ![t] = [at |-> stage, p |-> work[t].p, o |-> work[t].o, err |-> err]]

Done(t, retry) ==
    /\ work' = [work EXCEPT ![t] = Idle]
    /\ queue' = IF retry THEN queue \union {work[t].p} ELSE queue

Validate(t) ==
    LET p == work[t].p
        o == work[t].o
        error == Verdict(p, o)
    IN  /\ Stage(t) = "validate"
        /\ IF isReconcilable(o.del, error)
           THEN /\ Goto(t, "add", FALSE)
                /\ validated' = validated \union {[p |-> p, gen |-> o.gen, spec |-> o.spec]}
           ELSE /\ IF ~o.del /\ IsRetried(error) THEN Goto(t, "status", TRUE)
                                                 ELSE Goto(t, "remove", FALSE)
                /\ UNCHANGED validated
        /\ UNCHANGED <<queue, coordVars, lockVars, linked, faults, misled>>
        /\ ElsewhereUnchanged

\* The value of an output cannot be resolved because the Secret could not be read.  The
\* endpoint and TLS validators report that as an invalid value, not as a failed
\* request: the reference is removed and nothing is retried.
ValidateMisled(t) ==
    /\ Stage(t) = "validate"
    /\ ~work[t].o.del
    /\ work[t].o.spec.secret
    /\ misled < MaxMisled
    /\ misled' = misled + 1
    /\ Goto(t, "remove", FALSE)
    /\ UNCHANGED <<queue, coordVars, lockVars, linked, validated, faults>>
    /\ ElsewhereUnchanged

\* CollectSecretVersions: a Secret that is not found is left out.
CollectSecretVersions(o) == IF o.spec.secret THEN secret.version ELSE 0

\* Mutations: a reference without the Secret's version, and one that is not removed.
AddUnversionedReference(refs, p, o) == [refs EXCEPT ![p] = [gen |-> o.gen, sv |-> 0]]

KeepPipelineReference(refs, p) == refs

\* AddPipelineReference and RemovePipelineReference, applied to the cached ConfigMap.
AddPipelineReference(refs, p, o) ==
    [refs EXCEPT ![p] = [gen |-> o.gen, sv |-> CollectSecretVersions(o)]]

RemovePipelineReference(refs, p) == [refs EXCEPT ![p] = NoRef]

UpdatedReferences(w) ==
    IF w.at = "add" THEN AddPipelineReference(coordCache.refs, w.p, w.o)
                    ELSE RemovePipelineReference(coordCache.refs, w.p)

\* Mutation: the update is sent without a resource version.
UpdateAcceptedUnversioned == coordCache.exists \/ ~coord.exists

\* applyConfigUpdate: create if the cache has no ConfigMap, update otherwise.  The API
\* server refuses an update of an old version, and ignores one that changes nothing.
UpdateAccepted == IF coordCache.exists THEN coordCurrent ELSE ~coord.exists

applyConfigUpdate(refs) ==
    LET updated == [exists |-> TRUE, refs |-> refs]
    IN  IF UpdateAccepted /\ coord # updated
        THEN coord' = updated /\ coordCurrent' = FALSE
        ELSE UNCHANGED coordVars

\* The reference is written, or the write is refused; either way the status comes
\* next, except for a deleted pipeline, whose request ends here.
WriteReference(t) ==
    /\ Stage(t) \in {"add", "remove", "forget"}
    /\ applyConfigUpdate(UpdatedReferences(work[t]))
    /\ IF Stage(t) = "forget"
       THEN Done(t, ~UpdateAccepted)
       ELSE Goto(t, "status", ~UpdateAccepted) /\ UNCHANGED queue
    /\ UNCHANGED <<lockVars, linked, validated, faults, misled>>
    /\ ElsewhereUnchanged

\* Mutation: the status is written once per generation.
updateStatusOnce(t, error) ==
    LET p == work[t].p
        o == objCache[p]
        skipped == o = NoObj \/ o.del \/ o.st.gen = o.gen
        st == [gen |-> o.gen, reason |-> evaluateConfigGeneratedCondition(error).reason]
    IN  /\ Stage(t) = "status"
        /\ obj' = IF ~skipped /\ o = obj[p] THEN [obj EXCEPT ![p].st = st] ELSE obj
        /\ Done(t, work[t].err \/ (~skipped /\ o # obj[p]))
        /\ UNCHANGED <<uids, secret, coordVars, lockVars, caches, gwVars, gwQueued, linked,
                       paused, validated, ops, faults, pauses>>

\* updateStatus reads the pipeline again and validates it again.  The API server
\* refuses the update if the pipeline has changed since it was cached.
updateStatus(t, error) ==
    LET p == work[t].p
        o == objCache[p]
        skipped == o = NoObj \/ o.del
        st == [gen |-> o.gen, reason |-> evaluateConfigGeneratedCondition(error).reason]
    IN  /\ Stage(t) = "status"
        /\ obj' = IF ~skipped /\ o = obj[p] THEN [obj EXCEPT ![p].st = st] ELSE obj
        /\ Done(t, work[t].err \/ (~skipped /\ o # obj[p]))
        /\ UNCHANGED <<uids, secret, coordVars, lockVars, caches, gwVars, gwQueued, linked,
                       paused, validated, ops, faults, pauses>>

UpdateStatus(t) ==
    /\ updateStatus(t, Verdict(work[t].p, objCache[work[t].p]))
    /\ UNCHANGED misled

UpdateStatusMisled(t) ==
    /\ updateStatus(t, "EndpointInvalid")
    /\ objCache[work[t].p] # NoObj
    /\ objCache[work[t].p].spec.secret
    /\ misled < MaxMisled
    /\ misled' = misled + 1

\* Another call of the reconciliation fails: listing the pipelines, reading the Secret,
\* writing the reference (which may have been stored all the same), deploying the
\* agents, updating the status.
StepFails(t) ==
    /\ Stage(t) # "idle"
    /\ faults < MaxFaults
    /\ faults' = faults + 1
    /\ IF Stage(t) \in {"forget", "status"}
       THEN Done(t, TRUE)
       ELSE Goto(t, "status", TRUE) /\ UNCHANGED queue
    /\ \/ UNCHANGED coordVars
       \/ /\ Stage(t) \in {"add", "remove", "forget"}
          /\ applyConfigUpdate(UpdatedReferences(work[t]))
    /\ UNCHANGED <<lockVars, linked, validated, misled>>
    /\ ElsewhereUnchanged

-----------------------------------------------------------------------------
\* The gateway controller.

\* Mutation: the generation is not compared.
FetchedAnyGeneration(refs) ==
    {p \in Names : refs[p] # NoRef /\ objCache[p] # NoObj /\ ~objCache[p].del}

\* fetchTracePipelines, fetchLogPipelines, fetchMetricPipelines
Fetched(refs) ==
    {p \in Names : /\ refs[p] # NoRef
                   /\ objCache[p] # NoObj
                   /\ ~objCache[p].del
                   /\ objCache[p].gen = refs[p].gen}

\* The configuration builder cannot build an exporter for a pipeline without an OTLP
\* output, or resolve a value of a Secret that is not there.
CannotBuild(p) ==
    \/ ~objCache[p].spec.otlp
    \/ objCache[p].spec.secret /\ secret.version = 0

buildCollectorConfig(pipelines) ==
    [p \in Names |->
        IF p \in pipelines
        THEN [gen |-> objCache[p].gen, spec |-> objCache[p].spec,
              sv |-> CollectSecretVersions(objCache[p])]
        ELSE NotRendered]

GatewayUnchanged == UNCHANGED <<apiVars, coordVars, lockVars, caches, work, linked, paused,
                                validated, ops, misled, pauses>>

GatewayPaused ==
    /\ gwWork = GwIdle /\ gwQueued
    /\ "gateway" \in paused
    /\ gwQueued' = FALSE
    /\ UNCHANGED <<gwVars, queue, faults>>
    /\ GatewayUnchanged

\* Read the references, fetch the pipelines and build the configuration.  A pipeline
\* for which that fails keeps all the others from being rendered, too.
GatewayBuild ==
    LET pipelines == Fetched(coordCache.refs)
    IN  /\ gwWork = GwIdle /\ gwQueued
        /\ "gateway" \notin paused
        /\ IF \E p \in pipelines : CannotBuild(p)
           THEN UNCHANGED <<gwWork, gwQueued>>
           ELSE /\ gwWork' = [at |-> "apply", out |-> buildCollectorConfig(pipelines)]
                /\ gwQueued' = FALSE
        /\ UNCHANGED <<gw, queue, faults>>
        /\ GatewayUnchanged

SameConfig(a, b) ==
    \A p \in Names :
        /\ (a[p] = NotRendered) = (b[p] = NotRendered)
        /\ a[p] # NotRendered => a[p].spec = b[p].spec /\ a[p].sv = b[p].sv

\* Mutation: the DaemonSet is written, and its event handled, when nothing has changed.
DaemonSetEventsAlways(out) ==
    /\ queue' = queue \union {p \in Names : objCache[p] # NoObj /\ objCache[p].spec.otlp}
    /\ gwQueued' = TRUE

\* mapOTLPGatewayChanges and mapOwnedResourceChanges
DaemonSetEvents(out) ==
    IF SameConfig(gw, out)
    THEN UNCHANGED <<queue, gwQueued>>
    ELSE /\ queue' = queue \union {p \in Names : objCache[p] # NoObj /\ objCache[p].spec.otlp}
         /\ gwQueued' = TRUE

\* Apply the resources, or delete them if there is nothing to render.
GatewayApply ==
    /\ gwWork # GwIdle
    /\ gw' = gwWork.out
    /\ gwWork' = GwIdle
    /\ DaemonSetEvents(gwWork.out)
    /\ UNCHANGED faults
    /\ GatewayUnchanged

\* A call of the reconciliation fails, before or after the DaemonSet was written.
GatewayFails ==
    /\ gwWork # GwIdle
    /\ faults < MaxFaults
    /\ faults' = faults + 1
    /\ gwWork' = GwIdle
    /\ gwQueued' = TRUE
    /\ \/ UNCHANGED <<gw, queue>>
       \/ /\ gw' = gwWork.out
          /\ queue' = queue \union {p \in Names : objCache[p] # NoObj /\ objCache[p].spec.otlp}
    /\ GatewayUnchanged

-----------------------------------------------------------------------------
Users ==
    \/ \E p \in Names, spec \in Specs : CreatePipeline(p, spec) \/ EditPipeline(p, spec)
    \/ \E p \in Names : DeletePipeline(p)
    \/ ChangeSecret
    \/ \E c \in Types \union {"gateway"} : TogglePause(c)

Kubernetes ==
    \/ \E p \in Names : RemoveMarked(p) \/ SyncPipeline(p)
    \/ \E t \in Types : GarbageCollect(t) \/ SyncLock(t)
    \/ SyncCoordination

Reconcile(p) == ReconcilePaused(p) \/ ReconcileDeleted(p) \/ ReconcilePipeline(p)

Continue(t) == Validate(t) \/ WriteReference(t) \/ UpdateStatus(t)

Gateway == GatewayPaused \/ GatewayBuild \/ GatewayApply

Failures ==
    \/ \E p \in Names : ReconcileFails(p)
    \/ \E t \in Types : ValidateMisled(t) \/ UpdateStatusMisled(t) \/ StepFails(t)
    \/ GatewayFails
    \/ Restart

Next ==
    \/ Users
    \/ Kubernetes
    \/ \E p \in Names : Reconcile(p)
    \/ \E t \in Types : Continue(t)
    \/ Gateway
    \/ Failures

Spec == Init /\ [][Next]_vars

Controllers ==
    \/ \E p \in Names : Reconcile(p)
    \/ \E t \in Types : Continue(t)
    \/ Gateway

\* Each kind of watch delivers and deletions end, and some controller that can go on
\* does; which pipeline's turn it is, nothing says.  Users and failures owe nothing.
Fairness ==
    /\ WF_vars(\E p \in Names : RemoveMarked(p) \/ SyncPipeline(p))
    /\ WF_vars(SyncCoordination \/ \E t \in Types : GarbageCollect(t) \/ SyncLock(t))
    /\ WF_vars(Controllers)

FairSpec == Spec /\ Fairness

-----------------------------------------------------------------------------
\* A reference changes only while the controller of its pipeline's kind writes that
\* very pipeline's reference: no read-modify-write of the shared ConfigMap by one
\* controller undoes what another has written (applyConfigUpdate).
NoLostReference ==
    [][\A p \in Names :
          coord'.refs[p] # coord.refs[p] =>
              /\ work[TypeOf[p]].at \in {"add", "remove", "forget"}
              /\ work[TypeOf[p]].p = p]_vars

\* Whatever the gateway renders was found reconcilable by the controller of the
\* pipeline: the same specification, under the same generation (fetchTracePipelines
\* compares generations for this).
RenderedWasValidated ==
    \A p \in Names :
        gw[p] # NotRendered =>
            [p |-> p, gen |-> gw[p].gen, spec |-> gw[p].spec] \in validated

\* Nothing is left to do for the pipeline controllers: no request waits or is being
\* worked on, and the caches are current.
PipelinesAtRest ==
    /\ queue = {}
    /\ \A t \in Types : work[t] = Idle /\ lockCurrent[t] /\ Dangling(t) = {}
    /\ coordCurrent
    /\ objCache = obj
    /\ \A p \in Names : obj[p] # NoObj => ~obj[p].del

AtRest == PipelinesAtRest /\ ~gwQueued /\ gwWork = GwIdle

Deployable(p) ==
    /\ obj[p] # NoObj
    /\ obj[p].spec.otlp
    /\ Ref(p, obj[p].uid) \in lock[TypeOf[p]]
    /\ isReconcilable(obj[p].del, Verdict(p, obj[p]))

\* The gateway runs exactly the pipelines that hold a slot and are valid, each with its
\* current specification and the current values of the Secret.
GatewayIsCurrent ==
    \A p \in Names :
        IF Deployable(p)
        THEN /\ gw[p] # NotRendered
             /\ gw[p].spec = obj[p].spec
             /\ gw[p].sv = CollectSecretVersions(obj[p])
        ELSE gw[p] = NotRendered

\* When the controllers are at rest, the gateway is current (doReconcile of the pipeline
\* and gateway controllers together).  Two things are excepted: a paused controller
\* drops its requests, and resuming it triggers nothing; and a failed read of a Secret
\* that is taken for an invalid value is not retried.
RestingGatewayIsCurrent == AtRest /\ pauses = 0 /\ misled = 0 => GatewayIsCurrent

\* When the controllers are at rest, every pipeline's ConfigurationGenerated condition
\* is about its current generation and says what validation says of it now
\* (updateStatus).
RestingStatusIsCurrent ==
    AtRest =>
        \A p \in Names :
            obj[p] # NoObj =>
                obj[p].st = [gen |-> obj[p].gen,
                             reason |-> evaluateConfigGeneratedCondition(Verdict(p, obj[p])).reason]

\* When the pipeline controllers are at rest, the gateway's configuration can be built
\* from the references they have left: no pipeline keeps the others from being
\* rendered (buildCollectorConfig).
RestingReferencesCanBeBuilt ==
    PipelinesAtRest => \A p \in Fetched(coord.refs) : ~CannotBuild(p)

\* Once users and failures leave them alone, the controllers come to rest: their own
\* status updates, reference updates and retries do not keep triggering each other.
ControllersComeToRest == <>[]AtRest
=============================================================================
