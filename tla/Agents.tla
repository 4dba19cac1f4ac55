------------------------------- MODULE Agents -------------------------------
(***************************************************************************)
(* The life of an agent: the metric agent, the log agent or Fluent Bit.    *)
(* No controller belongs to an agent; every reconciliation of a pipeline   *)
(* lists all pipelines of its kind and applies the agent for those that    *)
(* need it, or deletes it when none does.  The reconciled pipeline becomes *)
(* an owner of what it applies.  A pipeline that is deleted reconciles     *)
(* nothing: the agent follows only because the garbage collector drops the *)
(* pipeline from the owners of the lock ConfigMap and of the agent, and    *)
(* those updates wake the pipelines that are left.                         *)
(*                                                                         *)
(* The lock ConfigMap limits how many pipelines are served.  It is read    *)
(* from a cache that may lag behind, again for every pipeline of the list. *)
(* The status, and the reference for the gateway that metric and log       *)
(* pipelines write before they come to the agent, are in                   *)
(* GatewayCoordination, and so is the failed read of a Secret that is      *)
(* taken for a missing value.  Pipelines have no finalizers, so a deleted  *)
(* one is gone at once and none is ever listed with a deletion timestamp.  *)
(* The LogPipelines of the log agent and of Fluent Bit share a lock; here  *)
(* all pipelines are of one kind.                                          *)
(***************************************************************************)
EXTENDS Integers, FiniteSets

CONSTANTS
    Names,             \* names of pipelines
    Settings,          \* which agents a behaviour may be about, with their limits
    FIPSMode,          \* whether the manager operates in FIPS mode
    PipelineSpecs,     \* specifications a pipeline may have
    MaxIncarnations,   \* bounds how often a name is created
    MaxOps,            \* bounds what users do and what goes wrong together
    MaxFaults,         \* bounds what goes wrong: failed calls and restarts
    None

UnlimitedPipelineCount == -1

ASSUME AgentsAssumption ==
    /\ Settings \subseteq {"metric", "log", "fluentbit"}
                         \X ((Nat \ {0}) \cup {UnlimitedPipelineCount})
    /\ FIPSMode \in BOOLEAN /\ MaxIncarnations \in Nat
    /\ MaxOps \in Nat /\ MaxFaults \in Nat
    /\ None \notin Names \X Nat

\* What the checks of a validator say of a specification, apart from the lock: the
\* first error among those that OTLP pipelines pass before the lock is looked at
\* ("secret" stands for all of them), an error of the later ones ("filter"), or
\* none.  Further, which inputs the specification enables.
Plain == [error |-> "nil", inputs |-> {}]
NeedsAgent == [error |-> "nil", inputs |-> {"runtime"}]
Expiring == [error |-> "CertAboutToExpire", inputs |-> {"runtime"}]
AllSpecs == {Plain, NeedsAgent, Expiring}

\* The limit is lifted for the pipelines of OpenTelemetry Collectors only.
AllSettings == {<<"metric", UnlimitedPipelineCount>>, <<"log", 1>>, <<"fluentbit", 1>>}

VARIABLES
    kind, limit,     \* constant in a behaviour
    pipelines,       \* each pipeline's uid and specification, or None
    cached,          \* the same in the manager's cache
    incarnation,     \* how often each name has been created
    lock,            \* owners of the lock ConfigMap, {} when there is none
    seen,            \* the same in the manager's cache
    lagging,         \* the cache has an event of the lock still to see
    agent,           \* the agent's objects: how many, for which pipelines, whose
    queue,           \* names in the work queue
    worker,          \* the reconciliation under way: its pipeline, the listed
                     \* pipelines still to validate, and the reconcilable ones
    ops, faults

vars == <<kind, limit, pipelines, cached, incarnation, lock, seen, lagging, agent, queue,
          worker, ops, faults>>
constants == <<kind, limit>>
locks == <<lock, seen, lagging>>
users == <<pipelines, incarnation, ops>>

NoAgent == [objects |-> "none", config |-> {}, owners |-> {}]
Idle == [by |-> None, todo |-> {}, reconcilable |-> {}]

Init ==
    /\ \E s \in Settings : kind = s[1] /\ limit = s[2]
    /\ pipelines = [p \in Names |-> None] /\ cached = pipelines
    /\ incarnation = [p \in Names |-> 0]
    /\ lock = {} /\ seen = {} /\ lagging = FALSE /\ agent = NoAgent
    /\ queue = {} /\ worker = Idle
    /\ ops = 0 /\ faults = 0

Op == ops + faults < MaxOps /\ ops' = ops + 1
Fault == faults < MaxFaults /\ ops + faults < MaxOps /\ faults' = faults + 1

----------------------------------------------------------------------------
(***************************************************************************)
(* Users, informers, the garbage collector.                                *)
(***************************************************************************)
Create(p) ==
    /\ Op /\ pipelines[p] = None /\ incarnation[p] < MaxIncarnations
    /\ incarnation' = [incarnation EXCEPT ![p] = @ + 1]
    /\ \E s \in PipelineSpecs :
          pipelines' = [pipelines EXCEPT ![p] = [uid |-> <<p, incarnation'[p]>>, spec |-> s]]
    /\ UNCHANGED <<constants, cached, locks, agent, queue, worker, faults>>

Edit(p) ==
    /\ Op /\ pipelines[p] # None
    /\ \E s \in PipelineSpecs \ {pipelines[p].spec} :
          pipelines' = [pipelines EXCEPT ![p].spec = s]
    /\ UNCHANGED <<constants, cached, incarnation, locks, agent, queue, worker, faults>>

Delete(p) ==
    /\ Op /\ pipelines[p] # None
    /\ pipelines' = [pipelines EXCEPT ![p] = None]
    /\ UNCHANGED <<constants, cached, incarnation, locks, agent, queue, worker, faults>>

\* For(&MetricPipeline{}), For(&LogPipeline{}): every event of a pipeline.
SeePipeline(p) ==
    /\ cached[p] # pipelines[p]
    /\ cached' = [cached EXCEPT ![p] = pipelines[p]]
    /\ queue' = queue \cup {p}
    /\ UNCHANGED <<constants, users, locks, agent, worker, faults>>

Known == {p \in Names : cached[p] # None}

\* Mutant: the lock ConfigMap is not watched.
mapLockNothing == {}

\* Every event of the lock ConfigMap enqueues all pipelines.
mapLockConfigMapChanges == Known

SeeLock ==
    /\ lagging
    /\ seen' = lock /\ lagging' = FALSE
    /\ queue' = queue \cup mapLockConfigMapChanges
    /\ UNCHANGED <<constants, users, cached, lock, agent, worker, faults>>

\* Mutant: a write that changes nothing is an event too.
OwnersOfAnyWrite(old, new) == {u[1] : u \in old.owners \cup new.owners}

\* EnqueueRequestForOwner for the owners before and after a change; that objects
\* are created is no event (OwnedResourceChanged).
OwnersOf(old, new) ==
    IF old = new \/ old.objects = "none" THEN {}
    ELSE {u[1] : u \in old.owners \cup new.owners}

Live(u) == pipelines[u[1]] # None /\ pipelines[u[1]].uid = u
Collectable(owners) == {u \in owners : ~Live(u)}

\* An object whose owners are all gone is deleted with the last of them.
CollectLock ==
    /\ Collectable(lock) # {}
    /\ lock' = lock \ Collectable(lock) /\ lagging' = TRUE
    /\ UNCHANGED <<constants, users, cached, seen, agent, queue, worker, faults>>

CollectAgent ==
    /\ Collectable(agent.owners) # {}
    /\ LET left == agent.owners \ Collectable(agent.owners)
       IN  agent' = IF left = {} THEN NoAgent ELSE [agent EXCEPT !.owners = left]
    /\ queue' = queue \cup OwnersOf(agent, agent')
    /\ UNCHANGED <<constants, users, cached, locks, worker, faults>>

\* A restarted manager lists all pipelines and enqueues each of them.
Restart ==
    /\ Fault
    /\ cached' = pipelines /\ seen' = lock /\ lagging' = FALSE
    /\ queue' = {p \in Names : pipelines[p] # None}
    /\ worker' = Idle
    /\ UNCHANGED <<constants, users, lock, agent>>

----------------------------------------------------------------------------
(***************************************************************************)
(* The reconciliation.                                                     *)
(***************************************************************************)
\* Fluent Bit treats a runtime input that is not disabled as enabled; here a
\* specification without inputs is one that disables it.
isMetricAgentRequired(spec) == spec.inputs \cap {"runtime", "prometheus", "istio"} # {}
isLogAgentRequired(spec) == "runtime" \in spec.inputs
isFluentBitRequired(spec) == spec.inputs # {}

getPipelinesRequiringAgents(ps) ==
    {o \in ps : CASE kind = "metric" -> isMetricAgentRequired(o.spec)
                  [] kind = "log" -> isLogAgentRequired(o.spec)
                  [] kind = "fluentbit" -> isFluentBitRequired(o.spec)}

canAddOwner(owners) ==
    limit = UnlimitedPipelineCount \/ Cardinality(owners) < limit

\* Reads the lock from the cache.  Without a lock it is created, which fails when
\* there is one, and an update of an outdated lock is a conflict.
TryAcquireLock(u) ==
    IF u \in seen THEN "nil"
    ELSE IF ~canAddOwner(seen) THEN "MaxPipelinesExceeded"
    ELSE IF lagging THEN "conflict" ELSE "nil"

\* SetOwnerReference replaces a reference to the same name.
SetOwnerReference(u) == {v \in seen : v[1] # u[1]} \cup {u}

\* What TryAcquireLock leaves in the cluster.
LockAcquired(u) ==
    /\ lock' = IF TryAcquireLock(u) = "nil" /\ u \notin seen THEN SetOwnerReference(u) ELSE lock
    /\ lagging' = (lagging \/ lock' # lock)
    /\ UNCHANGED seen

IsLockHolder(u) ==
    IF seen = {} THEN "APIRequestFailed"
    ELSE IF u \in seen THEN "nil" ELSE "MaxPipelinesExceeded"

\* The first error.  That a certificate is about to expire is found before the
\* lock is looked at.
validate(o) ==
    IF o.spec.error \in {"nil", "filter"} /\ IsLockHolder(o.uid) # "nil"
    THEN IsLockHolder(o.uid) ELSE o.spec.error

\* The validator of Fluent Bit pipelines first acquires the lock for the pipeline.
validateFluentBit(o) ==
    IF TryAcquireLock(o.uid) # "nil" THEN TryAcquireLock(o.uid) ELSE o.spec.error

\* Fluent Bit pipelines are not looked at in FIPS mode or without their input.
isReconcilable(o) ==
    /\ kind = "fluentbit" => ~FIPSMode /\ isFluentBitRequired(o.spec)
    /\ (IF kind = "fluentbit" THEN validateFluentBit(o) ELSE validate(o))
          \in {"nil", "CertAboutToExpire"}

\* Up to the list of pipelines.  A pipeline above the limit stops here, and any
\* other error is a retry.
Reconcile(p) ==
    /\ worker.by = None /\ p \in queue
    /\ LET u == cached[p].uid
       IN  \/ /\ cached[p] # None => TryAcquireLock(u) = "MaxPipelinesExceeded"
              /\ queue' = queue \ {p}
              /\ UNCHANGED <<locks, worker, faults>>
           \/ /\ cached[p] # None /\ TryAcquireLock(u) = "nil" /\ LockAcquired(u)
              /\ queue' = queue \ {p}
              /\ worker' = [by |-> u, todo |-> {cached[q] : q \in Known}, reconcilable |-> {}]
              /\ UNCHANGED faults
           \/ /\ cached[p] # None
              /\ Fault \/ (TryAcquireLock(u) = "conflict" /\ UNCHANGED faults)
              /\ UNCHANGED <<queue, locks, worker>>
    /\ UNCHANGED <<constants, users, cached, agent>>

\* An error ends the reconciliation, which is tried again.
Fail == worker' = Idle /\ queue' = queue \cup {worker.by[1]}

\* The validation of a listed pipeline came to an end.
Validated(o, found) ==
    /\ worker' = [worker EXCEPT !.todo = @ \ {o}, !.reconcilable = @ \cup found]
    /\ UNCHANGED queue

AcquiresLock(o) == kind = "fluentbit" /\ ~FIPSMode /\ isFluentBitRequired(o.spec)

\* One step for each pipeline of the list.  That the validator of Fluent Bit
\* pipelines failed to write the lock counts against the pipeline and is no retry.
getReconcilablePipelines ==
    /\ \E o \in worker.todo :
          \/ /\ IF AcquiresLock(o) THEN LockAcquired(o.uid) ELSE UNCHANGED locks
             /\ \/ /\ kind # "fluentbit" => validate(o) # "APIRequestFailed"
                   /\ Validated(o, {q \in {o} : isReconcilable(q)}) /\ UNCHANGED faults
                \/ /\ \/ Fault
                      \/ kind # "fluentbit" /\ validate(o) = "APIRequestFailed" /\ UNCHANGED faults
                   /\ Fail
          \/ /\ AcquiresLock(o) /\ TryAcquireLock(o.uid) = "nil" /\ o.uid \notin seen
             /\ Fault /\ Validated(o, {}) /\ UNCHANGED locks
    /\ UNCHANGED <<constants, users, cached, agent>>

\* Mutant: the plain client is used, which sets no owner.
ApplyWithoutOwner(wanted, objects) ==
    [objects |-> objects, config |-> wanted, owners |-> agent.owners]

\* ApplyResources through the OwnerReferenceSetter of the reconciled pipeline.
ApplyResources(wanted, objects) ==
    [objects |-> objects, config |-> wanted, owners |-> agent.owners \cup {worker.by}]

\* Objects are applied one by one, ConfigMap before DaemonSet: an error leaves
\* some of them, with the old or the new configuration, and is a retry.
Apply(wanted) ==
    /\ wanted # {}
    /\ \/ agent' = ApplyResources(wanted, "all") /\ UNCHANGED faults
       \/ /\ Fault
          /\ \E config \in {agent.config, wanted} :
                agent' = ApplyResources(config, IF agent.objects = "all" THEN "all" ELSE "some")

\* DeleteResources goes on after an error and reports it.
DeleteResources(wanted) ==
    /\ wanted = {}
    /\ \/ agent' = NoAgent /\ UNCHANGED faults
       \/ /\ Fault
          /\ agent' = IF agent.objects = "none" THEN agent ELSE [agent EXCEPT !.objects = "some"]

doReconcile ==
    /\ worker.by # None /\ worker.todo = {}
    /\ LET wanted == getPipelinesRequiringAgents(worker.reconcilable)
       IN  Apply(wanted) \/ DeleteResources(wanted)
    /\ queue' = queue \cup OwnersOf(agent, agent')
                     \cup (IF faults' # faults THEN {worker.by[1]} ELSE {})
    /\ worker' = Idle
    /\ UNCHANGED <<constants, users, cached, locks>>

----------------------------------------------------------------------------
Controller == getReconcilablePipelines \/ doReconcile \/ \E p \in Names : Reconcile(p)

Next ==
    \/ \E p \in Names : Create(p) \/ Edit(p) \/ Delete(p) \/ SeePipeline(p)
    \/ SeeLock \/ CollectLock \/ CollectAgent \/ Restart
    \/ Controller

\* One worker serves the queue; informers and the garbage collector catch up.
Spec ==
    /\ Init /\ [][Next]_vars
    /\ WF_vars(getReconcilablePipelines) /\ WF_vars(doReconcile)
    /\ WF_vars(SeeLock) /\ WF_vars(CollectLock) /\ WF_vars(CollectAgent)
    /\ \A p \in Names : WF_vars(Reconcile(p)) /\ WF_vars(SeePipeline(p))

----------------------------------------------------------------------------
AtRest ==
    /\ queue = {} /\ worker = Idle /\ cached = pipelines /\ ~lagging
    /\ \A u \in lock \cup agent.owners : Live(u)

Existing == {pipelines[p] : p \in {q \in Names : pipelines[q] # None}}

\* The pipelines an agent is for: they have a slot, need the agent, and their
\* specification is valid or has a certificate that is about to expire.
Wanted ==
    {o \in getPipelinesRequiringAgents(Existing) :
        /\ o.uid \in lock /\ o.spec.error \in {"nil", "CertAboutToExpire"}
        /\ kind = "fluentbit" => ~FIPSMode}

\* Once nothing is left to do, the agent is configured for all the pipelines with
\* a slot that are valid and need it, each in its present form, is complete if it
\* is configured for any, and else is gone: also after the deletion of a pipeline,
\* which reconciles nothing by itself, and after half-done applies and deletes.
\* A pipeline without a slot is in the configuration only if its certificate is
\* about to expire, an error that hides the limit from validate, and never in
\* Fluent Bit's (doReconcile, reconcileMetricAgents, reconcileAgent).
RestingAgentIsCurrent ==
    AtRest =>
        /\ {o \in agent.config : o.uid \in lock} = Wanted
        /\ \A o \in agent.config :
              \/ o.uid \in lock
              \/ kind # "fluentbit" /\ o.spec.error = "CertAboutToExpire"
        /\ IF agent.config = {} THEN agent = NoAgent ELSE agent.objects = "all"

\* An agent never survives the pipelines: at rest its owners are pipelines that
\* exist and have a slot, so that the garbage collector removes it with the last
\* of them (OwnerReferenceSetter, TryAcquireLock).
RestingOwnersExist ==
    AtRest /\ agent # NoAgent => agent.owners # {} /\ agent.owners \subseteq lock

\* The controller comes to rest when users do: what it applies, and the owner
\* references that are collected, do not wake it for ever, a pipeline that lost a
\* conflict or met a full lock gets another chance, and the limit leaves no slot
\* unused (TryAcquireLock, mapLockConfigMapChanges, OwnedResourceChanged).
ControllerComesToRest ==
    <>[](/\ AtRest
         /\ Cardinality(lock) = IF canAddOwner(Existing) THEN Cardinality(Existing) ELSE limit)
=============================================================================
