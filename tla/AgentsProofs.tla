---------------------------- MODULE AgentsProofs ----------------------------
(***************************************************************************)
(* What the reconciliations of the pipelines guarantee about the agent,    *)
(* for any pipelines, any limit and any number of operations and faults.   *)
(* As no controller belongs to the agent, the argument is about who will   *)
(* still look at it: as long as the agent does not fit the pipelines of    *)
(* the cache, a pipeline that holds or will get a slot is in the queue, or *)
(* the garbage collector has an owner to drop.                             *)
(***************************************************************************)
EXTENDS Agents, TLAPS

\* The uids and the pipelines of behaviours of any length.
AllUIDs == Names \X Nat
AllObjects == [uid : AllUIDs, spec : PipelineSpecs]

\* The agent and the reconciliation under way.
AgentType == [objects : {"none", "some", "all"}, config : SUBSET AllObjects,
              owners : SUBSET AllUIDs]
WorkerType == [by : AllUIDs \cup {None}, todo : SUBSET AllObjects,
               reconcilable : SUBSET AllObjects]

\* A reconciliation under way belongs to a pipeline, and a cache that does not lag
\* behind has the lock as it is.
TypeInv ==
    /\ <<kind, limit>> \in Settings
    /\ pipelines \in [Names -> AllObjects \cup {None}]
    /\ cached \in [Names -> AllObjects \cup {None}]
    /\ incarnation \in [Names -> Nat]
    /\ lock \subseteq AllUIDs /\ seen \subseteq AllUIDs
    /\ lagging \in BOOLEAN /\ (~lagging => seen = lock)
    /\ agent \in AgentType /\ queue \subseteq Names
    /\ worker \in WorkerType
    /\ worker.by = None => worker = Idle
    /\ faults \in Nat

\* The uids that something other than the pipelines themselves remembers.
Remembered ==
    lock \cup seen \cup agent.owners \cup {o.uid : o \in worker.todo}
         \cup ({worker.by} \ {None})

\* The uid has been given to a pipeline.
Past(u) == u[2] <= incarnation[u[1]]

\* The cache has the pipeline with this uid.
Current(u) == cached[u[1]] # None /\ cached[u[1]].uid = u

\* No uid is remembered before the pipeline exists, and the cache has every live
\* pipeline that something remembers: what the manager does with a uid it has read
\* from the cache never runs ahead of the cache.
UIDInv ==
    /\ \A p \in Names : pipelines[p] # None => pipelines[p].uid = <<p, incarnation[p]>>
    /\ \A p \in Names : cached[p] # None => cached[p].uid[1] = p /\ Past(cached[p].uid)
    /\ \A u \in Remembered : Past(u) /\ (Live(u) => Current(u))

\* An agent has an owner, and a live pipeline that owns it, or that the cache shows
\* with a slot, has one.
OwnerInv ==
    /\ agent # NoAgent => agent.objects # "none" /\ agent.owners # {}
    /\ \A u \in agent.owners \cup seen : Live(u) => u \in lock

\* The pipelines of the cache.
KnownObjects == {cached[p] : p \in Known}

\* The validators accept the specification, apart from the lock; they accept it
\* without looking at the lock; it needs the agent, and they accept it.
Accepted(o) ==
    /\ o.spec.error \in {"nil", "CertAboutToExpire"}
    /\ kind = "fluentbit" => ~FIPSMode
Exempt(o) == kind # "fluentbit" /\ o.spec.error = "CertAboutToExpire"
Wants(o) == Accepted(o) /\ o \in getPipelinesRequiringAgents({o})

\* The pipelines that are still to be validated fit the slots of live pipelines and
\* have a name at most once.  Unless it is queued, a pipeline of the list is what
\* the cache has, and a pipeline of the cache that has a slot and needs the agent
\* is still to be validated or was found reconcilable.
WorkerInv ==
    worker.by # None =>
        /\ Live(worker.by) => worker.by \in lock
        /\ \A v \in lock, o \in worker.todo : (v[1] = o.uid[1] /\ Live(v)) => o.uid = v
        /\ \A o, r \in worker.todo : o.uid[1] = r.uid[1] => o = r
        /\ \A o \in worker.todo \cup worker.reconcilable :
              o.uid[1] \in queue \/ o \in KnownObjects
        /\ \A o \in worker.reconcilable : Accepted(o)
        /\ ~lagging => \A o \in KnownObjects :
              (o.uid \in lock /\ Wants(o)) =>
                  o \in worker.todo \cup worker.reconcilable \/ o.uid[1] \in queue
        /\ \/ lagging \/ Known \subseteq queue
           \/ \A o \in worker.reconcilable : o.uid \in lock \/ Exempt(o)

\* The pipelines the agent has to serve.
Target == {o \in KnownObjects : Wants(o) /\ o.uid \in lock}

\* The agent is what a reconciliation leaves for the pipelines of the cache.
Matches ==
    /\ {o \in agent.config : o.uid \in lock} = Target
    /\ \A o \in agent.config : o.uid \in lock \/ Exempt(o)
    /\ IF agent.config = {} THEN agent = NoAgent ELSE agent.objects = "all"

\* What makes a later reconciliation look at the agent: a queued pipeline with a
\* slot; if nobody has one, every pipeline is queued and the first gets it; an event
\* of the lock, which queues everybody; a slot of a deleted pipeline, whose removal
\* is such an event; or nobody is left, and the agent goes with its last owner.
HolderQueued == \E o \in KnownObjects, v \in lock : o.uid[1] \in queue /\ v[1] = o.uid[1]
AllQueued == lock = {} /\ Known \subseteq queue
Woken == lagging \/ Known = {} \/ Collectable(lock) # {} \/ HolderQueued \/ AllQueued

\* A live pipeline that the agent serves is among its owners, or is going to be.
MemberInv ==
    ~lagging => \A o \in KnownObjects :
        (o.uid \in lock /\ Wants(o) /\ Live(o.uid)) =>
            o.uid \in agent.owners \/ o.uid[1] \in queue \/ worker.by = o.uid

\* The agent is right for the cached pipelines, or somebody will look at it again.
AgentInv ==
    /\ worker.by = None => Matches \/ Woken
    /\ worker.by # None => worker.by \in lock \/ Woken

----------------------------------------------------------------------------
\* Nobody holds an empty lock.
LEMMA EmptyLock == Cardinality({}) = 0
<1> DEFINE Count(CS) == [T \in SUBSET {} |-> IF T = {} THEN 0 ELSE 1 + CS[T \ {CHOOSE x : x \in T}]]
<1>1. \A f : Count(f) = [T \in SUBSET {} |-> 0]
  BY Zenon
<1>2. \E f : f = Count(f)
  BY <1>1, ZenonT(30)
<1>3. PICK f : f = Count(f) /\ f = CHOOSE CS : CS = Count(CS)
  BY <1>2, Zenon
<1>4. f[{}] = 0
  BY <1>3, Zenon
<1> QED BY <1>3, <1>4, Zenon DEF Cardinality

\* There is room in an empty lock.
LEMMA RoomInEmptyLock ==
    ASSUME TypeInv PROVE canAddOwner({})
<1>1. limit \in (Nat \ {0}) \cup {UnlimitedPipelineCount}
  BY AgentsAssumption, Zenon DEF TypeInv
<1>2. CASE limit = UnlimitedPipelineCount
  BY <1>2, Zenon DEF canAddOwner
<1>3. CASE limit \in Nat \ {0}
  <2>1. 0 < limit
    BY <1>3
  <2> QED BY <2>1, EmptyLock, Zenon DEF canAddOwner
<1> QED BY <1>1, <1>2, <1>3, Zenon

\* A uid is a name and a number, and is not None.
LEMMA UIDType ==
    ASSUME NEW u \in AllUIDs
    PROVE  u[1] \in Names /\ u[2] \in Nat /\ u # None
BY AgentsAssumption, Zenon DEF AllUIDs

\* What the reconcilable pipelines need of the agent (getPipelinesRequiringAgents).
LEMMA WantedIs ==
    ASSUME NEW ps, \A o \in ps : Accepted(o)
    PROVE  getPipelinesRequiringAgents(ps) = {o \in ps : Wants(o)}
BY Zenon DEF getPipelinesRequiringAgents, Wants

\* Acquiring the lock leaves it alone, or takes a free slot of the lock as it is
\* (TryAcquireLock, SetOwnerReference).
LEMMA LockAcquiredIs ==
    ASSUME TypeInv, NEW u, LockAcquired(u)
    PROVE  \/ UNCHANGED locks
           \/ /\ ~lagging /\ lagging' /\ UNCHANGED seen /\ u \notin lock
              /\ lock' = {v \in lock : v[1] # u[1]} \cup {u}
<1>1. CASE TryAcquireLock(u) = "nil" /\ u \notin seen
  <2>1. ~lagging
    BY <1>1, Zenon DEF TryAcquireLock
  <2>2. seen = lock /\ lock' = {v \in lock : v[1] # u[1]} \cup {u} /\ UNCHANGED seen
    BY <1>1, <2>1, Zenon DEF TypeInv, LockAcquired, SetOwnerReference
  <2>3. lock' # lock
    BY <1>1, <2>2, Zenon
  <2>4. lagging' = TRUE
    BY <2>3, Zenon DEF LockAcquired
  <2> QED BY <1>1, <2>1, <2>2, <2>4, Zenon
<1>2. CASE ~(TryAcquireLock(u) = "nil" /\ u \notin seen)
  <2>1. lock' = lock /\ UNCHANGED seen
    BY <1>2, Zenon DEF LockAcquired
  <2>2. lagging' = lagging
    BY <2>1, Zenon DEF LockAcquired, TypeInv
  <2> QED BY <2>1, <2>2, Zenon DEF locks
<1> QED BY <1>1, <1>2, Zenon

\* Who is reconcilable is accepted and has a slot, unless the validator does not
\* look at the lock; who has a slot and needs the agent is reconcilable.
LEMMA ReconcilableIs ==
    ASSUME NEW o
    PROVE  /\ isReconcilable(o) => Accepted(o)
           /\ (isReconcilable(o) /\ LockAcquired(o.uid)) => o.uid \in seen \cup lock' \/ Exempt(o)
           /\ (isReconcilable(o) /\ kind # "fluentbit") => o.uid \in seen \/ Exempt(o)
           /\ (Wants(o) /\ o.uid \in seen) => isReconcilable(o)
<1>1. CASE kind = "fluentbit"
  <2>1. isReconcilable(o) <=>
          /\ ~FIPSMode /\ isFluentBitRequired(o.spec)
          /\ TryAcquireLock(o.uid) = "nil" /\ o.spec.error \in {"nil", "CertAboutToExpire"}
    <3>1. TryAcquireLock(o.uid) \in {"nil", "MaxPipelinesExceeded", "conflict"}
      BY Zenon DEF TryAcquireLock
    <3>2. TryAcquireLock(o.uid) # "nil" =>
             TryAcquireLock(o.uid) # "nil" /\ TryAcquireLock(o.uid) # "CertAboutToExpire"
      BY <3>1, Zenon
    <3> QED BY <1>1, <3>2, Zenon DEF isReconcilable, validateFluentBit
  <2>2. isReconcilable(o) /\ LockAcquired(o.uid) => o.uid \in seen \cup lock'
    BY <2>1, Zenon DEF LockAcquired, SetOwnerReference
  <2>3. o.uid \in seen => TryAcquireLock(o.uid) = "nil"
    BY Zenon DEF TryAcquireLock
  <2>4. Wants(o) => ~FIPSMode /\ isFluentBitRequired(o.spec) /\ o.spec.error \in {"nil", "CertAboutToExpire"}
    BY <1>1, Zenon DEF Wants, Accepted, getPipelinesRequiringAgents
  <2> QED BY <1>1, <2>1, <2>2, <2>3, <2>4, Zenon DEF Accepted
<1>2. CASE kind # "fluentbit"
  <2>1. isReconcilable(o) <=> validate(o) \in {"nil", "CertAboutToExpire"}
    BY <1>2, Zenon DEF isReconcilable
  <2>2. o.uid \in seen => IsLockHolder(o.uid) = "nil"
    BY Zenon DEF IsLockHolder
  <2>3. o.uid \notin seen => IsLockHolder(o.uid) \in {"APIRequestFailed", "MaxPipelinesExceeded"}
    BY Zenon DEF IsLockHolder
  <2>4. validate(o) \in {"nil", "CertAboutToExpire"}
          => /\ o.spec.error \in {"nil", "CertAboutToExpire"}
             /\ o.uid \in seen \/ o.spec.error = "CertAboutToExpire"
    BY <2>2, <2>3, Zenon DEF validate
  <2>5. o.uid \in seen => validate(o) = o.spec.error
    BY <2>2, Zenon DEF validate
  <2> QED BY <1>2, <2>1, <2>4, <2>5, Zenon DEF Accepted, Exempt, Wants
<1> QED BY <1>1, <1>2, Zenon

\* The two ways a pipeline leaves the queue: with a slot, or without one.
Takes(p) ==
    /\ worker.by = None /\ p \in queue /\ cached[p] # None
    /\ TryAcquireLock(cached[p].uid) = "nil" /\ LockAcquired(cached[p].uid)
    /\ queue' = queue \ {p}
    /\ worker' = [by |-> cached[p].uid, todo |-> {cached[q] : q \in Known}, reconcilable |-> {}]
    /\ UNCHANGED <<kind, limit, pipelines, incarnation, cached, agent, faults>>

Drops(p) ==
    /\ worker.by = None /\ p \in queue
    /\ cached[p] # None => TryAcquireLock(cached[p].uid) = "MaxPipelinesExceeded"
    /\ queue' = queue \ {p}
    /\ UNCHANGED <<kind, limit, pipelines, incarnation, cached, agent, locks, worker, faults>>

\* Reconcile takes a slot, gives up, or fails and changes nothing.
LEMMA ReconcileStep ==
    ASSUME NEW p \in Names, Reconcile(p)
    PROVE  \/ Takes(p) \/ Drops(p)
           \/ UNCHANGED <<kind, limit, pipelines, incarnation, cached, agent, locks, worker, queue>>
BY Zenon DEF Reconcile, Takes, Drops, constants, users

\* The validation of one listed pipeline, or its failure.
Validates(o) ==
    \E found \in SUBSET {o} :
        /\ worker' = [worker EXCEPT !.todo = @ \ {o}, !.reconcilable = @ \cup found]
        /\ UNCHANGED queue
        /\ \A q \in found : isReconcilable(q) /\ (kind = "fluentbit" => LockAcquired(q.uid))
        /\ isReconcilable(o) => o \in found \/ o.uid \notin seen

\* getReconcilablePipelines validates a pipeline of the list, or fails.
LEMMA ValidationStep ==
    ASSUME getReconcilablePipelines
    PROVE  /\ UNCHANGED <<kind, limit, pipelines, incarnation, cached, agent>>
           /\ \E o \in worker.todo :
                 /\ LockAcquired(o.uid) \/ UNCHANGED locks
                 /\ Validates(o) \/ Fail
<1>1. UNCHANGED <<kind, limit, pipelines, incarnation, cached, agent>>
  BY Zenon DEF getReconcilablePipelines, constants, users
<1>2. PICK o \in worker.todo :
         \/ /\ IF AcquiresLock(o) THEN LockAcquired(o.uid) ELSE UNCHANGED locks
            /\ Validated(o, {q \in {o} : isReconcilable(q)}) \/ Fail
         \/ o.uid \notin seen /\ Validated(o, {}) /\ UNCHANGED locks
  BY Zenon DEF getReconcilablePipelines
<1>3. CASE /\ IF AcquiresLock(o) THEN LockAcquired(o.uid) ELSE UNCHANGED locks
           /\ Validated(o, {q \in {o} : isReconcilable(q)})
  <2>1. kind = "fluentbit" /\ isReconcilable(o) => LockAcquired(o.uid)
    BY <1>3, Zenon DEF isReconcilable, AcquiresLock
  <2>2. {q \in {o} : isReconcilable(q)} \in SUBSET {o}
    BY Zenon
  <2>3. Validates(o)
    BY <1>3, <2>1, <2>2, Zenon DEF Validates, Validated
  <2> QED BY <1>1, <1>3, <2>3, Zenon
<1>4. CASE o.uid \notin seen /\ Validated(o, {}) /\ UNCHANGED locks
  <2>1. {} \in SUBSET {o}
    BY Zenon
  <2>2. Validates(o)
    BY <1>4, <2>1, ZenonT(30) DEF Validates, Validated
  <2> QED BY <1>1, <1>4, <2>2, Zenon
<1> QED BY <1>1, <1>2, <1>3, <1>4, Zenon

\* Only a reconciliation under way has pipelines to validate.
LEMMA ListedPipeline ==
    ASSUME TypeInv, NEW o \in worker.todo
    PROVE  o \in AllObjects /\ o.uid \in AllUIDs /\ worker.by \in AllUIDs /\ worker.by # None
<1>1. worker.todo # Idle.todo
  BY Zenon DEF Idle
<1>2. worker.by # None
  BY <1>1, Zenon DEF TypeInv
<1>3. worker.todo \subseteq AllObjects /\ worker.by \in AllUIDs
  BY <1>2, Zenon DEF TypeInv, WorkerType
<1> QED BY <1>2, <1>3, Zenon DEF AllObjects

LEMMA InitTypeInv == Init => TypeInv
<1> SUFFICES ASSUME Init PROVE TypeInv
  BY Zenon
<1>1. worker \in WorkerType /\ worker = Idle
  BY Zenon DEF Init, Idle, WorkerType
<1>2. agent \in AgentType
  BY Zenon DEF Init, NoAgent, AgentType
<1>3. <<kind, limit>> \in Settings
  <2>1. PICK s \in Settings : kind = s[1] /\ limit = s[2]
    BY Zenon DEF Init
  <2>2. s = <<s[1], s[2]>>
    BY AgentsAssumption
  <2> QED BY <2>1, <2>2, Zenon
<1> QED BY <1>1, <1>2, <1>3, Zenon DEF Init, TypeInv

LEMMA NextTypeInv == TypeInv /\ [Next]_vars => TypeInv'
<1> SUFFICES ASSUME TypeInv, [Next]_vars PROVE TypeInv'
  BY Zenon
<1> USE DEF TypeInv, Fault
<1>1. ASSUME NEW p \in Names, Create(p) PROVE TypeInv'
  <2>1. PICK sp \in PipelineSpecs :
           pipelines' = [pipelines EXCEPT ![p] = [uid |-> <<p, incarnation'[p]>>, spec |-> sp]]
    BY <1>1, Zenon DEF Create
  <2>2. incarnation' \in [Names -> Nat]
    BY <1>1 DEF Create
  <2>3. [uid |-> <<p, incarnation'[p]>>, spec |-> sp] \in AllObjects
    BY <2>2, Zenon DEF AllObjects, AllUIDs
  <2>4. pipelines' \in [Names -> AllObjects \cup {None}]
    BY <2>1, <2>3, Zenon
  <2> QED BY <1>1, <2>2, <2>4, Zenon DEF Create, constants, locks
<1>2. ASSUME NEW p \in Names, Edit(p) PROVE TypeInv'
  <2>1. PICK sp \in PipelineSpecs : pipelines' = [pipelines EXCEPT ![p].spec = sp]
    BY <1>2, Zenon DEF Edit
  <2>2. pipelines[p] \in AllObjects
    BY <1>2, Zenon DEF Edit
  <2>3. [pipelines[p] EXCEPT !.spec = sp] \in AllObjects
    BY <2>2, Zenon DEF AllObjects
  <2>4. pipelines' \in [Names -> AllObjects \cup {None}]
    BY <2>1, <2>3, Zenon
  <2> QED BY <1>2, <2>4, Zenon DEF Edit, constants, locks
<1>3. ASSUME NEW p \in Names, Delete(p) PROVE TypeInv'
  BY <1>3, Zenon DEF Delete, constants, locks
<1>4. ASSUME NEW p \in Names, SeePipeline(p) PROVE TypeInv'
  BY <1>4, Zenon DEF SeePipeline, users, constants, locks
<1>5. CASE CollectLock
  BY <1>5, Zenon DEF CollectLock, users, constants
<1>6. CASE SeeLock
  BY <1>6, Zenon DEF SeeLock, users, constants, mapLockConfigMapChanges, Known
<1>7. CASE CollectAgent
  <2>1. agent' \in AgentType
    BY <1>7, Zenon DEF CollectAgent, NoAgent, AgentType
  <2>2. agent.owners \cup agent'.owners \subseteq AllUIDs
    BY <2>1, Zenon DEF AgentType
  <2>3. OwnersOf(agent, agent') \subseteq Names
    BY <2>2, UIDType DEF OwnersOf
  <2>4. queue' \subseteq Names
    BY <1>7, <2>3, Zenon DEF CollectAgent
  <2> QED BY <1>7, <2>1, <2>4, Zenon DEF CollectAgent, users, constants, locks
<1>8. CASE Restart
  <2>1. Idle \in WorkerType /\ faults' \in Nat
    BY <1>8 DEF Restart, Idle, WorkerType
  <2> QED BY <1>8, <2>1, Zenon DEF Restart, users, constants
<1>9. ASSUME NEW u \in AllUIDs, LockAcquired(u) \/ UNCHANGED locks
      PROVE  /\ lock' \subseteq AllUIDs /\ seen' \subseteq AllUIDs
             /\ lagging' \in BOOLEAN /\ (~lagging' => seen' = lock')
  <2>1. CASE UNCHANGED locks
    BY <2>1, Zenon DEF locks
  <2>2. CASE lagging' /\ UNCHANGED seen /\ lock' = {v \in lock : v[1] # u[1]} \cup {u}
             /\ LockAcquired(u)
    <3>1. lagging' \in BOOLEAN
      BY <2>2, Zenon DEF LockAcquired
    <3> QED BY <2>2, <3>1, Zenon
  <2> QED BY <1>9, <2>1, <2>2, LockAcquiredIs, Zenon
<1>10. ASSUME NEW p \in Names, Takes(p) PROVE TypeInv'
  <2>1. cached[p].uid \in AllUIDs /\ cached[p].uid # None
    BY <1>10, UIDType, Zenon DEF AllObjects, Takes
  <2>2. {cached[q] : q \in Known} \subseteq AllObjects
    BY Zenon DEF Known
  <2>3. worker' \in WorkerType /\ worker'.by # None /\ queue' \subseteq Names
    BY <1>10, <2>1, <2>2, Zenon DEF WorkerType, Takes
  <2>4. LockAcquired(cached[p].uid)
    BY <1>10, Zenon DEF Takes
  <2> QED BY <1>9, <1>10, <2>1, <2>3, <2>4, Zenon DEF Takes
<1>11. ASSUME NEW p \in Names, Drops(p) PROVE TypeInv'
  BY <1>11, Zenon DEF Drops, locks
<1>12. CASE getReconcilablePipelines
  <2>1. UNCHANGED <<kind, limit, pipelines, incarnation, cached, agent>> /\ faults' \in Nat
    <3>1. faults' = faults \/ faults' = faults + 1
      BY <1>12, Zenon DEF getReconcilablePipelines
    <3> QED BY <1>12, <3>1, ValidationStep
  <2>2. PICK o \in worker.todo : /\ LockAcquired(o.uid) \/ UNCHANGED locks
                                 /\ Validates(o) \/ Fail
    BY <1>12, ValidationStep, Zenon
  <2>3. o \in AllObjects /\ o.uid \in AllUIDs /\ worker.by # None
    BY ListedPipeline, Zenon
  <2>4. worker.by \in AllUIDs /\ worker.by[1] \in Names
    BY <2>3, UIDType, Zenon DEF WorkerType
  <2>5. CASE Fail
    <3>1. Idle \in WorkerType
      BY Zenon DEF Idle, WorkerType
    <3> QED BY <1>9, <2>1, <2>2, <2>3, <2>4, <2>5, <3>1, Zenon DEF Fail
  <2>6. CASE Validates(o)
    <3>1. worker' \in WorkerType /\ worker'.by # None
      BY <2>3, <2>6, Zenon DEF Validates, WorkerType
    <3> QED BY <1>9, <2>1, <2>2, <2>3, <2>6, <3>1, Zenon DEF Validates
  <2> QED BY <2>2, <2>5, <2>6, Zenon
<1>13. CASE doReconcile
  <2>1. worker.by \in AllUIDs /\ worker.reconcilable \subseteq AllObjects
    BY <1>13, Zenon DEF doReconcile, WorkerType
  <2>2. PICK wanted : /\ wanted = getPipelinesRequiringAgents(worker.reconcilable)
                      /\ Apply(wanted) \/ DeleteResources(wanted)
    BY <1>13, Zenon DEF doReconcile
  <2>3. wanted \subseteq AllObjects
    BY <2>1, <2>2, Zenon DEF getPipelinesRequiringAgents
  <2>4. agent' \in AgentType
    <3>1. CASE Apply(wanted)
      BY <2>1, <2>3, <3>1 DEF Apply, ApplyResources, AgentType
    <3>2. CASE DeleteResources(wanted)
      BY <3>2 DEF DeleteResources, NoAgent, AgentType
    <3> QED BY <2>2, <3>1, <3>2, Zenon
  <2>5. queue' \subseteq Names
    <3>1. agent.owners \cup agent'.owners \subseteq AllUIDs
      BY <2>4, Zenon DEF AgentType
    <3>2. OwnersOf(agent, agent') \subseteq Names
      BY <3>1, UIDType DEF OwnersOf
    <3>3. worker.by[1] \in Names
      BY <2>1, UIDType, Zenon
    <3> QED BY <1>13, <3>2, <3>3, Zenon DEF doReconcile
  <2>6. Idle \in WorkerType
    BY Zenon DEF Idle, WorkerType
  <2>7. faults' \in Nat
    BY <2>2 DEF Apply, DeleteResources
  <2> QED BY <1>13, <2>4, <2>5, <2>6, <2>7, Zenon DEF doReconcile, users, constants, locks
<1>14. CASE UNCHANGED vars
  BY <1>14, Zenon DEF vars
<1>15. ASSUME NEW p \in Names, Reconcile(p) PROVE TypeInv'
  <2>1. CASE UNCHANGED <<kind, limit, pipelines, incarnation, cached, agent, locks, worker, queue>>
    <3>1. faults' \in Nat
      BY <1>15 DEF Reconcile
    <3> QED BY <2>1, <3>1, Zenon DEF locks
  <2> QED BY <1>10, <1>11, <1>15, <2>1, ReconcileStep, Zenon
<1> QED BY <1>1, <1>2, <1>3, <1>4, <1>5, <1>6, <1>7, <1>8, <1>12, <1>13, <1>14, <1>15, Zenon
        DEF Next, Controller

\* What one step does to a pipeline: nothing, deletion, an edit or creation.
LEMMA PipelinesNext ==
    ASSUME TypeInv, UIDInv, [Next]_vars, NEW q \in Names
    PROVE  \/ pipelines'[q] = pipelines[q] /\ incarnation'[q] = incarnation[q]
           \/ pipelines'[q] = None /\ incarnation'[q] = incarnation[q]
           \/ /\ pipelines[q] # None /\ pipelines'[q].uid = pipelines[q].uid
              /\ incarnation'[q] = incarnation[q]
           \/ /\ incarnation'[q] = incarnation[q] + 1
              /\ pipelines'[q].uid = <<q, incarnation'[q]>>
<1> USE DEF TypeInv
<1>1. ASSUME NEW p \in Names, Create(p)
      PROVE  \/ pipelines'[q] = pipelines[q] /\ incarnation'[q] = incarnation[q]
             \/ /\ incarnation'[q] = incarnation[q] + 1
                /\ pipelines'[q].uid = <<q, incarnation'[q]>>
  <2>1. PICK sp :
           pipelines' = [pipelines EXCEPT ![p] = [uid |-> <<p, incarnation'[p]>>, spec |-> sp]]
    BY <1>1, Zenon DEF Create
  <2>2. incarnation' = [incarnation EXCEPT ![p] = incarnation[p] + 1]
    BY <1>1, Zenon DEF Create
  <2> QED BY <2>1, <2>2, Zenon
<1>2. ASSUME NEW p \in Names, Edit(p)
      PROVE  \/ pipelines'[q] = pipelines[q] /\ incarnation'[q] = incarnation[q]
             \/ /\ pipelines[q] # None /\ pipelines'[q].uid = pipelines[q].uid
                /\ incarnation'[q] = incarnation[q]
  <2>1. PICK sp : pipelines' = [pipelines EXCEPT ![p].spec = sp]
    BY <1>2, Zenon DEF Edit
  <2>2. pipelines[p] \in AllObjects /\ pipelines[p] # None /\ incarnation' = incarnation
    BY <1>2, Zenon DEF Edit
  <2>3. [pipelines[p] EXCEPT !.spec = sp].uid = pipelines[p].uid
    BY <2>2, Zenon DEF AllObjects
  <2> QED BY <2>1, <2>2, <2>3, Zenon
<1>3. ASSUME NEW p \in Names, Delete(p)
      PROVE  \/ pipelines'[q] = pipelines[q] /\ incarnation'[q] = incarnation[q]
             \/ pipelines'[q] = None /\ incarnation'[q] = incarnation[q]
  BY <1>3, Zenon DEF Delete
<1>4. CASE UNCHANGED <<pipelines, incarnation>>
  BY <1>4, Zenon
<1> QED BY <1>1, <1>2, <1>3, <1>4, Zenon
        DEF Next, Controller, vars, users, SeePipeline, SeeLock, CollectLock, CollectAgent,
            Restart, Reconcile, getReconcilablePipelines, doReconcile

\* A uid that has been given away never becomes live again.
LEMMA LiveShrinks ==
    ASSUME TypeInv, UIDInv, [Next]_vars, NEW u \in AllUIDs, Past(u)
    PROVE  Past(u)' /\ (Live(u)' => Live(u))
<1>1. u[1] \in Names /\ u[2] \in Nat /\ incarnation[u[1]] \in Nat
  BY UIDType, Zenon DEF TypeInv
<1>2. <<u[1], incarnation[u[1]] + 1>>[2] = incarnation[u[1]] + 1
  BY Zenon
<1> QED BY <1>1, <1>2, PipelinesNext DEF Past, Live

\* The cache changes only to what the cluster has.
LEMMA CachedNext ==
    ASSUME TypeInv, [Next]_vars, NEW q \in Names
    PROVE  \/ cached'[q] = cached[q]
           \/ cached'[q] = pipelines[q] /\ pipelines' = pipelines /\ incarnation' = incarnation
<1>1. ASSUME NEW p \in Names, SeePipeline(p)
      PROVE  \/ cached'[q] = cached[q]
             \/ cached'[q] = pipelines[q] /\ pipelines' = pipelines /\ incarnation' = incarnation
  BY <1>1, Zenon DEF SeePipeline, TypeInv, users
<1>2. CASE Restart
  BY <1>2, Zenon DEF Restart, users
<1>3. CASE UNCHANGED cached
  BY <1>3, Zenon
<1> QED BY <1>1, <1>2, <1>3, Zenon
        DEF Next, Controller, vars, Create, Edit, Delete, SeeLock, CollectLock, CollectAgent,
            Reconcile, getReconcilablePipelines, doReconcile

\* The uids the manager may read.
CachedUIDs == {cached[p].uid : p \in Known}

\* The reconciled pipeline is the only owner that is added.
LEMMA DoReconcileOwners ==
    ASSUME TypeInv, doReconcile
    PROVE  agent'.owners \subseteq agent.owners \cup {worker.by}
<1>1. PICK wanted : Apply(wanted) \/ DeleteResources(wanted)
  BY Zenon DEF doReconcile
<1>2. CASE Apply(wanted)
  BY <1>2 DEF Apply, ApplyResources
<1>3. CASE DeleteResources(wanted)
  BY <1>3 DEF DeleteResources, NoAgent, TypeInv, AgentType
<1> QED BY <1>1, <1>2, <1>3, Zenon

\* Acquiring the lock adds at most the pipeline it is acquired for.
LEMMA LockAcquiredAdds ==
    ASSUME TypeInv, NEW u, LockAcquired(u) \/ UNCHANGED locks
    PROVE  lock' \subseteq lock \cup {u} /\ seen' = seen
<1>1. CASE UNCHANGED locks
  BY <1>1, Zenon DEF locks
<1>2. CASE LockAcquired(u)
  BY <1>1, <1>2, LockAcquiredIs, Zenon
<1> QED BY <1>1, <1>2, Zenon

\* Uids that are remembered anew come from the cache.
LEMMA RememberedNext ==
    ASSUME TypeInv, [Next]_vars
    PROVE  Remembered' \subseteq Remembered \cup CachedUIDs
<1> USE DEF Remembered
<1>1. CASE CollectLock
  BY <1>1, Zenon DEF CollectLock
<1>2. CASE CollectAgent
  <2>1. agent'.owners \subseteq agent.owners
    BY <1>2, Zenon DEF CollectAgent, NoAgent, TypeInv, AgentType
  <2> QED BY <1>2, <2>1, Zenon DEF CollectAgent, locks
<1>3. CASE Restart
  BY <1>3, Zenon DEF Restart, Idle
<1>4. CASE SeeLock
  BY <1>4, Zenon DEF SeeLock
<1>5. ASSUME NEW p \in Names, Takes(p)
      PROVE  Remembered' \subseteq Remembered \cup CachedUIDs
  <2>1. cached[p].uid \in CachedUIDs
    BY <1>5, Zenon DEF CachedUIDs, Known, Takes
  <2>2. {o.uid : o \in worker'.todo} \subseteq CachedUIDs
    BY <1>5, Zenon DEF CachedUIDs, Takes
  <2>3. worker'.by = cached[p].uid /\ agent' = agent
    BY <1>5, Zenon DEF Takes
  <2>4. lock' \subseteq lock \cup {cached[p].uid} /\ seen' = seen
    BY <1>5, LockAcquiredAdds, Zenon DEF Takes
  <2> QED BY <2>1, <2>2, <2>3, <2>4, Zenon
<1>6. CASE getReconcilablePipelines
  <2>1. PICK o \in worker.todo : /\ LockAcquired(o.uid) \/ UNCHANGED locks
                                 /\ Validates(o) \/ Fail
    BY <1>6, ValidationStep, Zenon
  <2>2. lock' \subseteq lock \cup {o.uid} /\ seen' = seen
    BY <2>1, LockAcquiredAdds, Zenon
  <2>3. agent' = agent
    BY <1>6, ValidationStep, Zenon
  <2>4. CASE Validates(o)
    <3>1. worker'.todo \subseteq worker.todo /\ worker'.by = worker.by
      BY <2>4, ZenonT(30) DEF Validates, TypeInv, WorkerType
    <3> QED BY <2>2, <2>3, <3>1, Zenon
  <2>5. CASE Fail
    <3>1. worker'.todo = {} /\ worker'.by = None
      BY <2>5, Zenon DEF Fail, Idle
    <3> QED BY <2>2, <2>3, <3>1, Zenon
  <2> QED BY <2>1, <2>4, <2>5, Zenon
<1>7. CASE doReconcile
  <2>1. agent'.owners \subseteq agent.owners \cup {worker.by}
    BY <1>7, DoReconcileOwners, Zenon
  <2>2. worker'.by = None /\ worker'.todo = {} /\ worker.by # None
    BY <1>7, Zenon DEF doReconcile, Idle
  <2>3. lock' = lock /\ seen' = seen
    BY <1>7, Zenon DEF doReconcile, locks
  <2> QED BY <2>1, <2>2, <2>3, Zenon
<1>8. CASE UNCHANGED <<locks, agent, worker>>
  BY <1>8, Zenon DEF locks
<1> QED BY <1>1, <1>2, <1>3, <1>4, <1>5, <1>6, <1>7, <1>8, ReconcileStep, Zenon
        DEF Next, Controller, vars, locks, Create, Edit, Delete, SeePipeline, Drops

\* Whatever is remembered is a uid.
LEMMA RememberedType ==
    ASSUME TypeInv PROVE Remembered \subseteq AllUIDs /\ CachedUIDs \subseteq AllUIDs
<1>1. {o.uid : o \in worker.todo} \subseteq AllUIDs
  BY ListedPipeline, Zenon
<1>2. CachedUIDs \subseteq AllUIDs
  BY DEF CachedUIDs, Known, TypeInv, AllObjects
<1>3. agent.owners \subseteq AllUIDs /\ worker.by \in AllUIDs \cup {None}
  BY Zenon DEF TypeInv, AgentType, WorkerType
<1> QED BY <1>1, <1>2, <1>3, Zenon DEF Remembered, TypeInv

\* The cache stays ahead of what is remembered.
LEMMA NextUIDInv ==
    ASSUME TypeInv, UIDInv, [Next]_vars PROVE UIDInv'
<1>1. \A p \in Names : pipelines'[p] # None => pipelines'[p].uid = <<p, incarnation'[p]>>
  BY PipelinesNext, Zenon DEF UIDInv
<1>2. ASSUME NEW p \in Names, cached'[p] # None
      PROVE  cached'[p].uid[1] = p /\ cached'[p].uid[2] <= incarnation'[cached'[p].uid[1]]
  <2>1. CASE cached'[p] = cached[p]
    <3>1. PICK u \in AllUIDs : u = cached[p].uid
      BY <1>2, <2>1, Zenon DEF TypeInv, AllObjects
    <3>2. Past(u) /\ u[1] = p
      BY <1>2, <2>1, <3>1, Zenon DEF UIDInv
    <3>3. Past(u)'
      BY <3>2, LiveShrinks, Zenon
    <3> QED BY <2>1, <3>1, <3>2, <3>3, Zenon DEF Past
  <2>2. CASE cached'[p] = pipelines[p] /\ incarnation' = incarnation
    <3>1. cached'[p].uid = <<p, incarnation[p]>> /\ incarnation[p] \in Nat
      BY <1>2, <2>2, Zenon DEF UIDInv, TypeInv
    <3> QED BY <2>2, <3>1
  <2> QED BY <2>1, <2>2, CachedNext, Zenon
<1>3. ASSUME NEW u \in Remembered'
      PROVE  Past(u)' /\ (Live(u)' => Current(u)')
  <2>1. u \in AllUIDs /\ Past(u) /\ (Live(u) => Current(u))
    <3>1. CASE u \in Remembered
      BY <3>1, RememberedType, Zenon DEF UIDInv
    <3>2. CASE u \in CachedUIDs
      <4>1. PICK p \in Names : cached[p] # None /\ u = cached[p].uid
        BY <3>2, Zenon DEF CachedUIDs, Known
      <4>2. u[1] = p /\ Past(u)
        BY <4>1, Zenon DEF UIDInv
      <4> QED BY <3>2, <4>1, <4>2, RememberedType, Zenon DEF Current
    <3> QED BY <3>1, <3>2, RememberedNext, Zenon
  <2>2. u[1] \in Names /\ Past(u)' /\ (Live(u)' => Live(u))
    BY <2>1, LiveShrinks, UIDType, Zenon
  <2>3. cached'[u[1]] = cached[u[1]] \/ (cached'[u[1]] = pipelines[u[1]] /\ pipelines' = pipelines)
    BY <2>2, CachedNext, Zenon
  <2> QED BY <2>1, <2>2, <2>3, Zenon DEF Live, Current
<1>4. \A p \in Names : cached'[p] # None => cached'[p].uid[1] = p /\ Past(cached[p].uid)'
  BY <1>2, Zenon DEF Past
<1> QED BY <1>1, <1>3, <1>4, Zenon DEF UIDInv

\* Replacing a reference to the same name takes no slot from a live pipeline.
LEMMA TakesKeepsLive ==
    ASSUME TypeInv, UIDInv, NEW p \in Names, Takes(p), NEW v \in lock, Live(v)
    PROVE  v \in lock'
<1>1. v \in Remembered
  BY Zenon DEF Remembered
<1>2. Current(v) /\ v[1] \in Names
  BY <1>1, RememberedType, UIDType, Zenon DEF UIDInv
<1>3. v[1] = p => v = cached[p].uid
  BY <1>2, Zenon DEF Current
<1>4. cached[p].uid[1] = p
  BY Zenon DEF Takes, UIDInv
<1>5. UNCHANGED locks \/ lock' = {w \in lock : w[1] # p} \cup {cached[p].uid}
  BY <1>4, LockAcquiredIs, Zenon DEF Takes
<1> QED BY <1>3, <1>5, Zenon DEF locks

\* Neither does the validation of the listed pipelines.
LEMMA ValidationKeepsLive ==
    ASSUME TypeInv, WorkerInv, getReconcilablePipelines, NEW v \in lock, Live(v)
    PROVE  v \in lock'
<1>1. PICK o \in worker.todo : LockAcquired(o.uid) \/ UNCHANGED locks
  BY ValidationStep, Zenon
<1>2. v[1] = o.uid[1] => v = o.uid
  BY ListedPipeline, Zenon DEF WorkerInv
<1>3. UNCHANGED locks \/ lock' = {w \in lock : w[1] # o.uid[1]} \cup {o.uid}
  BY <1>1, LockAcquiredIs, Zenon
<1> QED BY <1>2, <1>3, Zenon DEF locks

\* Live owners of the agent keep their slots.
LEMMA NextOwnerInv ==
    ASSUME TypeInv, UIDInv, OwnerInv, WorkerInv, [Next]_vars PROVE OwnerInv'
<1>1. \A u \in agent.owners \cup seen \cup lock :
         u \in AllUIDs /\ Past(u) /\ (Live(u)' => Live(u))
  <2>1. agent.owners \cup seen \cup lock \subseteq Remembered
    BY Zenon DEF Remembered
  <2> QED BY <2>1, RememberedType, LiveShrinks, Zenon DEF UIDInv
<1> USE DEF OwnerInv
<1>2. CASE CollectLock
  BY <1>2, Zenon DEF CollectLock, Collectable, Live, users
<1>3. CASE CollectAgent
  <2>1. CASE agent' = NoAgent /\ UNCHANGED locks
    BY <1>1, <2>1, Zenon DEF NoAgent, locks
  <2>2. CASE /\ agent.owners \ Collectable(agent.owners) # {} /\ UNCHANGED locks
             /\ agent' = [agent EXCEPT !.owners = agent.owners \ Collectable(agent.owners)]
    <3>1. agent # NoAgent
      BY <2>2 DEF NoAgent
    <3>2. /\ agent'.objects = agent.objects
          /\ agent'.owners # {} /\ agent'.owners \subseteq agent.owners
      BY <2>2, Zenon DEF TypeInv, AgentType
    <3> QED BY <1>1, <2>2, <3>1, <3>2, Zenon DEF locks
  <2> QED BY <1>3, <2>1, <2>2, Zenon DEF CollectAgent
<1>4. ASSUME UNCHANGED <<agent, seen>>, \A v \in lock : Live(v) => v \in lock' PROVE OwnerInv'
  <2>1. \A u \in agent.owners \cup seen : Live(u)' => u \in lock'
    BY <1>1, <1>4, Zenon
  <2> QED BY <1>4, <2>1, Zenon
<1>5. ASSUME NEW p \in Names, Takes(p) PROVE OwnerInv'
  <2>1. UNCHANGED <<agent, seen>>
    BY <1>5, LockAcquiredAdds, Zenon DEF Takes
  <2> QED BY <1>4, <1>5, <2>1, TakesKeepsLive, Zenon
<1>6. CASE getReconcilablePipelines
  <2>1. UNCHANGED <<agent, seen>>
    BY <1>6, ValidationStep, LockAcquiredAdds, Zenon
  <2> QED BY <1>4, <1>6, <2>1, ValidationKeepsLive, Zenon
<1>7. CASE doReconcile
  <2>1. worker.by # None /\ UNCHANGED <<locks, pipelines>>
    BY <1>7, Zenon DEF doReconcile, users
  <2>2. PICK wanted : Apply(wanted) \/ DeleteResources(wanted)
    BY <1>7, Zenon DEF doReconcile
  <2>3. agent' # NoAgent => agent'.objects # "none" /\ agent'.owners # {}
    <3>1. CASE Apply(wanted)
      BY <3>1 DEF Apply, ApplyResources
    <3>2. CASE DeleteResources(wanted)
      BY <3>2 DEF DeleteResources, NoAgent, TypeInv, AgentType
    <3> QED BY <2>2, <3>1, <3>2, Zenon
  <2>4. ASSUME NEW u \in agent'.owners \cup seen', Live(u)'
        PROVE  u \in lock'
    <3>1. Live(u)
      BY <2>1, <2>4, Zenon DEF Live
    <3>2. u \in agent.owners \cup seen \/ u = worker.by
      BY <1>7, <2>1, DoReconcileOwners, Zenon DEF locks
    <3>3. u \in lock
      BY <2>1, <3>1, <3>2, Zenon DEF WorkerInv
    <3> QED BY <2>1, <3>3, Zenon DEF locks
  <2> QED BY <2>3, <2>4, Zenon
<1>8. CASE UNCHANGED <<locks, agent>>
  BY <1>4, <1>8, Zenon DEF locks
<1>9. CASE SeeLock
  BY <1>1, <1>9, Zenon DEF SeeLock
<1>10. CASE Restart
  BY <1>1, <1>10, Zenon DEF Restart
<1> QED BY <1>2, <1>3, <1>5, <1>6, <1>7, <1>8, <1>9, <1>10, ReconcileStep, Zenon
        DEF Next, Controller, vars, locks, users, Create, Edit, Delete, SeePipeline, Drops

\* A pipeline of the cache is found under the name of its uid.
LEMMA KnownObject ==
    ASSUME TypeInv, UIDInv, NEW o \in KnownObjects
    PROVE  /\ o \in AllObjects /\ o.uid \in AllUIDs /\ o.uid[1] \in Known /\ o # None
           /\ cached[o.uid[1]] = o /\ Past(o.uid) /\ o.uid # None
<1>1. PICK p \in Names : cached[p] # None /\ o = cached[p]
  BY Zenon DEF KnownObjects, Known
<1>2. o \in AllObjects /\ o.uid \in AllUIDs
  BY <1>1, Zenon DEF TypeInv, AllObjects
<1>3. o.uid[1] = p /\ Past(o.uid)
  BY <1>1, Zenon DEF UIDInv
<1> QED BY <1>1, <1>2, <1>3, UIDType, Zenon DEF Known

\* What the validators say of a specification, and what it needs, does not change in
\* a behaviour.
LEMMA WantsConstant ==
    ASSUME [Next]_vars
    PROVE  /\ limit' = limit /\ kind' = kind
           /\ \A o : Wants(o)' = Wants(o) /\ Accepted(o)' = Accepted(o) /\ Exempt(o)' = Exempt(o)
<1>1. limit' = limit /\ kind' = kind
  BY Zenon
  DEF Next, Controller, vars, constants, Create, Edit, Delete, SeePipeline, SeeLock, CollectLock,
      CollectAgent, Restart, Reconcile, getReconcilablePipelines, doReconcile
<1>2. \A o : Accepted(o)' = Accepted(o) /\ Exempt(o)' = Exempt(o)
  BY <1>1, Zenon DEF Accepted, Exempt
<1>3. ASSUME NEW o PROVE Wants(o)' = Wants(o)
  BY <1>1, <1>2, Zenon DEF Wants, getPipelinesRequiringAgents
<1> QED BY <1>1, <1>2, <1>3, Zenon

\* A pipeline of the cache is queued when it changes, and so is every pipeline when
\* the cache sees a new lock.
LEMMA KnownNext ==
    ASSUME TypeInv, TypeInv', UIDInv, UIDInv', worker.by # None, [Next]_vars
    PROVE  \/ worker' = Idle
           \/ /\ queue \subseteq queue'
              /\ \A o \in KnownObjects : o \in KnownObjects' \/ o.uid[1] \in queue'
              /\ \A o \in KnownObjects' : o \in KnownObjects \/ o.uid[1] \in queue'
              /\ Known \subseteq queue => Known' \subseteq queue'
              /\ (lagging /\ ~lagging') => Known' \subseteq queue'
<1>1. CASE UNCHANGED cached /\ queue \subseteq queue' /\ ~(lagging /\ ~lagging')
  BY <1>1, Zenon DEF KnownObjects, Known
<1>2. ASSUME NEW p \in Names, SeePipeline(p)
      PROVE  /\ queue \subseteq queue'
             /\ \A o \in KnownObjects : o \in KnownObjects' \/ o.uid[1] \in queue'
             /\ \A o \in KnownObjects' : o \in KnownObjects \/ o.uid[1] \in queue'
             /\ Known \subseteq queue => Known' \subseteq queue'
             /\ lagging' = lagging
  <2>1. /\ UNCHANGED locks /\ queue' = queue \cup {p}
        /\ cached' = [cached EXCEPT ![p] = pipelines[p]]
    BY <1>2, Zenon DEF SeePipeline
  <2>2. \A q \in Names : q # p => cached'[q] = cached[q]
    BY <2>1, Zenon DEF TypeInv
  <2>3. \A q \in Names : cached[q] # None => cached[q].uid[1] = q
    BY Zenon DEF UIDInv
  <2>4. \A q \in Names : cached'[q] # None => cached'[q].uid[1] = q
    BY Zenon DEF UIDInv
  <2>5. ASSUME NEW o \in KnownObjects PROVE o \in KnownObjects' \/ o.uid[1] \in queue'
    <3>1. PICK q \in Names : cached[q] # None /\ o = cached[q]
      BY Zenon DEF KnownObjects, Known
    <3> QED BY <2>1, <2>2, <2>3, <3>1, Zenon DEF KnownObjects, Known
  <2>6. ASSUME NEW o \in KnownObjects' PROVE o \in KnownObjects \/ o.uid[1] \in queue'
    <3>1. PICK q \in Names : cached'[q] # None /\ o = cached'[q]
      BY Zenon DEF KnownObjects, Known
    <3>2. CASE q = p
      <4>1. o.uid[1] = q
        BY <2>4, <3>1, Zenon
      <4> QED BY <2>1, <3>2, <4>1, Zenon
    <3>3. CASE q # p
      <4>1. q \in Known /\ o = cached[q]
        BY <2>2, <3>1, <3>3, Zenon DEF Known
      <4> QED BY <4>1, Zenon DEF KnownObjects
    <3> QED BY <3>2, <3>3, Zenon
  <2> QED BY <2>1, <2>2, <2>5, <2>6, Zenon DEF Known, locks
<1>3. CASE SeeLock
  <2>1. cached' = cached /\ queue' = queue \cup Known
    BY <1>3, Zenon DEF SeeLock, mapLockConfigMapChanges
  <2>2. Known' = Known /\ KnownObjects' = KnownObjects
    BY <2>1, Zenon DEF Known, KnownObjects
  <2> QED BY <2>1, <2>2, Zenon
<1>4. CASE getReconcilablePipelines
  <2>1. PICK o \in worker.todo : /\ LockAcquired(o.uid) \/ UNCHANGED locks
                                 /\ Validates(o) \/ Fail
    BY <1>4, ValidationStep, Zenon
  <2>2. lagging' = lagging \/ lagging'
    BY <2>1, LockAcquiredIs, Zenon DEF locks
  <2>3. cached' = cached /\ (lagging => lagging')
    BY <1>4, <2>2, ValidationStep
  <2> QED BY <1>1, <2>1, <2>3, Zenon DEF Validates, Fail
<1>5. CASE Restart \/ doReconcile
  BY <1>5, Zenon DEF Restart, doReconcile
<1>6. CASE UNCHANGED <<cached, queue, lagging>>
  BY <1>1, <1>6, Zenon
<1>7. CASE CollectLock \/ CollectAgent
  BY <1>1, <1>7, Zenon DEF CollectLock, CollectAgent, locks
<1>8. ASSUME NEW p \in Names, Reconcile(p) PROVE FALSE
  BY <1>8, Zenon DEF Reconcile
<1> QED BY <1>2, <1>3, <1>4, <1>5, <1>6, <1>7, <1>8, Zenon
        DEF Next, Controller, vars, locks, Create, Edit, Delete

\* The validation of a pipeline keeps what WorkerInv says of the pipelines found
\* reconcilable.
LEMMA ValidationKeepsWorker ==
    ASSUME TypeInv, TypeInv', UIDInv, UIDInv', WorkerInv, getReconcilablePipelines, [Next]_vars,
           worker' # Idle
    PROVE  WorkerInv'
<1>1. UNCHANGED <<kind, limit, pipelines, incarnation, cached, agent>>
  BY ValidationStep, Zenon
<1>2. PICK o \in worker.todo : (LockAcquired(o.uid) \/ UNCHANGED locks) /\ Validates(o)
  BY ValidationStep, Zenon DEF Fail
<1> PICK found \in SUBSET {o} :
       /\ worker' = [worker EXCEPT !.todo = @ \ {o}, !.reconcilable = @ \cup found]
       /\ UNCHANGED queue
       /\ \A q \in found : isReconcilable(q) /\ (kind = "fluentbit" => LockAcquired(q.uid))
       /\ isReconcilable(o) => o \in found \/ o.uid \notin seen
  BY <1>2, Zenon DEF Validates
<1>3. /\ worker'.by = worker.by /\ worker'.todo = worker.todo \ {o} /\ queue' = queue
      /\ worker'.reconcilable = worker.reconcilable \cup found
  BY Zenon DEF TypeInv, WorkerType
<1>4. /\ worker.by # None /\ o.uid \in AllUIDs /\ KnownObjects' = KnownObjects /\ Known' = Known
      /\ \A u : Live(u)' = Live(u)
  BY <1>1, ListedPipeline, Zenon DEF KnownObjects, Known, Live
<1>5. \/ UNCHANGED locks
      \/ lagging' /\ seen' = seen /\ lock' = {v \in lock : v[1] # o.uid[1]} \cup {o.uid}
  BY <1>2, LockAcquiredIs, Zenon
<1>6. \A v \in lock : Live(v) => v \in lock'
  BY ValidationKeepsLive, Zenon
<1>7. Live(worker.by)' => worker'.by \in lock'
  <2>1. PICK u : u = worker.by
    BY Zenon
  <2>2. Live(u)' => u \in lock'
    BY <1>4, <1>6, <2>1, Zenon DEF WorkerInv
  <2> QED BY <1>3, <2>1, <2>2, Zenon DEF Live
<1>8. \A v \in lock', r \in worker'.todo : (v[1] = r.uid[1] /\ Live(v)) => r.uid = v
  <2>1. lock' \subseteq lock \cup {o.uid}
    BY <1>2, LockAcquiredAdds, Zenon
  <2>2. \A r \in worker'.todo : r.uid[1] # o.uid[1]
    BY <1>3, <1>4, Zenon DEF WorkerInv
  <2> QED BY <1>3, <1>4, <2>1, <2>2, Zenon DEF WorkerInv
<1>9. \A q, r \in worker'.todo : q.uid[1] = r.uid[1] => q = r
  BY <1>3, <1>4, Zenon DEF WorkerInv
<1>10. \A r \in worker'.todo \cup worker'.reconcilable :
          r.uid[1] \in queue' \/ r \in KnownObjects'
  BY <1>3, <1>4, Zenon DEF WorkerInv
<1>11. \A r \in worker'.reconcilable : Accepted(r)'
  <2>1. \A r \in worker'.reconcilable : Accepted(r)
    BY <1>3, <1>4, ReconcilableIs, Zenon DEF WorkerInv
  <2> QED BY <2>1, WantsConstant, Zenon
<1>12. ~lagging' => \A r \in KnownObjects' :
          (r.uid \in lock' /\ Wants(r)') =>
              r \in worker'.todo \cup worker'.reconcilable \/ r.uid[1] \in queue'
  <2>1. SUFFICES ASSUME ~lagging', NEW r \in KnownObjects, r.uid \in lock', Wants(r)
                 PROVE  r \in worker'.todo \cup worker'.reconcilable \/ r.uid[1] \in queue'
    BY <1>4, WantsConstant, Zenon
  <2>2. lock' = lock /\ ~lagging /\ seen = lock
    BY <1>5, <2>1, Zenon DEF locks, TypeInv
  <2>3. r \in worker.todo \cup worker.reconcilable \/ r.uid[1] \in queue
    BY <1>4, <2>1, <2>2, Zenon DEF WorkerInv
  <2>4. r = o => o \in found
    BY <2>1, <2>2, ReconcilableIs, Zenon
  <2> QED BY <1>3, <2>3, <2>4, Zenon
<1>13. \/ lagging' \/ Known' \subseteq queue'
       \/ \A r \in worker'.reconcilable : r.uid \in lock' \/ Exempt(r)'
  <2>1. SUFFICES ASSUME ~lagging', ~(Known \subseteq queue)
                 PROVE  \A r \in worker'.reconcilable : r.uid \in lock' \/ Exempt(r)
    BY <1>3, <1>4, WantsConstant, Zenon
  <2>2. lock' = lock /\ ~lagging /\ seen = lock
    BY <1>5, <2>1, Zenon DEF locks, TypeInv
  <2>3. \A r \in worker.reconcilable : r.uid \in lock \/ Exempt(r)
    BY <1>4, <2>1, <2>2, Zenon DEF WorkerInv
  <2>4. o \in found => o.uid \in lock \/ Exempt(o)
    BY <2>2, ReconcilableIs, Zenon
  <2> QED BY <1>3, <2>2, <2>3, <2>4, Zenon
<1>14. \A v \in lock', r \in worker'.todo : (v[1] = r.uid[1] /\ Live(v)') => r.uid = v
  BY <1>4, <1>8, ZenonT(30)
<1> QED BY <1>9, <1>10, <1>11, <1>12, <1>13, <1>14, <1>7, Zenon DEF WorkerInv

\* Neither a pipeline of the list nor one of the cache is forgotten.
LEMMA NextWorkerInv ==
    ASSUME TypeInv, TypeInv', UIDInv, UIDInv', OwnerInv, WorkerInv, [Next]_vars PROVE WorkerInv'
<1>1. \A u \in Remembered : u \in AllUIDs /\ Past(u) /\ (Live(u)' => Live(u))
  BY RememberedType, LiveShrinks, Zenon DEF UIDInv
<1>0. Idle.by = None
  BY Zenon DEF Idle
<1>2. worker'.by = None => WorkerInv'
  BY Zenon DEF WorkerInv
<1>3. ASSUME worker' = worker, lock' \subseteq lock, \A u \in lock : Live(u)' => u \in lock',
             lock' = lock \/ lagging'
      PROVE  WorkerInv'
  <2> SUFFICES ASSUME worker.by # None PROVE WorkerInv'
    BY <1>2, <1>3, Zenon
  <2>1. worker.by \in Remembered /\ lock \subseteq Remembered
    BY Zenon DEF Remembered
  <2>2. Live(worker.by)' => worker.by \in lock'
    <3>1. PICK u : u = worker.by
      BY Zenon
    <3>2. Live(u)' => u \in lock'
      BY <1>1, <1>3, <2>1, <3>1, Zenon DEF WorkerInv
    <3> QED BY <1>3, <3>1, <3>2, Zenon DEF Live
  <2>3. \A v \in lock', o \in worker.todo : (v[1] = o.uid[1] /\ Live(v)') => o.uid = v
    BY <1>1, <1>3, <2>1, Zenon DEF WorkerInv
  <2>4. worker # Idle
    BY <1>0, Zenon
  <2>5. /\ queue \subseteq queue'
        /\ \A o \in KnownObjects : o \in KnownObjects' \/ o.uid[1] \in queue'
        /\ \A o \in KnownObjects' : o \in KnownObjects \/ o.uid[1] \in queue'
        /\ Known \subseteq queue => Known' \subseteq queue'
        /\ (lagging /\ ~lagging') => Known' \subseteq queue'
    BY <1>3, <2>4, KnownNext, Zenon
  <2>6. \A o \in worker.todo \cup worker.reconcilable :
           o.uid[1] \in queue' \/ o \in KnownObjects'
    BY <2>5, Zenon DEF WorkerInv
  <2>7. \A o : Wants(o)' = Wants(o) /\ Accepted(o)' = Accepted(o) /\ Exempt(o)' = Exempt(o)
    BY WantsConstant, Zenon
  <2>8. ASSUME ~lagging', NEW o \in KnownObjects', o.uid \in lock', Wants(o)
        PROVE  o \in worker.todo \cup worker.reconcilable \/ o.uid[1] \in queue'
    <3>1. CASE lagging
      <4>1. o.uid[1] \in Known'
        <5>1. PICK q \in Names : cached'[q] # None /\ o = cached'[q]
          BY Zenon DEF KnownObjects, Known
        <5>2. o.uid[1] = q
          BY <5>1, Zenon DEF UIDInv
        <5> QED BY <5>1, <5>2, Zenon DEF Known
      <4> QED BY <2>5, <2>8, <3>1, <4>1, Zenon
    <3>2. CASE ~lagging
      BY <1>3, <2>5, <2>8, <3>2, Zenon DEF WorkerInv
    <3> QED BY <3>1, <3>2, Zenon
  <2>9. \/ lagging' \/ Known' \subseteq queue'
        \/ \A o \in worker.reconcilable : o.uid \in lock' \/ Exempt(o)
    BY <1>3, <2>5, Zenon DEF WorkerInv
  <2>10. /\ \A o, r \in worker.todo : o.uid[1] = r.uid[1] => o = r
         /\ \A o \in worker.reconcilable : Accepted(o)'
    BY <2>7, Zenon DEF WorkerInv
  <2>11. ~lagging' => \A o \in KnownObjects' :
             (o.uid \in lock' /\ Wants(o)') =>
                 o \in worker.todo \cup worker.reconcilable \/ o.uid[1] \in queue'
    BY <2>7, <2>8, Zenon
  <2>12. \/ lagging' \/ Known' \subseteq queue'
         \/ \A o \in worker.reconcilable : o.uid \in lock' \/ Exempt(o)'
    BY <2>7, <2>9, Zenon
  <2>13. /\ Live(worker.by)' => worker'.by \in lock'
         /\ \A v \in lock', o \in worker'.todo : (v[1] = o.uid[1] /\ Live(v)') => o.uid = v
    BY <1>3, <2>2, <2>3, Zenon
  <2>14. /\ \A o, r \in worker'.todo : o.uid[1] = r.uid[1] => o = r
         /\ \A o \in worker'.reconcilable : Accepted(o)'
    BY <1>3, <2>10, Zenon
  <2>15. \A o \in worker'.todo \cup worker'.reconcilable :
            o.uid[1] \in queue' \/ o \in KnownObjects'
    BY <1>3, <2>6, Zenon
  <2>16. ~lagging' => \A o \in KnownObjects' :
             (o.uid \in lock' /\ Wants(o)') =>
                 o \in worker'.todo \cup worker'.reconcilable \/ o.uid[1] \in queue'
    BY <1>3, <2>11, Zenon
  <2>17. \/ lagging' \/ Known' \subseteq queue'
         \/ \A o \in worker'.reconcilable : o.uid \in lock' \/ Exempt(o)'
    BY <1>3, <2>12, Zenon
  <2> QED BY <2>13, <2>14, <2>15, <2>16, <2>17, Zenon DEF WorkerInv
<1>4. CASE CollectLock
  <2>1. \A u \in lock : Live(u)' => u \in lock'
    BY <1>4, Zenon DEF CollectLock, Collectable, Live, users
  <2> QED BY <1>3, <1>4, <2>1, Zenon DEF CollectLock
<1>5. ASSUME NEW p \in Names, Takes(p) PROVE WorkerInv'
  <2>1. cached' = cached /\ pipelines' = pipelines
    BY <1>5, Zenon DEF Takes
  <2>2. /\ worker'.by = cached[p].uid /\ worker'.todo = KnownObjects
        /\ worker'.reconcilable = {} /\ KnownObjects' = KnownObjects
    BY <1>5, <2>1, Zenon DEF Takes, KnownObjects, Known
  <2>3. /\ \A v \in lock : Live(v) => v \in lock'
        /\ lock' \subseteq lock \cup {cached[p].uid} /\ cached[p] \in KnownObjects
        /\ cached[p].uid \in seen \/ cached[p].uid \in lock'
    <3>1. cached[p].uid \in seen \/ lock' = SetOwnerReference(cached[p].uid)
      BY <1>5, Zenon DEF Takes, LockAcquired
    <3> QED BY <1>5, <3>1, TakesKeepsLive, LockAcquiredAdds, Zenon
            DEF Takes, SetOwnerReference, KnownObjects, Known
  <2>4. Live(worker.by)' => worker'.by \in lock'
    <3>1. PICK u : u = cached[p].uid
      BY Zenon
    <3>2. Live(u) => u \in lock'
      BY <2>3, <3>1, Zenon DEF OwnerInv
    <3> QED BY <2>1, <2>2, <3>1, <3>2, Zenon DEF Live
  <2>5. \A o, r \in KnownObjects : o.uid[1] = r.uid[1] => o = r
    BY KnownObject, Zenon
  <2>6. ASSUME NEW v \in lock', NEW o \in KnownObjects, v[1] = o.uid[1], Live(v)'
        PROVE  o.uid = v
    <3>1. CASE v = cached[p].uid
      BY <2>3, <2>5, <2>6, <3>1, Zenon
    <3>2. CASE v \in lock
      <4>1. v \in Remembered
        BY <3>2, Zenon DEF Remembered
      <4>2. Current(v)
        BY <1>1, <2>6, <4>1, Zenon DEF UIDInv
      <4> QED BY <2>6, <4>2, KnownObject, Zenon DEF Current
    <3> QED BY <2>3, <3>1, <3>2, Zenon
  <2> QED BY <2>2, <2>4, <2>5, <2>6, Zenon DEF WorkerInv
<1>6. CASE UNCHANGED <<worker, lock>>
  <2>1. \A u \in lock : u \in lock'
    BY <1>6, Zenon
  <2> QED BY <1>3, <1>6, <2>1, Zenon
<1>7. CASE getReconcilablePipelines
  BY <1>0, <1>2, <1>7, ValidationKeepsWorker, Zenon
<1>8. CASE Restart \/ doReconcile
  BY <1>0, <1>2, <1>8, Zenon DEF Restart, doReconcile
<1> QED BY <1>4, <1>5, <1>6, <1>7, <1>8, ReconcileStep, Zenon
        DEF Next, Controller, vars, locks, users, Create, Edit, Delete, SeePipeline, SeeLock,
            CollectAgent, Drops

\* A reconciliation applies or deletes the agent for the reconcilable pipelines that
\* need it; it adds its pipeline to the owners or is retried, unless it deletes an
\* agent that nobody needs.
LEMMA DoReconcileOutcome ==
    ASSUME TypeInv, WorkerInv, doReconcile
    PROVE  \E wanted :
              /\ wanted = {o \in worker.reconcilable : Wants(o)}
              /\ \/ /\ wanted # {} /\ agent'.objects = "all" /\ agent'.config = wanted
                    /\ agent'.owners = agent.owners \cup {worker.by}
                 \/ wanted = {} /\ agent' = NoAgent
                 \/ worker.by[1] \in queue' /\ agent.owners \subseteq agent'.owners
<1>1. PICK wanted : /\ wanted = getPipelinesRequiringAgents(worker.reconcilable)
                    /\ Apply(wanted) \/ DeleteResources(wanted)
  BY Zenon DEF doReconcile
<1>2. \A o \in worker.reconcilable : Accepted(o)
  BY Zenon DEF doReconcile, WorkerInv
<1>3. wanted = {o \in worker.reconcilable : Wants(o)}
  BY <1>1, <1>2, WantedIs, Zenon
<1>4. faults' # faults => worker.by[1] \in queue'
  BY Zenon DEF doReconcile
<1>5. Fault => faults' # faults
  BY DEF Fault, TypeInv
<1>6. CASE wanted # {} /\ agent' = ApplyResources(wanted, "all")
  BY <1>3, <1>6, Zenon DEF ApplyResources
<1>7. CASE wanted = {} /\ agent' = NoAgent
  BY <1>3, <1>7, Zenon
<1>8. CASE Fault /\ \E config, objects : agent' = ApplyResources(config, objects)
  <2>1. agent.owners \subseteq agent'.owners
    BY <1>8 DEF ApplyResources
  <2> QED BY <1>3, <1>4, <1>5, <1>8, <2>1, Zenon
<1>9. CASE /\ Fault
           /\ agent' = IF agent.objects = "none" THEN agent ELSE [agent EXCEPT !.objects = "some"]
  <2>1. agent'.owners = agent.owners
    BY <1>9, Zenon DEF TypeInv, AgentType
  <2> QED BY <1>3, <1>4, <1>5, <1>9, <2>1, Zenon
<1> QED BY <1>1, <1>6, <1>7, <1>8, <1>9, Zenon DEF Apply, DeleteResources

\* Who is served stays an owner, or is about to become one.
LEMMA NextMemberInv ==
    ASSUME TypeInv, UIDInv, WorkerInv, MemberInv, TypeInv', UIDInv', [Next]_vars PROVE MemberInv'
<1> SUFFICES ASSUME ~lagging', NEW o \in KnownObjects', o.uid \in lock', Wants(o)', Live(o.uid)'
             PROVE  o.uid \in agent'.owners \/ o.uid[1] \in queue' \/ worker'.by = o.uid
  BY Zenon DEF MemberInv
<1>1. Wants(o)
  BY WantsConstant, Zenon
<1>2. o \in KnownObjects => Live(o.uid)
  BY KnownObject, LiveShrinks, Zenon
<1>3. (~lagging /\ o \in KnownObjects /\ o.uid \in lock)
         => o.uid \in agent.owners \/ o.uid[1] \in queue \/ worker.by = o.uid
  BY <1>1, <1>2, Zenon DEF MemberInv
<1>4. cached' = cached => o \in KnownObjects
  BY Zenon DEF KnownObjects, Known
<1>5. CASE UNCHANGED <<cached, worker, agent, locks>> /\ queue \subseteq queue'
  BY <1>3, <1>4, <1>5, Zenon DEF locks
<1>6. CASE CollectLock
  BY <1>6, Zenon DEF CollectLock
<1>7. CASE CollectAgent
  <2>1. UNCHANGED <<cached, worker, locks, pipelines>> /\ queue \subseteq queue'
    BY <1>7, Zenon DEF CollectAgent, users
  <2>2. Live(o.uid)
    BY <1>2, <1>4, <2>1, Zenon
  <2>3. o.uid \in agent.owners => o.uid \in agent'.owners
    BY <1>7, <2>2, Zenon DEF CollectAgent, Collectable, TypeInv, AgentType
  <2> QED BY <1>3, <1>4, <2>1, <2>3, Zenon DEF locks
<1>8. ASSUME Known' \subseteq queue' PROVE o.uid[1] \in queue'
  <2>1. PICK q \in Names : cached'[q] # None /\ o = cached'[q]
    BY Zenon DEF KnownObjects, Known
  <2>2. o.uid[1] = q
    BY <2>1, Zenon DEF UIDInv
  <2> QED BY <1>8, <2>1, <2>2, Zenon DEF Known
<1>9. CASE Restart
  <2>1. Known' \subseteq queue'
    BY <1>9, Zenon DEF Restart, Known
  <2> QED BY <1>8, <2>1, Zenon
<1>10. CASE SeeLock
  <2>1. Known' \subseteq queue'
    BY <1>10, Zenon DEF SeeLock, Known, mapLockConfigMapChanges
  <2> QED BY <1>8, <2>1, Zenon
<1>11. ASSUME NEW p \in Names, SeePipeline(p)
      PROVE  o.uid \in agent'.owners \/ o.uid[1] \in queue' \/ worker'.by = o.uid
  <2>1. UNCHANGED <<worker, locks, agent>> /\ queue' = queue \cup {p}
        /\ cached' = [cached EXCEPT ![p] = pipelines[p]]
    BY <1>11, Zenon DEF SeePipeline
  <2>2. PICK q \in Names : o = cached'[q] /\ cached'[q] # None
    BY Zenon DEF KnownObjects, Known
  <2>3. CASE q = p
    <3>1. o.uid[1] = q
      BY <2>2, Zenon DEF UIDInv
    <3> QED BY <2>1, <2>3, <3>1, Zenon
  <2>4. CASE q # p
    <3>1. q \in Known /\ o = cached[q]
      BY <2>1, <2>2, <2>4, Zenon DEF TypeInv, Known
    <3>2. o \in KnownObjects
      BY <3>1, Zenon DEF KnownObjects
    <3> QED BY <1>3, <2>1, <3>2, Zenon DEF locks
  <2> QED BY <2>3, <2>4, Zenon
<1>12. ASSUME NEW p \in Names, Takes(p)
      PROVE  o.uid \in agent'.owners \/ o.uid[1] \in queue' \/ worker'.by = o.uid
  <2>1. UNCHANGED <<cached, agent>> /\ queue' = queue \ {p} /\ worker'.by = cached[p].uid
        /\ worker.by = None
    BY <1>12, Zenon DEF Takes
  <2>2. o \in KnownObjects /\ o = cached[o.uid[1]] /\ o.uid # None
    BY <1>4, <2>1, KnownObject, Zenon
  <2>3. ~lagging /\ o.uid \in lock
    BY <1>12, LockAcquiredIs, Zenon DEF Takes, locks
  <2> QED BY <1>3, <2>1, <2>2, <2>3, Zenon
<1>13. ASSUME NEW p \in Names, Drops(p)
      PROVE  o.uid \in agent'.owners \/ o.uid[1] \in queue' \/ worker'.by = o.uid
  <2>1. UNCHANGED <<cached, agent, worker, locks>> /\ queue' = queue \ {p}
    BY <1>13, Zenon DEF Drops
  <2>2. o \in KnownObjects /\ o = cached[o.uid[1]] /\ o # None
    BY <1>4, <2>1, KnownObject, Zenon
  <2>3. TryAcquireLock(o.uid) = "nil" /\ ~lagging /\ o.uid \in lock
    BY <2>1, Zenon DEF locks, TypeInv, TryAcquireLock
  <2>4. o.uid[1] # p
    BY <1>13, <2>2, <2>3, Zenon DEF Drops
  <2> QED BY <1>3, <2>1, <2>2, <2>3, <2>4, Zenon
<1>14. CASE getReconcilablePipelines
  <2>1. UNCHANGED <<cached, agent>>
    BY <1>14, ValidationStep, Zenon
  <2>2. PICK r \in worker.todo : /\ LockAcquired(r.uid) \/ UNCHANGED locks
                                 /\ Validates(r) \/ Fail
    BY <1>14, ValidationStep, Zenon
  <2>3. ~lagging /\ o.uid \in lock
    <3>1. UNCHANGED locks
      BY <2>2, LockAcquiredIs, Zenon
    <3> QED BY <3>1, Zenon DEF locks
  <2>4. o.uid \in agent.owners \/ o.uid[1] \in queue \/ worker.by = o.uid
    BY <1>3, <1>4, <2>1, <2>3, Zenon
  <2>5. CASE Validates(r)
    <3>1. queue' = queue /\ worker'.by = worker.by
      BY <2>5, ZenonT(30) DEF Validates, TypeInv, WorkerType
    <3> QED BY <2>1, <2>4, <3>1, Zenon
  <2>6. CASE Fail
    BY <2>1, <2>4, <2>6, Zenon DEF Fail
  <2> QED BY <2>2, <2>5, <2>6, Zenon
<1>15. CASE doReconcile
  <2>1. /\ cached' = cached /\ worker.by # None /\ worker.todo = {} /\ UNCHANGED locks
        /\ queue \subseteq queue'
    BY <1>15, Zenon DEF doReconcile
  <2>2. o \in KnownObjects /\ ~lagging /\ o.uid \in lock
    BY <1>4, <2>1, Zenon DEF locks
  <2>3. PICK wanted :
           /\ wanted = {r \in worker.reconcilable : Wants(r)}
           /\ \/ agent'.owners = agent.owners \cup {worker.by}
              \/ wanted = {}
              \/ worker.by[1] \in queue' /\ agent.owners \subseteq agent'.owners
    BY <1>15, DoReconcileOutcome, Zenon
  <2>4. CASE wanted = {}
    <3>1. o \notin worker.reconcilable
      BY <1>1, <2>3, <2>4, Zenon
    <3>2. o.uid[1] \in queue
      BY <1>1, <2>1, <2>2, <3>1, Zenon DEF WorkerInv
    <3> QED BY <2>1, <3>2, Zenon
  <2> QED BY <1>3, <2>1, <2>2, <2>3, <2>4, Zenon
<1> QED BY <1>5, <1>6, <1>7, <1>9, <1>10, <1>11, <1>12, <1>13, <1>14, <1>15, ReconcileStep, Zenon
        DEF Next, Controller, vars, locks, users, Create, Edit, Delete

\* A queued name with a slot is enough for somebody to look at the agent again.
LEMMA QueuedHolder ==
    ASSUME TypeInv', UIDInv', NEW v \in lock', v[1] \in queue'
    PROVE  Woken'
<1>1. CASE Live(v)' \/ cached'[v[1]] # None
  <2>1. v \in Remembered'
    BY Zenon DEF Remembered
  <2>2. cached'[v[1]] # None /\ v[1] \in Names
    BY <1>1, <2>1, UIDType, Zenon DEF UIDInv, Current, TypeInv
  <2>3. cached'[v[1]] \in KnownObjects' /\ cached'[v[1]].uid[1] = v[1]
    BY <2>2, Zenon DEF KnownObjects, Known, UIDInv
  <2> QED BY <2>3, Zenon DEF Woken, HolderQueued
<1>2. CASE ~Live(v)'
  BY <1>2, Zenon DEF Woken, Collectable
<1> QED BY <1>1, <1>2, Zenon

\* So is a queue with every pipeline.
LEMMA AllKnownQueued ==
    ASSUME TypeInv', UIDInv', Known' \subseteq queue'
    PROVE  Woken'
<1>1. CASE lock' = {}
  BY <1>1, Zenon DEF Woken, AllQueued
<1>2. ASSUME NEW v \in lock' PROVE Woken'
  <2>1. CASE Live(v)'
    <3>1. v \in Remembered'
      BY Zenon DEF Remembered
    <3>2. cached'[v[1]] # None /\ v[1] \in Names
      BY <2>1, <3>1, UIDType, Zenon DEF UIDInv, Current, TypeInv
    <3>3. v[1] \in queue'
      BY <3>2, Zenon DEF Known
    <3> QED BY <3>3, QueuedHolder, Zenon
  <2>2. CASE ~Live(v)'
    BY <2>2, Zenon DEF Woken, Collectable
  <2> QED BY <2>1, <2>2, Zenon
<1> QED BY <1>1, <1>2, Zenon

\* Whoever will look at the agent stays there until a pipeline takes a slot.
LEMMA WokenKept ==
    ASSUME TypeInv, UIDInv, TypeInv', UIDInv', Woken, [Next]_vars
    PROVE  Woken' \/ \E p \in Names : Takes(p)
<1>1. CASE lagging'
  BY <1>1, Zenon DEF Woken
<1> SUFFICES ASSUME ~lagging' PROVE Woken' \/ \E p \in Names : Takes(p)
  BY <1>1, Zenon
<1>2. \A u \in lock : Live(u)' => Live(u)
  <2>1. lock \subseteq Remembered
    BY Zenon DEF Remembered
  <2> QED BY <2>1, RememberedType, LiveShrinks, Zenon DEF UIDInv
<1>3. CASE UNCHANGED <<cached, locks>> /\ queue \subseteq queue'
  <2>1. Known' = Known /\ KnownObjects' = KnownObjects /\ lock' = lock /\ lagging' = lagging
    BY <1>3, Zenon DEF Known, KnownObjects, locks
  <2>2. Collectable(lock) # {} => Collectable(lock)' # {}
    BY <1>2, <2>1, Zenon DEF Collectable
  <2>3. HolderQueued => HolderQueued'
    BY <1>3, <2>1, Zenon DEF HolderQueued
  <2>4. AllQueued => AllQueued'
    BY <1>3, <2>1, Zenon DEF AllQueued
  <2> QED BY <2>1, <2>2, <2>3, <2>4, Zenon DEF Woken
<1>4. Known' \subseteq queue' => Woken'
  BY AllKnownQueued, Zenon
<1>5. ASSUME NEW p \in Names, SeePipeline(p) PROVE Woken'
  <2>1. /\ UNCHANGED locks /\ queue' = queue \cup {p} /\ pipelines' = pipelines
        /\ cached' = [cached EXCEPT ![p] = pipelines[p]]
    BY <1>5, Zenon DEF SeePipeline, users
  <2>2. Known' \subseteq Known \cup {p} /\ ~lagging /\ lock' = lock
    BY <2>1, Zenon DEF Known, TypeInv, locks
  <2>3. CASE Known = {} \/ AllQueued
    <3>1. Known' \subseteq queue'
      BY <2>1, <2>2, <2>3, Zenon DEF AllQueued
    <3> QED BY <1>4, <3>1, Zenon
  <2>4. CASE Collectable(lock) # {}
    BY <1>2, <2>2, <2>4, Zenon DEF Collectable, Woken
  <2>5. CASE HolderQueued
    <3>1. PICK o \in KnownObjects, v \in lock : o.uid[1] \in queue /\ v[1] = o.uid[1]
      BY <2>5, Zenon DEF HolderQueued
    <3>2. v \in lock' /\ v[1] \in queue'
      BY <2>1, <2>2, <3>1, Zenon
    <3> QED BY <3>2, QueuedHolder, Zenon
  <2> QED BY <2>2, <2>3, <2>4, <2>5, Zenon DEF Woken
<1>6. ASSUME NEW p \in Names, Drops(p) PROVE Woken'
  <2>1. UNCHANGED <<cached, locks, pipelines>> /\ queue' = queue \ {p}
    BY <1>6, Zenon DEF Drops
  <2>2. /\ Known' = Known /\ KnownObjects' = KnownObjects
        /\ ~lagging /\ lock' = lock /\ seen = lock
    BY <2>1, Zenon DEF Known, KnownObjects, locks, TypeInv
  <2>3. CASE Known = {}
    BY <2>2, <2>3, Zenon DEF Woken
  <2>4. CASE Collectable(lock) # {}
    BY <1>2, <2>2, <2>4, Zenon DEF Collectable, Woken
  <2>5. CASE HolderQueued
    <3>1. PICK o \in KnownObjects, v \in lock : o.uid[1] \in queue /\ v[1] = o.uid[1]
      BY <2>5, Zenon DEF HolderQueued
    <3>2. cached[o.uid[1]] = o /\ o # None /\ v \in Remembered
      BY KnownObject, Zenon DEF Remembered
    <3>3. CASE o.uid[1] # p
      <4>1. v \in lock' /\ v[1] \in queue'
        BY <2>1, <2>2, <3>1, <3>3, Zenon
      <4> QED BY <4>1, QueuedHolder, Zenon
    <3>4. CASE o.uid[1] = p
      <4>1. TryAcquireLock(o.uid) # "nil"
        BY <1>6, <3>2, <3>4, Zenon DEF Drops
      <4>2. o.uid \notin lock
        BY <2>2, <4>1, Zenon DEF TryAcquireLock
      <4>3. Live(v) => o.uid = v
        <5>1. Live(v) => cached[v[1]].uid = v
          BY <3>2, Zenon DEF UIDInv, Current
        <5>2. cached[v[1]] = o
          BY <3>1, <3>2, ZenonT(30)
        <5> QED BY <5>1, <5>2, Zenon
      <4>4. v \in Collectable(lock)
        BY <4>2, <4>3, Zenon DEF Collectable
      <4> QED BY <2>4, <4>4, Zenon
    <3> QED BY <3>3, <3>4, Zenon
  <2>6. CASE AllQueued
    <3>1. canAddOwner(seen) /\ ~lagging
      BY <2>2, <2>6, RoomInEmptyLock, Zenon DEF AllQueued
    <3>2. \A u : TryAcquireLock(u) = "nil"
      BY <3>1, Zenon DEF TryAcquireLock
    <3>3. p \notin Known
      BY <1>6, <3>2, Zenon DEF Drops, Known
    <3>4. Known' \subseteq queue'
      BY <2>1, <2>2, <2>6, <3>3, Zenon DEF AllQueued
    <3> QED BY <1>4, <3>4, Zenon
  <2> QED BY <2>2, <2>3, <2>4, <2>5, <2>6, Zenon DEF Woken
<1>7. CASE doReconcile
  BY <1>3, <1>7, Zenon DEF doReconcile
<1>8. CASE getReconcilablePipelines
  <2>1. PICK o \in worker.todo : /\ LockAcquired(o.uid) \/ UNCHANGED locks
                                 /\ Validates(o) \/ Fail
    BY <1>8, ValidationStep, ZenonT(30)
  <2>2. UNCHANGED locks
    BY <2>1, LockAcquiredIs, Zenon
  <2> QED BY <1>3, <1>8, <2>1, <2>2, ValidationStep, Zenon DEF Validates, Fail
<1>9. CASE CollectLock
  BY <1>9, Zenon DEF CollectLock
<1>10. CASE Restart
  <2>1. Known' \subseteq queue'
    BY <1>10, Zenon DEF Restart, Known
  <2> QED BY <1>4, <2>1, Zenon
<1>11. CASE SeeLock
  <2>1. Known' \subseteq queue'
    BY <1>11, Zenon DEF SeeLock, mapLockConfigMapChanges, Known
  <2> QED BY <1>4, <2>1, Zenon
<1>12. CASE CollectAgent
  BY <1>3, <1>12, Zenon DEF CollectAgent
<1> QED BY <1>3, <1>5, <1>6, <1>7, <1>8, <1>9, <1>10, <1>11, <1>12, ReconcileStep, Zenon
        DEF Next, Controller, vars, locks, users, Create, Edit, Delete

\* No step leaves the agent wrong with nobody to look at it.
LEMMA NextAgentInv ==
    ASSUME TypeInv, UIDInv, OwnerInv, WorkerInv, MemberInv, AgentInv,
           TypeInv', UIDInv', [Next]_vars
    PROVE  AgentInv'
<1>1. /\ \A o : Wants(o)' = Wants(o)
      /\ \A o : Exempt(o)' = Exempt(o)
  BY WantsConstant, Zenon
<1>2. Idle.by = None
  BY Zenon DEF Idle
<1>3. CASE Woken'
  BY <1>3, Zenon DEF AgentInv
<1> SUFFICES ASSUME ~lagging' PROVE AgentInv'
  BY <1>3, Zenon DEF Woken
<1>4. ASSUME NEW p \in Names, Takes(p) PROVE AgentInv'
  <2>1. worker'.by = cached[p].uid /\ cached[p].uid \in lock' /\ cached[p].uid # None
    <3>1. cached[p] \in AllObjects
      BY <1>4, Zenon DEF Takes, TypeInv
    <3>2. cached[p].uid # None
      BY <3>1, UIDType, Zenon DEF AllObjects
    <3>3. UNCHANGED locks
      BY <1>4, LockAcquiredIs, Zenon DEF Takes
    <3>4. ~lagging /\ lock' = lock /\ seen = lock
      BY <3>3, Zenon DEF locks, TypeInv
    <3>5. cached[p].uid \in seen \/ lock' = SetOwnerReference(cached[p].uid)
      BY <1>4, Zenon DEF Takes, LockAcquired
    <3> QED BY <1>4, <3>2, <3>4, <3>5, Zenon DEF Takes, SetOwnerReference
  <2> QED BY <2>1, Zenon DEF AgentInv
<1>5. CASE Woken
  BY <1>3, <1>4, <1>5, WokenKept, Zenon
<1> SUFFICES ASSUME ~Woken PROVE AgentInv'
  BY <1>5, Zenon
<1>6. ~lagging
  BY Zenon DEF Woken
<1>7. CASE UNCHANGED <<cached, lock, worker>> /\ agent' = agent
  <2>1. Target' = Target
    BY <1>1, <1>7, Zenon DEF Target, KnownObjects, Known
  <2>2. Matches => Matches'
    BY <1>1, <1>7, <2>1, Zenon DEF Matches
  <2> QED BY <1>7, <2>2, Zenon DEF AgentInv
<1>8. CASE CollectLock \/ SeeLock
  BY <1>6, <1>8, Zenon DEF CollectLock, SeeLock
<1>9. CASE Restart
  <2>1. Known' \subseteq queue'
    BY <1>9, Zenon DEF Restart, Known
  <2> QED BY <1>3, <2>1, AllKnownQueued, Zenon
<1>10. CASE CollectAgent
  <2>1. UNCHANGED <<cached, lock, worker, pipelines>> /\ queue \subseteq queue'
    BY <1>10, Zenon DEF CollectAgent, users, locks
  <2>2. Target' = Target
    BY <1>1, <2>1, Zenon DEF Target, KnownObjects, Known
  <2>3. CASE worker.by # None
    BY <2>1, <2>3, Zenon DEF AgentInv
  <2>4. CASE /\ worker.by = None /\ agent' = NoAgent
             /\ agent.owners \subseteq Collectable(agent.owners)
    <3>1. CASE Target = {}
      <4>1. agent'.config = {}
        BY <2>4, Zenon DEF NoAgent
      <4>2. Matches'
        BY <2>2, <2>4, <3>1, <4>1, Zenon DEF Matches
      <4> QED BY <2>1, <2>4, <4>2, Zenon DEF AgentInv
    <3>2. ASSUME NEW o \in Target PROVE AgentInv'
      <4>1. o \in KnownObjects /\ Wants(o) /\ o.uid \in lock
        BY Zenon DEF Target
      <4>2. Live(o.uid) /\ o.uid # None
        BY <4>1, KnownObject, Zenon DEF Woken, Collectable
      <4>3. o.uid[1] \in queue
        BY <1>6, <2>4, <4>1, <4>2, Zenon DEF MemberInv, Collectable
      <4>4. o.uid \in lock' /\ o.uid[1] \in queue'
        BY <2>1, <4>1, <4>3, Zenon
      <4> QED BY <1>3, <4>4, QueuedHolder, Zenon
    <3> QED BY <3>1, <3>2, Zenon
  <2>5. CASE /\ worker.by = None
             /\ agent.owners \ Collectable(agent.owners) # {}
             /\ agent' = [agent EXCEPT !.owners = agent.owners \ Collectable(agent.owners)]
    <3>1. agent # NoAgent
      BY <2>5 DEF NoAgent
    <3>2. agent'.objects = agent.objects /\ agent'.config = agent.config
      BY <2>5, Zenon DEF TypeInv, AgentType
    <3>3. Matches
      BY <2>5, Zenon DEF AgentInv
    <3>4. agent.config # {} /\ agent.objects = "all"
      BY <3>1, <3>3, Zenon DEF Matches
    <3>5. /\ {o \in agent'.config : o.uid \in lock'} = Target'
          /\ \A o \in agent'.config : o.uid \in lock' \/ Exempt(o)'
      BY <1>1, <2>1, <2>2, <3>2, <3>3, Zenon DEF Matches
    <3>6. Matches'
      BY <3>2, <3>4, <3>5, Zenon DEF Matches
    <3> QED BY <2>1, <2>5, <3>6, Zenon DEF AgentInv
  <2> QED BY <1>10, <2>3, <2>4, <2>5, Zenon DEF CollectAgent
<1>11. ASSUME NEW p \in Names, SeePipeline(p) PROVE AgentInv'
  <2>1. /\ UNCHANGED <<lock, worker, agent, pipelines>> /\ queue' = queue \cup {p}
        /\ cached' = [cached EXCEPT ![p] = pipelines[p]]
    BY <1>11, Zenon DEF SeePipeline, users, locks
  <2>2. CASE \E v \in lock : v[1] = p
    <3>1. PICK v \in lock : v[1] = p
      BY <2>2, Zenon
    <3>2. v \in lock' /\ v[1] \in queue'
      BY <2>1, <3>1, Zenon
    <3> QED BY <1>3, <3>2, QueuedHolder, Zenon
  <2>3. CASE \A v \in lock : v[1] # p
    <3>1. ASSUME NEW o, o.uid \in lock PROVE o \in KnownObjects' <=> o \in KnownObjects
      <4>1. o.uid[1] # p
        BY <2>3, <3>1, Zenon
      <4>2. \A q \in Names : cached'[q] # None => cached'[q].uid[1] = q
        BY Zenon DEF UIDInv
      <4>3. \A q \in Names : cached[q] # None => cached[q].uid[1] = q
        BY Zenon DEF UIDInv
      <4>4. \A q \in Names : q # p => cached'[q] = cached[q]
        BY <2>1, Zenon DEF TypeInv
      <4> QED BY <4>1, <4>2, <4>3, <4>4 DEF KnownObjects, Known
    <3>2. Target' = Target
      BY <1>1, <2>1, <3>1, Zenon DEF Target
    <3>3. Matches => Matches'
      BY <1>1, <2>1, <3>2, Zenon DEF Matches
    <3> QED BY <2>1, <3>3, Zenon DEF AgentInv
  <2> QED BY <2>2, <2>3, Zenon
<1>12. ASSUME NEW p \in Names, Drops(p) PROVE AgentInv'
  BY <1>7, <1>12, Zenon DEF Drops, locks
<1>13. CASE getReconcilablePipelines
  <2>1. PICK o \in worker.todo : /\ LockAcquired(o.uid) \/ UNCHANGED locks
                                 /\ Validates(o) \/ Fail
    BY <1>13, ValidationStep, Zenon
  <2>2. UNCHANGED locks /\ worker.by # None
    BY <2>1, LockAcquiredIs, ListedPipeline, Zenon
  <2>3. worker.by \in lock'
    BY <2>2, Zenon DEF AgentInv, locks
  <2>4. CASE Validates(o)
    <3>1. worker'.by = worker.by
      BY <2>4, ZenonT(30) DEF Validates, TypeInv, WorkerType
    <3> QED BY <2>2, <2>3, <3>1, Zenon DEF AgentInv
  <2>5. CASE Fail
    <3>1. worker.by[1] \in queue'
      BY <2>5, Zenon DEF Fail
    <3> QED BY <1>3, <2>3, <3>1, QueuedHolder, Zenon
  <2> QED BY <2>1, <2>4, <2>5, Zenon
<1>14. CASE doReconcile
  <2>1. /\ cached' = cached /\ worker.by # None /\ worker'.by = None /\ worker.todo = {}
        /\ lock' = lock /\ queue \subseteq queue'
    BY <1>2, <1>14, Zenon DEF doReconcile, locks
  <2>2. Known' = Known /\ KnownObjects' = KnownObjects
    BY <2>1, Zenon DEF Known, KnownObjects
  <2>3. CASE worker.by[1] \in queue'
    <3>1. worker.by \in lock'
      BY <2>1, Zenon DEF AgentInv
    <3> QED BY <1>3, <2>3, <3>1, QueuedHolder, Zenon
  <2>4. CASE Known \subseteq queue
    <3>1. Known' \subseteq queue'
      BY <2>1, <2>2, <2>4, Zenon
    <3> QED BY <1>3, <3>1, AllKnownQueued, Zenon
  <2>5. CASE \E u \in lock : u[1] \in queue
    <3>1. PICK u \in lock' : u[1] \in queue'
      BY <2>1, <2>5, Zenon
    <3> QED BY <1>3, <3>1, QueuedHolder, Zenon
  <2>6. CASE ~(Known \subseteq queue) /\ (\A u \in lock : u[1] \notin queue)
             /\ worker.by[1] \notin queue'
    <3>1. PICK wanted :
             /\ wanted = {o \in worker.reconcilable : Wants(o)}
             /\ \/ wanted # {} /\ agent'.objects = "all" /\ agent'.config = wanted
                \/ wanted = {} /\ agent' = NoAgent
      BY <1>14, <2>6, DoReconcileOutcome, Zenon
    <3>2. ASSUME NEW o, o.uid \in lock, Wants(o)
          PROVE  o \in worker.reconcilable <=> o \in KnownObjects
      <4>1. o.uid[1] \notin queue
        BY <2>6, <3>2, Zenon
      <4>2. o \in worker.reconcilable => o \in KnownObjects
        BY <2>1, <4>1, Zenon DEF WorkerInv
      <4>3. o \in KnownObjects => o \in worker.reconcilable
        BY <1>6, <2>1, <3>2, <4>1, Zenon DEF WorkerInv
      <4> QED BY <4>2, <4>3, Zenon
    <3>3. {o \in wanted : o.uid \in lock} = Target
      BY <3>1, <3>2, Zenon DEF Target
    <3>4. \A o \in wanted : o.uid \in lock \/ Exempt(o)
      BY <1>6, <2>1, <2>6, <3>1, Zenon DEF WorkerInv
    <3>5. Target' = Target
      BY <1>1, <2>1, <2>2, Zenon DEF Target
    <3>6. agent'.config = wanted
      <4>1. NoAgent.config = {}
        BY Zenon DEF NoAgent
      <4> QED BY <3>1, <4>1, Zenon
    <3>7. Matches'
      BY <1>1, <2>1, <3>1, <3>3, <3>4, <3>5, <3>6, Zenon DEF Matches
    <3> QED BY <2>1, <3>7, Zenon DEF AgentInv
  <2> QED BY <2>3, <2>4, <2>5, <2>6, Zenon
<1> QED BY <1>4, <1>7, <1>8, <1>9, <1>10, <1>11, <1>12, <1>13, <1>14, ReconcileStep, Zenon
        DEF Next, Controller, vars, locks, users, Create, Edit, Delete

\* The inductive invariant.
IndInv == TypeInv /\ UIDInv /\ OwnerInv /\ WorkerInv /\ MemberInv /\ AgentInv

\* It holds at the start.
LEMMA InitIndInv == Init => IndInv
<1> SUFFICES ASSUME Init PROVE IndInv
  OBVIOUS
<1>1. TypeInv
  BY InitTypeInv, Zenon
<1>2. /\ lock = {} /\ seen = {} /\ agent.owners = {} /\ agent.config = {} /\ agent = NoAgent
      /\ worker.by = None /\ worker.todo = {}
  BY Zenon DEF Init, NoAgent, Idle
<1>3. \A p \in Names : pipelines[p] = None /\ cached[p] = None
  BY Zenon DEF Init
<1>4. UIDInv
  BY <1>2, <1>3, SMTT(30) DEF UIDInv, Remembered
<1>5. Known = {} /\ KnownObjects = {}
  BY <1>3, Zenon DEF Known, KnownObjects
<1> QED BY <1>1, <1>2, <1>4, <1>5, Zenon
        DEF IndInv, OwnerInv, WorkerInv, MemberInv, AgentInv, Woken

\* Every step keeps it.
LEMMA NextIndInv == IndInv /\ [Next]_vars => IndInv'
BY NextTypeInv, NextUIDInv, NextOwnerInv, NextWorkerInv, NextMemberInv, NextAgentInv, Zenon
DEF IndInv

\* What the proofs use of the specification: not its fairness.
LEMMA SpecSafety == Spec => Init /\ [][Next]_vars
BY PTL DEF Spec

\* It holds in every state, whatever the constants are.
LEMMA Invariance == Spec => []IndInv
BY InitIndInv, NextIndInv, SpecSafety, PTL

\* The agent does not outlive the pipelines: at rest it has an owner, and its owners
\* are live pipelines with a slot (OwnerReferenceSetter, TryAcquireLock).
THEOREM OwnersAtRest == Spec => []RestingOwnersExist
<1>1. IndInv => RestingOwnersExist
  BY Zenon DEF IndInv, OwnerInv, RestingOwnersExist, AtRest
<1> QED BY <1>1, Invariance, PTL

\* Once nothing is left to do, the agent serves the valid pipelines with a slot that
\* need it, all of them and in their present form; any other pipeline it serves has
\* a certificate that is about to expire; and an agent that serves nobody is gone:
\* after edits, deletions, conflicts over the lock, half-done applies and restarts
\* in any number (doReconcile, mapLockConfigMapChanges, EnqueueRequestForOwner).
THEOREM AgentAtRest == Spec => []RestingAgentIsCurrent
<1>1. IndInv => RestingAgentIsCurrent
  <2> SUFFICES ASSUME IndInv, AtRest
               PROVE  /\ {o \in agent.config : o.uid \in lock} = Wanted
                      /\ \A o \in agent.config : o.uid \in lock \/ Exempt(o)
                      /\ IF agent.config = {} THEN agent = NoAgent ELSE agent.objects = "all"
    BY Zenon DEF RestingAgentIsCurrent, Exempt
  <2>1. cached = pipelines /\ queue = {} /\ worker.by = None /\ ~lagging
        /\ \A u \in lock \cup agent.owners : Live(u)
    BY Zenon DEF AtRest, Idle
  <2>2. Target = Wanted
    <3>1. KnownObjects = Existing
      BY <2>1, Zenon DEF KnownObjects, Known, Existing
    <3>2. \A o : Wants(o) <=>
             /\ o \in getPipelinesRequiringAgents({o}) /\ o.spec.error \in {"nil", "CertAboutToExpire"}
             /\ kind = "fluentbit" => ~FIPSMode
      BY Zenon DEF Wants, Accepted
    <3>3. \A o \in Existing : o \in getPipelinesRequiringAgents({o})
                                <=> o \in getPipelinesRequiringAgents(Existing)
      BY Zenon DEF getPipelinesRequiringAgents
    <3>4. getPipelinesRequiringAgents(Existing) \subseteq Existing
      BY Zenon DEF getPipelinesRequiringAgents
    <3> QED BY <3>1, <3>2, <3>3, <3>4, Zenon DEF Target, Wanted
  <2>3. CASE Matches
    BY <2>2, <2>3, Zenon DEF Matches
  <2>4. CASE Known = {}
    <3>1. Target = {}
      BY <2>4, Zenon DEF Target, KnownObjects
    <3>2. agent.owners \subseteq AllUIDs
      BY Zenon DEF IndInv, TypeInv, AgentType
    <3>3. \A u \in agent.owners : u[1] \in Names /\ pipelines[u[1]] # None
      BY <2>1, <3>2, UIDType, Zenon DEF Live
    <3>4. agent.owners = {}
      BY <2>1, <2>4, <3>3, Zenon DEF Known
    <3>5. NoAgent.config = {}
      BY Zenon DEF NoAgent
    <3>6. agent = NoAgent
      BY <3>4, Zenon DEF IndInv, OwnerInv
    <3>7. agent.config = {}
      BY <3>5, <3>6, Zenon
    <3> QED BY <2>2, <3>1, <3>6, <3>7, Zenon
  <2>5. ~HolderQueued /\ Collectable(lock) = {} /\ (AllQueued => Known = {})
    BY <2>1, Zenon DEF HolderQueued, Collectable, AllQueued
  <2> QED BY <2>1, <2>3, <2>4, <2>5, Zenon DEF IndInv, AgentInv, Woken
<1> QED BY <1>1, Invariance, PTL

=============================================================================
