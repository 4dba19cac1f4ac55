---------------------------- MODULE ResourceLock ----------------------------
(* One pipeline lock of internal/resourcelock/lock.go: the ConfigMap whose      *)
(* owner references are the pipelines that hold a slot, the informer caches it  *)
(* is read through, the controller's workqueue and workers that call            *)
(* TryAcquireLock, and the Kubernetes garbage collector that frees the slot of  *)
(* a deleted pipeline.  MaxOwners = 0 is a syncer (NewSyncer), anything else a  *)
(* locker (NewLocker).                                                          *)
EXTENDS OwnerRefs

CONSTANTS
    Workers,           \* the controller's goroutines (MaxConcurrentReconciles, 1 by default)
    MaxIncarnations,   \* bound: how often one name may be created
    MaxFaults          \* bound: failed API calls and manager restarts

VARIABLES
    pipelines,     \* pipelines[n]: uid of the live object called n, 0 if none
    incarnations,  \* incarnations[n]: the last uid given out under n
    lock,          \* owner references of the ConfigMap on the API server; {} if absent
    pipelineCache, \* the informer's copy of pipelines
    lockCache,     \* the informer's copy of lock
    current,       \* does lockCache carry the ConfigMap's current resource version?
    queue,         \* the controller's workqueue: a set, so requests are deduplicated
    call,          \* call[w]: the TryAcquireLock call that worker w is in
    faults

vars == <<pipelines, incarnations, lock, pipelineCache, lockCache, current, queue,
          call, faults>>

(* Resource versions are only ever compared for equality, so a copy of the      *)
(* ConfigMap carries one bit instead of a counter: whether the ConfigMap is     *)
(* still the one the copy was made of.  Every write on the server clears it.    *)
(* The ConfigMap always has an owner (createLock sets one before Create, and    *)
(* the garbage collector deletes it with the last one), so {} can mean absent.  *)
Absent == {}

NoCall == [op |-> "none"]

\* The write that TryAcquireLock is about to send: the object it read from the
\* cache, changed in memory, under the resource version it was read with.
PendingWrite ==
    [op : {"create", "update"}, ref : OwnerRef, owners : SUBSET OwnerRef, current : BOOLEAN]

TypeOK ==
    /\ pipelines \in [Names -> Nat]
    /\ incarnations \in [Names -> Nat]
    /\ lock \in SUBSET OwnerRef
    /\ pipelineCache \in [Names -> Nat]
    /\ lockCache \in SUBSET OwnerRef
    /\ current \in BOOLEAN
    /\ queue \in SUBSET Names
    /\ call \in [Workers -> PendingWrite \union {NoCall}]
    /\ faults \in Nat

Init ==
    /\ pipelines = [n \in Names |-> 0]
    /\ incarnations = [n \in Names |-> 0]
    /\ lock = Absent
    /\ pipelineCache = [n \in Names |-> 0]
    /\ lockCache = Absent
    /\ current = TRUE
    /\ queue = {}
    /\ call = [w \in Workers |-> NoCall]
    /\ faults = 0

-----------------------------------------------------------------------------
\* The user's side of the API server.

CreatePipeline(n) ==
    /\ pipelines[n] = 0
    /\ incarnations[n] < MaxIncarnations
    /\ incarnations' = [incarnations EXCEPT ![n] = @ + 1]
    /\ pipelines' = [pipelines EXCEPT ![n] = incarnations'[n]]
    /\ UNCHANGED <<lock, pipelineCache, lockCache, current, queue, call, faults>>

DeletePipeline(n) ==
    /\ pipelines[n] # 0
    /\ pipelines' = [pipelines EXCEPT ![n] = 0]
    /\ UNCHANGED <<incarnations, lock, pipelineCache, lockCache, current, queue,
                   call, faults>>

IsDangling(ref) == pipelines[ref.name] # ref.uid

Idle(w) == call[w] = NoCall

\* calls, once the ConfigMap has been written: none carries its version any more.
Outdated(calls) ==
    [w \in Workers |-> IF calls[w] = NoCall THEN NoCall
                       ELSE [calls[w] EXCEPT !.current = FALSE]]

\* The garbage collector drops references to owners that no longer exist, and
\* deletes the ConfigMap when no owner is left.
GarbageCollect ==
    /\ \E gone \in SUBSET lock :
          /\ gone # {}
          /\ \A r \in gone : IsDangling(r)
          /\ lock' = lock \ gone
    /\ current' = FALSE
    /\ call' = Outdated(call)
    /\ UNCHANGED <<pipelines, incarnations, pipelineCache, lockCache, queue, faults>>

-----------------------------------------------------------------------------
\* The informer caches and the event handlers SetupWithManager registers.

SyncPipeline(n) ==
    /\ pipelineCache[n] # pipelines[n]
    /\ pipelineCache' = [pipelineCache EXCEPT ![n] = pipelines[n]]
    /\ queue' = queue \union {n}
    /\ UNCHANGED <<pipelines, incarnations, lock, lockCache, current, call, faults>>

\* Mutation: no watch on the lock ConfigMap.
EnqueueNothing == queue

\* enqueueAllPipelines: a request for every pipeline the cache lists.
enqueueAllPipelines == queue \union {n \in Names : pipelineCache[n] # 0}

\* mapLockConfigMapChanges runs for every event of the lock ConfigMap.
SyncLock ==
    /\ ~current
    /\ current' = TRUE
    /\ lockCache' = lock
    /\ queue' = enqueueAllPipelines
    /\ UNCHANGED <<pipelines, incarnations, lock, pipelineCache, call, faults>>

-----------------------------------------------------------------------------
\* A worker takes a request, reads its pipeline and calls TryAcquireLock.

\* The workqueue never hands one key to two workers at a time.
InProcess(n) == \E v \in Workers : ~Idle(v) /\ call[v].ref.name = n

\* The first half of TryAcquireLock, up to the write it decides on.  A pipeline
\* that already holds its slot is done; one above the limit is done with
\* ErrMaxPipelinesExceeded, which the reconciler does not retry.
Decide(ref) ==
    IF lockCache = Absent
    THEN [op |-> "create", ref |-> ref, owners |-> {ref}, current |-> current]
    ELSE IF ref \notin lockCache /\ MayAddOwner(lockCache)
    THEN [op |-> "update", ref |-> ref, owners |-> SetOwnerReference(ref, lockCache),
          current |-> current]
    ELSE NoCall

TryAcquireLock(w, n) ==
    /\ Idle(w)
    /\ n \in queue
    /\ ~InProcess(n)
    /\ queue' = queue \ {n}
    /\ call' = [call EXCEPT ![w] = IF pipelineCache[n] = 0
                                   THEN NoCall
                                   ELSE Decide(Ref(n, pipelineCache[n]))]
    /\ UNCHANGED <<pipelines, incarnations, lock, pipelineCache, lockCache, current,
                   faults>>

\* Mutation: the update is sent without a resource version.
AcceptedUnversioned(c) == IF c.op = "create" THEN lock = Absent ELSE lock # Absent

\* The API server takes a create only if there is no such object, and an update
\* only under the current resource version.
Accepted(c) == IF c.op = "create" THEN lock = Absent ELSE c.current

\* The second half: Create or Update.  An AlreadyExists, NotFound or Conflict is
\* returned by the reconciler, and the controller retries the request.
WriteLock(w) ==
    /\ ~Idle(w)
    /\ IF Accepted(call[w])
       THEN /\ lock' = call[w].owners
            /\ current' = FALSE
            /\ call' = Outdated([call EXCEPT ![w] = NoCall])
            /\ UNCHANGED queue
       ELSE /\ queue' = queue \union {call[w].ref.name}
            /\ call' = [call EXCEPT ![w] = NoCall]
            /\ UNCHANGED <<lock, current>>
    /\ UNCHANGED <<pipelines, incarnations, pipelineCache, lockCache, faults>>

\* The request does not reach the API server.
WriteFails(w) ==
    /\ ~Idle(w)
    /\ faults < MaxFaults
    /\ faults' = faults + 1
    /\ call' = [call EXCEPT ![w] = NoCall]
    /\ queue' = queue \union {call[w].ref.name}
    /\ UNCHANGED <<pipelines, incarnations, lock, pipelineCache, lockCache, current>>

\* The manager restarts: calls in flight are gone, the caches are listed anew and
\* every pipeline found is enqueued.
Restart ==
    /\ faults < MaxFaults
    /\ faults' = faults + 1
    /\ call' = [w \in Workers |-> NoCall]
    /\ pipelineCache' = pipelines
    /\ lockCache' = lock
    /\ current' = TRUE
    /\ queue' = {n \in Names : pipelines[n] # 0}
    /\ UNCHANGED <<pipelines, incarnations, lock>>

-----------------------------------------------------------------------------
Next ==
    \/ \E n \in Names : CreatePipeline(n) \/ DeletePipeline(n) \/ SyncPipeline(n)
    \/ GarbageCollect
    \/ SyncLock
    \/ \E w \in Workers, n \in Names : TryAcquireLock(w, n)
    \/ \E w \in Workers : WriteLock(w) \/ WriteFails(w)
    \/ Restart

Spec == Init /\ [][Next]_vars

\* Watches deliver, the garbage collector runs and the workers take every request:
\* controller-runtime and Kubernetes guarantee these, and nothing is assumed of
\* the user, of failures or of restarts.
Fairness ==
    /\ WF_vars(GarbageCollect)
    /\ WF_vars(SyncLock)
    /\ \A n \in Names : WF_vars(SyncPipeline(n))
    /\ \A n \in Names : SF_vars(\E w \in Workers : TryAcquireLock(w, n))
    /\ \A w \in Workers : WF_vars(WriteLock(w))

FairSpec == Spec /\ Fairness

-----------------------------------------------------------------------------
\* The limit: however reads of stale caches, retries, deletions and restarts
\* interleave, the ConfigMap never names more pipelines than maxOwners.
AtMostMaxOwners == WithinLimit(lock)

\* One slot per name: a recreated pipeline replaces the reference to its
\* predecessor and never takes a second slot beside it.
OneSlotPerName ==
    \A r, s \in lock : r.name = s.name => r = s

\* The lock implements PipelineSlots: a slot is granted within the limit and is
\* never taken from a pipeline that still exists.
Slots == INSTANCE PipelineSlots WITH live <- pipelines, holders <- lock

ImplementsSlots == Slots!Spec

\* A slot that is freed is used: once few enough pipelines are left, every one of
\* them comes to hold a slot and keeps it, although a pipeline above the limit is
\* never retried by itself and relies on the watch of the lock ConfigMap.
Live == {n \in Names : pipelines[n] # 0}

HoldsSlot(n) == Ref(n, pipelines[n]) \in lock

FreedSlotIsUsed ==
    <>[]WithinLimit(Live) => <>[](\A n \in Live : HoldsSlot(n))
=============================================================================
