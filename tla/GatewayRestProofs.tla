-------------------------- MODULE GatewayRestProofs -------------------------
(***************************************************************************)
(* What the gateway is left with once nothing wakes the controllers any    *)
(* more, for any pipelines, kinds, limits and bounds, as long as no name   *)
(* is given to a second pipeline, no controller is paused and no failed    *)
(* read of a Secret is taken for an invalid value.  A pipeline that has    *)
(* not the reference it should have will be reconciled again, and a        *)
(* configuration of the gateway that does not agree with the references    *)
(* will be rendered again.                                                 *)
(***************************************************************************)
EXTENDS GatewayCoordinationProofs

\* The slots: who holds one, as the API server, the caches and the workers see it.

\* The worker of the pipeline's kind validates it or is about to write its reference.
IsBusy(p) == IsHeld(p) /\ work[TypeOf[p]].at \in {"validate", "add"}

HasSlot(p) == Ref(p, obj[p].uid) \in lock[TypeOf[p]]

\* A copy of a lock ConfigMap that carries the current resource version is equal to it.
LockCopies ==
    /\ lockCurrent = [t \in Types |-> lockCurrent[t]]
    /\ \A t \in Types : lockCurrent[t] => lockCache[t] = lock[t]

\* A pipeline that has never been has no slot; the cache has the pipeline of the API
\* server, if an earlier state of it; a slot that the cache shows is still there; and only
\* a pipeline with a slot is validated or has a reference.
SlotInv(p) ==
    /\ uids[p] = 0 =>
          \A u : Ref(p, u) \notin lock[TypeOf[p]] /\ Ref(p, u) \notin lockCache[TypeOf[p]]
    /\ obj[p] # NoObj =>
          /\ objCache[p] # NoObj =>
                objCache[p].uid = obj[p].uid /\ objCache[p].spec.otlp = obj[p].spec.otlp
          /\ Ref(p, obj[p].uid) \in lockCache[TypeOf[p]] => HasSlot(p)
          /\ coord.refs[p] # NoRef \/ IsBusy(p) =>
                HasSlot(p) /\ obj[p].spec.otlp /\ objCache[p] # NoObj

\* What a step does to the lock ConfigMap of a kind and to its copy.
LockStep(t) ==
    \/ /\ lock'[t] = lock[t] /\ lockCache'[t] = lockCache[t]
       /\ lockCurrent'[t] = lockCurrent[t]
    \/ lock'[t] = lock[t] /\ lockCache'[t] = lock[t] /\ lockCurrent'[t] = TRUE
    \/ /\ lock'[t] = lock[t] \ Dangling(t) /\ lockCache'[t] = lockCache[t]
       /\ lockCurrent'[t] = FALSE /\ obj' = obj
    \/ \E p \in Names :
          /\ TypeOf[p] = t /\ objCache[p] # NoObj
          /\ lock'[t] = SetOwnerReference(Ref(p, objCache[p].uid), lockCache[t])
          /\ lockCurrent[t] \/ lock[t] = {}
          /\ lockCache'[t] = lockCache[t]
          /\ lockCurrent'[t] = FALSE /\ obj' = obj

\* Every step is one of these, for every kind.
LEMMA LockSteps ==
    ASSUME Locks, LockCopies, [Next]_vars
    PROVE  /\ lockCurrent' = [t \in Types |-> lockCurrent'[t]]
           /\ \A t \in Types : LockStep(t)
<1>0. /\ lock = [t \in Types |-> lock[t]] /\ lockCache = [t \in Types |-> lockCache[t]]
      /\ lockCurrent = [t \in Types |-> lockCurrent[t]]
  BY Zenon DEF Locks, LockCopies
<1> DEFINE Goal == /\ lockCurrent' = [t \in Types |-> lockCurrent'[t]]
                   /\ \A t \in Types : LockStep(t)
<1> SUFFICES Goal
  BY Zenon
<1>1. CASE UNCHANGED <<lock, lockCache, lockCurrent>>
  BY <1>0, <1>1, Zenon DEF LockStep
<1>2. ASSUME NEW t \in Types, GarbageCollect(t) PROVE Goal
  <2>1. /\ lock' = [lock EXCEPT ![t] = lock[t] \ Dangling(t)] /\ lockCache' = lockCache
        /\ lockCurrent' = [lockCurrent EXCEPT ![t] = FALSE] /\ obj' = obj
    BY <1>2, Zenon DEF GarbageCollect, caches, apiVars
  <2>2. /\ lock'[t] = lock[t] \ Dangling(t) /\ lockCurrent'[t] = FALSE
        /\ \A u \in Types : u # t => lock'[u] = lock[u] /\ lockCurrent'[u] = lockCurrent[u]
        /\ lockCurrent' = [u \in Types |-> lockCurrent'[u]]
    BY <1>0, <2>1, Zenon
  <2> QED
    BY <2>1, <2>2, Zenon DEF LockStep
<1>3. ASSUME NEW t \in Types, SyncLock(t) PROVE Goal
  <2>1. /\ lock' = lock /\ lockCache' = [lockCache EXCEPT ![t] = lock[t]]
        /\ lockCurrent' = [lockCurrent EXCEPT ![t] = TRUE]
    BY <1>3, Zenon DEF SyncLock
  <2>2. /\ lockCache'[t] = lock[t] /\ lockCurrent'[t] = TRUE
        /\ \A u \in Types :
               u # t => lockCache'[u] = lockCache[u] /\ lockCurrent'[u] = lockCurrent[u]
        /\ lockCurrent' = [u \in Types |-> lockCurrent'[u]]
    BY <1>0, <2>1, Zenon
  <2> QED
    BY <2>1, <2>2, Zenon DEF LockStep
<1>4. ASSUME NEW p \in Names, ReconcilePipeline(p), ~UNCHANGED lockVars PROVE Goal
  <2> DEFINE t == TypeOf[p]
             ref == Ref(p, objCache[p].uid)
  <2>0. t \in Types
    BY TypesAssumption, Zenon
  <2>1. /\ TryAcquireLock(t, ref) = "granted" /\ objCache[p] # NoObj
        /\ lock' = [lock EXCEPT ![t] = SetOwnerReference(ref, lockCache[t])]
        /\ lockCurrent' = [lockCurrent EXCEPT ![t] = FALSE]
        /\ lockCache' = lockCache /\ obj' = obj
    BY <1>4, Zenon DEF ReconcilePipeline, ElsewhereUnchanged, caches, apiVars
  <2>2. lockCurrent[t] \/ lock[t] = {}
    BY <2>1, Zenon DEF TryAcquireLock
  <2> HIDE DEF ref
  <2>3. /\ lock'[t] = SetOwnerReference(ref, lockCache[t]) /\ lockCurrent'[t] = FALSE
        /\ \A u \in Types : u # t => lock'[u] = lock[u] /\ lockCurrent'[u] = lockCurrent[u]
        /\ lockCurrent' = [u \in Types |-> lockCurrent'[u]]
    BY <1>0, <2>0, <2>1, Zenon
  <2>4. LockStep(t)
    BY <2>1, <2>2, <2>3, Zenon DEF LockStep, ref
  <2>5. \A u \in Types : u # t => LockStep(u)
    BY <2>1, <2>3, Zenon DEF LockStep
  <2> QED
    BY <2>3, <2>4, <2>5, Zenon
<1>5. ASSUME NEW p \in Names, ReconcilePipeline(p) PROVE Goal
  BY <1>1, <1>4, <1>5, Zenon DEF ReconcilePipeline, ElsewhereUnchanged, lockVars, caches
<1>6. CASE Restart
  BY <1>0, <1>6, Zenon DEF Restart, LockStep
<1> HIDE DEF Goal
<1> QED
  BY <1>1, <1>2, <1>3, <1>5, <1>6, ZenonT(30)
  DEF Next, vars, Users, UserOp, CreatePipeline, EditPipeline, DeletePipeline, ChangeSecret,
      TogglePause, Kubernetes, RemoveMarked, SyncPipeline, SyncCoordination, Reconcile,
      ReconcilePaused, ReconcileDeleted, Continue, Validate, WriteReference, UpdateStatus,
      updateStatus, Gateway, GatewayPaused, GatewayBuild, GatewayApply, Failures,
      ReconcileFails, ValidateMisled, UpdateStatusMisled, StepFails, GatewayFails,
      ElsewhereUnchanged, GatewayUnchanged, lockVars, caches

\* What a worker that changes a pipeline's reference writes there.
LEMMA WrittenReference ==
    ASSUME CoordInv, Next, NEW q \in Names, coord'.refs[q] # coord.refs[q]
    PROVE  /\ IsHeld(q) /\ work[TypeOf[q]].at \in {"add", "remove", "forget"}
           /\ work[TypeOf[q]].at = "add" =>
                 coord'.refs[q] = [gen |-> work[TypeOf[q]].o.gen,
                                   sv |-> CollectSecretVersions(work[TypeOf[q]].o)]
           /\ work[TypeOf[q]].at # "add" => coord'.refs[q] = NoRef
           /\ coordCurrent' = FALSE /\ coord'.exists
<1>1. PICK t \in Types :
          /\ work[t].at \in {"add", "remove", "forget"}
          /\ applyConfigUpdate(UpdatedReferences(work[t]))
          /\ coordCache' = coordCache
  BY ReferenceWriter, Zenon
<1>2. work[TypeOf[q]].at \in {"add", "remove", "forget"} /\ work[TypeOf[q]].p = q
  BY StepLosesNoReference, Zenon
<1>3. work[t].p \in Names /\ TypeOf[work[t].p] = t
  BY <1>1 DEF CoordInv, OwnRequests, IsRequest, Idle
<1>4. q = work[t].p /\ t = TypeOf[q]
  BY <1>1, <1>3, WriteChangesOneEntry, Zenon DEF CoordInv
<1>5. coord' = [exists |-> TRUE, refs |-> UpdatedReferences(work[t])] /\ coordCurrent' = FALSE
  BY <1>1, Zenon DEF applyConfigUpdate, coordVars
<1>6. coordCache.refs = [p \in Names |-> coordCache.refs[p]]
  BY Zenon DEF CoordInv, Copies, IsReferences
<1>7. CASE work[t].at = "add"
  <2>1. coord'.refs = [coordCache.refs EXCEPT ![q] =
            [gen |-> work[t].o.gen, sv |-> CollectSecretVersions(work[t].o)]]
    BY <1>4, <1>5, <1>7, Zenon DEF UpdatedReferences, AddPipelineReference
  <2> QED
    BY <1>2, <1>4, <1>5, <1>6, <1>7, <2>1, Zenon DEF IsHeld
<1>8. CASE work[t].at # "add"
  <2>1. coord'.refs = [coordCache.refs EXCEPT ![q] = NoRef]
    BY <1>4, <1>5, <1>8, Zenon DEF UpdatedReferences, RemovePipelineReference
  <2> QED
    BY <1>2, <1>4, <1>5, <1>6, <1>8, <2>1, Zenon DEF IsHeld
<1> QED
  BY <1>7, <1>8, Zenon

\* A worker becomes busy with a pipeline only in ReconcilePipeline, and with the cached
\* pipeline, for which it has found or written a slot.
LEMMA BecomesBusy ==
    ASSUME OwnRequests, Locks, [Next]_vars, NEW q \in Names, IsBusy(q)'
    PROVE  \/ IsBusy(q) /\ work'[TypeOf[q]].o = work[TypeOf[q]].o
           \/ /\ objCache[q] # NoObj /\ objCache[q].spec.otlp
              /\ work'[TypeOf[q]].o = objCache[q] /\ UNCHANGED <<obj, objCache>>
              /\ \/ Ref(q, objCache[q].uid) \in lockCache[TypeOf[q]]
                 \/ Ref(q, objCache[q].uid) \in lock'[TypeOf[q]]
<1>0. TypeOf[q] \in Types
  BY TypesAssumption, Zenon
<1>1. CASE UNCHANGED work
  BY <1>1, Zenon DEF IsBusy, IsHeld
<1>2. ASSUME NEW t \in Types, work[t].at # "idle",
             \/ \E stage, err : Goto(t, stage, err) /\ (stage = "add" => work[t].at = "validate")
                               /\ stage # "validate"
             \/ \E retry : Done(t, retry)
      PROVE  IsBusy(q) /\ work'[TypeOf[q]].o = work[TypeOf[q]].o
  BY <1>0, <1>2 DEF Goto, Done, Idle, OwnRequests, IsBusy, IsHeld
<1>3. ASSUME NEW p \in Names, ReconcileDeleted(p)
      PROVE  IsBusy(q) /\ work'[TypeOf[q]].o = work[TypeOf[q]].o
  BY <1>0, <1>3, TypesAssumption, Zenon DEF ReconcileDeleted, Begin, OwnRequests, IsBusy, IsHeld
<1>4. ASSUME NEW p \in Names, ReconcilePipeline(p), TypeOf[p] # TypeOf[q] \/ p # q
      PROVE  IsBusy(q) /\ work'[TypeOf[q]].o = work[TypeOf[q]].o
  <2>1. PICK stage, o, err : Begin(p, stage, o, err)
    BY <1>4, Zenon DEF ReconcilePipeline
  <2> QED
    BY <1>0, <1>4, <2>1, TypesAssumption, Zenon DEF Begin, OwnRequests, IsBusy, IsHeld
<1>5. ASSUME ReconcilePipeline(q)
      PROVE  /\ objCache[q] # NoObj /\ objCache[q].spec.otlp
             /\ work'[TypeOf[q]].o = objCache[q] /\ UNCHANGED <<obj, objCache>>
             /\ \/ Ref(q, objCache[q].uid) \in lockCache[TypeOf[q]]
                \/ Ref(q, objCache[q].uid) \in lock'[TypeOf[q]]
  <2> DEFINE t == TypeOf[q]
             ref == Ref(q, objCache[q].uid)
             outcome == TryAcquireLock(t, ref)
  <2>1. /\ objCache[q] # NoObj /\ UNCHANGED <<obj, objCache>>
        /\ outcome = "granted" =>
               lock' = [lock EXCEPT ![t] = SetOwnerReference(ref, lockCache[t])]
    BY <1>5, Zenon DEF ReconcilePipeline, ElsewhereUnchanged, apiVars, caches
  <2>2. PICK err : Begin(q, IF outcome \in {"held", "granted"} /\ objCache[q].spec.otlp
                           THEN "validate" ELSE "status", objCache[q], err)
    BY <1>5, Zenon DEF ReconcilePipeline
  <2>3. work'[t].o = objCache[q] /\ outcome \in {"held", "granted"} /\ objCache[q].spec.otlp
    BY <1>0, <2>2, Zenon DEF Begin, OwnRequests, IsBusy
  <2>4. outcome = "held" => ref \in lockCache[t]
    BY Zenon DEF TryAcquireLock
  <2>5. outcome = "granted" => ref \in lock'[t]
    BY <1>0, <2>1, Zenon DEF Locks, SetOwnerReference
  <2> QED
    BY <2>1, <2>3, <2>4, <2>5, Zenon
<1>6. ASSUME NEW t \in Types, Continue(t) \/ ValidateMisled(t) \/ UpdateStatusMisled(t)
                              \/ StepFails(t)
      PROVE  IsBusy(q) /\ work'[TypeOf[q]].o = work[TypeOf[q]].o
  <2>1. /\ work[t].at # "idle"
        /\ \/ \E stage, err : Goto(t, stage, err) /\ (stage = "add" => work[t].at = "validate")
                              /\ stage # "validate"
           \/ \E retry : Done(t, retry)
    BY <1>6, Zenon
    DEF Continue, Validate, ValidateMisled, WriteReference, UpdateStatus, UpdateStatusMisled,
        updateStatus, StepFails, Stage
  <2> QED
    BY <1>2, <2>1, Zenon
<1>7. ~Restart
  BY <1>0 DEF Restart, IsBusy, IsHeld, Idle
<1> QED
  BY <1>1, <1>3, <1>4, <1>5, <1>6, <1>7, ZenonT(30)
  DEF Next, vars, Users, UserOp, CreatePipeline, EditPipeline, DeletePipeline, ChangeSecret,
      TogglePause, Kubernetes, RemoveMarked, SyncPipeline, GarbageCollect, SyncLock,
      SyncCoordination, Reconcile, ReconcilePaused, Gateway, GatewayPaused, GatewayBuild,
      GatewayApply, Failures, ReconcileFails, GatewayFails, GatewayUnchanged

\* So a current copy stays equal.
LEMMA NextLockCopies ==
    ASSUME Locks, LockCopies, [Next]_vars PROVE LockCopies'
<1>1. ASSUME NEW t \in Types, lockCurrent'[t] PROVE lockCache'[t] = lock'[t]
  <2>1. LockStep(t) /\ (lockCurrent[t] => lockCache[t] = lock[t])
    BY LockSteps, Zenon DEF LockCopies
  <2> QED
    BY <1>1, <2>1, Zenon DEF LockStep
<1>2. lockCurrent' = [t \in Types |-> lockCurrent'[t]]
  BY LockSteps, Zenon
<1> QED
  BY <1>1, <1>2, Zenon DEF LockCopies

\* What a write of the owner references keeps and adds.
LEMMA SetReference ==
    ASSUME NEW p, NEW u, NEW q, NEW v, NEW refs
    PROVE  /\ Ref(p, u) \in SetOwnerReference(Ref(p, u), refs)
           /\ q # p => (Ref(q, v) \in SetOwnerReference(Ref(p, u), refs) <=> Ref(q, v) \in refs)
  BY Zenon DEF Ref, SetOwnerReference

\* The garbage collector and the other pipelines of the kind leave a pipeline its slot.
LEMMA SlotStays ==
    ASSUME Locks, LockCopies, [Next]_vars, NEW q \in Names, SlotInv(q), obj[q] # NoObj,
           obj'[q].uid = obj[q].uid
    PROVE  /\ HasSlot(q) => HasSlot(q)'
           /\ Ref(q, obj[q].uid) \in lockCache[TypeOf[q]] => HasSlot(q)'
           /\ Ref(q, obj[q].uid) \in lockCache'[TypeOf[q]] => HasSlot(q)'
<1> DEFINE t == TypeOf[q]
           ref == Ref(q, obj[q].uid)
<1>1. t \in Types /\ LockStep(t)
  BY LockSteps, TypesAssumption, Zenon
<1>2. ref \in lockCache[t] => ref \in lock[t]
  BY Zenon DEF SlotInv, HasSlot
<1>3. SUFFICES ASSUME ref \in lock[t] \/ ref \in lockCache'[t] PROVE ref \in lock'[t]
  BY <1>2, Zenon DEF HasSlot
<1>4. CASE lock'[t] = lock[t] /\ lockCache'[t] \in {lockCache[t], lock[t]}
  BY <1>2, <1>3, <1>4, Zenon
<1>5. CASE lock'[t] = lock[t] \ Dangling(t) /\ lockCache'[t] = lockCache[t]
  <2>1. ref \notin Dangling(t)
    BY Zenon DEF Dangling, Ref
  <2> QED
    BY <1>2, <1>3, <1>5, <2>1, Zenon
<1>6. ASSUME NEW p \in Names, TypeOf[p] = t, objCache[p] # NoObj,
             lock'[t] = SetOwnerReference(Ref(p, objCache[p].uid), lockCache[t]),
             lockCurrent[t] \/ lock[t] = {}, lockCache'[t] = lockCache[t]
      PROVE  ref \in lock'[t]
  <2>1. ref \in lockCache[t]
    BY <1>1, <1>2, <1>3, <1>6, Zenon DEF LockCopies
  <2>2. CASE p = q
    BY <1>6, <2>2, SetReference DEF SlotInv
  <2>3. CASE p # q
    BY <1>6, <2>1, <2>3, SetReference
  <2> QED
    BY <2>2, <2>3, Zenon
<1> HIDE DEF ref, t
<1> QED
  BY <1>1, <1>4, <1>5, <1>6, Zenon DEF LockStep

\* A pipeline that has never been was seen by nobody.
LEMMA NeverBeen ==
    ASSUME RenderInv, Versions, NEW q \in Names, uids[q] = 0
    PROVE  obj[q] = NoObj /\ objCache[q] = NoObj /\ coord.refs[q] = NoRef /\ ~IsBusy(q)
<1>1. \A g, s : ~Saw(q, g, s)
  BY Zenon DEF RenderInv, OneSpecPerGeneration
<1>2. obj[q] = NoObj /\ objCache[q] = NoObj
  BY <1>1, Zenon DEF Saw, Holds
<1>3. coord.refs[q] = NoRef
  BY <1>1, Zenon DEF RenderInv, RefsValidated, Saw
<1>4. ~IsBusy(q)
  <2> SUFFICES ASSUME IsBusy(q) PROVE FALSE
    BY Zenon
  <2>1. TypeOf[q] \in Types
    BY TypesAssumption, Zenon
  <2>2. work[TypeOf[q]] # Idle /\ work[TypeOf[q]].p = q
    BY DEF IsBusy, IsHeld, Idle
  <2>3. CASE work[TypeOf[q]].at = "validate"
    BY <1>1, <2>1, <2>2, <2>3, Zenon DEF RenderInv, WorkValidated, Saw, Holds
  <2>4. CASE work[TypeOf[q]].at = "add"
    BY <1>1, <2>1, <2>2, <2>4, Zenon DEF RenderInv, WorkValidated, IsValidated, Saw
  <2> QED
    BY <2>3, <2>4, Zenon DEF IsBusy
<1> QED
  BY <1>2, <1>3, <1>4, Zenon

\* A reference appears only while the worker is busy with its pipeline.
LEMMA ReferenceAppears ==
    ASSUME CoordInv, [Next]_vars, NEW q \in Names, coord'.refs[q] # NoRef
    PROVE  coord.refs[q] # NoRef \/ IsBusy(q)
<1>1. CASE coord'.refs[q] = coord.refs[q]
  BY <1>1, Zenon
<1>2. CASE coord'.refs[q] # coord.refs[q]
  <2>1. Next
    BY <1>2, Zenon DEF vars, coordVars
  <2> QED
    BY <1>2, <2>1, WrittenReference, Zenon DEF IsBusy
<1> QED
  BY <1>1, <1>2, Zenon

\* Every step preserves SlotInv.
LEMMA NextSlotInv ==
    ASSUME MaxIncarnations = 1, CoordInv, RenderInv, Versions, Locks, LockCopies,
           [Next]_vars, NEW q \in Names, SlotInv(q)
    PROVE  SlotInv(q)'
<1> DEFINE t == TypeOf[q]
<1>0. t \in Types /\ LockStep(t) /\ ObjectStep(q) /\ uids[q] \in Nat
  BY LockSteps, ObjectSteps, TypesAssumption, Zenon DEF RenderInv, CoordInv, Objects
<1>1. ASSUME uids[q] = 0, NEW u
      PROVE  Ref(q, u) \notin lock'[t] /\ Ref(q, u) \notin lockCache'[t]
  <2>1. Ref(q, u) \notin lock[t] /\ Ref(q, u) \notin lockCache[t] /\ objCache[q] = NoObj
    BY <1>1, NeverBeen, Zenon DEF SlotInv
  <2>2. ASSUME NEW p \in Names, objCache[p] # NoObj
        PROVE  Ref(q, u) \notin SetOwnerReference(Ref(p, objCache[p].uid), lockCache[t])
    BY <2>1, <2>2, SetReference, Zenon
  <2> QED
    BY <1>0, <2>1, <2>2, Zenon DEF LockStep
<1>2. uids'[q] = 0 => uids[q] = 0
  BY <1>0 DEF ObjectStep
<1>3. CASE obj'[q] = NoObj
  BY <1>1, <1>2, <1>3, Zenon DEF SlotInv
<1>4. CASE obj[q] = NoObj /\ obj'[q] # NoObj
  <2>1. uids[q] = 0
    BY <1>0, <1>4 DEF ObjectStep
  <2>2. objCache[q] = NoObj /\ coord.refs[q] = NoRef /\ ~IsBusy(q)
    BY <2>1, NeverBeen, Zenon
  <2>3. objCache'[q] = NoObj
    BY <1>0, <1>4, <2>2, Zenon DEF ObjectStep
  <2>4. coord'.refs[q] = NoRef
    BY <2>2, ReferenceAppears, Zenon
  <2>5. ~IsBusy(q)'
    BY <2>2, BecomesBusy, Zenon DEF CoordInv
  <2> QED
    BY <1>1, <2>1, <2>3, <2>4, <2>5, Zenon DEF SlotInv
<1>5. CASE obj[q] # NoObj /\ obj'[q] # NoObj
  <2>1. obj'[q].uid = obj[q].uid /\ obj'[q].spec.otlp = obj[q].spec.otlp
    BY <1>0, <1>5, Zenon DEF ObjectStep
  <2>2. objCache'[q] = objCache[q] \/ objCache'[q] = obj'[q]
    BY <1>0, Zenon DEF ObjectStep
  <2>3. /\ HasSlot(q) => HasSlot(q)'
        /\ Ref(q, obj[q].uid) \in lockCache[t] => HasSlot(q)'
        /\ Ref(q, obj[q].uid) \in lockCache'[t] => HasSlot(q)'
    BY <1>5, <2>1, SlotStays, Zenon
  <2>4. ASSUME coord'.refs[q] # NoRef \/ IsBusy(q)'
        PROVE  HasSlot(q)' /\ obj'[q].spec.otlp /\ objCache'[q] # NoObj
    <3>1. CASE coord.refs[q] # NoRef \/ IsBusy(q)
      BY <1>5, <2>1, <2>2, <2>3, <3>1, Zenon DEF SlotInv
    <3>2. CASE ~(coord.refs[q] # NoRef \/ IsBusy(q))
      <4>1. /\ objCache[q] # NoObj /\ objCache[q].spec.otlp
            /\ \/ Ref(q, objCache[q].uid) \in lockCache[t]
               \/ Ref(q, objCache[q].uid) \in lock'[t]
        BY <2>4, <3>2, BecomesBusy, ReferenceAppears, Zenon DEF CoordInv
      <4>2. objCache[q].uid = obj[q].uid /\ objCache[q].spec.otlp = obj[q].spec.otlp
        BY <1>5, <4>1, Zenon DEF SlotInv
      <4> QED
        BY <1>5, <2>1, <2>2, <2>3, <4>1, <4>2, Zenon DEF HasSlot
    <3> QED
      BY <3>1, <3>2, Zenon
  <2>5. objCache'[q] # NoObj =>
            objCache'[q].uid = obj'[q].uid /\ objCache'[q].spec.otlp = obj'[q].spec.otlp
    BY <1>5, <2>1, <2>2, Zenon DEF SlotInv
  <2> QED
    BY <1>1, <1>2, <2>1, <2>3, <2>4, <2>5, Zenon DEF SlotInv
<1> QED
  BY <1>3, <1>4, <1>5, Zenon

-----------------------------------------------------------------------------
\* The references: every pipeline comes to have the one it should.

\* The reference that the pipeline should have.
WantedRef(p) ==
    IF Deployable(p) THEN [gen |-> obj[p].gen, sv |-> CollectSecretVersions(obj[p])] ELSE NoRef

\* It has it, or lost it to a failed read of the Secret that was taken for an invalid value.
RightRef(p) == coord.refs[p] = WantedRef(p) \/ (misled # 0 /\ coord.refs[p] = NoRef)

\* The worker that holds the pipeline gives it that reference, or has, or tries again.
GivesRef(p) ==
    LET w == work[TypeOf[p]]
    IN  \/ w.at = "validate" /\ w.o = objCache[p]
        \/ w.at = "add" /\ w.o = objCache[p] /\ Deployable(p)
        \/ w.at = "remove" /\ (~Deployable(p) \/ misled # 0)
        \/ w.at = "status" /\ (w.err \/ RightRef(p))

\* A cached pipeline that takes values from the Secret and waits for nothing is linked to
\* the Secret's watcher.
IsWatched(p) == objCache[p] # NoObj /\ objCache[p].spec.secret => p \in queue \/ p \in linked

\* A pipeline has the right reference, or something is under way that leads to it.
ReferenceComes(p) ==
    obj[p] # NoObj =>
        \/ p \in queue \/ objCache[p] # obj[p] \/ ~lockCurrent[TypeOf[p]]
        \/ IF IsHeld(p) THEN GivesRef(p) ELSE RightRef(p)

\* Whether a pipeline can be deployed depends on its lock, and on the Secret if it uses it.
LEMMA SameDeployable ==
    ASSUME NEW q \in Names, obj'[q] = obj[q],
           lock'[TypeOf[q]] = lock[TypeOf[q]], lockCache'[TypeOf[q]] = lockCache[TypeOf[q]],
           secret' = secret \/ ~obj[q].spec.secret
    PROVE  (Deployable(q)' <=> Deployable(q)) /\ WantedRef(q)' = WantedRef(q)
<1>1. CurrentVerdict(q, obj[q])' = CurrentVerdict(q, obj[q])
  <2>1. CASE secret' = secret
    BY <2>1, Zenon DEF CurrentVerdict
  <2>2. CASE ~obj[q].spec.secret
    <3>1. Validation(q, obj[q].spec, obj[q].uid, secret'.version, lockCache[TypeOf[q]])
          = Validation(q, obj[q].spec, obj[q].uid, secret.version, lockCache[TypeOf[q]])
      BY <2>2, ValidationWithoutSecret, SMTT(30)
    <3> QED
      BY <3>1, Zenon DEF CurrentVerdict
  <2> QED
    BY <2>1, <2>2, Zenon
<1>2. Verdict(q, obj[q]) = CurrentVerdict(q, obj[q])
  BY VerdictIs, Zenon
<1>3. Verdict(q, obj[q])' = CurrentVerdict(q, obj[q])'
  BY Zenon DEF Verdict, SecretView, LockView, CurrentVerdict, Validation
<1>4. Deployable(q)' <=> Deployable(q)
  BY <1>1, <1>2, <1>3, Zenon DEF Deployable
<1>5. CollectSecretVersions(obj[q])' = CollectSecretVersions(obj[q])
  BY Zenon DEF CollectSecretVersions
<1> QED
  BY <1>4, <1>5, Zenon DEF WantedRef

\* A step that leaves the pipeline, its lock, its reference and the worker alone, or makes
\* something new to be noticed, keeps ReferenceComes.
LEMMA KeptReference ==
    ASSUME NEW q \in Names, ReferenceComes(q), objCache'[q] = objCache[q],
           q \in queue => q \in queue', misled # 0 => misled' # 0,
           \/ obj'[q] = NoObj \/ obj'[q] # objCache[q] \/ ~lockCurrent'[TypeOf[q]]
           \/ /\ obj'[q] = obj[q]
              /\ lock'[TypeOf[q]] = lock[TypeOf[q]] /\ lockCache'[TypeOf[q]] = lockCache[TypeOf[q]]
              /\ lockCurrent'[TypeOf[q]] = lockCurrent[TypeOf[q]]
              /\ secret' = secret \/ ~obj[q].spec.secret
              /\ coord'.refs[q] = coord.refs[q]
              /\ work'[TypeOf[q]] = work[TypeOf[q]] \/ (~IsHeld(q) /\ ~IsHeld(q)')
    PROVE  ReferenceComes(q)'
<1>1. CASE obj'[q] = NoObj \/ obj'[q] # objCache[q] \/ ~lockCurrent'[TypeOf[q]]
  BY <1>1, Zenon DEF ReferenceComes
<1>2. CASE /\ obj'[q] = obj[q]
           /\ lock'[TypeOf[q]] = lock[TypeOf[q]] /\ lockCache'[TypeOf[q]] = lockCache[TypeOf[q]]
           /\ lockCurrent'[TypeOf[q]] = lockCurrent[TypeOf[q]]
           /\ secret' = secret \/ ~obj[q].spec.secret
           /\ coord'.refs[q] = coord.refs[q]
           /\ work'[TypeOf[q]] = work[TypeOf[q]] \/ (~IsHeld(q) /\ ~IsHeld(q)')
  <2>1. (Deployable(q)' <=> Deployable(q)) /\ WantedRef(q)' = WantedRef(q)
    BY <1>2, SameDeployable, Zenon
  <2>2. RightRef(q) => RightRef(q)'
    BY <1>2, <2>1, Zenon DEF RightRef
  <2>3. CASE work'[TypeOf[q]] = work[TypeOf[q]]
    <3>1. IsHeld(q)' <=> IsHeld(q)
      BY <2>3, Zenon DEF IsHeld
    <3>2. GivesRef(q) => GivesRef(q)'
      BY <2>1, <2>2, <2>3, Zenon DEF GivesRef
    <3> QED
      BY <1>2, <2>2, <3>1, <3>2, Zenon DEF ReferenceComes
  <2>4. CASE ~IsHeld(q) /\ ~IsHeld(q)'
    BY <1>2, <2>2, <2>4, Zenon DEF ReferenceComes
  <2> QED
    BY <1>2, <2>3, <2>4, Zenon
<1> QED
  BY <1>1, <1>2, Zenon

\* A pipeline in the queue will be reconciled, whatever is missing.
LEMMA QueuedReference ==
    ASSUME NEW q \in Names, q \in queue' PROVE ReferenceComes(q)' /\ IsWatched(q)'
  BY Zenon DEF ReferenceComes, IsWatched

\* Every pipeline that takes values from the Secret is watched, or will be.
LEMMA NextWatched ==
    ASSUME Objects, OwnRequests, paused = {}, [Next]_vars, NEW q \in Names, IsWatched(q)
    PROVE  IsWatched(q)'
<1>1. ASSUME objCache'[q] = objCache[q], queue \subseteq queue', linked' = linked
      PROVE  IsWatched(q)'
  BY <1>1, Zenon DEF IsWatched
<1>2. ASSUME NEW p \in Names, SyncPipeline(p) PROVE IsWatched(q)'
  <2>1. q \in queue' \/ (objCache'[q] = objCache[q] /\ queue \subseteq queue' /\ linked' = linked)
    BY <1>2, Zenon DEF SyncPipeline, Objects
  <2> QED
    BY <1>1, <2>1, QueuedReference, Zenon
<1>3. ASSUME NEW p \in Names, Reconcile(p) PROVE IsWatched(q)'
  <2>1. /\ objCache' = objCache /\ queue' = queue \ {p}
        /\ linked \ {p} \subseteq linked'
        /\ objCache[p] # NoObj /\ objCache[p].spec.secret => p \in linked'
    BY <1>3, Zenon
    DEF Reconcile, ReconcilePaused, ReconcileDeleted, ReconcilePipeline, Started,
        ElsewhereUnchanged, caches
  <2> QED
    BY <2>1, Zenon DEF IsWatched
<1>4. ASSUME NEW t \in Types, Continue(t) \/ ValidateMisled(t) \/ UpdateStatusMisled(t)
                              \/ StepFails(t)
      PROVE  IsWatched(q)'
  <2>1. objCache' = objCache /\ linked' = linked
    BY <1>4, Zenon
    DEF Continue, Validate, WriteReference, UpdateStatus, updateStatus, ValidateMisled,
        UpdateStatusMisled, StepFails, ElsewhereUnchanged, caches
  <2>2. queue' = queue \/ \E retry : Done(t, retry)
    BY <1>4, Zenon
    DEF Continue, Validate, WriteReference, UpdateStatus, updateStatus, ValidateMisled,
        UpdateStatusMisled, StepFails
  <2>3. queue \subseteq queue'
    BY <2>2, Zenon DEF Done
  <2> QED
    BY <1>1, <2>1, <2>3, Zenon
<1>5. CASE Restart
  BY <1>5, Zenon DEF Restart, IsWatched
<1>6. CASE \/ UNCHANGED vars \/ Users \/ Gateway \/ GatewayFails
           \/ (\E p \in Names : ReconcileFails(p) \/ RemoveMarked(p))
           \/ (\E t \in Types : GarbageCollect(t) \/ SyncLock(t)) \/ SyncCoordination
  <2>1. objCache' = objCache /\ queue \subseteq queue' /\ linked' = linked
    BY <1>6, Zenon
    DEF vars, Users, UserOp, CreatePipeline, EditPipeline, DeletePipeline, ChangeSecret,
        TogglePause, Gateway, GatewayPaused, GatewayBuild, GatewayApply, DaemonSetEvents,
        GatewayFails, ReconcileFails, RemoveMarked, GarbageCollect, SyncLock, SyncCoordination,
        GatewayUnchanged, ElsewhereUnchanged, caches
  <2> QED
    BY <1>1, <2>1, Zenon
<1> QED
  BY <1>2, <1>3, <1>4, <1>5, <1>6, Zenon DEF Next, Kubernetes, Failures

\* What users do is noticed: a changed pipeline differs from the cached one, and a changed
\* Secret puts the watched pipelines in the queue.
LEMMA UsersReferences ==
    ASSUME Objects, Versions, OwnRequests, Users, Next, NEW q \in Names,
           misled # 0 => misled' # 0, IsWatched(q), ReferenceComes(q)
    PROVE  ReferenceComes(q)'
<1>1. /\ UNCHANGED <<objCache, lock, lockCache, lockCurrent, work, linked, coord>>
      /\ queue \subseteq queue'
  BY Zenon
  DEF Users, UserOp, CreatePipeline, EditPipeline, DeletePipeline, ChangeSecret, TogglePause,
      caches, lockVars, coordVars
<1>2. CASE ChangeSecret
  <2>1. obj' = obj /\ queue' = queue \union linked
    BY <1>2, Zenon DEF ChangeSecret
  <2>2. CASE objCache[q] # NoObj /\ objCache[q].spec.secret
    BY <2>1, <2>2, QueuedReference, Zenon DEF IsWatched
  <2>3. CASE ~(objCache[q] # NoObj /\ objCache[q].spec.secret)
    BY <1>1, <2>1, <2>3, KeptReference, Zenon
  <2> QED
    BY <2>2, <2>3, Zenon
<1>3. CASE obj'[q] = obj[q] /\ secret' = secret
  BY <1>1, <1>3, KeptReference, Zenon
<1>4. CASE obj'[q] # obj[q]
  <2>1. obj'[q] = NoObj \/ obj'[q] # objCache[q]
    BY <1>4, UserEditsUnseen, Zenon
  <2> QED
    BY <1>1, <2>1, KeptReference, Zenon
<1> QED
  BY <1>2, <1>3, <1>4, Zenon
  DEF Users, CreatePipeline, EditPipeline, DeletePipeline, TogglePause, apiVars

\* So is what Kubernetes does.
LEMMA KubernetesReferences ==
    ASSUME Objects, Locks, LockCopies, Kubernetes, NEW q \in Names,
           misled # 0 => misled' # 0, ReferenceComes(q)
    PROVE  ReferenceComes(q)'
<1>1. UNCHANGED <<secret, work, coord>> /\ queue \subseteq queue'
  BY Zenon
  DEF Kubernetes, RemoveMarked, SyncPipeline, GarbageCollect, SyncLock, SyncCoordination,
      apiVars, coordVars
<1>2. ASSUME NEW p \in Names, RemoveMarked(p) PROVE ReferenceComes(q)'
  <2>1. UNCHANGED <<objCache, lock, lockCache, lockCurrent>> /\ obj'[q] \in {obj[q], NoObj}
    BY <1>2, Zenon DEF RemoveMarked, caches, lockVars, Objects
  <2> QED
    BY <1>1, <2>1, KeptReference, Zenon
<1>3. ASSUME NEW p \in Names, SyncPipeline(p) PROVE ReferenceComes(q)'
  <2>1. \/ q \in queue'
        \/ objCache'[q] = objCache[q] /\ UNCHANGED <<obj, lock, lockCache, lockCurrent>>
    BY <1>3, Zenon DEF SyncPipeline, apiVars, lockVars, Objects
  <2> QED
    BY <1>1, <2>1, KeptReference, QueuedReference, Zenon
<1>4. ASSUME NEW t \in Types, SyncLock(t) PROVE ReferenceComes(q)'
  <2>1. /\ UNCHANGED <<obj, objCache, lock>>
        /\ lockCache' = [lockCache EXCEPT ![t] = lock[t]]
        /\ lockCurrent' = [lockCurrent EXCEPT ![t] = TRUE]
    BY <1>4, Zenon DEF SyncLock, apiVars
  <2>2. CASE TypeOf[q] = t /\ objCache[q] # NoObj
    BY <1>4, <2>2, QueuedReference, Zenon DEF SyncLock, Listed
  <2>3. CASE objCache[q] = NoObj
    BY <1>1, <2>1, <2>3, KeptReference, Zenon
  <2>4. CASE TypeOf[q] # t
    <3>1. /\ lockCache'[TypeOf[q]] = lockCache[TypeOf[q]]
          /\ lockCurrent'[TypeOf[q]] = lockCurrent[TypeOf[q]]
      BY <2>1, <2>4, TypesAssumption, Zenon DEF Locks, LockCopies
    <3> QED
      BY <1>1, <2>1, <3>1, KeptReference, Zenon
  <2> QED
    BY <2>2, <2>3, <2>4, Zenon
<1>5. ASSUME NEW t \in Types, GarbageCollect(t) PROVE ReferenceComes(q)'
  <2>1. /\ UNCHANGED <<obj, objCache, lockCache>>
        /\ lock' = [lock EXCEPT ![t] = lock[t] \ Dangling(t)]
        /\ lockCurrent' = [lockCurrent EXCEPT ![t] = FALSE]
    BY <1>5, Zenon DEF GarbageCollect, apiVars, caches
  <2>2. \/ ~lockCurrent'[TypeOf[q]]
        \/ /\ lock'[TypeOf[q]] = lock[TypeOf[q]]
           /\ lockCurrent'[TypeOf[q]] = lockCurrent[TypeOf[q]]
    BY <2>1, TypesAssumption, Zenon DEF Locks, LockCopies
  <2> QED
    BY <1>1, <2>1, <2>2, KeptReference, Zenon
<1>6. CASE UNCHANGED <<obj, objCache, lock, lockCache, lockCurrent>>
  BY <1>1, <1>6, KeptReference, Zenon
<1> QED
  BY <1>2, <1>3, <1>4, <1>5, <1>6, Zenon DEF Kubernetes, SyncCoordination, apiVars, lockVars

\* What the worker's reconciliation of a pipeline begins with.
LEMMA ReconcileReferences ==
    ASSUME OwnRequests, Locks, LockCopies, paused = {}, NEW p \in Names, Reconcile(p),
           NEW q \in Names, SlotInv(q), ReferenceComes(q)
    PROVE  ReferenceComes(q)'
<1> DEFINE t == TypeOf[p]
           o == objCache[p]
           outcome == TryAcquireLock(t, Ref(p, o.uid))
<1>1. /\ UNCHANGED <<obj, secret, objCache, lockCache, coord, misled>>
      /\ work[t].at = "idle" /\ queue' = queue \ {p} /\ t \in Types
  BY TypesAssumption, Zenon
  DEF Reconcile, ReconcilePaused, ReconcileDeleted, ReconcilePipeline, Started, Stage,
      ElsewhereUnchanged, apiVars, caches, coordVars
<1>2. /\ \A u \in Types : u # t => work'[u] = work[u]
      /\ work'[t].p = p
  BY TypesAssumption
  DEF Reconcile, ReconcilePaused, ReconcileDeleted, ReconcilePipeline, Begin, OwnRequests
<1>3. \/ UNCHANGED <<lock, lockCurrent>>
      \/ /\ outcome = "granted"
         /\ \E l : lock' = [lock EXCEPT ![t] = l]
         /\ lockCurrent' = [lockCurrent EXCEPT ![t] = FALSE]
  BY Zenon DEF Reconcile, ReconcilePaused, ReconcileDeleted, ReconcilePipeline, lockVars
<1>4. ~lockCurrent'[t] \/ UNCHANGED <<lock, lockCurrent>>
  BY <1>1, <1>3, Zenon DEF LockCopies
<1>5. \A u \in Types : u # t => lock'[u] = lock[u] /\ lockCurrent'[u] = lockCurrent[u]
  BY <1>3, Zenon DEF LockCopies, Locks
<1>6. CASE q # p
  <2>1. ~lockCurrent'[TypeOf[q]] \/ /\ lock'[TypeOf[q]] = lock[TypeOf[q]]
                                    /\ lockCurrent'[TypeOf[q]] = lockCurrent[TypeOf[q]]
    BY <1>4, <1>5, TypesAssumption, Zenon
  <2>2. work'[TypeOf[q]] = work[TypeOf[q]] \/ (~IsHeld(q) /\ ~IsHeld(q)')
    BY <1>1, <1>2, <1>6, TypesAssumption, Zenon DEF IsHeld
  <2> QED
    BY <1>1, <1>6, <2>1, <2>2, KeptReference, Zenon
<1>7. CASE q = p
  <2> SUFFICES ASSUME obj[q] # NoObj, objCache[q] = obj[q], lockCurrent'[t]
               PROVE  IsHeld(q)' /\ GivesRef(q)'
    BY <1>1, <1>7, Zenon DEF ReferenceComes
  <2>1. ReconcilePipeline(q)
    BY <1>7, Zenon DEF Reconcile, ReconcilePaused, ReconcileDeleted
  <2>2. UNCHANGED <<lock, lockCurrent>> /\ lockCache[t] = lock[t] /\ outcome # "granted"
    <3>1. UNCHANGED <<lock, lockCurrent>>
      BY <1>4, Zenon
    <3>2. lockCurrent[t] /\ lockCache[t] = lock[t]
      BY <1>1, <3>1, Zenon DEF LockCopies
    <3>3. outcome # "granted"
      <4> SUFFICES ASSUME outcome = "granted" PROVE FALSE
        BY Zenon
      <4>1. lockCurrent' = [lockCurrent EXCEPT ![t] = FALSE]
        BY <1>7, <2>1, Zenon DEF ReconcilePipeline
      <4> QED
        BY <1>1, <4>1, Zenon DEF LockCopies
    <3> QED
      BY <3>1, <3>2, <3>3, Zenon
  <2>3. /\ work'[t].at = IF outcome = "held" /\ o.spec.otlp THEN "validate" ELSE "status"
        /\ work'[t].p = q /\ work'[t].o = o
        /\ outcome = "conflict" => work'[t].err
    <3>1. Begin(p, IF outcome \in {"held", "granted"} /\ o.spec.otlp THEN "validate"
                   ELSE "status", o, outcome = "conflict")
      BY <1>7, <2>1, Zenon DEF ReconcilePipeline, IsRetriedLockError
    <3> QED
      BY <1>1, <1>7, <2>2, <3>1, Zenon DEF Begin, OwnRequests
  <2> HIDE DEF outcome
  <2>4. IsHeld(q)'
    BY <1>7, <2>3, Zenon DEF IsHeld
  <2>5. CASE outcome = "held" /\ o.spec.otlp
    BY <1>1, <1>7, <2>3, <2>4, <2>5, Zenon DEF GivesRef
  <2>6. CASE outcome = "conflict"
    BY <1>1, <1>7, <2>3, <2>4, <2>6, Zenon DEF GivesRef
  <2>7. CASE ~(outcome = "held" /\ o.spec.otlp) /\ outcome # "conflict"
    <3>1. ~o.spec.otlp \/ Ref(q, o.uid) \notin lock[t]
      BY <1>7, <2>2, <2>7, Zenon DEF TryAcquireLock, outcome
    <3>2. coord.refs[q] = NoRef
      BY <1>7, <3>1, Zenon DEF SlotInv, HasSlot
    <3>3. ~Deployable(q)'
      BY <1>1, <1>7, <2>2, <3>1, Zenon DEF Deployable
    <3>4. RightRef(q)'
      BY <1>1, <3>2, <3>3, Zenon DEF RightRef, WantedRef
    <3> QED
      BY <1>7, <2>3, <2>4, <2>7, <3>4, ZenonT(30) DEF GivesRef
  <2> QED
    BY <2>4, <2>5, <2>6, <2>7, Zenon
<1> QED
  BY <1>6, <1>7, Zenon

WorkerStep(t) == Continue(t) \/ ValidateMisled(t) \/ UpdateStatusMisled(t) \/ StepFails(t)

\* What a worker's step leaves alone.
LEMMA WorkerUnchanged ==
    ASSUME CoordInv, Objects, misled \in Nat, NEW t \in Types, WorkerStep(t)
    PROVE  /\ UNCHANGED <<secret, objCache, lock, lockCache, lockCurrent, coordCache, linked>>
           /\ queue \subseteq queue' /\ misled' \in {misled, misled + 1}
           /\ work[t].at # "idle" /\ work[t].p \in Names /\ TypeOf[work[t].p] = t
           /\ \A u \in Types : u # t => work'[u] = work[u]
           /\ work'[t].at = "idle" \/ work'[t].p = work[t].p
           /\ \A q \in Names : q # work[t].p =>
                  obj'[q] = obj[q] /\ coord'.refs[q] = coord.refs[q]
<1> USE DEF WorkerStep
<1>1. /\ UNCHANGED <<secret, objCache, lock, lockCache, lockCurrent, coordCache, linked>>
      /\ work[t].at # "idle"
  BY Zenon
  DEF Continue, Validate, WriteReference, UpdateStatus, updateStatus, ValidateMisled,
      UpdateStatusMisled, StepFails, Stage, ElsewhereUnchanged, apiVars, caches, lockVars
<1>2. queue' = queue \/ \E retry : Done(t, retry)
  BY Zenon
  DEF Continue, Validate, WriteReference, UpdateStatus, updateStatus, ValidateMisled,
      UpdateStatusMisled, StepFails
<1>3. queue \subseteq queue'
  BY <1>2, Zenon DEF Done
<1>4. misled' \in {misled, misled + 1}
  BY Zenon
  DEF Continue, Validate, WriteReference, UpdateStatus, ValidateMisled, UpdateStatusMisled,
      StepFails
<1>5. work[t].p \in Names /\ TypeOf[work[t].p] = t
  BY <1>1 DEF CoordInv, Idle, OwnRequests, IsRequest
<1>6. \/ work' = [work EXCEPT ![t] = Idle]
      \/ \E stage, err : Goto(t, stage, err)
  BY Zenon
  DEF Continue, Validate, WriteReference, UpdateStatus, updateStatus, ValidateMisled,
      UpdateStatusMisled, StepFails, Done
<1>7. /\ \A u \in Types : u # t => work'[u] = work[u]
      /\ work'[t].at = "idle" \/ work'[t].p = work[t].p
  BY <1>6 DEF Goto, Idle, CoordInv, OwnRequests
<1>8. obj' = obj \/ \E st : obj' = [obj EXCEPT ![work[t].p].st = st]
  BY Zenon
  DEF Continue, Validate, WriteReference, UpdateStatus, updateStatus, ValidateMisled,
      UpdateStatusMisled, StepFails, ElsewhereUnchanged, apiVars
<1>9. \A q \in Names : q # work[t].p => obj'[q] = obj[q]
  BY <1>5, <1>8, Zenon DEF Objects
<1>10. coord' = coord \/ applyConfigUpdate(UpdatedReferences(work[t]))
  BY Zenon
  DEF Continue, Validate, WriteReference, UpdateStatus, updateStatus, ValidateMisled,
      UpdateStatusMisled, StepFails, coordVars
<1>11. \A q \in Names : q # work[t].p => coord'.refs[q] = coord.refs[q]
  BY <1>1, <1>5, <1>10, WriteChangesOneEntry, Zenon DEF CoordInv
<1> QED
  BY <1>1, <1>3, <1>4, <1>5, <1>7, <1>9, <1>11, Zenon

\* The reference after a write that the API server has accepted, if only because it would
\* change nothing.
LEMMA AcceptedReference ==
    ASSUME Copies, NEW t \in Types, work[t].p \in Names, UpdateAccepted,
           applyConfigUpdate(UpdatedReferences(work[t]))
    PROVE  coord'.refs[work[t].p] =
               IF work[t].at = "add"
               THEN [gen |-> work[t].o.gen, sv |-> CollectSecretVersions(work[t].o)]
               ELSE NoRef
<1> DEFINE refs == UpdatedReferences(work[t])
<1>1. coord'.refs = refs
  <2>1. coord' = [exists |-> TRUE, refs |-> refs]
    BY Zenon DEF applyConfigUpdate, coordVars
  <2> QED
    BY <2>1, Zenon
<1>2. coordCache.refs = [p \in Names |-> coordCache.refs[p]]
  BY Zenon DEF Copies, IsReferences
<1>3. CASE work[t].at = "add"
  BY <1>1, <1>2, <1>3, Zenon DEF UpdatedReferences, AddPipelineReference
<1>4. CASE work[t].at # "add"
  BY <1>1, <1>2, <1>4, Zenon DEF UpdatedReferences, RemovePipelineReference
<1> QED
  BY <1>3, <1>4, Zenon

\* The steps of the worker that has a pipeline in its hands bring its reference.
LEMMA WorkersReferences ==
    ASSUME CoordInv, Objects, misled \in Nat, NEW t \in Types, WorkerStep(t),
           NEW q \in Names, SlotInv(q), ReferenceComes(q)
    PROVE  ReferenceComes(q)'
<1>1. /\ UNCHANGED <<secret, objCache, lock, lockCache, lockCurrent, coordCache>>
      /\ queue \subseteq queue' /\ (misled # 0 => misled' # 0)
      /\ work[t].at # "idle" /\ work[t].p \in Names /\ TypeOf[work[t].p] = t
      /\ \A u \in Types : u # t => work'[u] = work[u]
      /\ work'[t].at = "idle" \/ work'[t].p = work[t].p
  BY WorkerUnchanged
<1>2. CASE q # work[t].p
  <2>1. obj'[q] = obj[q] /\ coord'.refs[q] = coord.refs[q]
    BY <1>2, WorkerUnchanged
  <2>2. work'[TypeOf[q]] = work[TypeOf[q]] \/ (~IsHeld(q) /\ ~IsHeld(q)')
    BY <1>1, <1>2, TypesAssumption, Zenon DEF IsHeld
  <2> QED
    BY <1>1, <2>1, <2>2, KeptReference, Zenon
<1>3. CASE q = work[t].p
  <2> DEFINE o == work[t].o
  <2>0. t = TypeOf[q] /\ IsHeld(q)
    BY <1>1, <1>3 DEF IsHeld
  <2>1. SUFFICES ASSUME obj'[q] # NoObj, q \notin queue', objCache[q] = obj'[q],
                        lockCurrent[t]
                 PROVE  IF IsHeld(q)' THEN GivesRef(q)' ELSE RightRef(q)'
    BY <1>1, <2>0, Zenon DEF ReferenceComes
  <2>2. obj'[q] = obj[q]
    <3>1. obj' = obj \/ objCache[q] = obj[q]
      BY <1>3, Zenon
      DEF WorkerStep, Continue, Validate, WriteReference, UpdateStatus, updateStatus,
          ValidateMisled, UpdateStatusMisled, StepFails, ElsewhereUnchanged, apiVars
    <3> QED
      BY <2>1, <3>1, Zenon
  <2>3. GivesRef(q)
    BY <1>1, <2>0, <2>1, <2>2, Zenon DEF ReferenceComes
  <2>4. (Deployable(q)' <=> Deployable(q)) /\ WantedRef(q)' = WantedRef(q)
    BY <1>1, <2>2, SameDeployable, Zenon
  <2>5. ASSUME NEW stage, NEW err, Goto(t, stage, err), stage # "idle"
        PROVE  /\ work'[t].at = stage /\ work'[t].o = o /\ work'[t].err = err
               /\ IsHeld(q)'
    BY <1>1, <1>3, <2>0, <2>5, Zenon DEF Goto, CoordInv, OwnRequests, IsHeld
  <2>6. CASE \E err : Goto(t, "status", err) /\ err
    BY <2>0, <2>5, <2>6, Zenon DEF GivesRef
  <2>7. CASE Validate(t)
    <3>1. work[t].at = "validate" /\ o = obj[q]
      BY <2>0, <2>1, <2>2, <2>3, <2>7, Zenon DEF Validate, Stage, GivesRef
    <3>2. HasSlot(q) /\ obj[q].spec.otlp
      BY <2>0, <2>1, <2>2, <3>1, Zenon DEF SlotInv, IsBusy
    <3>3. Deployable(q) <=> isReconcilable(o.del, Verdict(q, o))
      BY <2>1, <2>2, <3>1, <3>2, Zenon DEF Deployable, HasSlot
    <3>4. CASE Deployable(q)
      <4>1. Goto(t, "add", FALSE)
        BY <1>3, <2>7, <3>3, <3>4, Zenon DEF Validate
      <4>2. work'[t].at = "add" /\ work'[t].o = objCache'[q] /\ IsHeld(q)'
        BY <1>1, <2>1, <2>2, <2>5, <3>1, <4>1, Zenon
      <4> QED
        BY <2>0, <2>4, <3>4, <4>2, Zenon DEF GivesRef
    <3>5. CASE ~Deployable(q)
      <4>1. Goto(t, "status", TRUE) \/ Goto(t, "remove", FALSE)
        BY <1>3, <2>7, <3>3, <3>5, Zenon DEF Validate
      <4>2. CASE Goto(t, "remove", FALSE)
        BY <2>0, <2>4, <2>5, <3>5, <4>2, Zenon DEF GivesRef
      <4> QED
        BY <2>6, <4>1, <4>2, Zenon
    <3> QED
      BY <3>4, <3>5, Zenon
  <2>8. CASE ValidateMisled(t)
    <3>1. Goto(t, "remove", FALSE) /\ misled' = misled + 1
      BY <2>8, Zenon DEF ValidateMisled
    <3>2. misled' # 0
      BY <3>1
    <3> QED
      BY <2>0, <2>5, <3>1, <3>2, Zenon DEF GivesRef
  <2>9. CASE WriteReference(t)
    <3>1. /\ work[t].at \in {"add", "remove", "forget"}
          /\ applyConfigUpdate(UpdatedReferences(work[t]))
      BY <2>9, Zenon DEF WriteReference, Stage
    <3>2. work[t].at # "forget"
      BY <2>0, <2>3, Zenon DEF GivesRef
    <3>3. Goto(t, "status", ~UpdateAccepted)
      BY <2>9, <3>2, Zenon DEF WriteReference, Stage
    <3>4. CASE ~UpdateAccepted
      BY <2>6, <3>3, <3>4, Zenon
    <3>5. CASE UpdateAccepted
      <4>1. coord'.refs[q] = IF work[t].at = "add"
                             THEN [gen |-> o.gen, sv |-> CollectSecretVersions(o)] ELSE NoRef
        BY <1>1, <1>3, <3>1, <3>5, AcceptedReference, Zenon DEF CoordInv
      <4>2. ASSUME work[t].at = "add" PROVE RightRef(q)'
        <5>1. o = obj[q] /\ Deployable(q)
          BY <2>0, <2>1, <2>2, <2>3, <4>2, Zenon DEF GivesRef
        <5>2. coord'.refs[q] = WantedRef(q)
          BY <4>1, <4>2, <5>1, Zenon DEF WantedRef
        <5> QED
          BY <2>4, <5>2, Zenon DEF RightRef
      <4>3. ASSUME work[t].at = "remove" PROVE RightRef(q)'
        <5>1. coord'.refs[q] = NoRef /\ (~Deployable(q) \/ misled' # 0)
          BY <1>1, <2>0, <2>3, <4>1, <4>3, Zenon DEF GivesRef
        <5> QED
          BY <2>4, <5>1, Zenon DEF RightRef, WantedRef
      <4>4. RightRef(q)'
        BY <3>1, <3>2, <4>2, <4>3, Zenon
      <4> QED
        BY <2>0, <2>5, <3>3, <4>4, Zenon DEF GivesRef
    <3> QED
      BY <3>4, <3>5, Zenon
  <2>10. CASE UpdateStatus(t) \/ UpdateStatusMisled(t)
    <3>1. /\ work[t].at = "status" /\ coord' = coord
          /\ \E retry : Done(t, work[t].err \/ retry)
      BY <2>10, Zenon DEF UpdateStatus, UpdateStatusMisled, updateStatus, Stage, coordVars
    <3>2. ~work[t].err
      BY <1>3, <2>1, <3>1, Zenon DEF Done
    <3>3. RightRef(q)
      BY <2>0, <2>3, <3>1, <3>2, Zenon DEF GivesRef
    <3>4. RightRef(q)'
      BY <1>1, <2>4, <3>1, <3>3, Zenon DEF RightRef
    <3>5. ~IsHeld(q)'
      BY <2>0, <3>1 DEF Done, IsHeld, Idle, CoordInv, OwnRequests
    <3> QED
      BY <3>4, <3>5, Zenon
  <2>11. CASE StepFails(t)
    <3>1. ~Done(t, TRUE)
      BY <1>3, <2>1, Zenon DEF Done
    <3> QED
      BY <2>6, <2>11, <3>1, Zenon DEF StepFails
  <2> QED
    BY <2>7, <2>8, <2>9, <2>10, <2>11, Zenon DEF WorkerStep, Continue
<1> QED
  BY <1>2, <1>3, Zenon

\* Every step keeps ReferenceComes.
LEMMA NextReferences ==
    ASSUME CoordInv, Objects, Versions, Locks, LockCopies, misled \in Nat, paused = {},
           misled' # 0 \/ misled = 0, [Next]_vars, NEW q \in Names, SlotInv(q), IsWatched(q),
           ReferenceComes(q)
    PROVE  ReferenceComes(q)'
<1>1. misled # 0 => misled' # 0
  BY Zenon
<1>2. CASE \/ UNCHANGED vars \/ Gateway \/ GatewayFails \/ (\E p \in Names : ReconcileFails(p))
  <2>1. UNCHANGED <<obj, secret, objCache, lock, lockCache, lockCurrent, work, coord>>
    BY <1>2, Zenon
    DEF vars, Gateway, GatewayPaused, GatewayBuild, GatewayApply, GatewayFails, ReconcileFails,
        GatewayUnchanged, ElsewhereUnchanged, apiVars, caches, lockVars, coordVars
  <2>2. queue \subseteq queue'
    BY <1>2, Zenon
    DEF vars, Gateway, GatewayPaused, GatewayBuild, GatewayApply, DaemonSetEvents, GatewayFails,
        ReconcileFails
  <2> QED
    BY <1>1, <2>1, <2>2, KeptReference, Zenon
<1>3. CASE Users /\ Next
  BY <1>1, <1>3, UsersReferences, Zenon DEF CoordInv
<1>4. CASE Kubernetes
  BY <1>1, <1>4, KubernetesReferences, Zenon
<1>5. CASE \E p \in Names : Reconcile(p)
  BY <1>5, ReconcileReferences, Zenon DEF CoordInv
<1>6. CASE \E t \in Types : WorkerStep(t)
  BY <1>6, WorkersReferences, Zenon
<1>7. CASE Restart
  <2>1. CASE obj[q] # NoObj
    BY <1>7, <2>1, QueuedReference, Zenon DEF Restart
  <2>2. CASE obj[q] = NoObj
    BY <1>7, <2>2, Zenon DEF Restart, apiVars, ReferenceComes
  <2> QED
    BY <2>1, <2>2, Zenon
<1> QED
  BY <1>2, <1>3, <1>4, <1>5, <1>6, <1>7, Zenon DEF Next, Failures, WorkerStep

\* The inductive invariant.
ReferenceInv ==
    /\ Versions /\ Locks /\ LockCopies
    /\ pauses \in Nat /\ misled \in Nat
    /\ pauses = 0 => paused = {}
    /\ \A p \in Names : SlotInv(p)
    /\ pauses = 0 => \A p \in Names : IsWatched(p) /\ ReferenceComes(p)

\* There is no pipeline to begin with.
LEMMA InitReferenceInv == Init => ReferenceInv
<1> SUFFICES ASSUME Init PROVE ReferenceInv
  BY Zenon
<1>1. Versions /\ Locks /\ LockCopies
  BY Zenon DEF Init, Versions, Locks, LockCopies
<1>2. ASSUME NEW p \in Names PROVE SlotInv(p) /\ IsWatched(p) /\ ReferenceComes(p)
  <2>1. /\ obj[p] = NoObj /\ objCache[p] = NoObj
        /\ lock[TypeOf[p]] = {} /\ lockCache[TypeOf[p]] = {}
    BY TypesAssumption, Zenon DEF Init
  <2> QED
    BY <2>1, Zenon DEF SlotInv, IsWatched, ReferenceComes
<1> QED
  BY <1>1, <1>2, Zenon DEF Init, ReferenceInv

\* Every step preserves the invariant.
LEMMA NextReferenceInv ==
    ASSUME MaxIncarnations = 1, CoordInv, RenderInv, ReferenceInv, [Next]_vars
    PROVE  ReferenceInv'
<1>0. Objects /\ OwnRequests
  BY Zenon DEF CoordInv, RenderInv
<1>1. Versions' /\ Locks' /\ LockCopies'
  BY <1>0, NextVersions, NextLocks, NextLockCopies, Zenon DEF ReferenceInv
<1>2. /\ pauses' \in Nat /\ misled' \in Nat
      /\ pauses' = 0 => pauses = 0 /\ paused' = {}
      /\ misled' = 0 => misled = 0
  BY NextCounts, Zenon DEF ReferenceInv
<1>3. ASSUME NEW q \in Names PROVE SlotInv(q)'
  BY NextSlotInv, Zenon DEF ReferenceInv
<1>4. ASSUME pauses' = 0, NEW q \in Names PROVE IsWatched(q)' /\ ReferenceComes(q)'
  <2>1. paused = {} /\ SlotInv(q) /\ IsWatched(q) /\ ReferenceComes(q)
    BY <1>2, <1>4, Zenon DEF ReferenceInv
  <2>2. IsWatched(q)'
    BY <1>0, <2>1, NextWatched, Zenon
  <2>3. ReferenceComes(q)'
    BY <1>0, <1>2, <2>1, NextReferences, Zenon DEF ReferenceInv
  <2> QED
    BY <2>2, <2>3, Zenon
<1> QED
  BY <1>1, <1>2, <1>3, <1>4, Zenon DEF ReferenceInv

\* The first check that fails is the one with the least index.
LEMMA MinIsOne ==
    ASSUME NEW S, S \subseteq Nat \ {0}, 1 \in S PROVE Min(S) = 1
<1>1. 1 \in S /\ \A y \in S : 1 <= y
  OBVIOUS
<1>2. Min(S) \in S /\ \A y \in S : Min(S) <= y
  BY <1>1, Zenon DEF Min
<1>3. PICK m : m = Min(S)
  BY Zenon
<1>4. m \in Nat \ {0} /\ m <= 1
  BY <1>2, <1>3, Zenon
<1> QED
  BY <1>3, <1>4

\* A pipeline whose Secret is missing is not reconcilable: validate looks for the Secret
\* before anything else.
LEMMA MissingSecret ==
    ASSUME NEW p, NEW o, o.spec.secret, secret.version = 0
    PROVE  ~isReconcilable(o.del, Verdict(p, o))
<1>1. SecretRefValidator(o.spec, "missing") = "SecretRefNotFound"
  <2> DEFINE checks == <<"SecretRefNotFound", "nil">>
             failed == {i \in DOMAIN checks : checks[i] # "nil"}
  <2>1. SecretRefValidator(o.spec, "missing") = FirstError(checks)
    BY Zenon DEF SecretRefValidator, Check
  <2>2. failed = {1}
    OBVIOUS
  <2>3. Min(failed) = 1
    BY <2>2, MinIsOne
  <2> QED
    BY <2>1, <2>2, <2>3 DEF FirstError
<1>2. ASSUME NEW b, NEW c, NEW d, NEW e, NEW f, NEW g
      PROVE  FirstError(<<"SecretRefNotFound", b, c, d, e, f, g>>) = "SecretRefNotFound"
  <2> DEFINE checks == <<"SecretRefNotFound", b, c, d, e, f, g>>
             failed == {i \in DOMAIN checks : checks[i] # "nil"}
  <2>1. 1 \in failed /\ failed \subseteq 1 .. 7 /\ checks[1] = "SecretRefNotFound"
    OBVIOUS
  <2> HIDE DEF failed
  <2>2. Min(failed) = 1
    <3>1. failed \subseteq Nat \ {0}
      BY <2>1
    <3> QED
      BY <2>1, <3>1, MinIsOne, Zenon
  <2> QED
    BY <2>1, <2>2, Zenon DEF FirstError, failed
<1>3. Verdict(p, o) = "SecretRefNotFound"
  BY <1>1, <1>2 DEF Verdict, SecretView, validate
<1> QED
  BY <1>3, Zenon DEF isReconcilable

\* When the pipeline controllers are at rest and none was ever paused, the gateway's
\* configuration can be built from the references they have left (buildCollectorConfig):
\* no pipeline keeps the others from being rendered, whatever failed or was misread on
\* the way.  It is proved for names that are not given to a second pipeline.
THEOREM ReferencesCanBeBuiltAtRest ==
    ASSUME MaxIncarnations = 1
    PROVE  Spec => [](pauses = 0 => RestingReferencesCanBeBuilt)
<1>1. ReferenceInv => (pauses = 0 => RestingReferencesCanBeBuilt)
  <2> SUFFICES ASSUME ReferenceInv, pauses = 0, PipelinesAtRest, NEW p \in Fetched(coord.refs)
               PROVE  ~CannotBuild(p)
    BY Zenon DEF RestingReferencesCanBeBuilt
  <2>1. p \in Names /\ coord.refs[p] # NoRef /\ objCache[p] # NoObj
    BY Zenon DEF Fetched
  <2>2. /\ queue = {} /\ objCache = obj /\ work[TypeOf[p]] = Idle /\ lockCurrent[TypeOf[p]]
    BY <2>1, TypesAssumption, Zenon DEF PipelinesAtRest
  <2>3. ~IsHeld(p)
    BY <2>2 DEF IsHeld, Idle
  <2>4. RightRef(p)
    BY <2>1, <2>2, <2>3, Zenon DEF ReferenceInv, ReferenceComes
  <2>5. Deployable(p)
    BY <2>1, <2>4, Zenon DEF RightRef, WantedRef
  <2> QED
    BY <2>2, <2>5, MissingSecret, Zenon DEF Deployable, CannotBuild
<1>2. CoordInv /\ RenderInv /\ ReferenceInv /\ [Next]_vars => ReferenceInv'
  BY NextReferenceInv, ZenonT(30)
<1> QED
  BY <1>1, <1>2, InitReferenceInv, CoordInvariant, RenderInvariant, PTL DEF Spec

-----------------------------------------------------------------------------
\* The gateway: it comes to render what the references say.

\* The configuration that the gateway's worker is about to apply, or that is applied.
Out == IF gwWork = GwIdle THEN gw ELSE gwWork.out

\* Versions of the Secret grow; an absent Secret has version 0.
SecretInv == secret \in [version : Nat, last : Nat] /\ secret.version \in {0, secret.last}

\* A configuration was rendered from references, and with versions that the Secret had.
Produced(out) ==
    \A p \in Names :
        out[p] # NotRendered => coord.exists /\ out[p].sv \in Nat /\ out[p].sv <= secret.last

GatewayData ==
    /\ SecretInv
    /\ coordCache.exists => coord.exists
    /\ Produced(gw) /\ (gwWork # GwIdle => Produced(gwWork.out))
    /\ \A p \in Names : /\ coord.refs[p].gen \in Nat /\ coord.refs[p].sv \in Nat
                        /\ coord.refs[p].sv <= secret.last

\* The cache has seen a deletion only if it was requested, and the reference of a cached
\* pipeline, or the pipeline that the worker is busy with, is not newer than the cached one.
SeenInv(p) ==
    /\ IsBusy(p) => work[TypeOf[p]].o.gen \in Nat
    /\ objCache[p] # NoObj =>
          /\ obj[p] # NoObj /\ objCache[p].del => obj[p].del
          /\ coord.refs[p].gen <= objCache[p].gen
          /\ IsBusy(p) => work[TypeOf[p]].o.gen <= objCache[p].gen

\* Writes of the Secret count its version up.
LEMMA SecretSteps ==
    ASSUME SecretInv, [Next]_vars
    PROVE  SecretInv' /\ secret.last <= secret'.last
<1>0. secret = [version |-> secret.version, last |-> secret.last] /\ secret.last \in Nat
  BY Zenon DEF SecretInv
<1>1. CASE secret' = secret
  BY <1>0, <1>1 DEF SecretInv
<1>2. CASE ChangeSecret
  <2>1. CASE secret' = [version |-> secret.last + 1, last |-> secret.last + 1]
    BY <1>0, <2>1 DEF SecretInv
  <2>2. CASE secret' = [secret EXCEPT !.version = 0]
    <3>1. secret' = [version |-> 0, last |-> secret.last]
      BY <1>0, <2>2, Zenon
    <3> QED
      BY <1>0, <3>1 DEF SecretInv
  <2> QED
    BY <1>2, <2>1, <2>2, Zenon DEF ChangeSecret
<1> QED
  BY <1>1, <1>2, ZenonT(30)
  DEF Next, vars, Users, CreatePipeline, EditPipeline, DeletePipeline, TogglePause, Kubernetes,
      RemoveMarked, SyncPipeline, GarbageCollect, SyncLock, SyncCoordination, Reconcile,
      ReconcilePaused, ReconcileDeleted, ReconcilePipeline, Continue, Validate, WriteReference,
      UpdateStatus, updateStatus, Gateway, GatewayPaused, GatewayBuild, GatewayApply, Failures,
      ReconcileFails, ValidateMisled, UpdateStatusMisled, StepFails, GatewayFails, Restart,
      ElsewhereUnchanged, GatewayUnchanged, apiVars

\* The coordination ConfigMap stays once it is there, and its copy is taken from it.
LEMMA CoordinationSteps ==
    ASSUME CoordInv, [Next]_vars
    PROVE  /\ coord.exists => coord'.exists
           /\ coordCache' = coordCache \/ (coordCache' = coord /\ coord' = coord)
           /\ coord' # coord => coordCurrent' = FALSE
<1>1. CASE coord' # coord
  <2>1. Next
    BY <1>1, Zenon DEF vars, coordVars
  <2>2. PICK t \in Types : /\ applyConfigUpdate(UpdatedReferences(work[t]))
                           /\ coordCache' = coordCache
    BY <1>1, <2>1, ReferenceWriter, Zenon
  <2>3. coord'.exists /\ coordCurrent' = FALSE
    BY <1>1, <2>2 DEF applyConfigUpdate, coordVars
  <2> QED
    BY <2>2, <2>3, Zenon
<1>2. CASE coord' = coord
  <2>1. CASE SyncCoordination \/ Restart
    BY <1>2, <2>1, Zenon DEF SyncCoordination, Restart
  <2>2. CASE coordCache' = coordCache
    BY <1>2, <2>2
  <2> QED
    BY <2>1, <2>2, ZenonT(30)
    DEF Next, vars, Users, UserOp, CreatePipeline, EditPipeline, DeletePipeline, ChangeSecret,
        TogglePause, Kubernetes, RemoveMarked, SyncPipeline, GarbageCollect, SyncLock,
        Reconcile, ReconcilePaused, ReconcileDeleted, ReconcilePipeline, Continue, Validate,
        WriteReference, UpdateStatus, updateStatus, Gateway, GatewayPaused, GatewayBuild,
        GatewayApply, Failures, ReconcileFails, ValidateMisled, UpdateStatusMisled, StepFails,
        GatewayFails, ElsewhereUnchanged, GatewayUnchanged, caches
<1> QED
  BY <1>1, <1>2, Zenon

\* The gateway's worker fetches the pipelines of its copy of the references and renders
\* them, if it can render each.
Rebuilds ==
    LET pipelines == Fetched(coordCache.refs)
    IN  /\ \A p \in pipelines : ~CannotBuild(p)
        /\ gwWork' = [at |-> "apply", out |-> buildCollectorConfig(pipelines)]
        /\ UNCHANGED <<obj, objCache, uids, secret, coord, coordCurrent, work, queue, gw>>

\* What a step does to the gateway and to its request, unless it is a restart or the
\* controller is paused.
LEMMA GatewaySteps ==
    ASSUME paused = {} \/ pauses # 0, [Next]_vars
    PROVE  \/ UNCHANGED <<gw, gwWork>> /\ (gwQueued => gwQueued')
           \/ /\ gwWork # GwIdle /\ gw' = gwWork.out /\ gwWork' = GwIdle
              /\ gwQueued => gwQueued'
              /\ UNCHANGED <<obj, objCache, uids, secret, coord, coordCurrent, work>>
           \/ /\ gwWork # GwIdle /\ gw' = gw /\ gwWork' = GwIdle /\ gwQueued'
              /\ UNCHANGED <<obj, objCache, uids, secret, coord, coordCurrent, work>>
           \/ Rebuilds
           \/ Restart
           \/ pauses # 0 /\ UNCHANGED <<gw, gwWork>>
<1>1. CASE UNCHANGED <<gw, gwWork, gwQueued>>
  BY <1>1, Zenon
<1>2. CASE GatewayApply
  <2>1. /\ gwWork # GwIdle /\ gw' = gwWork.out /\ gwWork' = GwIdle
        /\ UNCHANGED <<obj, objCache, uids, secret, coord, coordCurrent, work>>
    BY <1>2, Zenon DEF GatewayApply, GatewayUnchanged, apiVars, caches, coordVars
  <2>2. gwQueued => gwQueued'
    BY <1>2, Zenon DEF GatewayApply, DaemonSetEvents
  <2> QED
    BY <2>1, <2>2, Zenon
<1>3. CASE GatewayFails
  BY <1>3, Zenon DEF GatewayFails, GatewayUnchanged, apiVars, caches, coordVars
<1>4. CASE GatewayBuild
  BY <1>4, Zenon DEF GatewayBuild, GatewayUnchanged, apiVars, caches, coordVars, Rebuilds
<1>5. CASE GatewayPaused
  BY <1>5, Zenon DEF GatewayPaused, gwVars
<1>6. CASE SyncCoordination
  BY <1>6, Zenon DEF SyncCoordination, gwVars
<1> QED
  BY <1>1, <1>2, <1>3, <1>4, <1>5, <1>6, ZenonT(30)
  DEF Next, vars, Users, UserOp, CreatePipeline, EditPipeline, DeletePipeline, ChangeSecret,
      TogglePause, Kubernetes, RemoveMarked, SyncPipeline, GarbageCollect, SyncLock, Reconcile,
      ReconcilePaused, ReconcileDeleted, ReconcilePipeline, Continue, Validate, WriteReference,
      UpdateStatus, updateStatus, Gateway, Failures, ReconcileFails, ValidateMisled,
      UpdateStatusMisled, StepFails, ElsewhereUnchanged, gwVars

\* A cached pipeline was in the cache before, if an earlier state of it, or it has neither
\* reference nor worker.
LEMMA CacheGrows ==
    ASSUME MaxIncarnations = 1, CoordInv, RenderInv, Versions, [Next]_vars, NEW q \in Names,
           SlotInv(q), objCache'[q] # NoObj
    PROVE  \/ objCache[q] # NoObj /\ objCache[q].gen <= objCache'[q].gen
           \/ coord.refs[q] = NoRef /\ ~IsBusy(q)
<1>1. ObjectStep(q)
  BY ObjectSteps, Zenon DEF RenderInv, CoordInv
<1>2. CASE objCache'[q] = objCache[q]
  BY <1>2 DEF Versions
<1>3. CASE objCache'[q] = obj[q] /\ obj'[q] = obj[q]
  <2>1. CASE objCache[q] = NoObj
    BY <1>3, <2>1, Zenon DEF SlotInv
  <2>2. CASE objCache[q] # NoObj
    BY <1>3, <2>2, Zenon DEF SlotInv, Versions
  <2> QED
    BY <2>1, <2>2, Zenon
<1> QED
  BY <1>1, <1>2, <1>3, Zenon DEF ObjectStep

\* What a reference becomes.
LEMMA ReferenceSteps ==
    ASSUME CoordInv, [Next]_vars, NEW q \in Names
    PROVE  \/ coord'.refs[q] = coord.refs[q]
           \/ coord'.refs[q] = NoRef
           \/ /\ IsBusy(q)
              /\ coord'.refs[q] = [gen |-> work[TypeOf[q]].o.gen,
                                   sv |-> CollectSecretVersions(work[TypeOf[q]].o)]
<1> SUFFICES ASSUME coord'.refs[q] # coord.refs[q]
             PROVE  \/ coord'.refs[q] = NoRef
                    \/ /\ IsBusy(q)
                       /\ coord'.refs[q] = [gen |-> work[TypeOf[q]].o.gen,
                                            sv |-> CollectSecretVersions(work[TypeOf[q]].o)]
  BY Zenon
<1>1. Next
  BY Zenon DEF vars, coordVars
<1> QED
  BY <1>1, WrittenReference, Zenon DEF IsBusy

\* Every step preserves SeenInv.
LEMMA NextSeenInv ==
    ASSUME MaxIncarnations = 1, CoordInv, RenderInv, Versions, Locks, GatewayData, [Next]_vars,
           NEW q \in Names, SlotInv(q), SeenInv(q)
    PROVE  SeenInv(q)'
<1>0. ObjectStep(q)
  BY ObjectSteps, Zenon DEF RenderInv, CoordInv
<1>1. ASSUME IsBusy(q)'
      PROVE  \/ IsBusy(q) /\ work'[TypeOf[q]].o = work[TypeOf[q]].o
             \/ /\ objCache[q] # NoObj /\ work'[TypeOf[q]].o = objCache[q]
                /\ objCache' = objCache
  BY <1>1, BecomesBusy, Zenon DEF CoordInv
<1>2. IsBusy(q)' => work'[TypeOf[q]].o.gen \in Nat
  BY <1>1, Zenon DEF SeenInv, Versions
<1>3. ASSUME objCache'[q] # NoObj, obj'[q] # NoObj, objCache'[q].del PROVE obj'[q].del
  <2>1. CASE objCache'[q] = obj'[q]
    BY <1>3, <2>1, Zenon
  <2>2. CASE objCache'[q] = objCache[q] /\ obj[q] # NoObj
    BY <1>0, <1>3, <2>2, Zenon DEF ObjectStep, SeenInv
  <2>3. CASE objCache'[q] = objCache[q] /\ obj[q] = NoObj
    <3>1. uids[q] = 0
      BY <1>0, <1>3, <2>3 DEF ObjectStep, RenderInv, Objects
    <3> QED
      BY <1>3, <2>3, <3>1, NeverBeen, Zenon
  <2> QED
    BY <1>0, <2>1, <2>2, <2>3, Zenon DEF ObjectStep
<1>4. ASSUME objCache'[q] # NoObj, IsBusy(q)'
      PROVE  work'[TypeOf[q]].o.gen <= objCache'[q].gen
  <2>1. CASE IsBusy(q) /\ work'[TypeOf[q]].o = work[TypeOf[q]].o
    <3>1. objCache[q] # NoObj /\ objCache[q].gen <= objCache'[q].gen
      BY <1>4, <2>1, CacheGrows, Zenon
    <3>2. objCache[q].gen \in Nat /\ objCache'[q].gen \in Nat
      BY <1>0, <1>4, <3>1, Zenon DEF Versions, ObjectStep
    <3> QED
      BY <2>1, <3>1, <3>2 DEF SeenInv
  <2>2. CASE objCache[q] # NoObj /\ work'[TypeOf[q]].o = objCache[q] /\ objCache' = objCache
    BY <2>2 DEF Versions
  <2> QED
    BY <1>1, <1>4, <2>1, <2>2, Zenon
<1>5. ASSUME objCache'[q] # NoObj PROVE coord'.refs[q].gen <= objCache'[q].gen
  <2>1. objCache'[q].gen \in Nat
    BY <1>0, <1>5, Zenon DEF Versions, ObjectStep
  <2>2. CASE coord'.refs[q] = NoRef
    BY <2>1, <2>2 DEF NoRef
  <2>3. CASE coord'.refs[q] # NoRef
    <3>1. coord.refs[q] # NoRef \/ IsBusy(q)
      BY <2>3, ReferenceAppears, Zenon
    <3>2. /\ objCache[q] # NoObj /\ objCache[q].gen <= objCache'[q].gen
          /\ objCache[q].gen \in Nat
      BY <1>5, <3>1, CacheGrows, Zenon DEF Versions
    <3>3. coord'.refs[q].gen \in Nat /\ coord'.refs[q].gen <= objCache[q].gen
      <4>1. CASE coord'.refs[q] = coord.refs[q]
        BY <3>2, <4>1, Zenon DEF SeenInv, GatewayData
      <4>2. CASE IsBusy(q) /\ coord'.refs[q].gen = work[TypeOf[q]].o.gen
        BY <3>2, <4>2, Zenon DEF SeenInv
      <4>3. \/ coord'.refs[q] = coord.refs[q]
            \/ IsBusy(q) /\ coord'.refs[q].gen = work[TypeOf[q]].o.gen
        <5> DEFINE o == work[TypeOf[q]].o
        <5>1. \/ coord'.refs[q] = coord.refs[q]
              \/ IsBusy(q) /\ coord'.refs[q] = [gen |-> o.gen, sv |-> CollectSecretVersions(o)]
          BY <2>3, ReferenceSteps, Zenon
        <5> QED
          BY <5>1
      <4> QED
        BY <4>1, <4>2, <4>3, Zenon
    <3> QED
      BY <2>1, <3>2, <3>3
  <2> QED
    BY <2>2, <2>3, Zenon
<1> QED
  BY <1>2, <1>3, <1>4, <1>5, Zenon DEF SeenInv

\* A configuration stays what it was, and the next one is rendered from the references.
LEMMA NextGatewayData ==
    ASSUME CoordInv, GatewayData, \A p \in Names : SeenInv(p),
           paused = {} \/ pauses # 0, [Next]_vars
    PROVE  GatewayData'
<1>1. SecretInv /\ SecretInv' /\ secret.last <= secret'.last
  BY SecretSteps, Zenon DEF GatewayData
<1>2. /\ coord.exists => coord'.exists
      /\ coordCache' = coordCache \/ (coordCache' = coord /\ coord' = coord)
  BY CoordinationSteps, Zenon
<1>3. coordCache'.exists => coord'.exists
  BY <1>2, Zenon DEF GatewayData
<1>4. ASSUME NEW q \in Names
      PROVE  /\ coord'.refs[q].gen \in Nat /\ coord'.refs[q].sv \in Nat
             /\ coord'.refs[q].sv <= secret'.last
  <2>1. \A o : CollectSecretVersions(o) \in Nat /\ CollectSecretVersions(o) <= secret.last
    BY <1>1 DEF SecretInv, CollectSecretVersions
  <2>2. secret.last \in Nat /\ secret'.last \in Nat
    BY <1>1, Zenon DEF SecretInv
  <2>3. CASE coord'.refs[q] = coord.refs[q]
    BY <1>1, <2>2, <2>3 DEF GatewayData
  <2>4. CASE coord'.refs[q] = NoRef
    BY <2>2, <2>4 DEF NoRef
  <2>5. CASE /\ IsBusy(q)
             /\ coord'.refs[q] = [gen |-> work[TypeOf[q]].o.gen,
                                  sv |-> CollectSecretVersions(work[TypeOf[q]].o)]
    BY <1>1, <2>1, <2>2, <2>5 DEF SeenInv
  <2> QED
    BY <2>3, <2>4, <2>5, ReferenceSteps, Zenon
<1>5. Produced(gw)' /\ (gwWork' # GwIdle => Produced(gwWork.out)')
  <2>1. Produced(gw) /\ (gwWork # GwIdle => Produced(gwWork.out))
    BY Zenon DEF GatewayData
  <2>2. \A out : Produced(out) => \A p \in Names : out[p] # NotRendered =>
                    coord'.exists /\ out[p].sv \in Nat /\ out[p].sv <= secret'.last
    BY <1>1, <1>2 DEF Produced, SecretInv
  <2>3. CASE UNCHANGED <<gw, gwWork>>
    BY <2>1, <2>2, <2>3, Zenon DEF Produced
  <2>4. CASE gwWork # GwIdle /\ gw' \in {gw, gwWork.out} /\ gwWork' = GwIdle
    BY <2>1, <2>2, <2>4, Zenon DEF Produced
  <2>5. CASE Rebuilds
    <3> DEFINE pipelines == Fetched(coordCache.refs)
               out == buildCollectorConfig(pipelines)
    <3>1. UNCHANGED <<gw, secret, coord>> /\ gwWork'.out = out
      BY <2>5, Zenon DEF Rebuilds
    <3>2. ASSUME NEW p \in Names, out[p] # NotRendered
          PROVE  coord.exists /\ out[p].sv \in Nat /\ out[p].sv <= secret.last
      <4>1. p \in pipelines /\ out[p].sv = CollectSecretVersions(objCache[p])
        BY <3>2, Zenon DEF buildCollectorConfig
      <4>2. coordCache.refs[p] # NoRef
        BY <4>1, Zenon DEF Fetched
      <4>3. coord.exists
        BY <4>2, Zenon DEF CoordInv, Copies, NoRefs, GatewayData
      <4> QED
        BY <1>1, <4>1, <4>3 DEF SecretInv, CollectSecretVersions
    <3> HIDE DEF out
    <3>3. Produced(gwWork.out)'
      BY <3>1, <3>2, Zenon DEF Produced
    <3> QED
      BY <2>1, <2>2, <3>1, <3>3, Zenon DEF Produced
  <2>6. CASE Restart
    BY <2>1, <2>2, <2>6, ZenonT(30) DEF Restart, Produced
  <2> QED
    BY <2>3, <2>4, <2>5, <2>6, GatewaySteps, Zenon
<1> QED
  BY <1>1, <1>3, <1>4, <1>5, Zenon DEF GatewayData

\* The pipeline is no longer what its reference says.
IsOutdated(p) == obj[p] = NoObj \/ obj[p].del \/ obj[p].gen > coord.refs[p].gen

\* The configuration renders what the reference says, with values of the Secret that are
\* at least as new, or leaves out a pipeline whose reference is outdated.
Agrees(p) ==
    LET r == coord.refs[p]
        o == Out[p]
    IN  IF r = NoRef THEN o = NotRendered
        ELSE \/ /\ o # NotRendered /\ o.gen = r.gen
                /\ IF o.spec.secret THEN r.sv <= o.sv ELSE o.sv = 0
             \/ o = NotRendered /\ IsOutdated(p)

\* A configuration that does not agree with the references is about to be rebuilt.
RenderingComes == gwQueued \/ ~coordCurrent \/ \A p \in Names : Agrees(p)

\* A deleted pipeline has no reference and is not rendered, or something is under way that
\* leads to it.  A reference that a restart keeps from being removed is not rendered.
ForgettingComes(p) ==
    obj[p] = NoObj =>
        \/ objCache[p] # NoObj \/ p \in queue \/ IsForgotten(p)
        \/ ~IsBusy(p) /\ (coord.refs[p] = NoRef \/ gwQueued \/ Out[p] = NotRendered)

\* The copy of the references becomes current only together with a request for the
\* gateway, or in a restart.
LEMMA CopyBecomesCurrent ==
    ASSUME [Next]_vars, ~coordCurrent, coordCurrent', ~Restart PROVE gwQueued'
<1>1. CASE SyncCoordination
  BY <1>1, Zenon DEF SyncCoordination
<1>2. CASE \E refs : applyConfigUpdate(refs)
  BY <1>2, Zenon DEF applyConfigUpdate, coordVars
<1> QED
  BY <1>1, <1>2, ZenonT(30)
  DEF Next, vars, Users, UserOp, CreatePipeline, EditPipeline, DeletePipeline, ChangeSecret,
      TogglePause, Kubernetes, RemoveMarked, SyncPipeline, GarbageCollect, SyncLock, Reconcile,
      ReconcilePaused, ReconcileDeleted, ReconcilePipeline, Continue, Validate, WriteReference,
      UpdateStatus, updateStatus, Gateway, GatewayPaused, GatewayBuild, GatewayApply, Failures,
      ReconcileFails, ValidateMisled, UpdateStatusMisled, StepFails, GatewayFails,
      ElsewhereUnchanged, GatewayUnchanged, coordVars

\* A reference that is outdated stays so until it is written again.
LEMMA OutdatedStays ==
    ASSUME MaxIncarnations = 1, CoordInv, RenderInv, Versions, [Next]_vars, NEW q \in Names,
           coord.refs[q] # NoRef, coord.refs[q].gen \in Nat, coord' = coord, IsOutdated(q)
    PROVE  IsOutdated(q)'
<1>1. ObjectStep(q) /\ uids[q] \in Nat /\ uids[q] # 0
  BY ObjectSteps, NeverBeen, Zenon DEF RenderInv, CoordInv, Objects
<1>2. CASE obj[q] = NoObj
  BY <1>1, <1>2 DEF ObjectStep, IsOutdated
<1>3. CASE obj[q] # NoObj /\ obj'[q] # NoObj
  <2>1. obj[q].gen \in Nat /\ obj'[q].gen \in {obj[q].gen, obj[q].gen + 1}
    BY <1>1, <1>3, Zenon DEF ObjectStep, Versions
  <2>2. obj[q].del => obj'[q].del
    BY <1>1, <1>3, Zenon DEF ObjectStep
  <2>3. CASE obj[q].del
    BY <2>2, <2>3, Zenon DEF IsOutdated
  <2>4. CASE obj[q].gen > coord.refs[q].gen
    BY <2>1, <2>4 DEF IsOutdated
  <2> QED
    BY <1>3, <2>3, <2>4, Zenon DEF IsOutdated
<1>4. CASE obj'[q] = NoObj
  BY <1>4, Zenon DEF IsOutdated
<1> QED
  BY <1>2, <1>3, <1>4, Zenon

\* What agrees with a reference agrees with it until one of the two is written again.
LEMMA AgreesStays ==
    ASSUME MaxIncarnations = 1, CoordInv, RenderInv, Versions, GatewayData, [Next]_vars,
           NEW q \in Names, coord' = coord, Out' = Out, Agrees(q)
    PROVE  Agrees(q)'
<1>1. CASE coord.refs[q] = NoRef
  BY <1>1, Zenon DEF Agrees
<1>2. CASE coord.refs[q] # NoRef /\ IsOutdated(q)
  <2>1. IsOutdated(q)'
    BY <1>2, OutdatedStays, Zenon DEF GatewayData
  <2> QED
    BY <2>1, Zenon DEF Agrees
<1>3. CASE coord.refs[q] # NoRef /\ ~IsOutdated(q)
  BY <1>3, Zenon DEF Agrees
<1> QED
  BY <1>1, <1>2, <1>3, Zenon

\* What the gateway's worker renders from a current copy agrees with the references.
LEMMA RebuildAgrees ==
    ASSUME CoordInv, Versions, GatewayData, Rebuilds, coordCurrent, NEW q \in Names,
           SlotInv(q), SeenInv(q)
    PROVE  Agrees(q)'
<1> DEFINE r == coord.refs[q]
           c == objCache[q]
           pipelines == Fetched(coord.refs)
<1>1. /\ UNCHANGED <<obj, objCache, secret, coord>>
      /\ \A p \in pipelines : ~CannotBuild(p)
      /\ Out' = buildCollectorConfig(pipelines)
  <2>1. coordCache = coord
    BY Zenon DEF CoordInv, Copies
  <2>2. gwWork' # GwIdle /\ gwWork'.out = buildCollectorConfig(pipelines)
    BY <2>1, Zenon DEF Rebuilds, GwIdle
  <2> QED
    BY <2>1, <2>2, Zenon DEF Rebuilds, Out
<1>2. CASE q \in pipelines
  <2>1. r # NoRef /\ c # NoObj /\ c.gen = r.gen /\ c.gen \in Nat
    BY <1>2, Zenon DEF Fetched, Versions
  <2>2. /\ Out'[q] = [gen |-> c.gen, spec |-> c.spec, sv |-> CollectSecretVersions(c)]
    BY <1>1, <1>2, Zenon DEF buildCollectorConfig
  <2>3. Out'[q] # NotRendered
    BY <2>2 DEF NotRendered
  <2>4. Out'[q].gen = r.gen /\ Out'[q].spec = c.spec /\ Out'[q].sv = CollectSecretVersions(c)
    BY <2>1, <2>2
  <2>5. IF c.spec.secret THEN r.sv <= CollectSecretVersions(c) ELSE CollectSecretVersions(c) = 0
    BY <1>1, <1>2, Zenon DEF CannotBuild, CollectSecretVersions, GatewayData, SecretInv
  <2> QED
    BY <1>1, <2>1, <2>3, <2>4, <2>5, ZenonT(30) DEF Agrees
<1>3. CASE q \notin pipelines
  <2>1. Out'[q] = NotRendered
    BY <1>1, <1>3, Zenon DEF buildCollectorConfig
  <2>2. CASE r # NoRef
    <3>1. c = NoObj \/ c.del \/ c.gen # r.gen
      BY <1>3, <2>2, Zenon DEF Fetched
    <3>2. IsOutdated(q)
      <4>1. CASE obj[q] = NoObj
        BY <4>1, Zenon DEF IsOutdated
      <4>2. CASE obj[q] # NoObj
        <5>1. c # NoObj /\ c.uid = obj[q].uid
          BY <2>2, <4>2, Zenon DEF SlotInv
        <5>2. /\ c.gen \in Nat /\ obj[q].gen \in Nat /\ c.gen <= obj[q].gen
              /\ r.gen \in Nat /\ r.gen <= c.gen
          BY <4>2, <5>1, Zenon DEF Versions, SeenInv, GatewayData
        <5> QED
          BY <3>1, <4>2, <5>1, <5>2 DEF IsOutdated, SeenInv
      <4> QED
        BY <4>1, <4>2, Zenon
    <3>3. IsOutdated(q)'
      BY <1>1, <3>2, Zenon DEF IsOutdated
    <3> QED
      BY <1>1, <2>1, <2>2, <3>3, ZenonT(30) DEF Agrees
  <2>3. CASE r = NoRef
    BY <1>1, <2>1, <2>3, Zenon DEF Agrees
  <2> QED
    BY <2>2, <2>3, Zenon
<1> QED
  BY <1>2, <1>3, Zenon

\* Every step keeps RenderingComes.
LEMMA NextRendering ==
    ASSUME MaxIncarnations = 1, CoordInv, RenderInv, Versions, GatewayData,
           \A p \in Names : SlotInv(p) /\ SeenInv(p), pauses = 0, paused = {}, [Next]_vars,
           RenderingComes
    PROVE  RenderingComes'
<1>1. CASE Restart
  <2>1. Out' = gw /\ coord' = coord /\ gwQueued' = coord.exists
    BY <1>1, Zenon DEF Restart, Out
  <2>2. CASE ~coord.exists
    <3>1. \A q \in Names : coord.refs[q] = NoRef /\ gw[q] = NotRendered
      BY <2>2, Zenon DEF CoordInv, Copies, NoRefs, GatewayData, Produced
    <3> QED
      BY <2>1, <3>1, Zenon DEF RenderingComes, Agrees
  <2> QED
    BY <2>1, <2>2, Zenon DEF RenderingComes
<1>2. CASE ~Restart
  <2> SUFFICES ASSUME ~gwQueued', coordCurrent' PROVE \A q \in Names : Agrees(q)'
    BY Zenon DEF RenderingComes
  <2>1. coordCurrent /\ coord' = coord
    BY <1>2, CopyBecomesCurrent, CoordinationSteps, Zenon
  <2>2. CASE Rebuilds
    BY <2>1, <2>2, RebuildAgrees, Zenon
  <2>3. CASE ~Rebuilds
    <3>1. Out' = Out /\ (gwQueued => gwQueued')
      BY <1>2, <2>3, GatewaySteps, Zenon DEF Out
    <3>2. \A q \in Names : Agrees(q)
      BY <2>1, <3>1, ZenonT(30) DEF RenderingComes
    <3> QED
      BY <2>1, <3>1, <3>2, AgreesStays, Zenon
  <2> QED
    BY <2>2, <2>3, Zenon
<1> QED
  BY <1>1, <1>2, Zenon

\* A pipeline changes in the cache only together with the queue, or in a restart.
LEMMA CacheChanges ==
    ASSUME Objects, [Next]_vars, NEW q \in Names, objCache'[q] # objCache[q], ~Restart
    PROVE  q \in queue'
<1>1. ASSUME NEW p \in Names, SyncPipeline(p) PROVE q \in queue'
  BY <1>1, Zenon DEF SyncPipeline, Objects
<1> QED
  BY <1>1, ZenonT(30)
  DEF Next, vars, Users, UserOp, CreatePipeline, EditPipeline, DeletePipeline, ChangeSecret,
      TogglePause, Kubernetes, RemoveMarked, GarbageCollect, SyncLock, SyncCoordination,
      Reconcile, ReconcilePaused, ReconcileDeleted, ReconcilePipeline, Continue, Validate,
      WriteReference, UpdateStatus, updateStatus, Gateway, GatewayPaused, GatewayBuild,
      GatewayApply, Failures, ReconcileFails, ValidateMisled, UpdateStatusMisled, StepFails,
      GatewayFails, ElsewhereUnchanged, GatewayUnchanged, caches

\* A request leaves the queue only when its reconciliation begins, or in a restart.
LEMMA QueueLoses ==
    ASSUME CoordInv, Objects, misled \in Nat, [Next]_vars, NEW q \in Names, q \in queue,
           q \notin queue', ~Restart
    PROVE  Reconcile(q)
<1>1. ASSUME NEW t \in Types, WorkerStep(t) PROVE FALSE
  BY <1>1, WorkerUnchanged, Zenon
<1>2. ASSUME NEW p \in Names, Reconcile(p) PROVE p = q
  <2>1. queue' = queue \ {p}
    BY <1>2, ZenonT(30)
    DEF Reconcile, ReconcilePaused, ReconcileDeleted, ReconcilePipeline, Started
  <2> QED
    BY <2>1, Zenon
<1>3. CASE \/ UNCHANGED vars \/ Users \/ Gateway \/ GatewayFails \/ Kubernetes
           \/ (\E p \in Names : ReconcileFails(p))
  BY <1>3, Zenon
  DEF vars, Users, CreatePipeline, EditPipeline, DeletePipeline, ChangeSecret, TogglePause,
      Kubernetes, RemoveMarked, SyncPipeline, GarbageCollect, SyncLock, SyncCoordination,
      Gateway, GatewayPaused, GatewayBuild, GatewayApply, DaemonSetEvents, GatewayFails,
      ReconcileFails
<1> QED
  BY <1>1, <1>2, <1>3, Zenon DEF Next, Failures, WorkerStep

\* The worker gives up a pipeline that it forgets only when the reference is removed.
LEMMA ForgottenIsGone ==
    ASSUME CoordInv, Objects, misled \in Nat, [Next]_vars, NEW q \in Names, IsForgotten(q),
           ~IsForgotten(q)', q \notin queue', ~Restart
    PROVE  ~IsBusy(q)' /\ coord'.refs[q] = NoRef
<1> DEFINE t == TypeOf[q]
<1>0. t \in Types /\ work[t].at = "forget" /\ work[t].p = q
  BY TypesAssumption, Zenon DEF IsForgotten, IsHeld
<1>1. work'[t] # work[t]
  BY Zenon DEF IsForgotten, IsHeld
<1>2. ASSUME NEW p \in Names, Reconcile(p) PROVE FALSE
  <2>1. work[TypeOf[p]].at = "idle"
    BY <1>2, Zenon
    DEF Reconcile, ReconcilePaused, ReconcileDeleted, ReconcilePipeline, Started, Stage
  <2>2. work' = work \/ \E w : work' = [work EXCEPT ![TypeOf[p]] = w]
    BY <1>2, Zenon DEF Reconcile, ReconcilePaused, ReconcileDeleted, ReconcilePipeline, Begin
  <2> QED
    BY <1>0, <1>1, <2>1, <2>2, Zenon DEF CoordInv, OwnRequests
<1>3. ASSUME NEW u \in Types, WorkerStep(u) PROVE WorkerStep(t)
  BY <1>0, <1>1, <1>3, WorkerUnchanged
<1>4. ~Done(t, TRUE)
  BY <1>0, Zenon DEF Done
<1>5. CASE WriteReference(t)
  <2>1. UpdateAccepted /\ Done(t, FALSE) /\ applyConfigUpdate(UpdatedReferences(work[t]))
    BY <1>0, <1>4, <1>5, Zenon DEF WriteReference, Stage
  <2>2. coord'.refs[q] = NoRef
    BY <1>0, <2>1, AcceptedReference, Zenon DEF CoordInv
  <2>3. ~IsBusy(q)'
    BY <1>0, <2>1, Zenon DEF Done, IsBusy, IsHeld, Idle, CoordInv, OwnRequests
  <2> QED
    BY <2>2, <2>3, Zenon
<1>6. ~WorkerStep(t) \/ WriteReference(t)
  BY <1>0, <1>4, ZenonT(30)
  DEF WorkerStep, Continue, Validate, UpdateStatus, updateStatus, ValidateMisled,
      UpdateStatusMisled, StepFails, Stage
<1>7. work' = work \/ (\E p \in Names : Reconcile(p)) \/ (\E u \in Types : WorkerStep(u))
  BY Zenon
  DEF Next, vars, Users, UserOp, CreatePipeline, EditPipeline, DeletePipeline, ChangeSecret,
      TogglePause, Kubernetes, RemoveMarked, SyncPipeline, GarbageCollect, SyncLock,
      SyncCoordination, Gateway, GatewayPaused, GatewayBuild, GatewayApply, Failures,
      ReconcileFails, GatewayFails, GatewayUnchanged, WorkerStep
<1> QED
  BY <1>1, <1>2, <1>3, <1>5, <1>6, <1>7, Zenon

\* Every step keeps ForgettingComes.
LEMMA NextForgetting ==
    ASSUME MaxIncarnations = 1, CoordInv, RenderInv, Versions, Locks, GatewayData,
           misled \in Nat, pauses = 0, paused = {}, [Next]_vars,
           NEW q \in Names, SlotInv(q), ForgettingComes(q)
    PROVE  ForgettingComes(q)'
<1> SUFFICES ASSUME obj'[q] = NoObj, objCache'[q] = NoObj, q \notin queue', ~IsForgotten(q)'
             PROVE  /\ ~IsBusy(q)'
                    /\ coord'.refs[q] = NoRef \/ gwQueued' \/ Out'[q] = NotRendered
  BY Zenon DEF ForgettingComes
<1>0. Objects /\ OwnRequests
  BY Zenon DEF RenderInv, CoordInv
<1>1. CASE Restart
  <2>1. coord' = coord /\ gwQueued' = coord.exists
    BY <1>1, Zenon DEF Restart
  <2>2. ~IsBusy(q)'
    BY <1>1, TypesAssumption, Zenon DEF Restart, IsBusy, IsHeld, Idle
  <2>3. ~coord.exists => coord.refs[q] = NoRef
    BY Zenon DEF CoordInv, Copies, NoRefs
  <2> QED
    BY <2>1, <2>2, <2>3, Zenon
<1>2. CASE ~Restart
  <2>1. objCache[q] = NoObj
    BY <1>0, <1>2, CacheChanges, Zenon
  <2>2. q \notin queue
    <3> SUFFICES ASSUME q \in queue PROVE FALSE
      BY Zenon
    <3>1. Reconcile(q)
      BY <1>0, <1>2, QueueLoses, Zenon
    <3>2. Begin(q, "forget", NoObj, FALSE)
      BY <2>1, <3>1, Zenon DEF Reconcile, ReconcilePaused, ReconcileDeleted, ReconcilePipeline
    <3> QED
      BY <1>0, <3>2, TypesAssumption, Zenon DEF Begin, OwnRequests, IsForgotten, IsHeld
  <2>3. CASE IsForgotten(q)
    BY <1>0, <1>2, <2>3, ForgottenIsGone, Zenon
  <2>4. CASE ~IsForgotten(q)
    <3>1. ~IsBusy(q) /\ (coord.refs[q] = NoRef \/ gwQueued \/ Out[q] = NotRendered)
      BY <2>1, <2>2, <2>4, Zenon DEF ForgettingComes, SlotInv
    <3>2. ~IsBusy(q)'
      BY <1>0, <2>1, <3>1, BecomesBusy, Zenon
    <3>3. CASE coord.refs[q] = NoRef
      BY <3>1, <3>2, <3>3, ReferenceAppears, Zenon
    <3>4. CASE Rebuilds
      <4>1. gwWork' # GwIdle /\ gwWork'.out = buildCollectorConfig(Fetched(coordCache.refs))
        BY <3>4, Zenon DEF Rebuilds, GwIdle
      <4>2. Out'[q] = NotRendered
        BY <2>1, <4>1, Zenon DEF Out, buildCollectorConfig, Fetched
      <4> QED
        BY <3>2, <4>2, Zenon
    <3>5. CASE ~Rebuilds /\ (gwQueued \/ Out[q] = NotRendered)
      <4>1. gwQueued' \/ (Out' = Out /\ (gwQueued => gwQueued'))
        BY <1>2, <3>5, GatewaySteps, Zenon DEF Out
      <4> QED
        BY <3>2, <3>5, <4>1, Zenon
    <3> QED
      BY <3>1, <3>3, <3>4, <3>5, Zenon
  <2> QED
    BY <2>3, <2>4, Zenon
<1> QED
  BY <1>1, <1>2, Zenon

\* The inductive invariant, on top of ReferenceInv.
GatewayInv ==
    /\ GatewayData
    /\ \A p \in Names : SeenInv(p)
    /\ pauses = 0 => RenderingComes /\ \A p \in Names : ForgettingComes(p)

\* There is nothing to render to begin with.
LEMMA InitGatewayInv == Init => GatewayInv
<1> SUFFICES ASSUME Init PROVE GatewayInv
  OBVIOUS
<1>1. /\ coord = [exists |-> FALSE, refs |-> NoRefs] /\ coordCache = coord
      /\ secret = [version |-> 1, last |-> 1]
      /\ gw = NothingRendered /\ gwWork = GwIdle
  BY Zenon DEF Init
<1>2. \A p \in Names : coord.refs[p] = NoRef /\ gw[p] = NotRendered
  BY <1>1, Zenon DEF NoRefs, NothingRendered
<1>3. GatewayData
  BY <1>1, <1>2 DEF GatewayData, SecretInv, Produced, NoRef
<1>4. \A p \in Names : obj[p] = NoObj /\ objCache[p] = NoObj /\ ~IsBusy(p)
  BY TypesAssumption, Zenon DEF Init, IsBusy, IsHeld, Idle
<1>5. \A p \in Names : SeenInv(p) /\ ForgettingComes(p)
  BY <1>2, <1>4, Zenon DEF SeenInv, ForgettingComes
<1>6. RenderingComes
  BY <1>1, <1>2, Zenon DEF RenderingComes, Agrees, Out
<1> QED
  BY <1>3, <1>5, <1>6, Zenon DEF GatewayInv

\* Every step preserves the invariant.
LEMMA NextGatewayInv ==
    ASSUME MaxIncarnations = 1, CoordInv, RenderInv, ReferenceInv, GatewayInv, [Next]_vars
    PROVE  GatewayInv'
<1>1. /\ Versions /\ Locks /\ misled \in Nat /\ (paused = {} \/ pauses # 0)
      /\ GatewayData /\ \A p \in Names : SlotInv(p) /\ SeenInv(p)
  BY Zenon DEF ReferenceInv, GatewayInv
<1>2. GatewayData'
  BY <1>1, NextGatewayData, Zenon
<1>3. \A q \in Names : SeenInv(q)'
  BY <1>1, NextSeenInv, Zenon
<1>4. ASSUME pauses' = 0 PROVE RenderingComes' /\ \A q \in Names : ForgettingComes(q)'
  <2>1. pauses = 0 /\ paused = {}
    BY <1>4, NextCounts, Zenon DEF ReferenceInv
  <2>2. RenderingComes'
    BY <1>1, <2>1, NextRendering, Zenon DEF GatewayInv
  <2>3. \A q \in Names : ForgettingComes(q)'
    BY <1>1, <2>1, NextForgetting, Zenon DEF GatewayInv
  <2> QED
    BY <2>2, <2>3, Zenon
<1> QED
  BY <1>2, <1>3, <1>4, Zenon DEF GatewayInv

\* When the controllers are at rest, the gateway runs exactly the pipelines that hold a
\* slot and are valid, each with its current specification and the current values of the
\* Secret (doReconcile of the pipeline and gateway controllers together), for any
\* pipelines, kinds, limits, failures and restarts.  It is proved for names that are not
\* given to a second pipeline.
THEOREM GatewayIsCurrentAtRest ==
    ASSUME MaxIncarnations = 1
    PROVE  Spec => []RestingGatewayIsCurrent
<1>1. RenderInv /\ ReferenceInv /\ GatewayInv => RestingGatewayIsCurrent
  <2> SUFFICES ASSUME RenderInv, ReferenceInv, GatewayInv, AtRest, pauses = 0, misled = 0,
                      NEW p \in Names
               PROVE  IF Deployable(p)
                      THEN /\ gw[p] # NotRendered
                           /\ gw[p].spec = obj[p].spec
                           /\ gw[p].sv = CollectSecretVersions(obj[p])
                      ELSE gw[p] = NotRendered
    BY Zenon DEF RestingGatewayIsCurrent, GatewayIsCurrent
  <2>1. /\ queue = {} /\ objCache = obj /\ work[TypeOf[p]] = Idle /\ lockCurrent[TypeOf[p]]
        /\ coordCurrent /\ ~gwQueued /\ gwWork = GwIdle
    BY TypesAssumption, Zenon DEF AtRest, PipelinesAtRest
  <2>2. ~IsHeld(p) /\ ~IsForgotten(p) /\ Out = gw
    BY <2>1 DEF IsHeld, IsForgotten, Idle, Out
  <2>3. Agrees(p) /\ ForgettingComes(p)
    BY <2>1, Zenon DEF GatewayInv, RenderingComes
  <2>4. obj[p] # NoObj => coord.refs[p] = WantedRef(p)
    BY <2>1, <2>2, Zenon DEF ReferenceInv, ReferenceComes, RightRef
  <2>5. CASE ~Deployable(p)
    <3>1. coord.refs[p] = NoRef => gw[p] = NotRendered
      BY <2>2, <2>3, Zenon DEF Agrees
    <3>2. CASE obj[p] # NoObj
      BY <2>4, <2>5, <3>1, <3>2, Zenon DEF WantedRef
    <3>3. CASE obj[p] = NoObj
      <4>1. gw[p] = NotRendered
        BY <2>1, <2>2, <2>3, <3>1, <3>3, Zenon DEF ForgettingComes
      <4> QED
        BY <2>5, <4>1, Zenon
    <3> QED
      BY <3>2, <3>3, Zenon
  <2>6. CASE Deployable(p)
    <3>1. obj[p] # NoObj /\ ~obj[p].del
      BY <2>6, Zenon DEF Deployable, isReconcilable
    <3>2. coord.refs[p] = [gen |-> obj[p].gen, sv |-> CollectSecretVersions(obj[p])]
      BY <2>4, <2>6, <3>1, Zenon DEF WantedRef
    <3>3. obj[p].gen \in Nat \ {0}
      <4>1. Saw(p, obj[p].gen, obj[p].spec)
        BY <3>1, Zenon DEF Saw, Holds
      <4> QED
        BY <4>1, Zenon DEF RenderInv, OneSpecPerGeneration
    <3>4. coord.refs[p] # NoRef /\ ~IsOutdated(p)
      BY <3>1, <3>2, <3>3 DEF NoRef, IsOutdated
    <3>5. /\ gw[p] # NotRendered /\ gw[p].gen = obj[p].gen
          /\ IF gw[p].spec.secret THEN CollectSecretVersions(obj[p]) <= gw[p].sv
             ELSE gw[p].sv = 0
      BY <2>2, <2>3, <3>2, <3>4 DEF Agrees
    <3>6. gw[p].spec = obj[p].spec
      <4>1. Saw(p, gw[p].gen, gw[p].spec) /\ Saw(p, obj[p].gen, obj[p].spec)
        BY <3>1, <3>5, Zenon DEF RenderInv, OutValidated, IsValidated, Saw, Holds
      <4> QED
        BY <3>5, <4>1, Zenon DEF RenderInv, OneSpecPerGeneration
    <3>7. CASE obj[p].spec.secret
      <4>1. secret.version # 0
        BY <2>6, <3>7, MissingSecret, Zenon DEF Deployable
      <4>2. CollectSecretVersions(obj[p]) = secret.last /\ secret.last \in Nat
        BY <3>7, <4>1, Zenon DEF CollectSecretVersions, GatewayInv, GatewayData, SecretInv
      <4>3. gw[p].sv \in Nat /\ gw[p].sv <= secret.last
        BY <3>5, Zenon DEF GatewayInv, GatewayData, Produced
      <4> QED
        BY <2>6, <3>5, <3>6, <3>7, <4>2, <4>3
    <3>8. CASE ~obj[p].spec.secret
      BY <2>6, <3>5, <3>6, <3>8, Zenon DEF CollectSecretVersions
    <3> QED
      BY <3>7, <3>8, Zenon
  <2> QED
    BY <2>5, <2>6, Zenon
<1>2. CoordInv /\ RenderInv /\ ReferenceInv /\ [Next]_vars => ReferenceInv'
  BY NextReferenceInv
<1>3. CoordInv /\ RenderInv /\ ReferenceInv /\ GatewayInv /\ [Next]_vars => GatewayInv'
  BY NextGatewayInv, Zenon
<1> QED
  BY <1>1, <1>2, <1>3, InitReferenceInv, InitGatewayInv, CoordInvariant, RenderInvariant, PTL
  DEF Spec
=============================================================================
