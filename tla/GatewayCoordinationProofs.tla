---------------------- MODULE GatewayCoordinationProofs ----------------------
(* For any pipelines, kinds, limits and bounds: the pipeline controllers never  *)
(* undo each other's writes to the coordination ConfigMap, the gateway renders  *)
(* nothing that no controller has validated, and at rest the status of every    *)
(* pipeline is that of its latest validation.                                   *)
EXTENDS GatewayCoordination, TLAPS

\* A request that a worker holds is for a pipeline of the worker's own kind.
IsRequest(t, w) == w.p \in Names /\ TypeOf[w.p] = t

OwnRequests ==
    /\ work = [t \in Types |-> work[t]]
    /\ \A t \in Types : work[t] = Idle \/ IsRequest(t, work[t])

IsReferences(refs) == refs = [p \in Names |-> refs[p]]

\* A copy that carries the current resource version is equal to the ConfigMap, and a
\* ConfigMap that does not exist has no references.
Copies ==
    /\ coordCurrent \in BOOLEAN
    /\ coordCurrent => coordCache = coord
    /\ IsReferences(coord.refs)
    /\ IsReferences(coordCache.refs)
    /\ ~coord.exists => coord.refs = NoRefs
    /\ ~coordCache.exists => coordCache.refs = NoRefs

\* The inductive invariant.
CoordInv == OwnRequests /\ Copies

-----------------------------------------------------------------------------
\* What a worker writes for its pipeline p, it computes from its copy of the
\* references by changing p's entry alone (AddPipelineReference and
\* RemovePipelineReference).
LEMMA UpdateChangesOneEntry ==
    ASSUME NEW w, IsReferences(coordCache.refs), w.p \in Names
    PROVE  /\ IsReferences(UpdatedReferences(w))
           /\ \A q \in Names : q # w.p => UpdatedReferences(w)[q] = coordCache.refs[q]
  BY Zenon DEF IsReferences, UpdatedReferences, AddPipelineReference, RemovePipelineReference

\* A write of the coordination ConfigMap keeps the copies consistent and, if it is
\* accepted, changes no entry but the writer's own (applyConfigUpdate).
LEMMA WriteChangesOneEntry ==
    ASSUME NEW w, w.p \in Names, Copies, coordCache' = coordCache,
           applyConfigUpdate(UpdatedReferences(w))
    PROVE  Copies' /\ \A q \in Names : q # w.p => coord'.refs[q] = coord.refs[q]
<1>1. CASE UNCHANGED coordVars
  BY <1>1, Zenon DEF Copies, coordVars, IsReferences
<1>2. CASE ~UNCHANGED coordVars
  <2>1. /\ UpdateAccepted
        /\ coord' = [exists |-> TRUE, refs |-> UpdatedReferences(w)]
        /\ coordCurrent' = FALSE
    BY <1>2, Zenon DEF applyConfigUpdate
  <2>2. coordCache.refs = coord.refs
    BY <2>1, Zenon DEF UpdateAccepted, Copies
  <2>3. /\ IsReferences(UpdatedReferences(w))
        /\ \A q \in Names : q # w.p => UpdatedReferences(w)[q] = coordCache.refs[q]
    BY UpdateChangesOneEntry, Zenon DEF Copies
  <2> QED
    BY <2>1, <2>2, <2>3, Zenon DEF Copies, IsReferences
<1> QED
  BY <1>1, <1>2, Zenon

-----------------------------------------------------------------------------
\* Initially nothing is in progress and there is no ConfigMap.
LEMMA InitCoordInv == Init => CoordInv
  BY DEF Init, CoordInv, OwnRequests, Copies, IsReferences, NoRefs

\* The steps of a worker keep its request its own.
LEMMA StepsKeepRequest ==
    ASSUME OwnRequests, NEW t \in Types, work[t] # Idle,
           \/ \E stage, err : Goto(t, stage, err)
           \/ \E retry : Done(t, retry)
    PROVE  OwnRequests'
<1>1. CASE \E stage, err : Goto(t, stage, err)
  BY <1>1 DEF Goto, OwnRequests, IsRequest
<1>2. CASE \E retry : Done(t, retry)
  BY <1>2, Zenon DEF Done, OwnRequests
<1> QED
  BY <1>1, <1>2, Zenon

\* Taking a request from the queue makes it the worker's own.
LEMMA BeginKeepsRequests ==
    ASSUME OwnRequests, NEW p \in Names, NEW stage, NEW o, NEW err, Begin(p, stage, o, err)
    PROVE  OwnRequests'
  BY TypesAssumption, Zenon DEF Begin, OwnRequests, IsRequest

\* Every step preserves the invariant.
LEMMA NextCoordInv == CoordInv /\ [Next]_vars => CoordInv'
<1> SUFFICES ASSUME CoordInv, [Next]_vars
             PROVE  CoordInv'
  BY Zenon
<1> USE DEF CoordInv
<1>1. CASE UNCHANGED vars
  BY <1>1, Zenon DEF vars, coordVars, caches, Copies, OwnRequests, IsReferences, IsRequest
<1>2. CASE Users
  <2>1. UNCHANGED <<coord, coordCurrent, coordCache, work>>
    BY <1>2, Zenon
    DEF Users, UserOp, CreatePipeline, EditPipeline, DeletePipeline, ChangeSecret, TogglePause,
        coordVars, caches
  <2> QED
    BY <2>1, Zenon DEF Copies, OwnRequests, IsReferences, IsRequest
<1>3. CASE Kubernetes
  <2>1. CASE SyncCoordination
    BY <2>1, Zenon DEF SyncCoordination, Copies, OwnRequests, IsReferences, IsRequest
  <2>2. CASE ~SyncCoordination
    <3>1. UNCHANGED <<coord, coordCurrent, coordCache, work>>
      BY <1>3, <2>2, Zenon
      DEF Kubernetes, RemoveMarked, SyncPipeline, GarbageCollect, SyncLock, coordVars, caches
    <3> QED
      BY <3>1 DEF Copies, OwnRequests, IsReferences, IsRequest
  <2> QED
    BY <2>1, <2>2, Zenon
<1>4. ASSUME NEW p \in Names, Reconcile(p)
      PROVE  CoordInv'
  <2>1. UNCHANGED <<coord, coordCurrent, coordCache>>
    BY <1>4, Zenon
    DEF Reconcile, ReconcilePaused, ReconcileDeleted, ReconcilePipeline, ElsewhereUnchanged,
        coordVars, caches
  <2>2. OwnRequests'
    <3>1. CASE ReconcilePaused(p)
      BY <3>1, Zenon DEF ReconcilePaused, OwnRequests, IsRequest
    <3>2. CASE ReconcileDeleted(p)
      BY <3>2, BeginKeepsRequests, Zenon DEF ReconcileDeleted
    <3>3. CASE ReconcilePipeline(p)
      BY <3>3, BeginKeepsRequests, Zenon DEF ReconcilePipeline
    <3> QED
      BY <1>4, <3>1, <3>2, <3>3, Zenon DEF Reconcile
  <2> QED
    BY <2>1, <2>2, Zenon DEF Copies, IsReferences
<1>5. ASSUME NEW t \in Types, Continue(t) \/ ValidateMisled(t) \/ UpdateStatusMisled(t)
                              \/ StepFails(t)
      PROVE  CoordInv'
  <2>1. work[t] # Idle
    <3>1. Stage(t) # "idle"
      <4>1. CASE Continue(t)
        BY <4>1, Zenon DEF Continue, Validate, WriteReference, UpdateStatus, updateStatus
      <4>2. CASE ~Continue(t)
        BY <1>5, <4>2, Zenon DEF ValidateMisled, UpdateStatusMisled, updateStatus, StepFails
      <4> QED
        BY <4>1, <4>2, Zenon
    <3> QED
      BY <3>1 DEF Stage, Idle
  <2>2. OwnRequests'
    <3>1. \/ \E stage, err : Goto(t, stage, err)
          \/ \E retry : Done(t, retry)
      BY <1>5, Zenon
      DEF Continue, Validate, WriteReference, UpdateStatus, updateStatus, ValidateMisled,
          UpdateStatusMisled, StepFails
    <3> QED
      BY <2>1, <3>1, StepsKeepRequest, Zenon
  <2>3. /\ coordCache' = coordCache
        /\ UNCHANGED coordVars \/ applyConfigUpdate(UpdatedReferences(work[t]))
    BY <1>5, Zenon
    DEF Continue, Validate, WriteReference, UpdateStatus, updateStatus, ValidateMisled,
        UpdateStatusMisled, StepFails, ElsewhereUnchanged, caches
  <2>4. work[t].p \in Names
    BY <2>1, Zenon DEF OwnRequests, IsRequest
  <2> QED
    BY <2>2, <2>3, <2>4, WriteChangesOneEntry DEF Copies, coordVars, IsReferences
<1>6. CASE Gateway \/ GatewayFails
  <2>1. UNCHANGED <<coord, coordCurrent, coordCache, work>>
    BY <1>6, Zenon
    DEF Gateway, GatewayPaused, GatewayBuild, GatewayApply, GatewayFails, GatewayUnchanged,
        coordVars, caches
  <2> QED
    BY <2>1 DEF Copies, OwnRequests, IsReferences, IsRequest
<1>7. ASSUME NEW p \in Names, ReconcileFails(p)
      PROVE  CoordInv'
  <2>1. UNCHANGED <<coord, coordCurrent, coordCache, work>>
    BY <1>7, Zenon DEF ReconcileFails, ElsewhereUnchanged, coordVars, caches
  <2> QED
    BY <2>1, Zenon DEF Copies, OwnRequests, IsReferences, IsRequest
<1>8. CASE Restart
  BY <1>8, Zenon DEF Restart, Copies, OwnRequests, IsReferences
<1> QED
  BY <1>1, <1>2, <1>3, <1>4, <1>5, <1>6, <1>7, <1>8, Zenon DEF Next, Failures

-----------------------------------------------------------------------------
\* The invariant holds in every behaviour.
THEOREM CoordInvariant == Spec => []CoordInv
  BY InitCoordInv, NextCoordInv, PTL DEF Spec

\* Only a worker that is writing a reference changes the coordination ConfigMap.
LEMMA ReferenceWriter ==
    ASSUME Next, coord' # coord
    PROVE  \E t \in Types :
               /\ work[t].at \in {"add", "remove", "forget"}
               /\ applyConfigUpdate(UpdatedReferences(work[t]))
               /\ coordCache' = coordCache
<1>1. PICK t \in Types : WriteReference(t) \/ StepFails(t)
  BY Zenon
  DEF Next, Users, UserOp, CreatePipeline, EditPipeline, DeletePipeline, ChangeSecret,
      TogglePause, Kubernetes, RemoveMarked, SyncPipeline, GarbageCollect, SyncLock,
      SyncCoordination, Reconcile, ReconcilePaused, ReconcileDeleted, ReconcilePipeline,
      Continue, Validate, UpdateStatus, updateStatus, Gateway, GatewayPaused, GatewayBuild,
      GatewayApply, Failures, ReconcileFails, ValidateMisled, UpdateStatusMisled, GatewayFails,
      Restart, ElsewhereUnchanged, GatewayUnchanged, coordVars, caches
<1>2. /\ work[t].at \in {"add", "remove", "forget"}
      /\ applyConfigUpdate(UpdatedReferences(work[t]))
      /\ coordCache' = coordCache
  BY <1>1, Zenon DEF WriteReference, StepFails, Stage, coordVars, ElsewhereUnchanged, caches
<1> QED
  BY <1>2, Zenon

\* It changes the reference of its own pipeline.
LEMMA StepLosesNoReference ==
    ASSUME CoordInv, Next, NEW q \in Names, coord'.refs[q] # coord.refs[q]
    PROVE  work[TypeOf[q]].at \in {"add", "remove", "forget"} /\ work[TypeOf[q]].p = q
<1> USE DEF CoordInv
<1>1. PICK t \in Types :
          /\ work[t].at \in {"add", "remove", "forget"}
          /\ applyConfigUpdate(UpdatedReferences(work[t]))
          /\ coordCache' = coordCache
  BY ReferenceWriter, Zenon
<1>2. work[t].p \in Names /\ TypeOf[work[t].p] = t
  BY <1>1 DEF OwnRequests, IsRequest, Idle
<1>3. q = work[t].p
  BY <1>1, <1>2, WriteChangesOneEntry, Zenon
<1> QED
  BY <1>1, <1>2, <1>3, Zenon

\* No controller undoes what another has written to the shared ConfigMap: the
\* optimistic locking of applyConfigUpdate is enough, for any number of pipelines
\* and kinds and whatever is stale, fails or restarts.
THEOREM NoReferenceIsLost == Spec => NoLostReference
<1>1. CoordInv /\ [Next]_vars =>
          [\A p \in Names :
              coord'.refs[p] # coord.refs[p] =>
                  /\ work[TypeOf[p]].at \in {"add", "remove", "forget"}
                  /\ work[TypeOf[p]].p = p]_vars
  BY StepLosesNoReference, Zenon
<1> QED
  BY <1>1, CoordInvariant, PTL DEF Spec, NoLostReference

-----------------------------------------------------------------------------
\* While a name is given to one pipeline only, a generation has one specification:
\* whoever has seen it under that generation has seen the same.

\* A pipeline object, field by field.
IsPipeline(o) ==
    /\ o = [uid |-> o.uid, gen |-> o.gen, del |-> o.del, spec |-> o.spec, st |-> o.st]
    /\ o.uid # 0

Objects ==
    /\ obj = [p \in Names |-> obj[p]] /\ objCache = [p \in Names |-> objCache[p]]
    /\ \A p \in Names : /\ obj[p] # NoObj => IsPipeline(obj[p])
                        /\ objCache[p] # NoObj => IsPipeline(objCache[p])
    /\ uids \in [Names -> Nat]

Holds(o, g, s) == o # NoObj /\ o.gen = g /\ o.spec = s

\* Somewhere the specification s is known as generation g of p.
Saw(p, g, s) ==
    \/ Holds(obj[p], g, s) \/ Holds(objCache[p], g, s)
    \/ \E t \in Types : work[t] # Idle /\ work[t].p = p /\ Holds(work[t].o, g, s)
    \/ [p |-> p, gen |-> g, spec |-> s] \in validated

OneSpecPerGeneration ==
    \A p \in Names : \A g, s : Saw(p, g, s) =>
        /\ g \in Nat \ {0}
        /\ \A other : Saw(p, g, other) => other = s
        /\ obj[p] # NoObj => g <= obj[p].gen
        /\ uids[p] # 0

\* What is on its way to the gateway was validated: the pipeline a worker is about to
\* add, the generations of the references, and what is built and applied.
IsValidated(p, o) == [p |-> p, gen |-> o.gen, spec |-> o.spec] \in validated

WorkValidated ==
    \A t \in Types :
        /\ work[t].at = "validate" => work[t].o # NoObj
        /\ work[t].at = "add" => IsValidated(work[t].p, work[t].o)

RefsValidated(refs) ==
    \A p \in Names : refs[p] # NoRef =>
        \E s : [p |-> p, gen |-> refs[p].gen, spec |-> s] \in validated

OutValidated(out) == \A p \in Names : out[p] # NotRendered => IsValidated(p, out[p])

RenderInv ==
    /\ Objects /\ OneSpecPerGeneration /\ WorkValidated
    /\ RefsValidated(coord.refs) /\ RefsValidated(coordCache.refs)
    /\ OutValidated(gw)
    /\ gwWork # GwIdle => OutValidated(gwWork.out)

LEMMA InitRenderInv == Init => RenderInv
<1> SUFFICES ASSUME Init PROVE RenderInv
  BY Zenon
<1>1. Objects
  BY Zenon DEF Init, Objects
<1>2. \A p \in Names : \A g, s : ~Saw(p, g, s)
  BY Zenon DEF Init, Saw, Holds
<1>3. WorkValidated
  BY Zenon DEF Init, WorkValidated, Idle
<1>4. RefsValidated(coord.refs) /\ RefsValidated(coordCache.refs)
  BY Zenon DEF Init, RefsValidated, NoRefs
<1>5. OutValidated(gw) /\ gwWork = GwIdle
  BY Zenon DEF Init, OutValidated, NothingRendered
<1> QED
  BY <1>1, <1>2, <1>3, <1>4, <1>5, Zenon DEF RenderInv, OneSpecPerGeneration

\* A step that lets nobody see anything new, and neither creates nor edits.
LEMMA NothingNewToSee ==
    ASSUME OneSpecPerGeneration,
           \A p \in Names : \A g, s : Saw(p, g, s)' => Saw(p, g, s),
           \A p \in Names : obj'[p] # NoObj => obj[p] # NoObj /\ obj'[p].gen = obj[p].gen,
           uids' = uids
    PROVE  OneSpecPerGeneration'
  BY DEF OneSpecPerGeneration

\* What has been validated stays validated.
LEMMA ValidatedStays ==
    ASSUME validated \subseteq validated'
    PROVE  /\ \A refs : RefsValidated(refs) => RefsValidated(refs)'
           /\ \A out : OutValidated(out) => OutValidated(out)'
  BY Zenon DEF RefsValidated, OutValidated, IsValidated

\* The rest of the invariant is left alone by a step that touches nothing it is about.
LEMMA PathUnchanged ==
    ASSUME WorkValidated, RefsValidated(coord.refs), RefsValidated(coordCache.refs),
           OutValidated(gw), gwWork # GwIdle => OutValidated(gwWork.out),
           UNCHANGED <<work, coord, coordCache, gw, gwWork, validated>>
    PROVE  /\ WorkValidated' /\ RefsValidated(coord.refs)' /\ RefsValidated(coordCache.refs)'
           /\ OutValidated(gw)' /\ (gwWork # GwIdle => OutValidated(gwWork.out))'
  BY Zenon DEF WorkValidated, RefsValidated, OutValidated, IsValidated

\* Field by field, what EditPipeline makes of a pipeline.
LEMMA NewSpec ==
    ASSUME NEW o, IsPipeline(o), NEW g, NEW v, NEW new, new = [o EXCEPT !.spec = v, !.gen = g]
    PROVE  new = [uid |-> o.uid, gen |-> g, del |-> o.del, spec |-> v, st |-> o.st]
<1>1. [o EXCEPT !.spec = v, !.gen = g] = [[o EXCEPT !.spec = v] EXCEPT !.gen = g]
  BY Zenon
<1>2. PICK r : r = [o EXCEPT !.spec = v]
  BY Zenon
<1>3. r = [uid |-> o.uid, gen |-> o.gen, del |-> o.del, spec |-> v, st |-> o.st]
  BY <1>2, Zenon DEF IsPipeline
<1>4. [r EXCEPT !.gen = g] = [uid |-> o.uid, gen |-> g, del |-> o.del, spec |-> v, st |-> o.st]
  BY <1>3
<1> QED
  BY <1>1, <1>2, <1>4, Zenon

\* Field by field, what a foreground DeletePipeline makes of it.
LEMMA NewDeletion ==
    ASSUME NEW o, IsPipeline(o), NEW g, NEW v, NEW new, new = [o EXCEPT !.del = v, !.gen = g]
    PROVE  new = [uid |-> o.uid, gen |-> g, del |-> v, spec |-> o.spec, st |-> o.st]
<1>1. [o EXCEPT !.del = v, !.gen = g] = [[o EXCEPT !.del = v] EXCEPT !.gen = g]
  BY Zenon
<1>2. PICK r : r = [o EXCEPT !.del = v]
  BY Zenon
<1>3. r = [uid |-> o.uid, gen |-> o.gen, del |-> v, spec |-> o.spec, st |-> o.st]
  BY <1>2, Zenon DEF IsPipeline
<1>4. [r EXCEPT !.gen = g] = [uid |-> o.uid, gen |-> g, del |-> v, spec |-> o.spec, st |-> o.st]
  BY <1>3
<1> QED
  BY <1>1, <1>2, <1>4, Zenon

\* The pipeline that EditPipeline leaves.
LEMMA EditedPipeline ==
    ASSUME Objects, NEW p \in Names, NEW spec, EditPipeline(p, spec)
    PROVE  /\ obj[p] # NoObj /\ IsPipeline(obj[p])
           /\ obj' = [obj EXCEPT ![p] = [uid |-> obj[p].uid, gen |-> obj[p].gen + 1,
                                         del |-> obj[p].del, spec |-> spec, st |-> obj[p].st]]
<1>1. obj[p] # NoObj /\ IsPipeline(obj[p])
  BY Zenon DEF EditPipeline, Objects
<1>2. obj' = [obj EXCEPT ![p] = [obj[p] EXCEPT !.spec = spec, !.gen = obj[p].gen + 1]]
  BY Zenon DEF EditPipeline
<1>3. PICK new : new = [obj[p] EXCEPT !.spec = spec, !.gen = obj[p].gen + 1]
  BY Zenon
<1>4. new = [uid |-> obj[p].uid, gen |-> obj[p].gen + 1, del |-> obj[p].del, spec |-> spec,
             st |-> obj[p].st]
  BY <1>1, <1>3, NewSpec, ZenonT(60)
<1> QED
  BY <1>1, <1>2, <1>3, <1>4, Zenon

\* The pipeline that a foreground DeletePipeline leaves.
LEMMA MarkedPipeline ==
    ASSUME Objects, NEW p \in Names, obj[p] # NoObj,
           obj' = [obj EXCEPT ![p].del = TRUE, ![p].gen = @ + 1]
    PROVE  /\ IsPipeline(obj[p])
           /\ obj' = [obj EXCEPT ![p] = [uid |-> obj[p].uid, gen |-> obj[p].gen + 1,
                                         del |-> TRUE, spec |-> obj[p].spec, st |-> obj[p].st]]
<1>1. IsPipeline(obj[p])
  BY Zenon DEF Objects
<1>2. obj' = [obj EXCEPT ![p] = [obj[p] EXCEPT !.del = TRUE, !.gen = obj[p].gen + 1]]
  BY Zenon
<1>3. PICK new : new = [obj[p] EXCEPT !.del = TRUE, !.gen = obj[p].gen + 1]
  BY Zenon
<1>4. new = [uid |-> obj[p].uid, gen |-> obj[p].gen + 1, del |-> TRUE, spec |-> obj[p].spec,
             st |-> obj[p].st]
  BY <1>1, <1>3, NewDeletion, ZenonT(60)
<1> QED
  BY <1>1, <1>2, <1>3, <1>4, Zenon

\* The pipeline that updateStatus leaves.
LEMMA WrittenStatus ==
    ASSUME Objects, NEW p \in Names, obj[p] # NoObj, NEW st, obj' = [obj EXCEPT ![p].st = st]
    PROVE  /\ IsPipeline(obj[p])
           /\ obj' = [obj EXCEPT ![p] = [uid |-> obj[p].uid, gen |-> obj[p].gen,
                                         del |-> obj[p].del, spec |-> obj[p].spec, st |-> st]]
<1>1. PICK b : b = obj[p] /\ IsPipeline(b)
  BY Zenon DEF Objects
<1>2. PICK new : new = [b EXCEPT !.st = st]
  BY Zenon
<1>3. new = [uid |-> b.uid, gen |-> b.gen, del |-> b.del, spec |-> b.spec, st |-> st]
  BY <1>1, <1>2, Zenon DEF IsPipeline
<1>4. obj' = [obj EXCEPT ![p] = new]
  BY <1>1, <1>2, Zenon
<1> QED
  BY <1>1, <1>3, <1>4, Zenon

\* A new pipeline or a new generation of one: nobody has seen that generation yet.
LEMMA NewGeneration ==
    ASSUME Objects, OneSpecPerGeneration, NEW p \in Names, NEW o,
           obj' = [obj EXCEPT ![p] = o], o # NoObj, o.gen \in Nat \ {0},
           \A g, s : Saw(p, g, s) => g < o.gen,
           uids'[p] # 0, \A q \in Names \ {p} : uids'[q] = uids[q],
           UNCHANGED <<objCache, work, validated>>
    PROVE  OneSpecPerGeneration'
<1>1. obj'[p] = o /\ \A q \in Names \ {p} : obj'[q] = obj[q]
  BY Zenon DEF Objects
<1>2. \A g, s : Saw(p, g, s)' => Saw(p, g, s) \/ (g = o.gen /\ s = o.spec)
  BY <1>1, Zenon DEF Saw, Holds
<1>3. \A q \in Names \ {p} : \A g, s : Saw(q, g, s)' => Saw(q, g, s)
  BY <1>1 DEF Saw, Holds
<1>4. ASSUME NEW g, NEW s, Saw(p, g, s)'
      PROVE  /\ g \in Nat \ {0}
             /\ \A other : Saw(p, g, other)' => other = s
             /\ g <= o.gen
  BY <1>2, <1>4 DEF OneSpecPerGeneration
<1>5. ASSUME NEW q \in Names \ {p}, NEW g, NEW s, Saw(q, g, s)'
      PROVE  /\ g \in Nat \ {0}
             /\ \A other : Saw(q, g, other)' => other = s
             /\ obj'[q] # NoObj => g <= obj'[q].gen
             /\ uids'[q] # 0
  BY <1>1, <1>3, <1>5 DEF OneSpecPerGeneration
<1> QED
  BY <1>1, <1>4, <1>5 DEF OneSpecPerGeneration

LEMMA UsersKeepRenderInv ==
    ASSUME MaxIncarnations = 1, RenderInv, Users
    PROVE  RenderInv'
<1> USE DEF RenderInv
<1>0. UNCHANGED <<objCache, work, coord, coordCache, gw, gwWork, validated>>
  BY Zenon
  DEF Users, UserOp, CreatePipeline, EditPipeline, DeletePipeline, ChangeSecret, TogglePause,
      coordVars, caches, gwVars
<1> SUFFICES Objects' /\ OneSpecPerGeneration'
  BY <1>0, PathUnchanged, Zenon
<1>1. ASSUME NEW p \in Names, obj[p] # NoObj
      PROVE  /\ IsPipeline(obj[p]) /\ obj[p].gen \in Nat \ {0} /\ uids[p] # 0
             /\ \A g, s : Saw(p, g, s) => g \in Nat /\ g <= obj[p].gen
  <2>1. Saw(p, obj[p].gen, obj[p].spec)
    BY <1>1, Zenon DEF Saw, Holds
  <2> QED
    BY <1>1, <2>1, Zenon DEF OneSpecPerGeneration, Objects
<1>2. ASSUME NEW p \in Names, NEW spec \in Specs, CreatePipeline(p, spec)
      PROVE  Objects' /\ OneSpecPerGeneration'
  <2> DEFINE o == [uid |-> 1, gen |-> 1, del |-> FALSE, spec |-> spec, st |-> NoStatus]
  <2>1. uids[p] = 0 /\ uids' = [uids EXCEPT ![p] = 1]
    <3>1. uids[p] \in Nat /\ uids[p] < 1 /\ uids' = [uids EXCEPT ![p] = uids[p] + 1]
      BY <1>2, Zenon DEF CreatePipeline, Objects
    <3>2. uids[p] = 0
      BY <3>1
    <3> QED
      BY <3>1, <3>2
  <2>2. uids'[p] = 1 /\ \A q \in Names \ {p} : uids'[q] = uids[q]
    BY <2>1, Zenon DEF Objects
  <2>3. obj' = [obj EXCEPT ![p] = o]
    BY <1>2, <2>2, Zenon DEF CreatePipeline
  <2>4. o # NoObj /\ IsPipeline(o) /\ o.gen = 1
    BY DEF NoObj, IsPipeline
  <2> HIDE DEF o
  <2>5. \A g, s : ~Saw(p, g, s)
    BY <2>1, Zenon DEF OneSpecPerGeneration
  <2>6. Objects'
    BY <1>0, <2>1, <2>3, <2>4, Zenon DEF Objects
  <2>7. o.gen \in Nat \ {0} /\ uids'[p] # 0
    BY <2>2, <2>4
  <2>8. \A g, s : Saw(p, g, s) => g < o.gen
    BY <2>5, Zenon
  <2> QED
    BY <1>0, <2>2, <2>3, <2>4, <2>6, <2>7, <2>8, NewGeneration, Zenon
<1>3. ASSUME NEW p \in Names, NEW spec \in Specs, EditPipeline(p, spec)
      PROVE  Objects' /\ OneSpecPerGeneration'
  <2> DEFINE o == [uid |-> obj[p].uid, gen |-> obj[p].gen + 1, del |-> obj[p].del,
                   spec |-> spec, st |-> obj[p].st]
  <2>1. obj[p] # NoObj /\ uids' = uids
    BY <1>3, Zenon DEF EditPipeline
  <2>2. obj' = [obj EXCEPT ![p] = o]
    BY <1>3, EditedPipeline, Zenon
  <2>3. o # NoObj /\ IsPipeline(o) /\ o.gen = obj[p].gen + 1
    BY <1>1, <2>1, Zenon DEF NoObj, IsPipeline
  <2> HIDE DEF o
  <2>4. Objects'
    BY <1>0, <2>1, <2>2, <2>3, Zenon DEF Objects
  <2>5. o.gen \in Nat \ {0} /\ \A g, s : Saw(p, g, s) => g < o.gen
    BY <1>1, <2>1, <2>3
  <2> QED
    BY <1>0, <1>1, <2>1, <2>2, <2>3, <2>4, <2>5, NewGeneration, Zenon
<1>4. ASSUME NEW p \in Names, DeletePipeline(p)
      PROVE  Objects' /\ OneSpecPerGeneration'
  <2>1. obj[p] # NoObj /\ uids' = uids
    BY <1>4, Zenon DEF DeletePipeline
  <2>2. CASE obj' = [obj EXCEPT ![p] = NoObj]
    <3>1. Objects'
      BY <1>0, <2>1, <2>2, Zenon DEF Objects
    <3>2. \A q \in Names : obj'[q] # NoObj => obj'[q] = obj[q]
      BY <2>2, Zenon DEF Objects
    <3>3. \A q \in Names : \A g, s : Saw(q, g, s)' => Saw(q, g, s)
      BY <1>0, <3>2 DEF Saw, Holds
    <3> QED
      BY <2>1, <3>1, <3>2, <3>3, NothingNewToSee, Zenon
  <2>3. CASE obj' = [obj EXCEPT ![p].del = TRUE, ![p].gen = @ + 1]
    <3> DEFINE o == [uid |-> obj[p].uid, gen |-> obj[p].gen + 1, del |-> TRUE,
                     spec |-> obj[p].spec, st |-> obj[p].st]
    <3>1. obj' = [obj EXCEPT ![p] = o]
      BY <2>1, <2>3, MarkedPipeline, Zenon
    <3>2. o # NoObj /\ IsPipeline(o) /\ o.gen = obj[p].gen + 1
      BY <1>1, <2>1, Zenon DEF NoObj, IsPipeline
    <3> HIDE DEF o
    <3>3. Objects'
      BY <1>0, <2>1, <3>1, <3>2, Zenon DEF Objects
    <3>4. o.gen \in Nat \ {0} /\ \A g, s : Saw(p, g, s) => g < o.gen
      BY <1>1, <2>1, <3>2
    <3> QED
      BY <1>0, <1>1, <2>1, <3>1, <3>2, <3>3, <3>4, NewGeneration, Zenon
  <2> QED
    BY <1>4, <2>2, <2>3, Zenon DEF DeletePipeline
<1>5. ASSUME UNCHANGED <<obj, uids>>
      PROVE  Objects' /\ OneSpecPerGeneration'
  <2>1. \A q \in Names : \A g, s : Saw(q, g, s)' => Saw(q, g, s)
    BY <1>0, <1>5 DEF Saw, Holds
  <2> QED
    BY <1>0, <1>5, <2>1, NothingNewToSee, Zenon DEF Objects
<1> QED
  BY <1>2, <1>3, <1>4, <1>5, Zenon DEF Users, ChangeSecret, TogglePause, apiVars

\* Deletions that end and watches that deliver show nobody anything new.
LEMMA KubernetesKeepsRenderInv ==
    ASSUME RenderInv, Kubernetes
    PROVE  RenderInv'
<1> USE DEF RenderInv
<1>0. UNCHANGED <<uids, work, coord, gw, gwWork, validated>>
  BY Zenon
  DEF Kubernetes, RemoveMarked, SyncPipeline, GarbageCollect, SyncLock, SyncCoordination,
      coordVars, caches, gwVars, apiVars
<1>1. \A p \in Names : obj'[p] # NoObj => obj'[p] = obj[p]
  BY Zenon
  DEF Kubernetes, RemoveMarked, SyncPipeline, GarbageCollect, SyncLock, SyncCoordination,
      apiVars, Objects
<1>2. \A p \in Names : objCache'[p] = objCache[p] \/ objCache'[p] = obj[p]
  BY Zenon
  DEF Kubernetes, RemoveMarked, SyncPipeline, GarbageCollect, SyncLock, SyncCoordination,
      caches, Objects
<1>3. /\ obj' = [p \in Names |-> obj'[p]]
      /\ objCache' = [p \in Names |-> objCache'[p]]
  BY Zenon
  DEF Kubernetes, RemoveMarked, SyncPipeline, GarbageCollect, SyncLock, SyncCoordination,
      caches, apiVars, Objects
<1>4. Objects'
  BY <1>0, <1>1, <1>2, <1>3, Zenon DEF Objects
<1>5. \A p \in Names : \A g, s : Saw(p, g, s)' => Saw(p, g, s)
  BY <1>0, <1>1, <1>2 DEF Saw, Holds
<1>6. OneSpecPerGeneration'
  BY <1>0, <1>1, <1>5, NothingNewToSee, Zenon
<1>7. coordCache' = coordCache \/ coordCache' = coord
  BY Zenon
  DEF Kubernetes, RemoveMarked, SyncPipeline, GarbageCollect, SyncLock, SyncCoordination, caches
<1> QED
  BY <1>0, <1>4, <1>6, <1>7, Zenon DEF WorkValidated, RefsValidated, OutValidated, IsValidated

\* A reconciliation begins with the cached pipeline, and validates one that exists.
LEMMA ReconcileKeepsRenderInv ==
    ASSUME RenderInv, OwnRequests, NEW p \in Names, Reconcile(p)
    PROVE  RenderInv'
<1> USE DEF RenderInv
<1>0. UNCHANGED <<obj, uids, objCache, coord, coordCache, gw, gwWork, validated>>
  BY Zenon
  DEF Reconcile, ReconcilePaused, ReconcileDeleted, ReconcilePipeline, ElsewhereUnchanged,
      coordVars, caches, gwVars, apiVars
<1>1. \A t \in Types :
          \/ work'[t] = work[t]
          \/ /\ work'[t].p = p /\ work'[t].o = objCache[p]
             /\ work'[t].at # "add"
             /\ work'[t].at = "validate" => objCache[p] # NoObj
  <2>1. CASE ReconcilePaused(p)
    BY <2>1, Zenon DEF ReconcilePaused
  <2>2. CASE ReconcileDeleted(p)
    BY <2>2, TypesAssumption, Zenon DEF ReconcileDeleted, Begin, OwnRequests
  <2>3. CASE ReconcilePipeline(p)
    <3>1. PICK stage, err : /\ stage \in {"validate", "status"} /\ objCache[p] # NoObj
                            /\ Begin(p, stage, objCache[p], err)
      BY <2>3, Zenon DEF ReconcilePipeline
    <3> QED
      BY <3>1, TypesAssumption, Zenon DEF Begin, OwnRequests
  <2> QED
    BY <2>1, <2>2, <2>3, Zenon DEF Reconcile
<1>2. \A q \in Names : \A g, s : Saw(q, g, s)' => Saw(q, g, s)
  BY <1>0, <1>1 DEF Saw, Holds
<1>3. Objects' /\ OneSpecPerGeneration'
  BY <1>0, <1>2, NothingNewToSee, Zenon DEF Objects
<1>4. WorkValidated'
  BY <1>0, <1>1, Zenon DEF WorkValidated, IsValidated
<1> QED
  BY <1>0, <1>3, <1>4, Zenon DEF RefsValidated, OutValidated, IsValidated

\* The gateway renders a pipeline in the generation its reference names; that
\* generation was validated, and has one specification.
LEMMA GatewayKeepsRenderInv ==
    ASSUME RenderInv, Gateway \/ GatewayFails
    PROVE  RenderInv'
<1> USE DEF RenderInv
<1>0. UNCHANGED <<obj, uids, objCache, work, coord, coordCache, validated>>
  BY Zenon
  DEF Gateway, GatewayPaused, GatewayBuild, GatewayApply, GatewayFails, GatewayUnchanged,
      coordVars, caches, apiVars
<1>1. Objects' /\ OneSpecPerGeneration' /\ WorkValidated'
  BY <1>0 DEF Objects, OneSpecPerGeneration, Saw, WorkValidated, IsValidated
<1>2. RefsValidated(coord.refs)' /\ RefsValidated(coordCache.refs)'
  BY <1>0, Zenon DEF RefsValidated
<1>3. \A out : OutValidated(out) => OutValidated(out)'
  BY <1>0, ValidatedStays, Zenon
<1>4. OutValidated(buildCollectorConfig(Fetched(coordCache.refs)))
  <2> DEFINE out == buildCollectorConfig(Fetched(coordCache.refs))
  <2>1. SUFFICES ASSUME NEW p \in Names, out[p] # NotRendered
                 PROVE  IsValidated(p, out[p])
    BY Zenon DEF OutValidated
  <2>2. /\ coordCache.refs[p] # NoRef /\ objCache[p] # NoObj
        /\ objCache[p].gen = coordCache.refs[p].gen
    BY <2>1, Zenon DEF buildCollectorConfig, Fetched
  <2>3. out[p].gen = objCache[p].gen /\ out[p].spec = objCache[p].spec
    BY <2>1, Zenon DEF buildCollectorConfig
  <2>4. PICK s : [p |-> p, gen |-> objCache[p].gen, spec |-> s] \in validated
    BY <2>2, Zenon DEF RefsValidated
  <2>5. Saw(p, objCache[p].gen, s) /\ Saw(p, objCache[p].gen, objCache[p].spec)
    BY <2>2, <2>4, Zenon DEF Saw, Holds
  <2>6. s = objCache[p].spec
    BY <2>5, Zenon DEF OneSpecPerGeneration
  <2> QED
    BY <2>3, <2>4, <2>6, Zenon DEF IsValidated
<1>5. CASE GatewayPaused
  BY <1>1, <1>2, <1>3, <1>5, Zenon DEF GatewayPaused, gwVars, OutValidated, IsValidated
<1>6. CASE GatewayBuild
  <2>1. gw' = gw
    BY <1>6, Zenon DEF GatewayBuild
  <2>2. \/ gwWork' = gwWork
        \/ gwWork' = [at |-> "apply", out |-> buildCollectorConfig(Fetched(coordCache.refs))]
    BY <1>6, Zenon DEF GatewayBuild
  <2>3. gwWork = GwIdle
    BY <1>6, Zenon DEF GatewayBuild
  <2>4. OutValidated(gw)'
    BY <1>0, <2>1, Zenon DEF OutValidated, IsValidated
  <2>5. (gwWork # GwIdle => OutValidated(gwWork.out))'
    BY <1>0, <1>4, <2>2, <2>3 DEF OutValidated, IsValidated
  <2> QED
    BY <1>1, <1>2, <2>4, <2>5, Zenon
<1>7. CASE GatewayApply \/ GatewayFails
  <2>1. /\ gwWork # GwIdle /\ gwWork' = GwIdle
        /\ gw' = gw \/ gw' = gwWork.out
    BY <1>7, Zenon DEF GatewayApply, GatewayFails
  <2>2. OutValidated(gw)'
    BY <1>0, <2>1, Zenon DEF OutValidated, IsValidated
  <2> QED
    BY <1>1, <1>2, <2>1, <2>2, Zenon
<1> QED
  BY <1>5, <1>6, <1>7, Zenon DEF Gateway

\* A worker's step moves its request on, with the pipeline it began with, and gets to
\* "add" only by validating.
LEMMA WorkMovesOn ==
    ASSUME OwnRequests, NEW t \in Types, NEW stage,
           (\E err : Goto(t, stage, err)) \/ (stage = "idle" /\ \E retry : Done(t, retry))
    PROVE  /\ \A u \in Types \ {t} : work'[u] = work[u]
           /\ work'[t].at = stage
           /\ \/ work'[t] = Idle
              \/ work'[t].p = work[t].p /\ work'[t].o = work[t].o
  BY DEF OwnRequests, Goto, Done, Idle

\* Validating is the one way to become validated; what it adds was in the worker's
\* hands.
LEMMA ValidateKeepsRenderInv ==
    ASSUME RenderInv, OwnRequests, NEW t \in Types, Validate(t)
    PROVE  RenderInv'
<1> USE DEF RenderInv
<1>0. UNCHANGED <<obj, uids, objCache, coord, coordCache, gw, gwWork>>
  BY Zenon DEF Validate, ElsewhereUnchanged, coordVars, caches, gwVars, apiVars
<1> DEFINE entry == [p |-> work[t].p, gen |-> work[t].o.gen, spec |-> work[t].o.spec]
<1>1. work[t] # Idle /\ work[t].o # NoObj /\ work[t].p \in Names
  BY DEF Validate, Stage, Idle, WorkValidated, OwnRequests, IsRequest
<1>2. PICK stage \in {"add", "remove", "status"} :
          /\ \E err : Goto(t, stage, err)
          /\ \/ validated' = validated /\ stage # "add"
             \/ validated' = validated \union {entry}
  BY ZenonT(30) DEF Validate
<1>3. /\ \A u \in Types \ {t} : work'[u] = work[u]
      /\ work'[t].at = stage
      /\ work'[t] = Idle \/ (work'[t].p = work[t].p /\ work'[t].o = work[t].o)
  BY <1>2, WorkMovesOn, Zenon
<1>4. work'[t].p = work[t].p /\ work'[t].o = work[t].o
  BY <1>3, <1>2 DEF Idle
<1>5. ASSUME NEW q \in Names, NEW g, NEW s, Saw(q, g, s)'
      PROVE  Saw(q, g, s)
  <2>1. CASE [p |-> q, gen |-> g, spec |-> s] = entry
    <3>1. q = work[t].p /\ g = work[t].o.gen /\ s = work[t].o.spec
      BY <2>1, Zenon
    <3> QED
      BY <1>1, <3>1, Zenon DEF Saw, Holds
  <2>2. CASE [p |-> q, gen |-> g, spec |-> s] \in validated'
             /\ [p |-> q, gen |-> g, spec |-> s] # entry
    BY <1>2, <2>2, Zenon DEF Saw
  <2>3. CASE \E u \in Types : work'[u] # Idle /\ work'[u].p = q /\ Holds(work'[u].o, g, s)
    BY <1>1, <1>3, <1>4, <2>3, SMTT(30) DEF Saw
  <2>4. CASE Holds(obj'[q], g, s) \/ Holds(objCache'[q], g, s)
    BY <1>0, <2>4, Zenon DEF Saw
  <2> QED
    BY <1>5, <2>1, <2>2, <2>3, <2>4, Zenon DEF Saw, Holds
<1>6. Objects' /\ OneSpecPerGeneration'
  BY <1>0, <1>5, NothingNewToSee, Zenon DEF Objects
<1>7. validated \subseteq validated'
  BY <1>2, Zenon
<1>8. WorkValidated'
  <2>1. work'[t].at # "validate" /\ (work'[t].at = "add" => IsValidated(work[t].p, work[t].o)')
    BY <1>0, <1>2, <1>3, <1>4, Zenon DEF IsValidated
  <2> QED
    BY <1>3, <1>7, <2>1, Zenon DEF WorkValidated, IsValidated
<1>9. /\ \A refs : RefsValidated(refs) => RefsValidated(refs)'
      /\ \A out : OutValidated(out) => OutValidated(out)'
  BY <1>7, ValidatedStays, Zenon
<1> QED
  BY <1>0, <1>6, <1>7, <1>8, ZenonT(30) DEF RefsValidated, OutValidated, IsValidated

\* A reference that is written names a validated generation.
LEMMA WrittenIsValidated ==
    ASSUME RenderInv, CoordInv, NEW t \in Types, work[t].p \in Names,
           UNCHANGED coordVars \/ applyConfigUpdate(UpdatedReferences(work[t]))
    PROVE  RefsValidated(coord'.refs)
<1> USE DEF RenderInv
<1>1. CASE coord' = coord
  BY <1>1, Zenon DEF RefsValidated
<1>2. CASE coord' = [exists |-> TRUE, refs |-> UpdatedReferences(work[t])]
  <2>1. coordCache.refs = [p \in Names |-> coordCache.refs[p]]
    BY Zenon DEF CoordInv, Copies, IsReferences
  <2>2. CASE work[t].at = "add"
    <3>1. UpdatedReferences(work[t]) =
              [coordCache.refs EXCEPT ![work[t].p] =
                  [gen |-> work[t].o.gen, sv |-> CollectSecretVersions(work[t].o)]]
      BY <2>2, Zenon DEF UpdatedReferences, AddPipelineReference
    <3>2. [p |-> work[t].p, gen |-> work[t].o.gen, spec |-> work[t].o.spec] \in validated
      BY <2>2, Zenon DEF WorkValidated, IsValidated
    <3>3. \A p \in Names \ {work[t].p} : coord'.refs[p] = coordCache.refs[p]
      BY <1>2, <2>1, <3>1, Zenon
    <3>4. coord'.refs[work[t].p].gen = work[t].o.gen
      BY <1>2, <2>1, <3>1
    <3> QED
      BY <3>2, <3>3, <3>4, Zenon DEF RefsValidated
  <2>3. CASE work[t].at # "add"
    <3>1. UpdatedReferences(work[t]) = [coordCache.refs EXCEPT ![work[t].p] = NoRef]
      BY <2>3, Zenon DEF UpdatedReferences, RemovePipelineReference
    <3> QED
      BY <1>2, <2>1, <3>1, Zenon DEF RefsValidated
  <2> QED
    BY <2>2, <2>3, Zenon
<1> QED
  BY <1>1, <1>2, Zenon DEF applyConfigUpdate, coordVars

\* The other steps of a worker validate nothing; updateStatus changes the status of a
\* pipeline and keeps its generation and specification.
LEMMA WorkersKeepRenderInv ==
    ASSUME RenderInv, CoordInv, NEW t \in Types,
           WriteReference(t) \/ UpdateStatus(t) \/ ValidateMisled(t) \/ UpdateStatusMisled(t)
               \/ StepFails(t)
    PROVE  RenderInv'
<1> USE DEF RenderInv, CoordInv
<1>0. UNCHANGED <<uids, objCache, coordCache, gw, gwWork, validated>>
  BY Zenon
  DEF WriteReference, UpdateStatus, ValidateMisled, UpdateStatusMisled, updateStatus, StepFails,
      ElsewhereUnchanged, coordVars, caches, gwVars, apiVars
<1>1. work[t] # Idle /\ work[t].p \in Names
  <2>1. Stage(t) # "idle"
    BY Zenon
    DEF WriteReference, UpdateStatus, ValidateMisled, UpdateStatusMisled, updateStatus,
        StepFails
  <2> QED
    BY <2>1 DEF Stage, Idle, OwnRequests, IsRequest
<1>2. \E stage \in {"idle", "remove", "status"} :
          (\E err : Goto(t, stage, err)) \/ (stage = "idle" /\ \E retry : Done(t, retry))
  BY Zenon
  DEF WriteReference, UpdateStatus, ValidateMisled, UpdateStatusMisled, updateStatus, StepFails
<1>3. /\ \A u \in Types \ {t} : work'[u] = work[u]
      /\ work'[t].at \notin {"validate", "add"}
      /\ work'[t] = Idle \/ (work'[t].p = work[t].p /\ work'[t].o = work[t].o)
  BY <1>2, WorkMovesOn, Zenon
<1>4. UNCHANGED coordVars \/ applyConfigUpdate(UpdatedReferences(work[t]))
  BY ZenonT(30)
  DEF WriteReference, UpdateStatus, ValidateMisled, UpdateStatusMisled, updateStatus, StepFails
<1>5. RefsValidated(coord'.refs)
  BY <1>1, <1>4, WrittenIsValidated, Zenon
<1>6. /\ obj' = [p \in Names |-> obj'[p]]
      /\ \A p \in Names :
             \/ obj'[p] = obj[p]
             \/ /\ obj[p] # NoObj /\ obj'[p] # NoObj /\ IsPipeline(obj'[p])
                /\ obj'[p].gen = obj[p].gen /\ obj'[p].spec = obj[p].spec
  <2>1. CASE obj' = obj
    BY <2>1, Zenon DEF Objects
  <2>2. CASE obj' # obj
    <3>1. PICK st : /\ objCache[work[t].p] # NoObj /\ objCache[work[t].p] = obj[work[t].p]
                    /\ obj' = [obj EXCEPT ![work[t].p].st = st]
      BY <2>2, Zenon
      DEF WriteReference, UpdateStatus, ValidateMisled, UpdateStatusMisled, updateStatus,
          StepFails, ElsewhereUnchanged, apiVars
    <3>2. PICK b : b = obj[work[t].p]
      BY Zenon
    <3> DEFINE new == [uid |-> b.uid, gen |-> b.gen, del |-> b.del, spec |-> b.spec, st |-> st]
    <3>3. IsPipeline(b) /\ obj' = [obj EXCEPT ![work[t].p] = new]
      BY <1>1, <3>1, <3>2, WrittenStatus, Zenon
    <3>4. IsPipeline(new) /\ new # NoObj /\ new.gen = b.gen /\ new.spec = b.spec
      BY <3>3, Zenon DEF IsPipeline, NoObj
    <3> HIDE DEF new
    <3> QED
      BY <1>1, <3>1, <3>2, <3>3, <3>4, Zenon DEF Objects
  <2> QED
    BY <2>1, <2>2, Zenon
<1>7. Objects'
  BY <1>0, <1>6, Zenon DEF Objects
<1>8. \A q \in Names : \A g, s : Saw(q, g, s)' => Saw(q, g, s)
  BY <1>0, <1>1, <1>3, <1>6 DEF Saw, Holds
<1>9. OneSpecPerGeneration'
  BY <1>0, <1>6, <1>8, NothingNewToSee, SMTT(30)
<1>10. WorkValidated'
  BY <1>0, <1>3, Zenon DEF WorkValidated, IsValidated
<1> QED
  BY <1>0, <1>5, <1>7, <1>9, <1>10, Zenon DEF RefsValidated, OutValidated, IsValidated

\* A restart reads everything anew and forgets what was in progress.
LEMMA RestartKeepsRenderInv ==
    ASSUME RenderInv, Restart
    PROVE  RenderInv'
<1> USE DEF RenderInv
<1>0. /\ UNCHANGED <<obj, uids, coord, gw, validated>>
      /\ objCache' = obj /\ coordCache' = coord /\ gwWork' = GwIdle
      /\ work' = [t \in Types |-> Idle]
  BY Zenon DEF Restart, apiVars
<1>1. Objects' /\ WorkValidated'
  BY <1>0, SMTT(30) DEF Objects, WorkValidated, Idle
<1>2. \A q \in Names : \A g, s : Saw(q, g, s)' => Saw(q, g, s)
  BY <1>0 DEF Saw, Holds
<1>3. OneSpecPerGeneration'
  BY <1>0, <1>2, NothingNewToSee, Zenon
<1> QED
  BY <1>0, <1>1, <1>3, Zenon DEF RefsValidated, OutValidated, IsValidated

\* While no name is given out twice, every step preserves the invariant.
LEMMA RenderInvariant ==
    ASSUME MaxIncarnations = 1
    PROVE  Spec => []RenderInv
<1>1. CoordInv /\ RenderInv /\ [Next]_vars => RenderInv'
  <2> SUFFICES ASSUME CoordInv, RenderInv, [Next]_vars
               PROVE  RenderInv'
    BY Zenon
  <2>1. CASE UNCHANGED vars
    <3>1. UNCHANGED <<obj, uids, objCache, work, coord, coordCache, gw, gwWork, validated>>
      BY <2>1, Zenon DEF vars, apiVars, coordVars, caches, gwVars
    <3>2. Objects' /\ OneSpecPerGeneration'
      BY <3>1 DEF RenderInv, Objects, OneSpecPerGeneration, Saw
    <3> QED
      BY <3>1, <3>2, PathUnchanged, Zenon DEF RenderInv
  <2>2. CASE Users
    BY <2>2, UsersKeepRenderInv, Zenon
  <2>3. CASE Kubernetes
    BY <2>3, KubernetesKeepsRenderInv, Zenon
  <2>4. ASSUME NEW p \in Names, Reconcile(p)
        PROVE  RenderInv'
    BY <2>4, ReconcileKeepsRenderInv, Zenon DEF CoordInv
  <2>5. ASSUME NEW t \in Types, Continue(t) \/ ValidateMisled(t) \/ UpdateStatusMisled(t)
                                \/ StepFails(t)
        PROVE  RenderInv'
    BY <2>5, ValidateKeepsRenderInv, WorkersKeepRenderInv, Zenon DEF CoordInv, Continue
  <2>6. CASE Gateway \/ GatewayFails
    BY <2>6, GatewayKeepsRenderInv, Zenon
  <2>7. ASSUME NEW p \in Names, ReconcileFails(p)
        PROVE  RenderInv'
    <3>1. UNCHANGED <<obj, uids, objCache, work, coord, coordCache, gw, gwWork, validated>>
      BY <2>7, SMTT(30) DEF ReconcileFails, ElsewhereUnchanged, apiVars, coordVars, caches, gwVars
    <3>2. Objects' /\ OneSpecPerGeneration'
      BY <3>1 DEF RenderInv, Objects, OneSpecPerGeneration, Saw
    <3> QED
      BY <3>1, <3>2, PathUnchanged, Zenon DEF RenderInv
  <2>8. CASE Restart
    BY <2>8, RestartKeepsRenderInv
  <2> QED
    BY <2>1, <2>2, <2>3, <2>4, <2>5, <2>6, <2>7, <2>8, Zenon DEF Next, Failures
<1> QED
  BY <1>1, InitRenderInv, CoordInvariant, PTL DEF Spec

\* While no name is given out twice, whatever the gateway renders was found reconcilable
\* by the controller of the pipeline in the same generation, for any pipelines and kinds
\* and whatever is stale, fails or restarts: comparing generations, as
\* fetchTracePipelines does, is enough.
THEOREM RenderedIsValidated ==
    ASSUME MaxIncarnations = 1
    PROVE  Spec => []RenderedWasValidated
<1>1. RenderInv => RenderedWasValidated
  BY Zenon DEF RenderInv, OutValidated, IsValidated, RenderedWasValidated
<1> QED
  BY <1>1, RenderInvariant, PTL

-----------------------------------------------------------------------------
(***************************************************************************)
(* What the pipeline controllers leave behind once nothing wakes them any  *)
(* more, as long as no controller is paused and no failed read of a Secret *)
(* is taken for an invalid value: a pipeline whose condition is not what   *)
(* validation says now will be reconciled again.                           *)
(***************************************************************************)

\* What validation says of a pipeline, and the reason that
\* evaluateConfigGeneratedCondition gives, from what they depend on.
Validation(p, spec, uid, version, cached) ==
    LET secretView == IF version = 0 THEN "missing" ELSE "ok"
        lockView == IF cached = {} THEN "absent"
                    ELSE IF Ref(p, uid) \in cached THEN "holder" ELSE "other"
    IN  validate(spec, secretView, lockView)

Reason(p, spec, uid, version, cached) ==
    evaluateConfigGeneratedCondition(Validation(p, spec, uid, version, cached)).reason

CurrentVerdict(p, o) == Validation(p, o.spec, o.uid, secret.version, lockCache[TypeOf[p]])
CurrentReason(p, o) == Reason(p, o.spec, o.uid, secret.version, lockCache[TypeOf[p]])

\* The worker of the pipeline's kind is at work on it, or is removing its reference.
IsHeld(p) == work[TypeOf[p]].at # "idle" /\ work[TypeOf[p]].p = p
IsForgotten(p) == IsHeld(p) /\ work[TypeOf[p]].at = "forget"

\* A cached pipeline that takes values from the Secret and waits for nothing is linked to
\* the Secret's watcher; a pipeline that is being forgotten is gone from the cache or
\* waits again; and a condition that is out of date is about to be written.
StatusComes(p) ==
    /\ objCache[p] # NoObj /\ objCache[p].spec.secret => p \in queue \/ p \in linked
    /\ IsForgotten(p) => objCache[p] = NoObj \/ p \in queue
    /\ obj[p] # NoObj =>
          \/ p \in queue \/ objCache[p] # obj[p] \/ IsHeld(p) \/ obj[p].del
          \/ obj[p].st = [gen |-> obj[p].gen, reason |-> CurrentReason(p, obj[p])]

\* Uids and generations only grow, and the cache is never ahead.
Versions ==
    \A p \in Names :
        /\ obj[p] # NoObj => obj[p].uid \in Nat /\ obj[p].uid <= uids[p] /\ obj[p].gen \in Nat
        /\ objCache[p] # NoObj =>
              objCache[p].uid \in Nat /\ objCache[p].uid <= uids[p] /\ objCache[p].gen \in Nat
        /\ obj[p] # NoObj /\ objCache[p] # NoObj /\ objCache[p].uid = obj[p].uid
              => objCache[p].gen <= obj[p].gen

\* Every kind has a lock ConfigMap, if an empty one, and a copy of it.
Locks == lock = [t \in Types |-> lock[t]] /\ lockCache = [t \in Types |-> lockCache[t]]

\* The inductive invariant.
StatusInv ==
    /\ Objects /\ Versions /\ Locks
    /\ pauses \in Nat /\ misled \in Nat
    /\ pauses = 0 => paused = {}
    /\ pauses = 0 /\ misled = 0 => \A p \in Names : StatusComes(p)

\* There is no pipeline to begin with.
LEMMA InitStatusInv == Init => StatusInv
<1> SUFFICES ASSUME Init PROVE StatusInv
  OBVIOUS
<1>1. \A p \in Names : obj[p] = NoObj /\ objCache[p] = NoObj
  BY Zenon DEF Init
<1>2. Objects /\ Versions
  BY <1>1, Zenon DEF Init, Objects, Versions
<1>3. Locks
  BY Zenon DEF Init, Locks
<1>4. \A p \in Names : StatusComes(p)
  BY <1>1, TypesAssumption, Zenon DEF Init, StatusComes, IsForgotten, IsHeld, Idle
<1> QED
  BY <1>2, <1>3, <1>4, Zenon DEF Init, StatusInv

\* What Reason stands for in the model, and that a pipeline without a Secret has the
\* same reason whatever becomes of the Secret.
LEMMA VerdictIs ==
    ASSUME NEW p, NEW o PROVE Verdict(p, o) = CurrentVerdict(p, o)
  BY Zenon DEF Verdict, SecretView, LockView, CurrentVerdict, Validation

LEMMA ReasonIs ==
    ASSUME NEW p, NEW o
    PROVE  evaluateConfigGeneratedCondition(Verdict(p, o)).reason = CurrentReason(p, o)
  BY VerdictIs, Zenon DEF CurrentVerdict, CurrentReason, Reason

LEMMA ValidationWithoutSecret ==
    ASSUME NEW p, NEW spec, NEW uid, NEW v, NEW w, NEW cached, ~spec.secret
    PROVE  Validation(p, spec, uid, v, cached) = Validation(p, spec, uid, w, cached)
<1>1. \A a, b : SecretRefValidator(spec, a) = SecretRefValidator(spec, b)
  <2>1. \A x, e : Check(spec.secret /\ x, e) = "nil"
    BY Zenon DEF Check
  <2> QED
    BY <2>1, Zenon DEF SecretRefValidator
<1>2. \A a, b, l : validate(spec, a, l) = validate(spec, b, l)
  BY <1>1, Zenon DEF validate
<1> QED
  BY <1>2, Zenon DEF Validation

LEMMA ReasonWithoutSecret ==
    ASSUME NEW p, NEW spec, NEW uid, NEW v, NEW w, NEW cached, ~spec.secret
    PROVE  Reason(p, spec, uid, v, cached) = Reason(p, spec, uid, w, cached)
  BY ValidationWithoutSecret, Zenon DEF Reason

\* What a step does to a pipeline on the API server and to its copy.
ObjectStep(q) ==
    /\ \/ obj'[q] \in {obj[q], NoObj} /\ uids'[q] = uids[q]
       \/ /\ obj[q] # NoObj /\ IsPipeline(obj'[q]) /\ obj'[q].uid = obj[q].uid
          /\ obj'[q].gen \in {obj[q].gen, obj[q].gen + 1} /\ uids'[q] = uids[q]
          /\ obj'[q].spec.otlp = obj[q].spec.otlp /\ (obj[q].del => obj'[q].del)
       \/ /\ IsPipeline(obj'[q]) /\ uids[q] < MaxIncarnations /\ uids'[q] = uids[q] + 1
          /\ obj'[q].uid = uids'[q] /\ obj'[q].gen = 1 /\ obj[q] = NoObj
    /\ \/ objCache'[q] = objCache[q]
       \/ objCache'[q] = obj[q] /\ obj'[q] = obj[q]

LEMMA ObjectSteps ==
    ASSUME Objects, OwnRequests, [Next]_vars
    PROVE  /\ obj' = [p \in Names |-> obj'[p]] /\ objCache' = [p \in Names |-> objCache'[p]]
           /\ uids' \in [Names -> Nat]
           /\ \A q \in Names : ObjectStep(q)
<1>0. /\ obj = [p \in Names |-> obj[p]] /\ objCache = [p \in Names |-> objCache[p]]
      /\ uids \in [Names -> Nat]
  BY Zenon DEF Objects
<1> DEFINE Goal == /\ obj' = [p \in Names |-> obj'[p]]
                   /\ objCache' = [p \in Names |-> objCache'[p]]
                   /\ uids' \in [Names -> Nat]
                   /\ \A q \in Names : ObjectStep(q)
<1> SUFFICES Goal
  BY Zenon
<1> HIDE DEF Goal
<1>1. ASSUME NEW p \in Names, NEW o, obj' = [obj EXCEPT ![p] = o], objCache' = objCache,
             uids' \in [Names -> Nat], \A q \in Names : q # p => uids'[q] = uids[q],
             \/ o = NoObj /\ uids'[p] = uids[p]
             \/ /\ obj[p] # NoObj /\ IsPipeline(o) /\ o.uid = obj[p].uid
                /\ o.gen \in {obj[p].gen, obj[p].gen + 1} /\ uids'[p] = uids[p]
                /\ o.spec.otlp = obj[p].spec.otlp /\ (obj[p].del => o.del)
             \/ /\ IsPipeline(o) /\ uids[p] < MaxIncarnations /\ uids'[p] = uids[p] + 1
                /\ o.uid = uids'[p] /\ o.gen = 1 /\ obj[p] = NoObj
      PROVE  Goal
  <2>1. \A q \in Names : obj'[q] = IF q = p THEN o ELSE obj[q]
    BY <1>0, <1>1, Zenon
  <2>2. obj' = [q \in Names |-> obj'[q]]
    BY <1>0, <1>1, Zenon
  <2> QED
    BY <1>0, <1>1, <2>1, <2>2, Zenon DEF Goal, ObjectStep
<1>2. ASSUME UNCHANGED <<obj, objCache, uids>> PROVE Goal
  BY <1>0, <1>2, Zenon DEF Goal, ObjectStep
<1>3. ASSUME NEW p \in Names, NEW spec \in Specs, CreatePipeline(p, spec) PROVE Goal
  <2> DEFINE o == [uid |-> uids'[p], gen |-> 1, del |-> FALSE, spec |-> spec, st |-> NoStatus]
  <2>1. /\ uids' = [uids EXCEPT ![p] = uids[p] + 1]
        /\ obj' = [obj EXCEPT ![p] = o]
        /\ objCache' = objCache /\ obj[p] = NoObj /\ uids[p] < MaxIncarnations
    BY <1>3, Zenon DEF CreatePipeline, UserOp, caches
  <2>2. /\ uids'[p] = uids[p] + 1 /\ uids' \in [Names -> Nat] /\ uids'[p] # 0
        /\ \A q \in Names : q # p => uids'[q] = uids[q]
    BY <1>0, <2>1
  <2>3. IsPipeline(o) /\ o.uid = uids'[p] /\ o.gen = 1
    BY <2>2, Zenon DEF IsPipeline
  <2> HIDE DEF o
  <2> QED
    BY <1>1, <2>1, <2>2, <2>3, Zenon
<1>4. ASSUME NEW p \in Names, NEW spec \in Specs, EditPipeline(p, spec) PROVE Goal
  <2> DEFINE o == [uid |-> obj[p].uid, gen |-> obj[p].gen + 1, del |-> obj[p].del,
                   spec |-> spec, st |-> obj[p].st]
  <2>1. obj[p] # NoObj /\ IsPipeline(obj[p]) /\ obj' = [obj EXCEPT ![p] = o]
    BY <1>4, EditedPipeline, Zenon
  <2>2. /\ IsPipeline(o) /\ o.uid = obj[p].uid /\ o.gen = obj[p].gen + 1 /\ o.spec = spec
        /\ o.del = obj[p].del
    BY <2>1, Zenon DEF IsPipeline
  <2>3. objCache' = objCache /\ uids' = uids /\ spec.otlp = obj[p].spec.otlp
    BY <1>4, Zenon DEF EditPipeline, UserOp, caches
  <2> HIDE DEF o
  <2> QED
    BY <1>0, <1>1, <2>1, <2>2, <2>3, Zenon
<1>5. ASSUME NEW p \in Names, DeletePipeline(p) PROVE Goal
  <2>1. objCache' = objCache /\ uids' = uids /\ obj[p] # NoObj
    BY <1>5, Zenon DEF DeletePipeline, UserOp, caches
  <2>2. CASE obj' = [obj EXCEPT ![p] = NoObj]
    BY <1>0, <1>1, <2>1, <2>2, Zenon
  <2>3. CASE obj' = [obj EXCEPT ![p].del = TRUE, ![p].gen = @ + 1]
    <3> DEFINE o == [uid |-> obj[p].uid, gen |-> obj[p].gen + 1, del |-> TRUE,
                     spec |-> obj[p].spec, st |-> obj[p].st]
    <3>1. IsPipeline(obj[p]) /\ obj' = [obj EXCEPT ![p] = o]
      BY <2>1, <2>3, MarkedPipeline, Zenon
    <3>2. /\ IsPipeline(o) /\ o.uid = obj[p].uid /\ o.gen = obj[p].gen + 1
          /\ o.spec = obj[p].spec /\ o.del
      BY <3>1, Zenon DEF IsPipeline
    <3> HIDE DEF o
    <3> QED
      BY <1>0, <1>1, <2>1, <3>1, <3>2, Zenon
  <2> QED
    BY <1>5, <2>2, <2>3, Zenon DEF DeletePipeline
<1>6. ASSUME NEW p \in Names, RemoveMarked(p) PROVE Goal
  BY <1>0, <1>1, <1>6, Zenon DEF RemoveMarked, caches
<1>7. ASSUME NEW p \in Names, SyncPipeline(p) PROVE Goal
  <2>1. objCache' = [objCache EXCEPT ![p] = obj[p]] /\ UNCHANGED <<obj, uids>>
    BY <1>7, Zenon DEF SyncPipeline, apiVars
  <2>2. /\ objCache' = [q \in Names |-> objCache'[q]]
        /\ \A q \in Names : objCache'[q] = objCache[q] \/ objCache'[q] = obj[q]
    BY <1>0, <2>1, Zenon
  <2> QED
    BY <1>0, <2>1, <2>2, Zenon DEF Goal, ObjectStep
<1>8. CASE Restart
  <2>1. objCache' = obj /\ UNCHANGED <<obj, uids>>
    BY <1>8, Zenon DEF Restart, apiVars
  <2> QED
    BY <1>0, <2>1, SMTT(30) DEF Goal, ObjectStep
<1>9. ASSUME NEW t \in Types, NEW error, updateStatus(t, error) PROVE Goal
  <2>1. PICK p \in Names : p = work[t].p
    BY <1>9 DEF updateStatus, Stage, Idle, OwnRequests, IsRequest
  <2>2. objCache' = objCache /\ uids' = uids
    BY <1>9, Zenon DEF updateStatus, caches
  <2>3. CASE obj' = obj
    BY <1>2, <2>2, <2>3, Zenon
  <2>4. CASE obj' # obj
    <3>1. PICK st : obj[p] # NoObj /\ obj' = [obj EXCEPT ![p].st = st]
      BY <1>9, <2>1, <2>4, Zenon DEF updateStatus
    <3> DEFINE o == [uid |-> obj[p].uid, gen |-> obj[p].gen, del |-> obj[p].del,
                     spec |-> obj[p].spec, st |-> st]
    <3>2. IsPipeline(obj[p]) /\ obj' = [obj EXCEPT ![p] = o]
      BY <3>1, WrittenStatus, Zenon
    <3>3. /\ IsPipeline(o) /\ o.uid = obj[p].uid /\ o.gen = obj[p].gen
          /\ o.spec = obj[p].spec /\ o.del = obj[p].del
      BY <3>2, Zenon DEF IsPipeline
    <3> HIDE DEF o
    <3>4. /\ o.gen \in {obj[p].gen, obj[p].gen + 1} /\ o.spec.otlp = obj[p].spec.otlp
          /\ obj[p].del => o.del
      BY <3>3, Zenon
    <3>5. uids' \in [Names -> Nat] /\ \A q \in Names : uids'[q] = uids[q]
      BY <1>0, <2>2, Zenon
    <3> QED
      BY <1>1, <2>2, <3>1, <3>2, <3>3, <3>4, <3>5, Zenon
  <2> QED
    BY <2>3, <2>4, Zenon
<1>10. ASSUME NEW t \in Types, UpdateStatus(t) \/ UpdateStatusMisled(t) PROVE Goal
  BY <1>9, <1>10, Zenon DEF UpdateStatus, UpdateStatusMisled
<1> QED
  BY <1>2, <1>3, <1>4, <1>5, <1>6, <1>7, <1>8, <1>10, ZenonT(30)
  DEF Next, vars, Users, UserOp, ChangeSecret, TogglePause, Kubernetes, GarbageCollect,
      SyncLock, SyncCoordination, Reconcile, ReconcilePaused, ReconcileDeleted,
      ReconcilePipeline, Continue, Validate, WriteReference, Gateway, GatewayPaused,
      GatewayBuild, GatewayApply, Failures, ReconcileFails, ValidateMisled, StepFails,
      GatewayFails, ElsewhereUnchanged, GatewayUnchanged, apiVars, caches

\* So uids and generations only grow, and the cache stays behind.
LEMMA NextVersions ==
    ASSUME Objects, Versions, OwnRequests, [Next]_vars
    PROVE  Objects' /\ Versions'
<1>1. Objects'
  BY ObjectSteps, Zenon DEF Objects, ObjectStep
<1>2. ASSUME NEW q \in Names
      PROVE  /\ obj'[q] # NoObj =>
                    obj'[q].uid \in Nat /\ obj'[q].uid <= uids'[q] /\ obj'[q].gen \in Nat
             /\ objCache'[q] # NoObj =>
                    /\ objCache'[q].uid \in Nat /\ objCache'[q].uid <= uids'[q]
                    /\ objCache'[q].gen \in Nat
             /\ obj'[q] # NoObj /\ objCache'[q] # NoObj /\ objCache'[q].uid = obj'[q].uid
                    => objCache'[q].gen <= obj'[q].gen
  BY ObjectSteps DEF Objects, Versions, ObjectStep
<1> QED
  BY <1>1, <1>2, Zenon DEF Versions

\* A pipeline in the queue has all that StatusComes asks for.
LEMMA QueuedComes ==
    ASSUME NEW q \in Names, q \in queue' PROVE StatusComes(q)'
  BY Zenon DEF StatusComes

\* So has one that a step leaves where it was, in the queue or in the worker's hands, if
\* the step changes neither it nor what validation depends on, or makes it another
\* pipeline than the one in the cache.
LEMMA KeptComes ==
    ASSUME NEW q \in Names, StatusComes(q),
           objCache'[q] = objCache[q],
           q \in queue => q \in queue', q \in linked => q \in linked',
           IsHeld(q) => IsHeld(q)', IsForgotten(q)' => IsForgotten(q),
           \/ obj'[q] = NoObj
           \/ obj'[q] # objCache[q]
           \/ obj'[q].del
           \/ /\ obj'[q] = obj[q]
              /\ lockCache'[TypeOf[q]] = lockCache[TypeOf[q]]
              /\ secret' = secret \/ ~obj[q].spec.secret
    PROVE  StatusComes(q)'
<1>1. CASE obj'[q] = NoObj \/ obj'[q] # objCache[q] \/ obj'[q].del
  BY <1>1, Zenon DEF StatusComes
<1>2. CASE /\ obj'[q] = obj[q]
           /\ lockCache'[TypeOf[q]] = lockCache[TypeOf[q]]
           /\ secret' = secret \/ ~obj[q].spec.secret
  <2>1. CurrentReason(q, obj[q])' = CurrentReason(q, obj[q])
    BY <1>2, ReasonWithoutSecret DEF CurrentReason
  <2> QED
    BY <1>2, <2>1, Zenon DEF StatusComes
<1> QED
  BY <1>1, <1>2, Zenon

\* Users change a pipeline only with its generation.
LEMMA UserEdits ==
    ASSUME Objects, Users, NEW q \in Names, obj[q] # NoObj
    PROVE  \/ obj'[q] \in {obj[q], NoObj}
           \/ obj'[q].uid = obj[q].uid /\ obj'[q].gen = obj[q].gen + 1
<1>1. ASSUME NEW p \in Names, NEW o, obj' = [obj EXCEPT ![p] = o]
      PROVE  obj'[q] = IF q = p THEN o ELSE obj[q]
  BY <1>1, Zenon DEF Objects
<1>2. ASSUME NEW p \in Names, NEW spec \in Specs, CreatePipeline(p, spec)
      PROVE  obj'[q] = obj[q]
  <2>1. PICK o : obj' = [obj EXCEPT ![p] = o]
    BY <1>2, Zenon DEF CreatePipeline
  <2> QED
    BY <1>1, <1>2, <2>1, Zenon DEF CreatePipeline
<1>3. ASSUME NEW p \in Names, NEW spec \in Specs, EditPipeline(p, spec)
      PROVE  \/ obj'[q] = obj[q]
             \/ obj'[q].uid = obj[q].uid /\ obj'[q].gen = obj[q].gen + 1
  <2> DEFINE o == [uid |-> obj[p].uid, gen |-> obj[p].gen + 1, del |-> obj[p].del,
                   spec |-> spec, st |-> obj[p].st]
  <2>1. obj' = [obj EXCEPT ![p] = o]
    BY <1>3, EditedPipeline, Zenon
  <2>2. o.uid = obj[p].uid /\ o.gen = obj[p].gen + 1
    BY Zenon
  <2> HIDE DEF o
  <2> QED
    BY <1>1, <2>1, <2>2, Zenon
<1>4. ASSUME NEW p \in Names, DeletePipeline(p)
      PROVE  \/ obj'[q] \in {obj[q], NoObj}
             \/ obj'[q].uid = obj[q].uid /\ obj'[q].gen = obj[q].gen + 1
  <2>1. CASE obj' = [obj EXCEPT ![p] = NoObj]
    BY <1>1, <2>1, Zenon
  <2>2. CASE obj' = [obj EXCEPT ![p].del = TRUE, ![p].gen = @ + 1]
    <3> DEFINE o == [uid |-> obj[p].uid, gen |-> obj[p].gen + 1, del |-> TRUE,
                     spec |-> obj[p].spec, st |-> obj[p].st]
    <3>1. obj[p] # NoObj
      BY <1>4, Zenon DEF DeletePipeline
    <3>2. obj' = [obj EXCEPT ![p] = o]
      BY <2>2, <3>1, MarkedPipeline, Zenon
    <3>3. o.uid = obj[p].uid /\ o.gen = obj[p].gen + 1
      BY Zenon
    <3> HIDE DEF o
    <3> QED
      BY <1>1, <3>2, <3>3, Zenon
  <2> QED
    BY <1>4, <2>1, <2>2, Zenon DEF DeletePipeline
<1>5. CASE obj' = obj
  BY <1>5, Zenon
<1> QED
  BY <1>2, <1>3, <1>4, <1>5, Zenon DEF Users, ChangeSecret, TogglePause, apiVars

\* So the pipeline they leave is not the one in the cache.
LEMMA UserEditsUnseen ==
    ASSUME Objects, Versions, OwnRequests, Users, Next, NEW q \in Names, obj'[q] # obj[q]
    PROVE  obj'[q] = NoObj \/ obj'[q] # objCache[q]
<1>1. CASE obj[q] = NoObj
  BY <1>1, ObjectSteps DEF ObjectStep, Versions, Objects
<1>2. CASE obj[q] # NoObj
  BY <1>2, UserEdits DEF Versions
<1> QED
  BY <1>1, <1>2, Zenon

\* What users do reaches the controllers: a changed pipeline differs from the cached one,
\* and a changed Secret puts the linked pipelines in the queue.
LEMMA UsersCome ==
    ASSUME Objects, Versions, OwnRequests, Users, Next, NEW q \in Names, StatusComes(q)
    PROVE  StatusComes(q)'
<1>1. /\ UNCHANGED <<objCache, lockCache, work, linked>>
      /\ queue \subseteq queue'
  BY Zenon
  DEF Users, UserOp, CreatePipeline, EditPipeline, DeletePipeline, ChangeSecret, TogglePause,
      caches
<1>2. (IsHeld(q) => IsHeld(q)') /\ (IsForgotten(q)' => IsForgotten(q))
  BY <1>1, Zenon DEF IsHeld, IsForgotten
<1>3. CASE ChangeSecret
  <2>1. obj' = obj /\ queue' = queue \union linked
    BY <1>3, Zenon DEF ChangeSecret
  <2>2. CASE objCache[q] # NoObj /\ objCache[q].spec.secret
    BY <2>1, <2>2, QueuedComes, Zenon DEF StatusComes
  <2>3. CASE ~(objCache[q] # NoObj /\ objCache[q].spec.secret)
    BY <1>1, <1>2, <2>1, <2>3, KeptComes, Zenon
  <2> QED
    BY <2>2, <2>3, Zenon
<1>4. CASE obj'[q] = obj[q] /\ secret' = secret
  BY <1>1, <1>2, <1>4, KeptComes, Zenon
<1>5. CASE obj'[q] # obj[q]
  <2>1. obj'[q] = NoObj \/ obj'[q] # objCache[q]
    BY <1>5, UserEditsUnseen, Zenon
  <2> QED
    BY <1>1, <1>2, <2>1, KeptComes, Zenon
<1> QED
  BY <1>3, <1>4, <1>5, Zenon
  DEF Users, CreatePipeline, EditPipeline, DeletePipeline, TogglePause, apiVars

\* A change of the lock ConfigMap puts every cached pipeline of its kind in the queue
\* (mapLockConfigMapChanges), and a change of a pipeline reaches the cache together with
\* the queue.
LEMMA KubernetesComes ==
    ASSUME Objects, Locks, Kubernetes, NEW q \in Names, StatusComes(q)
    PROVE  StatusComes(q)'
<1>1. /\ UNCHANGED <<secret, work, linked>>
      /\ queue \subseteq queue'
  BY Zenon
  DEF Kubernetes, RemoveMarked, SyncPipeline, GarbageCollect, SyncLock, SyncCoordination,
      apiVars
<1>2. (IsHeld(q) => IsHeld(q)') /\ (IsForgotten(q)' => IsForgotten(q))
  BY <1>1, Zenon DEF IsHeld, IsForgotten
<1>3. ASSUME NEW p \in Names, RemoveMarked(p) PROVE StatusComes(q)'
  <2>1. UNCHANGED <<objCache, lockCache>> /\ obj'[q] \in {obj[q], NoObj}
    BY <1>3, Zenon DEF RemoveMarked, caches, Objects
  <2> QED
    BY <1>1, <1>2, <2>1, KeptComes, Zenon
<1>4. ASSUME NEW p \in Names, SyncPipeline(p) PROVE StatusComes(q)'
  <2>1. q \in queue' \/ (objCache'[q] = objCache[q] /\ UNCHANGED <<obj, lockCache>>)
    BY <1>4, Zenon DEF SyncPipeline, apiVars, Objects
  <2> QED
    BY <1>1, <1>2, <2>1, KeptComes, QueuedComes, Zenon
<1>5. ASSUME NEW t \in Types, SyncLock(t) PROVE StatusComes(q)'
  <2>1. UNCHANGED <<obj, objCache>> /\ lockCache' = [lockCache EXCEPT ![t] = lock[t]]
    BY <1>5, Zenon DEF SyncLock, apiVars
  <2>2. CASE TypeOf[q] = t /\ objCache[q] # NoObj
    BY <1>5, <2>2, QueuedComes, Zenon DEF SyncLock, Listed
  <2>3. CASE objCache[q] = NoObj
    BY <1>1, <1>2, <2>1, <2>3, KeptComes, Zenon
  <2>4. CASE TypeOf[q] # t
    <3>1. lockCache'[TypeOf[q]] = lockCache[TypeOf[q]]
      BY <2>1, <2>4, TypesAssumption, Zenon DEF Locks
    <3> QED
      BY <1>1, <1>2, <2>1, <3>1, KeptComes, Zenon
  <2> QED
    BY <2>2, <2>3, <2>4, Zenon
<1>6. CASE UNCHANGED <<obj, objCache, lockCache>>
  BY <1>1, <1>2, <1>6, KeptComes, Zenon
<1> QED
  BY <1>3, <1>4, <1>5, <1>6, Zenon
  DEF Kubernetes, GarbageCollect, SyncCoordination, apiVars, caches

\* A pipeline taken from the queue is in the worker's hands; the others wait on.
LEMMA ReconcileComes ==
    ASSUME OwnRequests, paused = {}, NEW p \in Names, Reconcile(p), NEW q \in Names, StatusComes(q)
    PROVE  StatusComes(q)'
<1>1. /\ UNCHANGED <<obj, secret, objCache, lockCache>>
      /\ work[TypeOf[p]].at = "idle" /\ queue' = queue \ {p}
  BY Zenon
  DEF Reconcile, ReconcilePaused, ReconcileDeleted, ReconcilePipeline, Started, Stage,
      ElsewhereUnchanged, apiVars, caches
<1>2. /\ linked \ {p} \subseteq linked'
      /\ objCache[p] # NoObj /\ objCache[p].spec.secret => p \in linked'
  BY Zenon DEF Reconcile, ReconcilePaused, ReconcileDeleted, ReconcilePipeline
<1>3. /\ \A t \in Types : t # TypeOf[p] => work'[t] = work[t]
      /\ work'[TypeOf[p]].p = p
      /\ work'[TypeOf[p]].at # "idle"
      /\ work'[TypeOf[p]].at = "forget" => objCache[p] = NoObj
  BY TypesAssumption
  DEF Reconcile, ReconcilePaused, ReconcileDeleted, ReconcilePipeline, Begin, OwnRequests
<1>4. CASE q = p
  BY <1>1, <1>2, <1>3, <1>4, Zenon DEF StatusComes, IsHeld, IsForgotten
<1>5. CASE q # p
  <2>1. (IsHeld(q) => IsHeld(q)') /\ (IsForgotten(q)' => IsForgotten(q))
    BY <1>1, <1>3, <1>5, TypesAssumption, Zenon DEF IsHeld, IsForgotten
  <2> QED
    BY <1>1, <1>2, <1>5, <2>1, KeptComes, Zenon
<1> QED
  BY <1>4, <1>5, Zenon

\* A worker that goes on to another stage keeps its pipeline in its hands; one that ends
\* leaves it in the queue, gone from the cache or with the current condition.
LEMMA WorkersCome ==
    ASSUME Objects, OwnRequests, NEW t \in Types, Continue(t) \/ StepFails(t),
           NEW q \in Names, StatusComes(q)
    PROVE  StatusComes(q)'
<1>1. /\ UNCHANGED <<secret, objCache, lockCache, linked>>
      /\ queue \subseteq queue'
      /\ work[t].at # "idle" /\ work[t].p \in Names /\ TypeOf[work[t].p] = t
  <2>1. UNCHANGED <<secret, objCache, lockCache, linked>> /\ work[t].at # "idle"
    BY Zenon
    DEF Continue, Validate, WriteReference, UpdateStatus, updateStatus, StepFails, Stage,
        ElsewhereUnchanged, apiVars, caches
  <2>2. queue' = queue \/ \E retry : Done(t, retry)
    BY Zenon DEF Continue, Validate, WriteReference, UpdateStatus, updateStatus, StepFails
  <2>3. queue \subseteq queue'
    BY <2>2, Zenon DEF Done
  <2> QED
    BY <2>1, <2>3 DEF Idle, OwnRequests, IsRequest
<1>2. PICK p \in Names : p = work[t].p
  BY <1>1, Zenon
<1>3. \A u \in Types : u # t => work'[u] = work[u]
  <2>1. \E w : work' = [work EXCEPT ![t] = w]
    BY Zenon
    DEF Continue, Validate, WriteReference, UpdateStatus, updateStatus, StepFails, Goto, Done
  <2> QED
    BY <2>1, Zenon DEF OwnRequests
<1>4. obj' = obj \/ \E st : obj' = [obj EXCEPT ![p].st = st]
  BY <1>2, Zenon
  DEF Continue, Validate, WriteReference, UpdateStatus, updateStatus, StepFails,
      ElsewhereUnchanged, apiVars
<1>5. CASE q # p
  <2>1. obj'[q] = obj[q]
    BY <1>4, <1>5, Zenon DEF Objects
  <2>2. IsHeld(q) => IsHeld(q)'
    BY <1>1, <1>2, <1>3, <1>5, TypesAssumption, Zenon DEF IsHeld
  <2>3. IsForgotten(q)' => IsForgotten(q)
    <3>1. CASE TypeOf[q] # t
      BY <1>3, <3>1, TypesAssumption, Zenon DEF IsForgotten, IsHeld
    <3>2. CASE TypeOf[q] = t
      <4>1. work'[t].at = "idle" \/ work'[t].p = p
        BY <1>2
        DEF Continue, Validate, WriteReference, UpdateStatus, updateStatus, StepFails, Goto, Done,
            OwnRequests, Idle
      <4> QED
        BY <1>5, <3>2, <4>1, Zenon DEF IsForgotten, IsHeld
    <3> QED
      BY <3>1, <3>2, Zenon
  <2> QED
    BY <1>1, <2>1, <2>2, <2>3, KeptComes, Zenon
<1>6. CASE q = p
  <2>1. CASE \E stage, err : Goto(t, stage, err) /\ stage \notin {"idle", "forget"} /\ obj' = obj
    <3>1. work'[t].at \notin {"idle", "forget"} /\ work'[t].p = p
      BY <1>2, <2>1, SMTT(30) DEF Goto, OwnRequests
    <3>2. IsHeld(q)' /\ ~IsForgotten(q)'
      BY <1>1, <1>2, <1>6, <3>1, Zenon DEF IsHeld, IsForgotten
    <3> QED
      BY <1>1, <2>1, <3>2, KeptComes, Zenon
  <2>2. CASE Done(t, TRUE)
    BY <1>2, <1>6, <2>2, QueuedComes, Zenon DEF Done
  <2>3. CASE Done(t, FALSE) /\ work[t].at = "forget" /\ obj' = obj
    <3>1. objCache[q] = NoObj \/ q \in queue
      BY <1>1, <1>2, <1>6, <2>3, Zenon DEF StatusComes, IsForgotten, IsHeld
    <3>2. ~IsForgotten(q)'
      BY <1>1, <1>2, <1>6, <2>3, Zenon DEF IsForgotten, IsHeld, Done, OwnRequests, Idle
    <3> QED
      BY <1>1, <2>3, <3>1, <3>2, SMTT(30) DEF StatusComes
  <2>4. CASE Done(t, FALSE) /\ UpdateStatus(t)
    <3>1. ~IsForgotten(q)'
      BY <1>1, <1>2, <1>6, <2>4, Zenon DEF IsForgotten, IsHeld, Done, OwnRequests, Idle
    <3> DEFINE o == objCache[q]
               st == [gen |-> o.gen, reason |-> CurrentReason(q, o)]
               skipped == o = NoObj \/ o.del
    <3>2. /\ obj' = IF ~skipped /\ o = obj[q] THEN [obj EXCEPT ![q].st = st] ELSE obj
          /\ Done(t, work[t].err \/ (~skipped /\ o # obj[q]))
      BY <1>2, <1>6, <2>4, ReasonIs, Zenon DEF UpdateStatus, updateStatus
    <3>3. CASE skipped
      BY <1>1, <3>1, <3>2, <3>3, Zenon DEF StatusComes
    <3>4. CASE ~skipped /\ o # obj[q]
      BY <1>2, <1>6, <3>2, <3>4, QueuedComes, SMTT(30) DEF Done
    <3>5. CASE ~skipped /\ o = obj[q]
      <4>1. obj' = [obj EXCEPT ![q].st = st]
        BY <3>2, <3>5, Zenon
      <4>2. PICK new : new = [uid |-> obj[q].uid, gen |-> obj[q].gen, del |-> obj[q].del,
                              spec |-> obj[q].spec, st |-> st]
        BY Zenon
      <4>3. obj' = [obj EXCEPT ![q] = new]
        BY <3>5, <4>1, <4>2, WrittenStatus, Zenon
      <4>4. obj'[q] = new
        BY <4>3, SMTT(30) DEF Objects
      <4>5. new.uid = obj[q].uid /\ new.gen = obj[q].gen /\ new.spec = obj[q].spec /\ new.st = st
        BY <4>2, Zenon
      <4>6. CurrentReason(q, obj[q])' = CurrentReason(q, o)
        BY <1>1, <3>5, <4>4, <4>5, ZenonT(30) DEF CurrentReason
      <4> QED
        BY <1>1, <3>1, <3>5, <4>4, <4>5, <4>6, Zenon DEF StatusComes
    <3> QED
      BY <3>3, <3>4, <3>5, Zenon
  <2> QED
    BY <2>1, <2>2, <2>3, <2>4, Zenon
    DEF Continue, Validate, WriteReference, UpdateStatus, updateStatus, StepFails, Stage,
        ElsewhereUnchanged, apiVars
<1> QED
  BY <1>5, <1>6, Zenon

\* The gateway's controller and failed reads leave the pipelines where they are, and a
\* restart puts every pipeline there is in the queue.
LEMMA GatewayComes ==
    ASSUME Gateway \/ GatewayFails \/ (\E p \in Names : ReconcileFails(p)),
           NEW q \in Names, StatusComes(q)
    PROVE  StatusComes(q)'
<1>1. /\ UNCHANGED <<obj, secret, objCache, lockCache, work, linked>>
      /\ queue \subseteq queue'
  BY Zenon
  DEF Gateway, GatewayPaused, GatewayBuild, GatewayApply, DaemonSetEvents, GatewayFails,
      ReconcileFails, GatewayUnchanged, ElsewhereUnchanged, apiVars, caches
<1>2. (IsHeld(q) => IsHeld(q)') /\ (IsForgotten(q)' => IsForgotten(q))
  BY <1>1, Zenon DEF IsHeld, IsForgotten
<1> QED
  BY <1>1, <1>2, KeptComes, SMTT(30)

LEMMA RestartComes ==
    ASSUME Restart, NEW q \in Names
    PROVE  StatusComes(q)'
<1>1. CASE obj[q] # NoObj
  BY <1>1, QueuedComes, Zenon DEF Restart
<1>2. CASE obj[q] = NoObj
  BY <1>2, TypesAssumption, Zenon DEF Restart, apiVars, StatusComes, IsForgotten, IsHeld, Idle
<1> QED
  BY <1>1, <1>2, Zenon

\* Writes of a lock ConfigMap and of its copies are for a kind that has them.
LEMMA NextLocks ==
    ASSUME Locks, [Next]_vars PROVE Locks'
<1>1. CASE \E p \in Names : ReconcilePipeline(p)
  BY <1>1, Zenon DEF ReconcilePipeline, ElsewhereUnchanged, lockVars, caches, Locks
<1>2. ASSUME NEW t \in Types, GarbageCollect(t) \/ SyncLock(t) PROVE Locks'
  BY <1>2, Zenon DEF GarbageCollect, SyncLock, caches, Locks
<1>3. CASE Restart
  BY <1>3, Zenon DEF Restart, Locks
<1>4. CASE UNCHANGED <<lock, lockCache>>
  BY <1>4, Zenon DEF Locks
<1> QED
  BY <1>1, <1>2, <1>3, <1>4, ZenonT(30)
  DEF Next, vars, Users, UserOp, CreatePipeline, EditPipeline, DeletePipeline, ChangeSecret,
      TogglePause, Kubernetes, RemoveMarked, SyncPipeline, SyncCoordination, Reconcile,
      ReconcilePaused, ReconcileDeleted, Continue, Validate, WriteReference, UpdateStatus,
      updateStatus, Gateway, GatewayPaused, GatewayBuild, GatewayApply, Failures,
      ReconcileFails, ValidateMisled, UpdateStatusMisled, StepFails, GatewayFails,
      ElsewhereUnchanged, GatewayUnchanged, lockVars, caches

\* Pauses and misled reads are counted, and only a counted pause pauses a controller.
LEMMA NextCounts ==
    ASSUME pauses \in Nat, misled \in Nat, pauses = 0 => paused = {}, [Next]_vars
    PROVE  /\ pauses' \in Nat /\ misled' \in Nat
           /\ pauses' = 0 => pauses = 0 /\ paused' = {}
           /\ misled' = 0 => misled = 0
<1>1. ASSUME NEW c, TogglePause(c)
      PROVE  pauses' = pauses + 1 /\ misled' = misled
  BY <1>1, Zenon DEF TogglePause
<1>2. CASE UNCHANGED <<pauses, paused>> /\ misled' \in {misled, misled + 1}
  BY <1>2
<1>3. \/ UNCHANGED <<pauses, paused>> /\ misled' \in {misled, misled + 1}
      \/ \E c : TogglePause(c)
  BY ZenonT(60)
  DEF Next, vars, Users, UserOp, CreatePipeline, EditPipeline, DeletePipeline, ChangeSecret,
      Kubernetes, RemoveMarked, SyncPipeline, GarbageCollect, SyncLock, SyncCoordination,
      Reconcile, ReconcilePaused, ReconcileDeleted, ReconcilePipeline, Continue, Validate,
      WriteReference, UpdateStatus, updateStatus, Gateway, GatewayPaused, GatewayBuild,
      GatewayApply, Failures, ReconcileFails, ValidateMisled, UpdateStatusMisled, StepFails,
      GatewayFails, Restart, ElsewhereUnchanged, GatewayUnchanged, budgets
<1> QED
  BY <1>1, <1>2, <1>3

\* Every step preserves the invariant.
LEMMA NextStatusInv ==
    ASSUME StatusInv, OwnRequests, [Next]_vars
    PROVE  StatusInv'
<1>1. Objects' /\ Versions' /\ Locks'
  BY NextVersions, NextLocks, Zenon DEF StatusInv
<1>2. /\ pauses' \in Nat /\ misled' \in Nat
      /\ pauses' = 0 => pauses = 0 /\ paused' = {}
      /\ misled' = 0 => misled = 0
  BY NextCounts, Zenon DEF StatusInv
<1>3. ASSUME pauses' = 0, misled' = 0, NEW q \in Names
      PROVE  StatusComes(q)'
  <2>1. Objects /\ Versions /\ Locks /\ paused = {} /\ StatusComes(q)
    BY <1>2, <1>3, Zenon DEF StatusInv
  <2>2. CASE UNCHANGED vars
    <3>1. UNCHANGED <<obj, secret, objCache, lockCache, work, linked, queue>>
      BY <2>2, Zenon DEF vars, apiVars, caches
    <3>2. (IsHeld(q) => IsHeld(q)') /\ (IsForgotten(q)' => IsForgotten(q))
      BY <3>1, Zenon DEF IsHeld, IsForgotten
    <3> QED
      BY <2>1, <3>1, <3>2, KeptComes, Zenon
  <2>3. CASE Users /\ Next
    BY <2>1, <2>3, UsersCome, Zenon
  <2>4. CASE Kubernetes
    BY <2>1, <2>4, KubernetesComes, Zenon
  <2>5. CASE \E p \in Names : Reconcile(p)
    BY <2>1, <2>5, ReconcileComes, Zenon
  <2>6. CASE \E t \in Types : Continue(t) \/ StepFails(t)
    BY <2>1, <2>6, WorkersCome, Zenon
  <2>7. CASE Gateway \/ GatewayFails \/ (\E p \in Names : ReconcileFails(p))
    BY <2>1, <2>7, GatewayComes, Zenon
  <2>8. CASE Restart
    BY <2>8, RestartComes, Zenon
  <2>9. \A t \in Types : ~ValidateMisled(t) /\ ~UpdateStatusMisled(t)
    BY <1>2, <1>3 DEF ValidateMisled, UpdateStatusMisled
  <2> QED
    BY <2>2, <2>3, <2>4, <2>5, <2>6, <2>7, <2>8, <2>9, Zenon DEF Next, Failures
<1> QED
  BY <1>1, <1>2, <1>3, Zenon DEF StatusInv

\* When the controllers are at rest, every pipeline's ConfigurationGenerated condition is
\* about its current generation and says what validation says of it now (updateStatus),
\* however often names are reused, calls fail and the manager restarts, and whatever
\* pipelines compete for the slots.  Only two things can leave an outdated condition: a
\* pause, which drops requests, and a failed read of a Secret that was taken for an invalid
\* value.
THEOREM StatusIsCurrentAtRest ==
    Spec => [](pauses = 0 /\ misled = 0 => RestingStatusIsCurrent)
<1>1. StatusInv => (pauses = 0 /\ misled = 0 => RestingStatusIsCurrent)
  <2> SUFFICES ASSUME StatusInv, pauses = 0, misled = 0, AtRest, NEW p \in Names, obj[p] # NoObj
               PROVE  obj[p].st = [gen |-> obj[p].gen,
                                   reason |-> evaluateConfigGeneratedCondition(
                                                  Verdict(p, obj[p])).reason]
    BY Zenon DEF RestingStatusIsCurrent
  <2>1. /\ queue = {} /\ objCache = obj /\ ~obj[p].del
        /\ work[TypeOf[p]] = Idle
    BY TypesAssumption, Zenon DEF AtRest, PipelinesAtRest
  <2>2. ~IsHeld(p)
    BY <2>1 DEF IsHeld, Idle
  <2>3. StatusComes(p)
    BY Zenon DEF StatusInv
  <2>4. obj[p].st = [gen |-> obj[p].gen, reason |-> CurrentReason(p, obj[p])]
    BY <2>1, <2>2, <2>3, Zenon DEF StatusComes
  <2> QED
    BY <2>4, ReasonIs, Zenon
<1>2. StatusInv /\ OwnRequests /\ [Next]_vars => StatusInv'
  BY NextStatusInv, Zenon
<1>3. Spec => []OwnRequests
  BY CoordInvariant, PTL DEF CoordInv
<1> QED
  BY <1>1, <1>2, <1>3, InitStatusInv, PTL DEF Spec

=============================================================================
