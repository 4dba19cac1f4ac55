---------------------------- MODULE SharedProofs ----------------------------
(***************************************************************************)
(* Proofs about what the reconcilers share and what the manager starts     *)
(* with.  The pipeline lock: its type invariant, the limit on its owners,  *)
(* and that it implements PipelineSlots, for every set of names and        *)
(* workers and every limit.  The storage migration never drops a version   *)
(* too early, for any number of CRDs, objects, other writers and restarts. *)
(* The node size tracker is right once every handler is done, for any      *)
(* number of controllers and nodes.                                        *)
(***************************************************************************)
EXTENDS ResourceLock, StorageMigration, NodeSize, FiniteSetTheorems, WellFoundedInduction, TLAPS

-----------------------------------------------------------------------------
(***************************************************************************)
(* The pipeline lock.                                                      *)
(***************************************************************************)

(* The resource version at work: a copy that is current agrees with the server. *)
(* That is why an update that is accepted adds one owner to the owners the      *)
(* server has, and not to the ones it had when the cache was filled.            *)
CurrentCopies ==
    /\ current => lockCache = lock
    /\ \A w \in Workers : call[w] # NoCall =>
          /\ call[w].op = "create" => call[w].owners = {call[w].ref}
          /\ call[w].op = "update" /\ call[w].current =>
                /\ call[w].owners = SetOwnerReference(call[w].ref, lock)
                /\ MayAddOwner(lock)

LimitInv ==
    /\ TypeOK
    /\ CurrentCopies
    /\ IsFiniteSet(lock)
    /\ AtMostMaxOwners
    /\ OneSlotPerName

-----------------------------------------------------------------------------
(* Adding an owner where TryAcquireLock allows it stays within the limit.       *)
LEMMA AddOwnerWithinLimit ==
    ASSUME NEW refs \in SUBSET OwnerRef, IsFiniteSet(refs),
           NEW ref \in OwnerRef, MayAddOwner(refs)
    PROVE  /\ IsFiniteSet(SetOwnerReference(ref, refs))
           /\ WithinLimit(SetOwnerReference(ref, refs))
<1> DEFINE others == {r \in refs : r.name # ref.name}
<1>1. others \in SUBSET refs
  BY Zenon
<1>2. IsFiniteSet(others) /\ Cardinality(others) <= Cardinality(refs)
  BY <1>1, FS_Subset, Zenon
<1>3. /\ Cardinality(refs) \in Nat
      /\ Cardinality(others) \in Nat
  BY <1>2, FS_CardinalityType, Zenon
<1>4. /\ IsFiniteSet(others \cup {ref})
      /\ Cardinality(others \cup {ref}) \in {Cardinality(others), Cardinality(others) + 1}
  BY <1>2, FS_AddElement, Zenon
<1>5. Cardinality(others \cup {ref}) \in Nat
  BY <1>4, FS_CardinalityType, Zenon
<1>6. SetOwnerReference(ref, refs) = others \cup {ref}
  BY Zenon DEF SetOwnerReference
<1> HIDE DEF others
<1> QED
  BY <1>2, <1>3, <1>4, <1>5, <1>6, MaxOwnersAssumption
     DEF MayAddOwner, canAddOwner, WithinLimit, Unlimited

(* A lock that createLock makes has one owner, which every limit allows.        *)
LEMMA FirstOwnerWithinLimit ==
    ASSUME NEW ref \in OwnerRef
    PROVE  IsFiniteSet({ref}) /\ WithinLimit({ref})
<1>1. IsFiniteSet({ref}) /\ Cardinality({ref}) = 1
  BY FS_Singleton, Zenon
<1> QED
  BY <1>1, MaxOwnersAssumption DEF WithinLimit, Unlimited

(* Dropping references, as the garbage collector does, stays within the limit.  *)
LEMMA FewerOwnersWithinLimit ==
    ASSUME NEW refs, IsFiniteSet(refs), WithinLimit(refs), NEW gone
    PROVE  IsFiniteSet(refs \ gone) /\ WithinLimit(refs \ gone)
<1>1. IsFiniteSet(refs \ gone) /\ Cardinality(refs \ gone) <= Cardinality(refs)
  BY FS_Subset, Zenon
<1>2. Cardinality(refs) \in Nat /\ Cardinality(refs \ gone) \in Nat
  BY <1>1, FS_CardinalityType, Zenon
<1> QED
  BY <1>1, <1>2, MaxOwnersAssumption DEF WithinLimit, Unlimited

(* Marking the calls in flight as outdated keeps all else about them.           *)
LEMMA OutdatedCalls ==
    ASSUME NEW calls \in [Workers -> PendingWrite \union {NoCall}]
    PROVE  /\ Outdated(calls) \in [Workers -> PendingWrite \union {NoCall}]
           /\ \A w \in Workers : (Outdated(calls)[w] = NoCall) <=> (calls[w] = NoCall)
           /\ \A w \in Workers : calls[w] # NoCall =>
                 /\ Outdated(calls)[w].op = calls[w].op
                 /\ Outdated(calls)[w].ref = calls[w].ref
                 /\ Outdated(calls)[w].owners = calls[w].owners
                 /\ Outdated(calls)[w].current = FALSE
<1>1. \A w \in Workers : calls[w] # NoCall =>
         /\ calls[w] \in PendingWrite
         /\ [calls[w] EXCEPT !.current = FALSE] \in PendingWrite
  BY Zenon DEF PendingWrite
<1>2. \A c \in PendingWrite : c # NoCall
  BY DEF PendingWrite, NoCall
<1> QED
  BY <1>1, <1>2, Zenon DEF Outdated, PendingWrite

-----------------------------------------------------------------------------
(* A cluster with no pipelines and no lock ConfigMap satisfies LimitInv.        *)
LEMMA InitLimitInv == Init => LimitInv
<1> SUFFICES ASSUME Init PROVE LimitInv
  BY Zenon
<1>1. TypeOK
  BY Zenon DEF Init, TypeOK, Absent
<1>2. CurrentCopies
  BY Zenon DEF Init, CurrentCopies
<1>3. IsFiniteSet(lock) /\ Cardinality(lock) = 0
  BY FS_EmptySet, Zenon DEF Init, Absent
<1>4. AtMostMaxOwners /\ OneSlotPerName
  BY <1>3, MaxOwnersAssumption
     DEF Init, Absent, AtMostMaxOwners, OneSlotPerName, WithinLimit, Unlimited
<1> QED
  BY <1>1, <1>2, <1>3, <1>4, Zenon DEF LimitInv

(* What TryAcquireLock decides to send is well formed, and is one owner more    *)
(* than the copy it was decided from.                                           *)
LEMMA DecideCall ==
    ASSUME TypeOK, NEW n \in Names, pipelineCache[n] # 0
    PROVE  LET c == Decide(Ref(n, pipelineCache[n])) IN
           c # NoCall =>
              /\ c \in PendingWrite
              /\ c.ref = Ref(n, pipelineCache[n])
              /\ c.op = "create" => c.owners = {c.ref}
              /\ c.op = "update" => /\ c.owners = SetOwnerReference(c.ref, lockCache)
                                    /\ MayAddOwner(lockCache)
              /\ c.current = current
<1>1. Ref(n, pipelineCache[n]) \in OwnerRef
  BY Zenon DEF TypeOK, OwnerRef, Ref
<1>2. SetOwnerReference(Ref(n, pipelineCache[n]), lockCache) \in SUBSET OwnerRef
  BY <1>1, Zenon DEF TypeOK, SetOwnerReference
<1> QED
  BY <1>1, <1>2, Zenon DEF Decide, PendingWrite, NoCall, TypeOK

(* Every step keeps LimitInv.  Only the garbage collector and an accepted write *)
(* change the ConfigMap, and both outdate every copy of it.                     *)
LEMMA NextLimitInv == LimitInv /\ [Next]_vars => LimitInv'
<1> SUFFICES ASSUME LimitInv, [Next]_vars PROVE LimitInv'
  BY Zenon
<1> USE DEF LimitInv
<1>1. ASSUME NEW n \in Names, CreatePipeline(n) PROVE LimitInv'
  BY <1>1 DEF CreatePipeline, TypeOK, CurrentCopies, AtMostMaxOwners, OneSlotPerName
<1>2. ASSUME NEW n \in Names, DeletePipeline(n) PROVE LimitInv'
  BY <1>2, Zenon DEF DeletePipeline, TypeOK, CurrentCopies, AtMostMaxOwners, OneSlotPerName
<1>3. ASSUME NEW n \in Names, SyncPipeline(n) PROVE LimitInv'
  BY <1>3, Zenon DEF SyncPipeline, TypeOK, CurrentCopies, AtMostMaxOwners, OneSlotPerName
<1>4. CASE GarbageCollect
  <2>1. PICK gone \in SUBSET lock : lock' = lock \ gone
    BY <1>4, Zenon DEF GarbageCollect
  <2>2. /\ call' = Outdated(call)
        /\ call \in [Workers -> PendingWrite \union {NoCall}]
    BY <1>4, Zenon DEF GarbageCollect, TypeOK
  <2>3. TypeOK'
    BY <1>4, <2>1, <2>2, OutdatedCalls, Zenon DEF GarbageCollect, TypeOK
  <2>4. CurrentCopies'
    <3>1. current' = FALSE
      BY <1>4, Zenon DEF GarbageCollect
    <3>2. \A v \in Workers : call'[v] # NoCall =>
             /\ call[v] # NoCall
             /\ call'[v].op = call[v].op
             /\ call'[v].ref = call[v].ref
             /\ call'[v].owners = call[v].owners
             /\ call'[v].current = FALSE
      BY <2>2, OutdatedCalls, Zenon
    <3> QED
      BY <3>1, <3>2, Zenon DEF CurrentCopies
  <2>5. IsFiniteSet(lock') /\ WithinLimit(lock')
    BY <2>1, FewerOwnersWithinLimit, Zenon DEF AtMostMaxOwners
  <2>6. OneSlotPerName'
    BY <2>1, Zenon DEF OneSlotPerName
  <2> QED
    BY <2>3, <2>4, <2>5, <2>6, Zenon DEF AtMostMaxOwners, WithinLimit
<1>5. CASE SyncLock
  BY <1>5, Zenon
  DEF SyncLock, enqueueAllPipelines, TypeOK, CurrentCopies, AtMostMaxOwners, OneSlotPerName
<1>6. ASSUME NEW w \in Workers, NEW n \in Names, TryAcquireLock(w, n) PROVE LimitInv'
  <2>1. PICK c : /\ call' = [call EXCEPT ![w] = c]
                 /\ \/ c = NoCall
                    \/ pipelineCache[n] # 0 /\ c = Decide(Ref(n, pipelineCache[n]))
    BY <1>6, Zenon DEF TryAcquireLock
  <2>2. c # NoCall =>
           /\ c \in PendingWrite
           /\ c.op = "create" => c.owners = {c.ref}
           /\ c.op = "update" => /\ c.owners = SetOwnerReference(c.ref, lockCache)
                                 /\ MayAddOwner(lockCache)
           /\ c.current = current
    BY <2>1, DecideCall, Zenon
  <2>3. TypeOK'
    BY <1>6, <2>1, <2>2, Zenon DEF TryAcquireLock, TypeOK
  <2>4. CurrentCopies'
    <3>1. lock' = lock /\ lockCache' = lockCache /\ current' = current
      BY <1>6, Zenon DEF TryAcquireLock
    <3>2. \A v \in Workers : call'[v] = IF v = w THEN c ELSE call[v]
      BY <2>1, Zenon DEF TypeOK
    <3> QED
      BY <2>2, <3>1, <3>2, Zenon DEF CurrentCopies
  <2> QED
    BY <1>6, <2>3, <2>4, Zenon DEF TryAcquireLock, AtMostMaxOwners, OneSlotPerName
<1>7. ASSUME NEW w \in Workers, WriteLock(w), Accepted(call[w]) PROVE LimitInv'
  <2> DEFINE c == call[w]
             calls == [call EXCEPT ![w] = NoCall]
  <2>1. c \in PendingWrite /\ c # NoCall
    BY <1>7, Zenon DEF WriteLock, Idle, TypeOK
  <2>2. /\ lock' = c.owners
        /\ current' = FALSE
        /\ call' = Outdated(calls)
        /\ calls \in [Workers -> PendingWrite \union {NoCall}]
        /\ \A v \in Workers : calls[v] = IF v = w THEN NoCall ELSE call[v]
    BY <1>7, Zenon DEF WriteLock, TypeOK
  <2>3. c.ref \in OwnerRef
    BY <2>1, Zenon DEF PendingWrite
  <2>4. \/ c.owners = {c.ref}
        \/ c.owners = SetOwnerReference(c.ref, lock) /\ MayAddOwner(lock)
    BY <1>7, <2>1, Zenon DEF CurrentCopies, Accepted, PendingWrite
  <2>5. lock \in SUBSET OwnerRef
    BY Zenon DEF TypeOK
  <2> HIDE DEF c, calls
  <2>6. IsFiniteSet(lock') /\ WithinLimit(lock')
    BY <2>2, <2>3, <2>4, <2>5, FirstOwnerWithinLimit, AddOwnerWithinLimit, Zenon
  <2>7. OneSlotPerName'
    BY <2>2, <2>4, Zenon DEF OneSlotPerName, SetOwnerReference
  <2>8. TypeOK'
    <3>1. c.owners \in SUBSET OwnerRef
      BY <2>1, Zenon DEF PendingWrite
    <3>2. call' \in [Workers -> PendingWrite \union {NoCall}]
      BY <2>2, OutdatedCalls, Zenon
    <3> QED
      BY <1>7, <2>2, <3>1, <3>2, Zenon DEF WriteLock, TypeOK
  <2>9. CurrentCopies'
    <3>1. \A v \in Workers : call'[v] # NoCall =>
             /\ calls[v] # NoCall
             /\ call'[v].op = calls[v].op
             /\ call'[v].ref = calls[v].ref
             /\ call'[v].owners = calls[v].owners
             /\ call'[v].current = FALSE
      BY <2>2, OutdatedCalls, Zenon
    <3>2. \A v \in Workers : calls[v] # NoCall => calls[v] = call[v]
      BY <2>2, Zenon
    <3> QED
      BY <2>2, <3>1, <3>2 DEF CurrentCopies
  <2> QED
    BY <2>6, <2>7, <2>8, <2>9, Zenon DEF AtMostMaxOwners, WithinLimit
<1>8. ASSUME NEW w \in Workers,
             (WriteLock(w) /\ ~Accepted(call[w])) \/ WriteFails(w)
      PROVE  LimitInv'
  <2>1. /\ call' = [call EXCEPT ![w] = NoCall]
        /\ call[w] \in PendingWrite
        /\ queue' = queue \union {call[w].ref.name}
        /\ faults' \in Nat
        /\ UNCHANGED <<pipelines, incarnations, lock, pipelineCache, lockCache, current>>
    BY <1>8 DEF WriteLock, WriteFails, Idle, TypeOK
  <2>2. call[w].ref.name \in Names
    BY <2>1, Zenon DEF PendingWrite, OwnerRef
  <2>3. TypeOK'
    BY <2>1, <2>2, Zenon DEF TypeOK
  <2>4. CurrentCopies'
    BY <2>1, Zenon DEF CurrentCopies, TypeOK
  <2> QED
    BY <2>1, <2>3, <2>4, Zenon DEF AtMostMaxOwners, OneSlotPerName
<1>9. CASE Restart
  BY <1>9 DEF Restart, TypeOK, CurrentCopies, AtMostMaxOwners, OneSlotPerName
<1>10. CASE UNCHANGED vars
  BY <1>10, Zenon DEF vars, TypeOK, CurrentCopies, AtMostMaxOwners, OneSlotPerName
<1> QED
  BY <1>1, <1>2, <1>3, <1>4, <1>5, <1>6, <1>7, <1>8, <1>9, <1>10, Zenon DEF Next

(* LimitInv holds in every reachable state of a lock.                           *)
THEOREM LimitInvariant == Spec => []LimitInv
<1> QED
  BY InitLimitInv, NextLimitInv, PTL DEF Spec

(* The types are right for every set of names and workers.                      *)
THEOREM TypeCorrect == Spec => []TypeOK
<1>1. LimitInv => TypeOK
  BY Zenon DEF LimitInv
<1> QED
  BY <1>1, LimitInvariant, PTL

(* The pipeline limit: the lock ConfigMap of lock.go never has more owner       *)
(* references than maxOwners, for any number of pipelines, workers and faults.  *)
THEOREM LimitHolds == Spec => []AtMostMaxOwners
<1>1. LimitInv => AtMostMaxOwners
  BY Zenon DEF LimitInv
<1> QED
  BY <1>1, LimitInvariant, PTL

(* A name never has two slots, even while its recreated object replaces the     *)
(* reference of its predecessor.                                                *)
THEOREM OneSlotPerNameHolds == Spec => []OneSlotPerName
<1>1. LimitInv => OneSlotPerName
  BY Zenon DEF LimitInv
<1> QED
  BY <1>1, LimitInvariant, PTL
-----------------------------------------------------------------------------
(* A slot is never taken from a live pipeline.  The danger is                    *)
(* SetOwnerReference, which replaces a reference by name alone: a worker acting  *)
(* for an old incarnation would evict the new one.  It never does, because the   *)
(* cache a worker reads never goes back and one name is in one worker's hands.   *)
Seen(ref) ==
    /\ ref.uid <= incarnations[ref.name]
    /\ pipelineCache[ref.name] # 0 => ref.uid <= pipelineCache[ref.name]

NewestOfName(ref) == \A r \in lock : r.name = ref.name => r.uid <= ref.uid

UidInv ==
    /\ \A n \in Names : pipelines[n] \in {0, incarnations[n]}
    /\ \A n \in Names : pipelineCache[n] <= incarnations[n]
    /\ \A r \in lock : Seen(r)
    /\ \A w \in Workers : ~Idle(w) => Seen(call[w].ref) /\ NewestOfName(call[w].ref)
    /\ \A v, w \in Workers :
          ~Idle(v) /\ ~Idle(w) /\ call[v].ref.name = call[w].ref.name => v = w

SlotInv == LimitInv /\ UidInv

(* Every step keeps the order of uids that UidInv states.                       *)
LEMMA NextUidInv == SlotInv /\ [Next]_vars => UidInv'
<1> SUFFICES ASSUME LimitInv, UidInv, [Next]_vars PROVE UidInv'
  BY Zenon DEF SlotInv
<1>0. TypeOK /\ CurrentCopies
  BY Zenon DEF LimitInv
<1>a. \A r \in lock : r.name \in Names /\ r.uid \in Nat \ {0}
  BY <1>0, Zenon DEF TypeOK, OwnerRef
<1>b. \A w \in Workers : ~Idle(w) =>
         /\ call[w] \in PendingWrite
         /\ call[w].ref.name \in Names
         /\ call[w].ref.uid \in Nat \ {0}
  BY <1>0, Zenon DEF TypeOK, Idle, PendingWrite, OwnerRef
<1>1. ASSUME NEW n \in Names, CreatePipeline(n) PROVE UidInv'
  <2>1. /\ \A m \in Names : incarnations[m] \in Nat /\ pipelineCache[m] \in Nat
        /\ \A m \in Names : incarnations'[m] = IF m = n THEN incarnations[m] + 1
                                                        ELSE incarnations[m]
        /\ \A m \in Names : pipelines'[m] = IF m = n THEN incarnations'[m] ELSE pipelines[m]
        /\ UNCHANGED <<lock, pipelineCache, call>>
    BY <1>0, <1>1, Zenon DEF CreatePipeline, TypeOK
  <2> QED
    BY <1>a, <1>b, <2>1 DEF UidInv, Seen, NewestOfName, Idle
<1>2. ASSUME NEW n \in Names, DeletePipeline(n) PROVE UidInv'
  BY <1>0, <1>2, Zenon DEF DeletePipeline, TypeOK, UidInv, Seen, NewestOfName, Idle
<1>3. ASSUME NEW n \in Names, SyncPipeline(n) PROVE UidInv'
  <2>1. /\ \A m \in Names : /\ incarnations[m] \in Nat
                            /\ pipelineCache[m] \in Nat
                            /\ pipelines[m] \in Nat
        /\ \A m \in Names : pipelineCache'[m] = IF m = n THEN pipelines[m]
                                                         ELSE pipelineCache[m]
        /\ UNCHANGED <<pipelines, incarnations, lock, call>>
    BY <1>0, <1>3, Zenon DEF SyncPipeline, TypeOK
  <2> QED
    BY <1>a, <1>b, <2>1 DEF UidInv, Seen, NewestOfName, Idle
<1>4. CASE GarbageCollect
  <2>1. lock' \in SUBSET lock /\ UNCHANGED <<pipelines, incarnations, pipelineCache>>
    BY <1>4, Zenon DEF GarbageCollect
  <2>2. \A w \in Workers : call'[w] # NoCall =>
           call[w] # NoCall /\ call'[w].ref = call[w].ref
    BY <1>0, <1>4, OutdatedCalls, Zenon DEF GarbageCollect, TypeOK
  <2> QED
    BY <2>1, <2>2 DEF UidInv, Seen, NewestOfName, Idle
<1>5. CASE SyncLock
  BY <1>5, Zenon DEF SyncLock, UidInv, Seen, NewestOfName, Idle
<1>6. ASSUME NEW w \in Workers, NEW n \in Names, TryAcquireLock(w, n) PROVE UidInv'
  <2>1. PICK c : /\ call' = [call EXCEPT ![w] = c]
                 /\ \/ c = NoCall
                    \/ pipelineCache[n] # 0 /\ c = Decide(Ref(n, pipelineCache[n]))
    BY <1>6, Zenon DEF TryAcquireLock
  <2>2. c # NoCall => pipelineCache[n] # 0 /\ c.ref = Ref(n, pipelineCache[n])
    BY <1>0, <2>1, DecideCall, Zenon
  <2>3. /\ UNCHANGED <<pipelines, incarnations, lock, pipelineCache>>
        /\ \A v \in Workers : call'[v] = IF v = w THEN c ELSE call[v]
        /\ \A v \in Workers : ~Idle(v) => call[v].ref.name # n
    BY <1>0, <1>6, <2>1, Zenon DEF TryAcquireLock, InProcess, TypeOK
  <2>4. /\ pipelineCache[n] \in Nat /\ incarnations[n] \in Nat
        /\ pipelineCache[n] # 0 =>
              Seen(Ref(n, pipelineCache[n])) /\ NewestOfName(Ref(n, pipelineCache[n]))
    BY <1>0 DEF TypeOK, UidInv, Seen, NewestOfName, Ref
  <2> QED
    BY <2>2, <2>3, <2>4 DEF UidInv, Seen, NewestOfName, Idle, Ref
<1>7. ASSUME NEW w \in Workers, WriteLock(w), Accepted(call[w]) PROVE UidInv'
  <2> DEFINE calls == [call EXCEPT ![w] = NoCall]
  <2>1. /\ ~Idle(w)
        /\ lock' = call[w].owners
        /\ call' = Outdated(calls)
        /\ calls \in [Workers -> PendingWrite \union {NoCall}]
        /\ \A v \in Workers : calls[v] = IF v = w THEN NoCall ELSE call[v]
        /\ UNCHANGED <<pipelines, incarnations, pipelineCache>>
    BY <1>0, <1>7, Zenon DEF WriteLock, TypeOK
  <2> HIDE DEF calls
  <2>2. \A v \in Workers : call'[v] # NoCall =>
           v # w /\ call[v] # NoCall /\ call'[v].ref = call[v].ref
    <3>1. \A v \in Workers : call'[v] # NoCall =>
             calls[v] # NoCall /\ call'[v].ref = calls[v].ref
      BY <2>1, OutdatedCalls, Zenon
    <3> QED
      BY <2>1, <3>1, Zenon
  <2>3. \A r \in lock' : r = call[w].ref \/ r \in lock
    BY <1>0, <1>7, <1>b, <2>1 DEF CurrentCopies, Accepted, PendingWrite, Idle, SetOwnerReference
  <2> QED
    BY <2>1, <2>2, <2>3 DEF UidInv, Seen, NewestOfName, Idle
<1>8. ASSUME NEW w \in Workers,
             (WriteLock(w) /\ ~Accepted(call[w])) \/ WriteFails(w)
      PROVE  UidInv'
  <2>1. /\ call' = [call EXCEPT ![w] = NoCall]
        /\ UNCHANGED <<pipelines, incarnations, lock, pipelineCache>>
    BY <1>8, Zenon DEF WriteLock, WriteFails
  <2>2. \A v \in Workers : call'[v] # NoCall => call[v] # NoCall /\ call'[v] = call[v]
    BY <1>0, <2>1, Zenon DEF TypeOK
  <2> QED
    BY <2>1, <2>2 DEF UidInv, Seen, NewestOfName, Idle
<1>9. CASE Restart
  <2>1. /\ \A m \in Names : incarnations[m] \in Nat /\ pipelines[m] \in Nat
        /\ pipelineCache' = pipelines
        /\ \A w \in Workers : call'[w] = NoCall
        /\ UNCHANGED <<pipelines, incarnations, lock>>
    BY <1>0, <1>9, Zenon DEF Restart, TypeOK
  <2> QED
    BY <1>a, <2>1 DEF UidInv, Seen, NewestOfName, Idle
<1>10. CASE UNCHANGED vars
  BY <1>10, Zenon DEF vars, UidInv, Seen, NewestOfName, Idle
<1> QED
  BY <1>1, <1>2, <1>3, <1>4, <1>5, <1>6, <1>7, <1>8, <1>9, <1>10, Zenon DEF Next

(* Before the first pipeline no uid has been given out, so UidInv holds.        *)
LEMMA InitSlotInv == Init => SlotInv
<1> SUFFICES ASSUME Init PROVE SlotInv
  OBVIOUS
<1>1. LimitInv
  BY InitLimitInv, Zenon
<1>2. UidInv
  BY DEF Init, Absent, UidInv, Seen, NewestOfName, Idle
<1> QED
  BY <1>1, <1>2, Zenon DEF SlotInv

(* In every reachable state the references that lock.go writes, has in flight or *)
(* has cached carry uids in the order in which the pipelines were created.       *)
THEOREM SlotInvariant == Spec => []SlotInv
<1>1. SlotInv /\ [Next]_vars => SlotInv'
  BY NextLimitInv, NextUidInv, Zenon DEF SlotInv
<1> QED
  BY <1>1, InitSlotInv, PTL DEF Spec

(* An accepted write is a grant: within the limit, and what it displaces is the *)
(* reference of an incarnation that is gone.                                    *)
LEMMA AcceptedWriteIsGrant ==
    ASSUME SlotInv, SlotInv', NEW w \in Workers, WriteLock(w), Accepted(call[w])
    PROVE  Slots!Next
<1> DEFINE ref == call[w].ref
<1>1. /\ call[w] \in PendingWrite
      /\ call[w] # NoCall
      /\ ref.name \in Names
      /\ ref.uid \in Nat \ {0}
      /\ incarnations \in [Names -> Nat]
      /\ \A r \in lock : r.name \in Names /\ r.uid \in Nat \ {0}
      /\ lock \in SUBSET OwnerRef /\ ref \in OwnerRef
  BY Zenon DEF SlotInv, LimitInv, TypeOK, WriteLock, Idle, PendingWrite, OwnerRef
<1>2. lock' = call[w].owners /\ pipelines' = pipelines
  BY Zenon DEF WriteLock
<1>3. lock' = SetOwnerReference(ref, lock)
  BY <1>1, <1>2, Zenon
  DEF SlotInv, LimitInv, CurrentCopies, Accepted, PendingWrite, SetOwnerReference, Absent
<1>4. ASSUME NEW r \in lock, r \notin lock' PROVE pipelines[r.name] # r.uid
  <2>1. r.name = ref.name /\ r # ref
    BY <1>3, <1>4, Zenon DEF SetOwnerReference
  <2>2. r.uid # ref.uid
    BY <1>1, <2>1 DEF OwnerRef
  <2>3. r.uid <= ref.uid /\ ref.uid <= incarnations[r.name]
    BY <1>1, <2>1, SMTT(30) DEF SlotInv, UidInv, Idle, Seen, NewestOfName
  <2>4. pipelines[r.name] \in {0, incarnations[r.name]}
    BY <1>1, Zenon DEF SlotInv, UidInv
  <2> QED
    BY <1>1, <2>1, <2>2, <2>3, <2>4
<1>5. WithinLimit(lock')
  BY Zenon DEF SlotInv, LimitInv, AtMostMaxOwners, WithinLimit
<1>6. ref \in lock'
  BY <1>3, Zenon DEF SetOwnerReference
<1> HIDE DEF ref
<1>7. Slots!WithinLimit(lock')
  BY <1>5, Zenon
  DEF Slots!WithinLimit, WithinLimit, Slots!Unlimited, Unlimited, Slots!Cardinality, Cardinality
<1>8. Slots!Grant(ref)
  BY <1>2, <1>3, <1>4, <1>7, Zenon
  DEF Slots!Grant, Slots!IsLive, Slots!SetOwnerReference, SetOwnerReference
<1> QED
  BY <1>6, <1>8, Zenon DEF Slots!Next

(* The lock ConfigMap implements PipelineSlots: whatever the caches and retries  *)
(* do, a slot is granted within the limit and kept until its pipeline is gone.  *)
THEOREM LockImplementsSlots == Spec => ImplementsSlots
<1>1. Init => Slots!Init
  BY Zenon DEF Init, Absent, Slots!Init
<1>2. SlotInv /\ SlotInv' /\ [Next]_vars => [Slots!Next]_(Slots!slotVars)
  <2> SUFFICES ASSUME SlotInv, SlotInv', [Next]_vars,
                      ~UNCHANGED <<pipelines, lock>>
               PROVE  Slots!Next
    BY Zenon DEF Slots!slotVars
  <2>1. ASSUME NEW n \in Names, CreatePipeline(n) PROVE Slots!Next
    <3>1. Slots!Create(n)
      BY <2>1, Zenon DEF CreatePipeline, Slots!Create, SlotInv, LimitInv, TypeOK
    <3> QED
      BY <3>1, Zenon DEF Slots!Next
  <2>2. ASSUME NEW n \in Names, DeletePipeline(n) PROVE Slots!Next
    <3>1. Slots!Delete(n)
      BY <2>2, Zenon DEF DeletePipeline, Slots!Delete
    <3> QED
      BY <3>1, Zenon DEF Slots!Next
  <2>3. CASE GarbageCollect
    <3>1. PICK gone \in SUBSET lock : Slots!Revoke(gone)
      BY <2>3, Zenon DEF GarbageCollect, IsDangling, Slots!Revoke, Slots!IsLive
    <3> QED
      BY <3>1, Zenon DEF Slots!Next
  <2>4. ASSUME NEW w \in Workers, WriteLock(w) PROVE Slots!Next
    <3>1. CASE Accepted(call[w])
      BY <2>4, <3>1, AcceptedWriteIsGrant, Zenon
    <3>2. CASE ~Accepted(call[w])
      BY <2>4, <3>2, Zenon DEF WriteLock
    <3> QED
      BY <3>1, <3>2, Zenon
  <2>5. ASSUME \/ \E n \in Names : SyncPipeline(n)
               \/ SyncLock
               \/ \E w \in Workers, n \in Names : TryAcquireLock(w, n)
               \/ \E w \in Workers : WriteFails(w)
               \/ Restart
               \/ UNCHANGED vars
        PROVE  FALSE
    BY <2>5, Zenon DEF SyncPipeline, SyncLock, TryAcquireLock, WriteFails, Restart, vars
  <2> QED
    BY <2>1, <2>2, <2>3, <2>4, <2>5, Zenon DEF Next
<1> QED
  BY <1>1, <1>2, SlotInvariant, PTL DEF Spec, ImplementsSlots, Slots!Spec

----------------------------------------------------------------------------
(* The storage migration.                                                  *)

Phases == {"check", "list", "migrate", "clear", "done"}

MigrationTypeOK ==
    /\ stored \in [Objects -> {"none", "v1alpha1", "v1beta1"}]
    /\ revision \in [Objects -> Nat]
    /\ listed \in [Objects -> Nat]
    /\ phase \in Phases
    /\ at \in Nat \ {0}
    /\ todo \subseteq [o : Objects, revision : Nat]

Old(o) == stored[o] = "v1alpha1"

\* An object in the old version has not been written since the manager started,
\* so the cache has it, with the revision it still has.
OldIsListed == \A o \in Objects : Old(o) => revision[o] = 1 /\ listed[o] = 1

\* How far the migrator is: no object in the old version belongs to a CRD it has
\* been through, and one of the CRD it is at is still to be updated.
Progress ==
    \A o \in Objects : Old(o) =>
        /\ phase # "clear"
        /\ phase \in {"list", "migrate"} =>
              \A j \in 1..Len(allCRDs) : CRDOf[o] = allCRDs[j] => j >= at
        /\ phase = "migrate" /\ at <= Len(allCRDs) /\ CRDOf[o] = allCRDs[at] =>
              [o |-> o, revision |-> 1] \in todo

\* The migrator lists only CRDs there are.
AtCRD == phase = "migrate" => at <= Len(allCRDs)

MigrationInv ==
    MigrationTypeOK /\ OldIsListed /\ AtCRD /\ Progress /\ ClearedOnlyWhenMigrated

LEMMA SomeCRD ==
    /\ Len(allCRDs) \in Nat
    /\ \A o \in Objects : \E j \in 1..Len(allCRDs) : CRDOf[o] = allCRDs[j]
<1>1. DOMAIN allCRDs = 1..Len(allCRDs) /\ Len(allCRDs) \in Nat
  BY MigrationAssumption
<1>2. ASSUME NEW o \in Objects PROVE CRDOf[o] \in CRDs
  BY MigrationAssumption, Zenon
<1> QED
  BY <1>1, <1>2, Zenon DEF CRDs

LEMMA MigrationInitInv == MigrationInit => MigrationInv
<1> SUFFICES ASSUME MigrationInit PROVE MigrationInv
  OBVIOUS
<1>1. MigrationTypeOK
  BY DEF MigrationInit, MigrationTypeOK, Phases
<1>2. OldIsListed /\ AtCRD /\ Progress
  BY Zenon DEF MigrationInit, OldIsListed, AtCRD, Progress, Old
<1>3. ClearedOnlyWhenMigrated
  BY MigrationAssumption, Zenon DEF MigrationInit, ClearedOnlyWhenMigrated
<1> QED
  BY <1>1, <1>2, <1>3, Zenon DEF MigrationInv

\* What users, controllers and the cache do.
LEMMA OthersKeepInv ==
    ASSUME MigrationInv, NEW o \in Objects, Write(o) \/ Remove(o) \/ Inform(o)
    PROVE  MigrationInv'
<1> USE DEF MigrationInv, MigrationTypeOK, OldIsListed, AtCRD, Progress, Old,
            ClearedOnlyWhenMigrated
<1>1. CASE Write(o)
  BY <1>1 DEF Write, Stored
<1>2. CASE Remove(o)
  BY <1>2, Zenon DEF Remove
<1>3. CASE Inform(o)
  BY <1>3, Zenon DEF Inform, Cached
<1> QED
  BY <1>1, <1>2, <1>3, Zenon

\* An attempt that is given up starts from nothing.
LEMMA RetryKeepsInv ==
    ASSUME MigrationInv, Retry, UNCHANGED <<stored, revision, storedOld>>,
           \/ UNCHANGED listed
           \/ listed' = [o \in Objects |-> Cached(o)]
    PROVE  MigrationInv'
<1> USE DEF MigrationInv, MigrationTypeOK, Retry, Go
<1>1. OldIsListed' /\ listed' \in [Objects -> Nat]
  BY DEF OldIsListed, Old, Cached
<1> QED
  BY <1>1 DEF AtCRD, Progress, Old, Phases, ClearedOnlyWhenMigrated

LEMMA CheckAndListKeepInv ==
    ASSUME MigrationInv, needsMigration \/ ListObjects \/ NextKind
    PROVE  MigrationInv'
<1> USE DEF MigrationInv, MigrationTypeOK
<1>0. Untouched /\ UNCHANGED storedOld
  BY Zenon DEF needsMigration, ListObjects, NextKind
<1>1. OldIsListed' /\ ClearedOnlyWhenMigrated'
  BY <1>0, Zenon DEF OldIsListed, ClearedOnlyWhenMigrated, Untouched, Old
<1>2. CASE Retry
  BY <1>0, <1>2, RetryKeepsInv, Zenon DEF Untouched
<1>3. CASE needsMigration /\ ~Retry
  <2>1. /\ phase' \in {"done", "list"} /\ at' = 1 /\ todo' = todo
    BY <1>3, Zenon DEF needsMigration, Go
  <2> QED
    BY <1>0, <1>1, <2>1, SomeCRD DEF AtCRD, Progress, Old, Untouched, Phases
<1>4. CASE ListObjects /\ ~Retry
  <2>1. CASE at > Len(allCRDs) /\ Go("clear", 1) /\ UNCHANGED <<todo, failures>>
    <3>1. \A o \in Objects : ~Old(o)
      BY <1>4, <2>1, SomeCRD DEF ListObjects, Progress
    <3> QED
      BY <1>0, <1>1, <2>1, <3>1 DEF Go, AtCRD, Progress, Old, Untouched, Phases
  <2>2. CASE /\ at <= Len(allCRDs)
             /\ todo' = {[o |-> o, revision |-> listed[o]] :
                           o \in {p \in Objects : CRDOf[p] = allCRDs[at] /\ listed[p] > 0}}
             /\ Go("migrate", at)
    <3>1. todo' \subseteq [o : Objects, revision : Nat]
      BY <2>2
    <3>2. ASSUME NEW o \in Objects, Old(o), CRDOf[o] = allCRDs[at]
          PROVE  [o |-> o, revision |-> 1] \in todo'
      <4>1. listed[o] = 1
        BY <3>2, Zenon DEF OldIsListed
      <4> QED
        BY <2>2, <3>2, <4>1
    <3>3. Progress'
      BY <1>0, <1>4, <2>2, <3>2, Zenon DEF ListObjects, Go, Progress, Old, Untouched
    <3> QED
      BY <1>0, <1>1, <2>2, <3>1, <3>3, Zenon DEF Go, AtCRD, Untouched, Phases
  <2> QED
    BY <1>4, <2>1, <2>2, Zenon DEF ListObjects
<1>5. CASE NextKind
  <2>1. /\ phase = "migrate" /\ todo = {} /\ at <= Len(allCRDs)
        /\ phase' = "list" /\ at' = at + 1 /\ stored' = stored
    BY <1>0, <1>5, Zenon DEF NextKind, Go, AtCRD, Untouched
  <2>2. ASSUME NEW o \in Objects, Old(o), NEW j \in 1..Len(allCRDs), CRDOf[o] = allCRDs[j]
        PROVE  j >= at + 1
    BY <2>1, <2>2, SomeCRD DEF Progress
  <2>3. Progress'
    BY <2>1, <2>2, SMTT(30) DEF Progress, Old
  <2> QED
    BY <1>0, <1>1, <1>5, <2>1, <2>3 DEF NextKind, Go, AtCRD, Untouched, Phases
<1> QED
  BY <1>2, <1>3, <1>4, <1>5, Zenon

LEMMA UpdateKeepsInv ==
    ASSUME MigrationInv, NEW t \in todo, UpdateObject(t)
    PROVE  MigrationInv'
<1> USE DEF MigrationInv, MigrationTypeOK
<1>1. /\ phase = "migrate" /\ t.o \in Objects /\ t.revision \in Nat
      /\ UNCHANGED <<listed, storedOld>>
  BY Zenon DEF UpdateObject
<1>2. CASE Retry
  <2>1. UNCHANGED <<stored, revision>>
    BY <1>1, <1>2, Zenon DEF UpdateObject, Retry, Go
  <2> QED
    BY <1>1, <1>2, <2>1, RetryKeepsInv, Zenon
<1>3. CASE ~Retry
  <2>1. phase' = phase /\ at' = at /\ todo' = todo \ {t}
    BY <1>3, Zenon DEF UpdateObject
  <2>2. /\ stored' \in [Objects -> {"none", "v1alpha1", "v1beta1"}]
        /\ revision' \in [Objects -> Nat]
        /\ \A o \in Objects : Old(o)' => Old(o) /\ revision'[o] = revision[o] /\ o # t.o
    BY <1>1, <1>3 DEF UpdateObject, IsNotFound, Restored, Stored, Old
  <2>3. OldIsListed' /\ ClearedOnlyWhenMigrated'
    BY <1>1, <2>2, Zenon DEF OldIsListed, ClearedOnlyWhenMigrated, Old
  <2>4. Progress'
    <3>1. ASSUME NEW o \in Objects, o # t.o PROVE [o |-> o, revision |-> 1] # t
      BY <3>1
    <3> QED
      BY <1>1, <2>1, <2>2, <3>1, Zenon DEF Progress
  <2> QED
    BY <1>1, <2>1, <2>2, <2>3, <2>4, Zenon DEF AtCRD
<1> QED
  BY <1>2, <1>3, Zenon

\* The old versions are taken away when no object is left in one.
LEMMA ClearKeepsInv ==
    ASSUME MigrationInv, clearStoredVersion
    PROVE  MigrationInv'
<1> USE DEF MigrationInv, MigrationTypeOK
<1>1. /\ UNCHANGED <<stored, revision, listed>>
      /\ \A o \in Objects : ~Old(o)
  BY Zenon DEF clearStoredVersion, Untouched, Progress
<1>2. CASE Retry
  BY <1>1, <1>2 DEF Retry, Go, OldIsListed, AtCRD, Progress, Old, Phases,
                    ClearedOnlyWhenMigrated
<1>3. CASE ~Retry
  <2>1. /\ todo' = todo /\ phase' \in {"clear", "done"} /\ at' \in Nat \ {0}
    BY <1>3 DEF clearStoredVersion, Go
  <2> QED
    BY <1>1, <2>1, Zenon DEF OldIsListed, AtCRD, Progress, Old, Phases, ClearedOnlyWhenMigrated
<1> QED
  BY <1>2, <1>3, Zenon

LEMMA MigrationNextInv ==
    ASSUME MigrationInv, [MigrationNext]_migrationVars
    PROVE  MigrationInv'
<1>1. CASE MigrationNext
  <2>1. CASE RestartMigrator
    BY <2>1, RetryKeepsInv, Zenon DEF RestartMigrator
  <2> QED
    BY <1>1, <2>1, OthersKeepInv, CheckAndListKeepInv, UpdateKeepsInv, ClearKeepsInv, Zenon
    DEF MigrationNext, Migrator
<1>2. CASE UNCHANGED migrationVars
  BY <1>2, Zenon
  DEF migrationVars, MigrationInv, MigrationTypeOK, OldIsListed, AtCRD, Progress, Old,
      ClearedOnlyWhenMigrated
<1> QED
  BY <1>1, <1>2, Zenon

\* For any number of CRDs, objects, other writers and restarts: the stored version
\* v1alpha1 is taken from a CRD (clearStoredVersion) only when none of its objects
\* is stored in it.
THEOREM NoVersionIsDroppedEarly == MigrationSpec => []ClearedOnlyWhenMigrated
<1>1. MigrationInv => ClearedOnlyWhenMigrated
  BY Zenon DEF MigrationInv
<1> QED
  BY <1>1, MigrationInitInv, MigrationNextInv, PTL DEF MigrationSpec

----------------------------------------------------------------------------
(* The node size tracker.                                                  *)

Current == computeSmallestAllocatableMemory(nodes)

NodeTypeOK ==
    /\ nodes \in [Nodes -> Sizes \cup {NotThere}]
    /\ pending \in [Controllers -> Nat]
    /\ listing \in [Controllers -> Nat \cup {Unset}]

\* What a handler with no further event has listed is what there is now; and while
\* the tracker is wrong, some handler is not done.
TrackerInv ==
    /\ NodeTypeOK
    /\ \A c \in Controllers : pending[c] = 0 => listing[c] \in {Unset, Current}
    /\ smallestMemory = Current \/ ~NodesHandled

\* The smallest memory of a list of nodes is a number.
LEMMA SmallestIsNat ==
    ASSUME NEW ns \in [Nodes -> Sizes \cup {NotThere}]
    PROVE  computeSmallestAllocatableMemory(ns) \in Nat
<1> DEFINE sizes == {ns[n] : n \in {m \in Nodes : ns[m] \notin {NotThere, 0}}}
<1>1. sizes \subseteq Nat
  BY SizesAssumption, Zenon
<1>2. computeSmallestAllocatableMemory(ns) =
         IF sizes = {} THEN 0 ELSE CHOOSE s \in sizes : \A t \in sizes : s <= t
  BY Zenon DEF computeSmallestAllocatableMemory
<1> HIDE DEF sizes
<1>3. ASSUME sizes # {} PROVE \E s \in sizes : \A t \in sizes : s <= t
  <2>1. PICK s \in sizes : \A t \in sizes : ~(<<t, s>> \in OpToRel(<, Nat))
    BY <1>1, <1>3, NatLessThanWellFounded, WFMin, Zenon
  <2>2. ASSUME NEW t \in sizes PROVE s <= t
    <3>1. ~(t < s)
      BY <1>1, <2>1, Zenon DEF OpToRel
    <3> QED
      BY <1>1, <3>1
  <2> QED
    BY <2>2, Zenon
<1>4. CASE sizes # {}
  <2> DEFINE smallest == CHOOSE s \in sizes : \A t \in sizes : s <= t
  <2>1. smallest \in sizes
    BY <1>3, <1>4, Zenon
  <2> QED
    BY <1>1, <1>2, <1>4, <2>1, Zenon
<1>5. CASE sizes = {}
  BY <1>2, <1>5
<1> QED
  BY <1>4, <1>5, Zenon

LEMMA TrackerInit == NodeInit => TrackerInv
BY SizesAssumption DEF NodeInit, TrackerInv, NodeTypeOK, NodesHandled

LEMMA TrackerNext ==
    ASSUME TrackerInv, [NodeNext]_nodeVars
    PROVE  TrackerInv'
<1> USE DEF TrackerInv, NodeTypeOK
<1>0. Current \in Nat /\ Current # Unset
  BY SmallestIsNat, SizesAssumption, Zenon DEF Current
<1>1. ASSUME NEW n \in Nodes, ChangeNode(n) PROVE TrackerInv'
  <2>1. /\ nodes' \in [Nodes -> Sizes \cup {NotThere}] /\ listing' = listing
        /\ pending' \in [Controllers -> Nat]
        /\ \A c \in Controllers : pending'[c] > 0
    BY <1>1 DEF ChangeNode
  <2> QED
    BY <2>1, SizesAssumption DEF NodesHandled
<1>2. ASSUME NEW c \in Controllers, ListNodes(c) PROVE TrackerInv'
  <2>1. /\ nodes' = nodes /\ Current' = Current
        /\ pending' \in [Controllers -> Nat]
        /\ listing' = [listing EXCEPT ![c] = Current]
        /\ \A d \in Controllers \ {c} : pending'[d] = pending[d]
    BY <1>2 DEF ListNodes, Current
  <2> QED
    BY <1>0, <2>1, Zenon DEF NodesHandled
<1>3. ASSUME NEW c \in Controllers, UpdateSmallestMemory(c) PROVE TrackerInv'
  <2>1. /\ nodes' = nodes /\ Current' = Current /\ pending' = pending
        /\ listing' = [listing EXCEPT ![c] = Unset]
        /\ smallestMemory' = listing[c] /\ listing[c] # Unset
    BY <1>3, Zenon DEF UpdateSmallestMemory, Current
  <2> QED
    BY <2>1, Zenon DEF NodesHandled
<1>4. ASSUME NEW c \in Controllers, ReconcileSizes(c) PROVE TrackerInv'
  BY <1>4, Zenon DEF ReconcileSizes, Current, NodesHandled
<1>5. CASE UNCHANGED nodeVars
  BY <1>5, Zenon DEF nodeVars, Current, NodesHandled
<1> QED
  BY <1>1, <1>2, <1>3, <1>4, <1>5, Zenon DEF NodeNext

\* For any number of controllers that share the tracker and any changes of the
\* nodes: when every handler is done, the tracker has the smallest of the present
\* nodes, whatever order lists and updates came in (UpdateSmallestMemory).
THEOREM TrackerIsCurrent == NodeSpec => []RestingTracker
<1>1. TrackerInv => RestingTracker
  BY Zenon DEF TrackerInv, RestingTracker, Current
<1> QED
  BY <1>1, TrackerInit, TrackerNext, PTL DEF NodeSpec

=============================================================================
