--------------------------- MODULE PipelineSlots ---------------------------
(* What a pipeline lock promises, without caches, versions or retries: a set   *)
(* of slots.  A pipeline may be granted a slot while there is room, keeps it   *)
(* for as long as it exists, and loses it only after it is gone.               *)
EXTENDS OwnerRefs

VARIABLES
    live,      \* live[n]: uid of the pipeline called n, 0 if there is none
    holders    \* the references that hold a slot

slotVars == <<live, holders>>

IsLive(ref) == live[ref.name] = ref.uid

Init ==
    /\ live = [n \in Names |-> 0]
    /\ holders = {}

Create(n) ==
    /\ live[n] = 0
    /\ live'[n] \in Nat \ {0}
    /\ live' = [live EXCEPT ![n] = live'[n]]
    /\ UNCHANGED holders

Delete(n) ==
    /\ live[n] # 0
    /\ live' = [live EXCEPT ![n] = 0]
    /\ UNCHANGED holders

\* A slot is granted only within the limit.  The only references it may displace
\* are those of earlier incarnations of the same name, which are gone.
Grant(ref) ==
    /\ holders' = SetOwnerReference(ref, holders)
    /\ WithinLimit(holders')
    /\ \A r \in holders \ holders' : ~IsLive(r)
    /\ UNCHANGED live

Revoke(refs) ==
    /\ refs # {}
    /\ \A r \in refs : ~IsLive(r)
    /\ holders' = holders \ refs
    /\ UNCHANGED live

Next ==
    \/ \E n \in Names : Create(n)
    \/ \E n \in Names : Delete(n)
    \/ \E ref \in holders' : Grant(ref)
    \/ \E refs \in SUBSET holders : Revoke(refs)

Spec == Init /\ [][Next]_slotVars
=============================================================================
