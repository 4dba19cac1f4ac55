----------------------------- MODULE OwnerRefs -----------------------------
(* The owner references of a lock ConfigMap, as internal/resourcelock/lock.go  *)
(* reads and writes them.  A reference is a [name, uid] pair: the kind is the  *)
(* same for every reference of one lock, because each kind of pipeline has a   *)
(* ConfigMap of its own.                                                       *)
EXTENDS Integers, FiniteSets

CONSTANTS
    Names,       \* pipeline names
    MaxOwners    \* newChecker's maxOwners: 0 for a syncer, Unlimited or a limit

\* The value of maxOwners that turns the pipeline limit off.
Unlimited == -1

ASSUME MaxOwnersAssumption == MaxOwners \in Nat \union {Unlimited}

\* A uid is the number of the incarnation of a name: 1 for the first object
\* created under it, 2 for the one created after that was deleted, and so on.
OwnerRef == [name : Names, uid : Nat \ {0}]

Ref(n, u) == [name |-> n, uid |-> u]

\* controllerutil.SetOwnerReference: an upsert keyed by kind and name, so a
\* reference to an earlier incarnation of the same name is replaced.
SetOwnerReference(ref, refs) == {r \in refs : r.name # ref.name} \union {ref}

canAddOwner(refs) ==
    \/ MaxOwners = Unlimited
    \/ Cardinality(refs) < MaxOwners

MayAddOwner(refs) == MaxOwners = 0 \/ canAddOwner(refs)

\* What the limit promises of a set of references.
WithinLimit(refs) == MaxOwners \in {0, Unlimited} \/ Cardinality(refs) <= MaxOwners
=============================================================================
