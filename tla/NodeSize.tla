------------------------------ MODULE NodeSize ------------------------------
(***************************************************************************)
(* The node size tracker (internal/nodesize), which the controllers of the *)
(* gateway, of MetricPipelines and of LogPipelines share (main.go).  Each  *)
(* of them handles every node event: it lists the nodes, updates the       *)
(* tracker under a mutex, and enqueues its own objects if that changed the *)
(* tracker.  A reconciliation reads the tracker for the memory limits.     *)
(***************************************************************************)
EXTENDS Naturals, FiniteSets

CONSTANTS
    Controllers,     \* otlpgateway, metricpipeline, logpipeline
    Nodes,
    Sizes,           \* allocatable memory; 0 is a node that reports none
    MaxNodeChanges,  \* bounds how often the nodes change
    Unset, NotThere  \* nil, and no such node

ASSUME SizesAssumption ==
    /\ Sizes \subseteq Nat /\ MaxNodeChanges \in Nat
    /\ Unset \notin Nat /\ Controllers # {}

VARIABLES
    nodes,            \* the nodes in the shared cache
    pending,          \* node events each controller's handler has still to handle
    listing,          \* what a handler has computed from its list, Unset when idle
    smallestMemory,   \* the tracker; Unset before the first update
    due,              \* controllers with a request in the queue
    used,             \* the memory each controller has last applied with
    changes

nodeVars == <<nodes, pending, listing, smallestMemory, due, used, changes>>

\* Nodes without allocatable memory are skipped; zero if there is no other.
computeSmallestAllocatableMemory(ns) ==
    LET sizes == {ns[n] : n \in {m \in Nodes : ns[m] \notin {NotThere, 0}}}
    IN  IF sizes = {} THEN 0 ELSE CHOOSE s \in sizes : \A t \in sizes : s <= t

\* At the start every node is an event for every handler, and every controller has
\* requests for the objects it is about.
NodeInit ==
    /\ nodes \in [Nodes -> Sizes \cup {NotThere}]
    /\ pending = [c \in Controllers |-> 1]
    /\ listing = [c \in Controllers |-> Unset]
    /\ smallestMemory = Unset
    /\ due = Controllers
    /\ used = [c \in Controllers |-> 0]
    /\ changes = 0

\* A node is added, removed or changed.  The cache is updated before the handlers
\* are called.
ChangeNode(n) ==
    /\ changes < MaxNodeChanges /\ changes' = changes + 1
    /\ \E s \in (Sizes \cup {NotThere}) \ {nodes[n]} : nodes' = [nodes EXCEPT ![n] = s]
    /\ pending' = [c \in Controllers |-> pending[c] + 1]
    /\ UNCHANGED <<listing, smallestMemory, due, used>>

\* UpdateSmallestMemory up to the mutex.  The list is served by the cache that has
\* delivered the event (NewTracker gets the manager's client), which does not fail.
ListNodes(c) ==
    /\ pending[c] > 0 /\ listing[c] = Unset
    /\ pending' = [pending EXCEPT ![c] = @ - 1]
    /\ listing' = [listing EXCEPT ![c] = computeSmallestAllocatableMemory(nodes)]
    /\ UNCHANGED <<nodes, smallestMemory, due, used, changes>>

\* Mutant: a handler that finds the tracker larger than its own list leaves it.
UpdateIfSmaller(c) ==
    /\ listing[c] # Unset
    /\ IF smallestMemory # Unset /\ smallestMemory <= listing[c]
       THEN UNCHANGED <<smallestMemory, due>>
       ELSE smallestMemory' = listing[c] /\ due' = due \cup {c}
    /\ listing' = [listing EXCEPT ![c] = Unset]
    /\ UNCHANGED <<nodes, pending, used, changes>>

\* UpdateSmallestMemory under the mutex, and mapNodeChanges, which enqueues only
\* if this call has changed the tracker.
UpdateSmallestMemory(c) ==
    /\ listing[c] # Unset
    /\ IF smallestMemory = listing[c]
       THEN UNCHANGED <<smallestMemory, due>>
       ELSE smallestMemory' = listing[c] /\ due' = due \cup {c}
    /\ listing' = [listing EXCEPT ![c] = Unset]
    /\ UNCHANGED <<nodes, pending, used, changes>>

\* SmallestMemory: zero when there is none yet.
SmallestMemory == IF smallestMemory = Unset THEN 0 ELSE smallestMemory

ReconcileSizes(c) ==
    /\ c \in due
    /\ due' = due \ {c}
    /\ used' = [used EXCEPT ![c] = SmallestMemory]
    /\ UNCHANGED <<nodes, pending, listing, smallestMemory, changes>>

NodeNext ==
    \/ \E n \in Nodes : ChangeNode(n)
    \/ \E c \in Controllers : ListNodes(c) \/ UpdateSmallestMemory(c) \/ ReconcileSizes(c)

NodeSpec == NodeInit /\ [][NodeNext]_nodeVars

NodesHandled == \A c \in Controllers : pending[c] = 0 /\ listing[c] = Unset

\* When every handler is done, the tracker has the smallest of the present nodes,
\* although lists are made outside the mutex and an old one may be stored after a
\* newer one: each handler lists once more after the last event
\* (UpdateSmallestMemory).
RestingTracker ==
    NodesHandled => smallestMemory = computeSmallestAllocatableMemory(nodes)

\* When nothing is left to do, every controller has applied with the tracker's
\* value: "If the smallest node memory changes, it enqueues reconciliation requests
\* for all MetricPipelines so that resource requirements can be recalculated"
\* (mapNodeChanges of each controller).
ControllersFollowTracker ==
    (NodesHandled /\ due = {}) => \A c \in Controllers : used[c] = smallestMemory
=============================================================================
