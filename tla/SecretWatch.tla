---------------------------- MODULE SecretWatch ----------------------------
(* The Secret watcher, internal/secretwatch: a client that keeps a watcher for *)
(* every Secret some pipeline refers to, and the watchers' goroutines, which    *)
(* list, watch, reconnect and route an event to every linked pipeline.  Each    *)
(* pipeline stands for its kind and name; the controllers call SyncWatchers     *)
(* first and read the Secrets afterwards.                                       *)
EXTENDS Integers

CONSTANTS
    Pipelines,
    Secrets,
    MaxStarts,    \* bound: watchers started for one Secret
    MaxEdits,     \* bound: changes of the Secrets a pipeline refers to
    MaxChanges,   \* bound: changes of the Secrets
    MaxFaults     \* bound: failed requests and closed connections

ASSUME StartsAssumption == MaxStarts \in Nat

VARIABLES
    refs,         \* refs[p]: the Secrets that p refers to, {} once it is deleted
    version,      \* version[s]: the number of changes of s
    exists,       \* the Secrets that exist
    watchers,     \* watchers[s]: number of the client's watcher for s, 0 if none
    starts,       \* starts[s]: how many watchers were started for s
    g,            \* g[s][k]: goroutine and state of the k-th watcher of s
    stopped,      \* the client's flag
    running,      \* do the controllers run, and read the event channels?
    returned,     \* has Stop returned?
    triggered,    \* pipelines with a request in their workqueue
    reading,      \* pipelines being reconciled, after SyncWatchers
    stale,        \* stale[p]: Secrets that have changed since p last read them
    missed,       \* history: Secrets with a change that no watch event was made of
    edits, changes, faults

client == <<watchers, starts, stopped>>
cluster == <<refs, version, exists>>
budgets == <<edits, changes, faults>>
vars == <<cluster, client, g, running, returned, triggered, reading, stale, missed, budgets>>

Number == 1..MaxStarts
PCs == {"unused", "list", "watch", "receive", "route", "delay", "ended"}

\* pos is the last change of the Secret that the watcher knows of, fresh says that the
\* watch starts without a resource version, and todo are the pipelines that an event
\* is still to be routed to.
Unused == [pc |-> "unused", linked |-> {}, canceled |-> FALSE, pos |-> 0, fresh |-> FALSE,
           todo |-> {}]
Ended == [pc |-> "ended", linked |-> {}, canceled |-> TRUE, pos |-> 0, fresh |-> FALSE,
          todo |-> {}]

Watcher == [pc : PCs, linked : SUBSET Pipelines, canceled : BOOLEAN, pos : Int,
            fresh : BOOLEAN, todo : SUBSET Pipelines]

TypeOK ==
    /\ refs \in [Pipelines -> SUBSET Secrets]
    /\ version \in [Secrets -> Nat]
    /\ exists \in SUBSET Secrets
    /\ watchers \in [Secrets -> 0..MaxStarts]
    /\ starts \in [Secrets -> 0..MaxStarts]
    /\ g \in [Secrets -> [Number -> Watcher]]
    /\ stopped \in BOOLEAN /\ running \in BOOLEAN /\ returned \in BOOLEAN
    /\ triggered \in SUBSET Pipelines
    /\ reading \in SUBSET Pipelines
    /\ stale \in [Pipelines -> SUBSET Secrets]
    /\ missed \in SUBSET Secrets
    /\ edits \in Nat /\ changes \in Nat /\ faults \in Nat

\* The manager starts, and finds pipelines and Secrets.
Init ==
    /\ refs \in [Pipelines -> SUBSET Secrets]
    /\ version = [s \in Secrets |-> 0]
    /\ exists = Secrets
    /\ watchers = [s \in Secrets |-> 0]
    /\ starts = [s \in Secrets |-> 0]
    /\ g = [s \in Secrets |-> [k \in Number |-> Unused]]
    /\ stopped = FALSE /\ running = TRUE /\ returned = FALSE
    /\ triggered = Pipelines
    /\ reading = {}
    /\ stale = [p \in Pipelines |-> Secrets]
    /\ missed = {}
    /\ edits = 0 /\ changes = 0 /\ faults = 0

-----------------------------------------------------------------------------
\* Users.

EditPipeline(p, secrets) ==
    /\ running
    /\ edits < MaxEdits
    /\ edits' = edits + 1
    /\ secrets # refs[p]
    /\ refs' = [refs EXCEPT ![p] = secrets]
    /\ triggered' = triggered \union {p}
    /\ UNCHANGED <<version, exists, client, g, running, returned, reading, stale, missed,
                   changes, faults>>

ChangeSecret(s) ==
    /\ running
    /\ changes < MaxChanges
    /\ changes' = changes + 1
    /\ version' = [version EXCEPT ![s] = @ + 1]
    /\ exists' \in {exists \union {s}, exists \ {s}}
    /\ stale' = [p \in Pipelines |-> stale[p] \union {s}]
    /\ UNCHANGED <<refs, client, g, running, returned, triggered, reading, missed, edits,
                   faults>>

-----------------------------------------------------------------------------
\* The client.  Both operations and the first half of Stop hold its mutex.

Linked(s) == IF watchers[s] = 0 THEN {} ELSE g[s][watchers[s]].linked

\* Mutation: the watcher is deleted but its context is not canceled.
unlinkWithoutCancel(w, p) == [w EXCEPT !.linked = @ \ {p}]

\* A watcher without linked pipelines is canceled.
unlink(w, p) == [w EXCEPT !.linked = @ \ {p}, !.canceled = @ \/ w.linked = {p}]

newWatcher(s, p) ==
    [pc |-> "list", linked |-> {p}, canceled |-> FALSE, pos |-> version[s],
     fresh |-> FALSE, todo |-> {}]

link(w, p) == [w EXCEPT !.linked = @ \union {p}]

\* Mutation: the excluded Secrets are unlinked, too.
ToUnlinkAll(p, secrets) == {s \in Secrets : p \in Linked(s)}

\* unlinkPipelineFromWatchers: the Secrets from whose watchers p is removed.
ToUnlink(p, secrets) == {s \in Secrets \ secrets : p \in Linked(s)}

\* SyncWatchers with the Secrets of the pipeline, or RemoveFromWatchers, which is the same
\* with no Secret.  After Stop both return an error, and the request is retried.
SyncWatchers(p) ==
    LET new == {s \in refs[p] : watchers[s] = 0}
        unlinked == ToUnlink(p, refs[p])
    IN  /\ p \in triggered \ reading
        /\ ~stopped
        /\ \A s \in new : starts[s] < MaxStarts
        /\ triggered' = triggered \ {p}
        /\ reading' = reading \union {p}
        /\ starts' = [s \in Secrets |-> IF s \in new THEN starts[s] + 1 ELSE starts[s]]
        /\ g' = [s \in Secrets |-> [k \in Number |->
                    IF s \in new /\ k = starts'[s] THEN newWatcher(s, p)
                    ELSE IF k # watchers[s] THEN g[s][k]
                    ELSE IF s \in unlinked THEN unlink(g[s][k], p)
                    ELSE IF s \in refs[p] THEN link(g[s][k], p)
                    ELSE g[s][k]]]
        /\ watchers' = [s \in Secrets |->
                           IF s \in new THEN starts'[s]
                           ELSE IF s \in unlinked /\ Linked(s) = {p} THEN 0 ELSE watchers[s]]
        /\ UNCHANGED <<cluster, stopped, running, returned, stale, missed, budgets>>

\* The rest of the reconciliation reads the Secrets.
ReadSecrets(p) ==
    /\ p \in reading
    /\ reading' = reading \ {p}
    /\ stale' = [stale EXCEPT ![p] = {}]
    /\ UNCHANGED <<cluster, client, g, running, returned, triggered, missed, budgets>>

\* The manager's context ends: the controllers no longer read the event channels.  What the
\* pipelines have read, and read in reconciliations under way, no longer matters.
Shutdown ==
    /\ running
    /\ running' = FALSE
    /\ reading' = {}
    /\ stale' = [p \in Pipelines |-> {}]
    /\ missed' = {}
    /\ UNCHANGED <<cluster, client, g, returned, triggered, budgets>>

\* stopWithTimeout, up to the unlock.
Stop ==
    /\ ~running /\ ~stopped
    /\ stopped' = TRUE
    /\ g' = [s \in Secrets |-> [k \in Number |->
                IF k = watchers[s] THEN [g[s][k] EXCEPT !.canceled = TRUE] ELSE g[s][k]]]
    /\ UNCHANGED <<cluster, watchers, starts, running, returned, triggered, reading, stale,
                   missed, budgets>>

AllEnded == \A s \in Secrets, k \in Number : g[s][k].pc \in {"unused", "ended"}

\* Mutation: Stop waits for the watchers without a timeout.
StopReturnsWhenEnded ==
    /\ stopped /\ ~returned
    /\ AllEnded
    /\ returned' = TRUE
    /\ UNCHANGED <<cluster, client, g, running, triggered, reading, stale, missed, budgets>>

\* Stop returns when all watchers have ended or when the timeout is over, so at any time.
StopReturns ==
    /\ stopped /\ ~returned
    /\ returned' = TRUE
    /\ UNCHANGED <<cluster, client, g, running, triggered, reading, stale, missed, budgets>>

-----------------------------------------------------------------------------
\* The goroutine of a watcher.

Become(s, k, w) ==
    /\ g' = [g EXCEPT ![s][k] = w]
    /\ UNCHANGED <<cluster, client, running, returned, reading, stale, edits, changes>>

\* A request fails if the watcher is canceled, and by chance.
Fails(w) ==
    IF w.canceled THEN UNCHANGED faults ELSE faults < MaxFaults /\ faults' = faults + 1

\* fetchLatestResourceVersion: the changes before the list are in no watch event.
List(s, k) ==
    LET w == g[s][k]
    IN  /\ w.pc = "list"
        /\ ~w.canceled
        /\ Become(s, k, [w EXCEPT !.pc = "watch", !.fresh = FALSE, !.pos = version[s]])
        /\ missed' = IF w.pos # version[s] THEN missed \union {s} ELSE missed
        /\ UNCHANGED <<triggered, faults>>

ListFails(s, k) ==
    LET w == g[s][k]
    IN  /\ w.pc = "list"
        /\ Fails(w)
        /\ Become(s, k, [w EXCEPT !.pc = "watch", !.fresh = TRUE])
        /\ UNCHANGED <<triggered, missed>>

\* Watch.  Without a resource version it begins with an event for the Secret if there
\* is one; a deletion before is in no event.
Watch(s, k) ==
    LET w == g[s][k]
    IN  /\ w.pc = "watch"
        /\ ~w.canceled
        /\ Become(s, k, [w EXCEPT !.pc = "receive", !.fresh = FALSE,
                                  !.pos = IF ~w.fresh THEN @
                                          ELSE IF s \in exists THEN version[s] - 1
                                          ELSE version[s]])
        /\ missed' = IF w.fresh /\ s \notin exists /\ w.pos # version[s]
                     THEN missed \union {s} ELSE missed
        /\ UNCHANGED <<triggered, faults>>

WatchFails(s, k) ==
    LET w == g[s][k]
    IN  /\ w.pc = "watch"
        /\ Fails(w)
        /\ Become(s, k, [w EXCEPT !.pc = "delay"])
        /\ UNCHANGED <<triggered, missed>>

\* processEventLoop: an event, the end of the channel, or an event to route.
Receive(s, k) ==
    LET w == g[s][k]
    IN  /\ w.pc = "receive"
        /\ w.pos < version[s]
        /\ Become(s, k, [w EXCEPT !.pc = "route", !.pos = @ + 1, !.todo = w.linked])
        /\ UNCHANGED <<triggered, missed, faults>>

ChannelCloses(s, k) ==
    LET w == g[s][k]
    IN  /\ w.pc = "receive"
        /\ Fails(w)
        /\ Become(s, k, [w EXCEPT !.pc = "delay"])
        /\ UNCHANGED <<triggered, missed>>

\* Mutation: only one of the linked pipelines is told.
RouteToOne(s, k, p) ==
    LET w == g[s][k]
    IN  /\ w.pc = "route"
        /\ p \in w.todo
        /\ triggered' = IF running THEN triggered \union {p} ELSE triggered
        /\ Become(s, k, [w EXCEPT !.todo = {}])
        /\ UNCHANGED <<missed, faults>>

\* eventRouter blocks until the event is taken.  Once the controllers stop it may still be
\* taken, but no longer handled, or not be taken any more.
Route(s, k, p) ==
    LET w == g[s][k]
    IN  /\ w.pc = "route"
        /\ p \in w.todo
        /\ triggered' = IF running THEN triggered \union {p} ELSE triggered
        /\ Become(s, k, [w EXCEPT !.todo = @ \ {p}])
        /\ UNCHANGED <<missed, faults>>

Routed(s, k) ==
    LET w == g[s][k]
    IN  /\ w.pc = "route"
        /\ w.todo = {}
        /\ Become(s, k, [w EXCEPT !.pc = "receive"])
        /\ UNCHANGED <<triggered, missed, faults>>

\* After the delay the watcher starts again, unless it is canceled.
Reconnect(s, k) ==
    LET w == g[s][k]
    IN  /\ w.pc = "delay"
        /\ Become(s, k, IF w.canceled THEN Ended ELSE [w EXCEPT !.pc = "list"])
        /\ UNCHANGED <<triggered, missed, faults>>

\* Steps that the goroutine is sure to take: its events are taken while the controllers
\* run, and once canceled it cannot help failing.
Goroutine(s, k) ==
    \/ List(s, k) \/ Watch(s, k) \/ Receive(s, k) \/ Routed(s, k) \/ Reconnect(s, k)
    \/ running /\ \E p \in Pipelines : Route(s, k, p)
    \/ g[s][k].canceled /\ (ListFails(s, k) \/ WatchFails(s, k) \/ ChannelCloses(s, k))

Next ==
    \/ \E p \in Pipelines, secrets \in SUBSET Secrets : EditPipeline(p, secrets)
    \/ \E s \in Secrets : ChangeSecret(s)
    \/ \E p \in Pipelines : SyncWatchers(p) \/ ReadSecrets(p)
    \/ Shutdown \/ Stop \/ StopReturns
    \/ \E s \in Secrets, k \in Number :
          \/ Goroutine(s, k)
          \/ \E p \in Pipelines : Route(s, k, p)
          \/ ListFails(s, k) \/ WatchFails(s, k) \/ ChannelCloses(s, k)

Spec == Init /\ [][Next]_vars

\* Goroutines run, the controllers take their events for as long as the manager runs, a
\* canceled request fails, and a timeout ends.
Fairness ==
    /\ WF_vars(Stop \/ StopReturns)
    /\ \A s \in Secrets, k \in Number : WF_vars(Goroutine(s, k))

FairSpec == Spec /\ Fairness

-----------------------------------------------------------------------------
Active(w) == w.pc \notin {"unused", "ended"}

\* Every goroutine that runs and is not canceled is the client's watcher for its Secret and
\* has a linked pipeline; after Stop there is none.  No watcher is leaked by linking,
\* unlinking and linking again (SyncWatchers, RemoveFromWatchers, Stop).
NoStrayWatcher ==
    \A s \in Secrets, k \in Number :
        Active(g[s][k]) /\ ~g[s][k].canceled =>
            watchers[s] = k /\ g[s][k].linked # {} /\ ~stopped

\* After a pipeline is synchronised, it is linked to exactly the Secrets it refers to,
\* whatever the other pipelines that share them do ("This method is idempotent and
\* declarative", SyncWatchers).
LinksMatchReferences ==
    \A p \in Pipelines :
        p \notin triggered /\ ~stopped => {s \in Secrets : p \in Linked(s)} = refs[p]

\* Nothing is left to do: no request, and every watcher waits for the next event.
AtRest ==
    /\ running
    /\ triggered = {} /\ reading = {}
    /\ \A s \in Secrets :
          watchers[s] # 0 => /\ g[s][watchers[s]].pc = "receive"
                             /\ g[s][watchers[s]].pos = version[s]

\* At rest, a pipeline has been reconciled with the current version of each of its Secrets.
\* "When a watched secret changes, the client routes a GenericEvent to the appropriate
\* pipeline-type channel" (package documentation).
ChangesReachPipelines ==
    AtRest => \A p \in Pipelines : stale[p] \intersect refs[p] = {}

\* The same, but for changes between the start of a watcher or the end of its connection
\* and its next list: nothing else loses a change, neither shared watchers nor links
\* made while an event is routed (processEventLoop).
OnlyGapsLoseChanges ==
    AtRest => \A p \in Pipelines : stale[p] \intersect refs[p] \subseteq missed

\* Stop returns, although a watcher may be blocked on a channel that nobody reads any more
\* (stopWithTimeout).
StopTerminates == ~running ~> returned
=============================================================================
