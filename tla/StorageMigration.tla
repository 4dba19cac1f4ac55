-------------------------- MODULE StorageMigration --------------------------
(***************************************************************************)
(* The storage version migration (internal/storagemigration), a runnable   *)
(* of the manager: while a CRD still names v1alpha1 among its stored       *)
(* versions, every object is written once, which makes the API server      *)
(* store it as v1beta1, and then the old version is taken from the CRDs.   *)
(* Users and controllers write and delete the same objects meanwhile.      *)
(***************************************************************************)
EXTENDS Naturals, Sequences, FiniteSets

CONSTANTS
    allCRDs,      \* the CRDs in the order in which they are migrated
    Objects,      \* custom resources
    CRDOf,        \* the CRD of each
    MaxWrites,    \* bounds the writes of users and controllers
    MaxFailures   \* bounds failed calls and restarts

CRDs == {allCRDs[i] : i \in DOMAIN allCRDs}

ASSUME MigrationAssumption ==
    /\ allCRDs \in Seq(CRDs)
    /\ CRDOf \in [Objects -> CRDs]
    /\ MaxWrites \in Nat /\ MaxFailures \in Nat

VARIABLES
    stored,       \* the version each object is stored in, "none" if it does not exist
    revision,     \* its resource version: how often it has been written
    listed,       \* the revision of each object in the manager's cache, 0 if none
    storedOld,    \* the CRDs with v1alpha1 among their stored versions
    phase,        \* "check", "list", "migrate", "clear", "done"
    at,           \* the CRD the migrator is at
    todo,         \* the objects of that CRD it has listed, with their revisions
    writes, failures

migrationVars == <<stored, revision, listed, storedOld, phase, at, todo, writes, failures>>

\* Before the upgrade every object was stored as v1alpha1; an object that has been
\* written since is not.  The runnable starts once the caches are filled.
MigrationInit ==
    /\ stored \in [Objects -> {"none", "v1alpha1", "v1beta1"}]
    /\ revision = [o \in Objects |-> IF stored[o] = "none" THEN 0 ELSE 1]
    /\ listed = revision
    /\ storedOld = CRDs
    /\ phase = "check" /\ at = 1 /\ todo = {}
    /\ writes = 0 /\ failures = 0

Failure == failures < MaxFailures /\ failures' = failures + 1
UserWrite == writes < MaxWrites /\ writes' = writes + 1

\* Any write stores the object in the present storage version.
Stored(o) ==
    /\ stored' = [stored EXCEPT ![o] = "v1beta1"]
    /\ revision' = [revision EXCEPT ![o] = @ + 1]

\* An update without a change is stored only if the stored version is another.
Restored(o) ==
    IF stored[o] = "v1alpha1" THEN Stored(o) ELSE UNCHANGED <<stored, revision>>

Write(o) ==
    /\ UserWrite /\ Stored(o)
    /\ UNCHANGED <<listed, storedOld, phase, at, todo, failures>>

Remove(o) ==
    /\ UserWrite /\ stored[o] # "none"
    /\ stored' = [stored EXCEPT ![o] = "none"]
    /\ UNCHANGED <<revision, listed, storedOld, phase, at, todo, failures>>

Cached(o) == IF stored[o] = "none" THEN 0 ELSE revision[o]

Inform(o) ==
    /\ listed[o] # Cached(o)
    /\ listed' = [listed EXCEPT ![o] = Cached(o)]
    /\ UNCHANGED <<stored, revision, storedOld, phase, at, todo, writes, failures>>

----------------------------------------------------------------------------
Go(to, i) == phase' = to /\ at' = i
Untouched == UNCHANGED <<stored, revision, listed, writes>>

\* Mutant: an error ends the runnable.
GiveUp == Go("done", 1) /\ todo' = {}

\* Start: an error is logged, and the migration begins anew after a while.
Retry == Go("check", 1) /\ todo' = {}

\* needsMigration of every CRD; none needs it: done.
needsMigration ==
    /\ phase = "check"
    /\ \/ Go(IF storedOld = {} THEN "done" ELSE "list", 1) /\ UNCHANGED <<todo, failures>>
       \/ Failure /\ Retry
    /\ Untouched /\ UNCHANGED storedOld

\* The list of one kind; migrateLogPipelines, migrateMetricPipelines,
\* migrateTracePipelines and migrateTelemetries differ in the kind only.
ListObjects ==
    /\ phase = "list"
    /\ \/ /\ at > Len(allCRDs)
          /\ Go("clear", 1) /\ UNCHANGED <<todo, failures>>
       \/ /\ at <= Len(allCRDs)
          /\ todo' = {[o |-> o, revision |-> listed[o]] :
                        o \in {p \in Objects : CRDOf[p] = allCRDs[at] /\ listed[p] > 0}}
          /\ Go("migrate", at) /\ UNCHANGED failures
       \/ Failure /\ Retry
    /\ Untouched /\ UNCHANGED storedOld

\* The error that the loop passes over.
IsNotFound(t) == stored[t.o] = "none"

\* Mutant: any error of the update is passed over.
UpdateObjectLoosely(t) ==
    /\ phase = "migrate" /\ t \in todo
    /\ \/ revision[t.o] = t.revision /\ Restored(t.o) /\ UNCHANGED failures
       \/ Failure /\ UNCHANGED <<stored, revision>>
    /\ todo' = todo \ {t}
    /\ UNCHANGED <<listed, storedOld, phase, at, writes>>

\* The update of one listed object: not found is ignored, a conflict ends the
\* attempt.
UpdateObject(t) ==
    /\ phase = "migrate" /\ t \in todo
    /\ \/ /\ IsNotFound(t)
          /\ todo' = todo \ {t}
          /\ UNCHANGED <<stored, revision, phase, at, failures>>
       \/ /\ ~IsNotFound(t) /\ revision[t.o] = t.revision
          /\ Restored(t.o)
          /\ todo' = todo \ {t}
          /\ UNCHANGED <<phase, at, failures>>
       \/ /\ ~IsNotFound(t) /\ revision[t.o] # t.revision
          /\ Retry
          /\ UNCHANGED <<stored, revision, failures>>
       \/ Failure /\ Retry /\ UNCHANGED <<stored, revision>>
    /\ UNCHANGED <<listed, storedOld, writes>>

NextKind ==
    /\ phase = "migrate" /\ todo = {}
    /\ Go("list", at + 1)
    /\ Untouched /\ UNCHANGED <<storedOld, todo, failures>>

\* clearStoredVersion of one CRD after the other.
clearStoredVersion ==
    /\ phase = "clear"
    /\ \/ /\ at <= Len(allCRDs)
          /\ storedOld' = storedOld \ {allCRDs[at]}
          /\ Go("clear", at + 1) /\ UNCHANGED <<todo, failures>>
       \/ /\ at > Len(allCRDs)
          /\ Go("done", at) /\ UNCHANGED <<storedOld, todo, failures>>
       \/ Failure /\ Retry /\ UNCHANGED storedOld
    /\ Untouched

\* The manager restarts: its cache is filled anew and the runnable starts again.
RestartMigrator ==
    /\ Failure /\ Retry
    /\ listed' = [o \in Objects |-> Cached(o)]
    /\ UNCHANGED <<stored, revision, storedOld, writes>>

Migrator ==
    \/ needsMigration \/ ListObjects \/ NextKind \/ clearStoredVersion
    \/ \E t \in todo : UpdateObject(t)

MigrationNext ==
    \/ \E o \in Objects : Write(o) \/ Remove(o) \/ Inform(o)
    \/ Migrator \/ RestartMigrator

MigrationSpec == MigrationInit /\ [][MigrationNext]_migrationVars

----------------------------------------------------------------------------
\* The old version is taken from a CRD only when none of its objects is stored in
\* it: dropping it earlier would make the next release, without v1alpha1, unable to
\* read the object (migratePipelinesIfNeeded, clearStoredVersion).
ClearedOnlyWhenMigrated ==
    \A o \in Objects : stored[o] = "v1alpha1" => CRDOf[o] \in storedOld

\* The migration ends, with no CRD left that names the old version, however often
\* it collides with other writers or is restarted (Start).  A conflict means that
\* someone else has written the object, which has migrated it.
MigrationComplete == phase = "done" /\ storedOld = {}
=============================================================================
