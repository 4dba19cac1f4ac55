---------------------------- MODULE LabelUpdater ----------------------------
(***************************************************************************)
(* The label updater (internal/labelupdater) beside a Fluent Bit           *)
(* reconciliation.  The manager's cache holds only objects with the module *)
(* label.  An object of an older release has none: the reconciliation does *)
(* not find it, tries to create it, and fails because it exists.  The      *)
(* updater reads past the cache and adds the label.                        *)
(***************************************************************************)
EXTENDS Naturals, Sequences

CONSTANTS
    resources,    \* the objects in the order in which they are labelled and applied
    MaxMishaps    \* bounds failed calls and removals

ASSUME MishapsAssumption == MaxMishaps \in Nat

VARIABLES
    object,    \* each object: "none", "unlabelled" or "labelled"
    visible,   \* whether the cache holds it
    updater,   \* the object ensureLabels is at; past the last when it has ended
    applied,   \* the last reconciliation has applied every object
    mishaps

labelVars == <<object, visible, updater, applied, mishaps>>

LabelInit ==
    /\ object \in [DOMAIN resources -> {"none", "unlabelled", "labelled"}]
    /\ visible = [i \in DOMAIN resources |-> object[i] = "labelled"]
    /\ updater = 1 /\ applied = FALSE /\ mishaps = 0

Mishap == mishaps < MaxMishaps /\ mishaps' = mishaps + 1

\* The cache is scoped to the label.
ScopedInform(i) ==
    /\ visible[i] # (object[i] = "labelled")
    /\ visible' = [visible EXCEPT ![i] = ~@]
    /\ UNCHANGED <<object, updater, applied, mishaps>>

\* Someone deletes an object.
RemoveLabelled(i) ==
    /\ Mishap /\ object[i] # "none"
    /\ object' = [object EXCEPT ![i] = "none"]
    /\ UNCHANGED <<visible, updater, applied>>

\* Nothing to do if the object is missing or has the label; an error ends the run
\* of ensureLabels, which starts again.
ensureLabelOnResource ==
    /\ updater \in DOMAIN resources
    /\ \/ /\ object' = IF object[updater] = "unlabelled"
                       THEN [object EXCEPT ![updater] = "labelled"] ELSE object
          /\ updater' = updater + 1 /\ UNCHANGED mishaps
       \/ Mishap /\ updater' = 1 /\ UNCHANGED object
    /\ UNCHANGED <<visible, applied>>

\* CreateOrUpdateServiceAccount, CreateOrUpdateClusterRoleBinding: what the cache
\* does not show is created, with the label; an object that exists makes the
\* creation fail, which ends the reconciliation, and it is repeated.
ApplyLabelled ==
    /\ ~applied
    /\ LET fails(i) == ~visible[i] /\ object[i] # "none"
           reached  == {i \in DOMAIN resources : \A j \in 1..i : ~fails(j)}
       IN  /\ object' = [i \in DOMAIN resources |->
                           IF i \in reached /\ ~visible[i] THEN "labelled" ELSE object[i]]
           /\ applied' = (reached = DOMAIN resources)
    /\ UNCHANGED <<visible, updater, mishaps>>

LabelNext ==
    \/ \E i \in DOMAIN resources : ScopedInform(i) \/ RemoveLabelled(i)
    \/ ensureLabelOnResource \/ ApplyLabelled

=============================================================================
