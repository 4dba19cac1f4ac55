----------------------------- MODULE MCStartup -----------------------------
(***************************************************************************)
(* What the manager does for itself: the storage migration, the label      *)
(* updater, the node tracker and the certificates of its webhooks share no *)
(* state.  A behaviour is of one of them, so that their state spaces add   *)
(* up rather than multiply.                                                *)
(***************************************************************************)
EXTENDS StorageMigration, LabelUpdater, NodeSize, WebhookCert

VARIABLE part

vars == <<migrationVars, labelVars, nodeVars, certVars, part>>

MCCRDs == <<"logpipelines", "telemetries">>
MCCRDOf == [o \in Objects |-> IF o = "default" THEN "telemetries" ELSE "logpipelines"]
MCResources == <<"ServiceAccount", "ClusterRoleBinding">>

Init ==
    /\ part \in {"migration", "labels", "nodes", "certificates"}
    /\ MigrationInit /\ LabelInit /\ NodeInit /\ CertInit
    /\ part # "migration" => \A o \in Objects : stored[o] = "none"
    /\ part # "labels" => \A i \in DOMAIN resources : object[i] = "none"
    /\ part # "nodes" => \A n \in Nodes : nodes[n] = NotThere

Migration(A) == part = "migration" /\ A /\ UNCHANGED <<labelVars, nodeVars, certVars, part>>
Labels(A) == part = "labels" /\ A /\ UNCHANGED <<migrationVars, nodeVars, certVars, part>>
Tracker(A) == part = "nodes" /\ A /\ UNCHANGED <<migrationVars, labelVars, certVars, part>>
Certificates(A) == part = "certificates" /\ A /\ UNCHANGED <<migrationVars, labelVars, nodeVars, part>>

Next ==
    \/ Migration(MigrationNext)
    \/ Labels(LabelNext)
    \/ Tracker(NodeNext)
    \/ Certificates(CertNext)

\* The migrator, the updater and a started EnsureCertificate go on; watches deliver and
\* the webhook server polls its files; failed reconciliations are repeated, and of the
\* manager's pods one runs and is elected.
Fairness ==
    /\ WF_vars(\/ Migration(Migrator)
               \/ Labels(ensureLabelOnResource)
               \/ Certificates(\E p \in Pods : Work(p)))
    /\ WF_vars(\/ Migration(\E o \in Objects : Inform(o))
               \/ Labels(\E i \in DOMAIN resources : ScopedInform(i))
               \/ Certificates(\E p \in Pods : Reload(p)))
    /\ WF_vars(\/ Labels(ApplyLabelled)
               \/ Certificates(\E p \in Pods : Start(p) \/ Elect(p)))

Spec == Init /\ [][Next]_vars /\ Fairness

\* What a start of the manager has to get done gets done, through failing requests
\* and restarts: the storage migration ends (Migrator.Start), and the first Fluent
\* Bit reconciliation succeeds once the objects of an earlier release are labelled
\* (Updater.Start).
StartupCompletes ==
    <>CASE part = "migration" -> MigrationComplete
        [] part = "labels" -> applied
        [] OTHER -> TRUE

\* The webhooks work again and again, whatever failed in between: some leader serves
\* an unexpired certificate that every CA bundle accepts (EnsureCertificate, which the
\* Telemetry reconciler repeats after an error).
WebhooksRecover == []<>(part = "certificates" => WebhooksWork)

=============================================================================
