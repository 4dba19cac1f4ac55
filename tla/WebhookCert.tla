---------------------------- MODULE WebhookCert ----------------------------
(***************************************************************************)
(* The certificates of the admission and conversion webhooks: the CA kept  *)
(* in a Secret, the server certificate each manager pod keeps in its       *)
(* emptyDir volume, and the CA bundle in the objects that make the API     *)
(* server call the webhooks (internal/webhookcert).  EnsureCertificate     *)
(* runs when a pod starts (main.go) and in every reconciliation of the     *)
(* Telemetry resource by the leader (internal/reconciler/telemetry).       *)
(*                                                                         *)
(* Time advances by Tick, one resync period of the informer caches: the    *)
(* only thing that brings the leader back to EnsureCertificate when nobody *)
(* touches a watched object.  A certificate is represented by the CA that  *)
(* signed it and the number of periods it stays valid, so the model has no *)
(* bound on time.  A Telemetry resource exists and its controller is not   *)
(* paused by an override: otherwise Reconcile does not get to the webhook. *)
(***************************************************************************)
EXTENDS Integers, FiniteSets, Sequences

\* Where a pod is in EnsureCertificate; while it updates the objects with a CA
\* bundle, its step is the name of the object that comes next.
PlainSteps == {"idle", "readCA", "writeCA", "server", "writeCrt", "writeKey"}

ConfigNames == {"validating", "mutating", "logCRD", "metricCRD"}

\* The order in which applyWebhookConfigResources updates them.
firstConfig == "validating"
nextConfig == [validating |-> "mutating", mutating |-> "logCRD",
               logCRD |-> "metricCRD", metricCRD |-> "none"]

CONSTANTS
    Pods,              \* the pods of the manager's Deployment, old and new
    CAIds,             \* bounds the CAs something still refers to
    CAMaxAge,          \* caCertMaxAge less the hour of clock skew, in periods
    CASoftExpiry,      \* softExpiryOffset of the CA (30 days)
    ServerMaxAge,      \* serverCertMaxAge less the hour of clock skew
    ServerSoftExpiry,  \* softExpiryOffset of the server certificate (1 day)
    NoCA, NoPod,       \* no CA, no pod
    TornSaves,         \* whether save may stop between tls.crt and tls.key
    MaxCertFaults      \* bounds crashes, failed calls and outside changes

ASSUME LifetimesAssumption ==
    /\ CAMaxAge \in Nat /\ CASoftExpiry \in Nat
    /\ ServerMaxAge \in Nat /\ ServerSoftExpiry \in Nat
    /\ ServerSoftExpiry >= 1
    /\ ServerMaxAge > ServerSoftExpiry
    /\ CASoftExpiry >= ServerMaxAge
    /\ CAMaxAge > CASoftExpiry

ASSUME BoundsAssumption ==
    /\ MaxCertFaults \in Nat
    /\ TornSaves \in BOOLEAN
    /\ NoCA \notin CAIds /\ NoPod \notin Pods

VARIABLES
    caSecret,   \* the CA in the Secret; NoCA if it is absent, or lacks a valid
                \* certificate or key, which GetCert treats alike
    caLeft,     \* periods each CA stays valid
    bundle,     \* the CA bundle of each object, or NoCA
    proc,       \* each pod: not there, on its way through run(), or serving
    crt, key,   \* tls.crt and tls.key in the pod's volume
    loaded,     \* the certificate the pod's webhook server answers with
    step,       \* how far the pod is in EnsureCertificate
    mine,       \* the CA that run of EnsureCertificate works with
    leader,     \* the pod that holds the lease, or NoPod
    queued,     \* a Telemetry request waits in the leader's work queue
    certFaults

store == <<caSecret, caLeft, bundle>>
files == <<crt, key>>
certVars == <<caSecret, caLeft, bundle, proc, crt, key, loaded, step, mine, leader,
              queued, certFaults>>

ServerCert == [ca : CAIds, left : 0..ServerMaxAge]
NoCert == [ca |-> NoCA, left |-> 0]

\* tls.key belongs to tls.crt, is another key, or is missing or empty.
KeyStates == {"matching", "other", "none"}

CertTypeOK ==
    /\ caSecret \in CAIds \cup {NoCA}
    /\ caLeft \in [CAIds -> 0..CAMaxAge]
    /\ bundle \in [ConfigNames -> CAIds \cup {NoCA}]
    /\ proc \in [Pods -> {"gone", "starting", "up"}]
    /\ crt \in [Pods -> ServerCert \cup {NoCert}]
    /\ key \in [Pods -> KeyStates]
    /\ loaded \in [Pods -> ServerCert \cup {NoCert}]
    /\ step \in [Pods -> PlainSteps \cup ConfigNames]
    /\ mine \in [Pods -> CAIds \cup {NoCA}]
    /\ leader \in Pods \cup {NoPod}
    /\ queued \in BOOLEAN
    /\ certFaults \in 0..MaxCertFaults

----------------------------------------------------------------------------
(***************************************************************************)
(* The decisions of the providers.                                         *)
(***************************************************************************)

\* checkExpiry: valid until softExpiryOffset before the hard expiry.
checkExpiry(left, softExpiryOffset) == left > softExpiryOffset

\* Mutant: the CA is kept until its hard expiry.
checkCASecretHard(c) == c # NoCA /\ checkExpiry(caLeft[c], 0)

checkCASecret(c) == c # NoCA /\ checkExpiry(caLeft[c], CASoftExpiry)

\* Mutants: the hard expiry, and no chain.
checkServerCertHard(c, ca) == c.left > 0 /\ c.ca = ca /\ caLeft[ca] > 0
checkServerCertNoChain(c, ca) == checkExpiry(c.left, ServerSoftExpiry)

\* The chain is verified against the CA and both must still be valid; the key
\* is only required to be there.
checkServerCert(c, ca) ==
    /\ checkExpiry(c.left, ServerSoftExpiry)
    /\ c.ca = ca
    /\ c.left > 0 /\ caLeft[ca] > 0

storedCertUsable(p, ca) ==
    crt[p] # NoCert /\ key[p] # "none" /\ checkServerCert(crt[p], ca)

\* A CA nothing refers to any more: its identity may stand for a new one.
FreeCAs ==
    {c \in CAIds :
        /\ c # caSecret
        /\ \A n \in ConfigNames : bundle[n] # c
        /\ \A p \in Pods :
              /\ mine[p] # c
              /\ crt[p] # NoCert => crt[p].ca # c
              /\ loaded[p] # NoCert => loaded[p].ca # c}

----------------------------------------------------------------------------
CertInit ==
    /\ caSecret = NoCA
    /\ caLeft = [c \in CAIds |-> 0]
    /\ bundle = [n \in ConfigNames |-> NoCA]
    /\ proc = [p \in Pods |-> "gone"]
    /\ crt = [p \in Pods |-> NoCert]
    /\ key = [p \in Pods |-> "none"]
    /\ loaded = [p \in Pods |-> NoCert]
    /\ step = [p \in Pods |-> "idle"]
    /\ mine = [p \in Pods |-> NoCA]
    /\ leader = NoPod
    /\ queued = FALSE
    /\ certFaults = 0

Fault == certFaults < MaxCertFaults /\ certFaults' = certFaults + 1

\* A new pod has an empty volume; its run() gets to ensureWebhookCert.  A
\* rollout starts it beside the old pod.
Start(p) ==
    /\ proc[p] = "gone"
    /\ IF \A q \in Pods : proc[q] = "gone" THEN UNCHANGED certFaults ELSE Fault
    /\ proc' = [proc EXCEPT ![p] = "starting"]
    /\ step' = [step EXCEPT ![p] = "readCA"]
    /\ UNCHANGED <<store, files, loaded, mine, leader, queued>>

\* The leader takes the Telemetry request and gets to reconcileWebhook.
Reconcile(p) ==
    /\ leader = p /\ queued /\ step[p] = "idle"
    /\ queued' = FALSE
    /\ step' = [step EXCEPT ![p] = "readCA"]
    /\ UNCHANGED <<store, files, proc, loaded, mine, leader, certFaults>>

\* Mutant: a failed reconciliation is not tried again.
FailedDropped(p) ==
    /\ step' = [step EXCEPT ![p] = IF proc[p] = "starting" THEN "readCA" ELSE "idle"]
    /\ mine' = [mine EXCEPT ![p] = NoCA]
    /\ UNCHANGED queued

\* An error ends EnsureCertificate: run() returns it and the container starts
\* again, the reconciler's request is put back.
Failed(p) ==
    /\ step' = [step EXCEPT ![p] = IF proc[p] = "starting" THEN "readCA" ELSE "idle"]
    /\ mine' = [mine EXCEPT ![p] = NoCA]
    /\ queued' = (queued \/ leader = p)

\* provideCert of the CA: the Secret is read, and used if it passes the checks.
ReadCA(p) ==
    /\ step[p] = "readCA"
    /\ IF checkCASecret(caSecret)
       THEN /\ step' = [step EXCEPT ![p] = "server"]
            /\ mine' = [mine EXCEPT ![p] = caSecret]
       ELSE /\ step' = [step EXCEPT ![p] = "writeCA"]
            /\ UNCHANGED mine
    /\ UNCHANGED <<store, files, proc, loaded, leader, queued, certFaults>>

\* A new CA is generated and written whatever the Secret holds by now:
\* CreateOrUpdateSecret takes the resource version from its own read.
WriteCA(p) ==
    /\ step[p] = "writeCA"
    /\ FreeCAs # {}
    /\ LET c == CHOOSE free \in FreeCAs : TRUE
       IN /\ caSecret' = c
          /\ caLeft' = [caLeft EXCEPT ![c] = CAMaxAge]
          /\ mine' = [mine EXCEPT ![p] = c]
    /\ step' = [step EXCEPT ![p] = "server"]
    /\ UNCHANGED <<bundle, files, proc, loaded, leader, queued, certFaults>>

\* provideCert of the server certificate.
CheckServer(p) ==
    /\ step[p] = "server"
    /\ step' = [step EXCEPT ![p] = IF storedCertUsable(p, mine[p])
                                   THEN firstConfig ELSE "writeCrt"]
    /\ UNCHANGED <<store, files, proc, loaded, mine, leader, queued, certFaults>>

\* save writes tls.crt ...
WriteCrt(p) ==
    /\ step[p] = "writeCrt"
    /\ crt' = [crt EXCEPT ![p] = [ca |-> mine[p], left |-> ServerMaxAge]]
    /\ key' = [key EXCEPT ![p] = IF @ = "none" THEN "none" ELSE "other"]
    /\ step' = [step EXCEPT ![p] = "writeKey"]
    /\ UNCHANGED <<store, proc, loaded, mine, leader, queued, certFaults>>

\* ... and then tls.key.
WriteKey(p) ==
    /\ step[p] = "writeKey"
    /\ key' = [key EXCEPT ![p] = "matching"]
    /\ step' = [step EXCEPT ![p] = firstConfig]
    /\ UNCHANGED <<store, crt, proc, loaded, mine, leader, queued, certFaults>>

\* EnsureCertificate returns: a starting pod starts its webhook server, which
\* must load the pair (the manager gives up and the container starts again if
\* it cannot); the leader ends its reconciliation.
Ensured(p) ==
    /\ mine' = [mine EXCEPT ![p] = NoCA]
    /\ IF proc[p] = "up"
       THEN /\ step' = [step EXCEPT ![p] = "idle"]
            /\ UNCHANGED <<proc, loaded>>
       ELSE IF key[p] = "matching"
       THEN /\ step' = [step EXCEPT ![p] = "idle"]
            /\ proc' = [proc EXCEPT ![p] = "up"]
            /\ loaded' = [loaded EXCEPT ![p] = crt[p]]
       ELSE /\ step' = [step EXCEPT ![p] = "readCA"]
            /\ UNCHANGED <<proc, loaded>>

\* applyWebhookConfigResources, one object after the other.  The Telemetry
\* controller watches these objects.
ApplyBundle(p) ==
    /\ step[p] \in ConfigNames
    /\ bundle' = [bundle EXCEPT ![step[p]] = mine[p]]
    /\ queued' = (queued \/ (leader # NoPod /\ bundle[step[p]] # mine[p]))
    /\ IF nextConfig[step[p]] # "none"
       THEN /\ step' = [step EXCEPT ![p] = nextConfig[step[p]]]
            /\ UNCHANGED <<mine, proc, loaded>>
       ELSE Ensured(p)
    /\ UNCHANGED <<caSecret, caLeft, files, leader, certFaults>>

\* The certificate watcher of the webhook server picks up a pair that loads.
Reload(p) ==
    /\ proc[p] = "up" /\ key[p] = "matching" /\ loaded[p] # crt[p]
    /\ loaded' = [loaded EXCEPT ![p] = crt[p]]
    /\ UNCHANGED <<store, files, proc, step, mine, leader, queued, certFaults>>

\* The lease; the new leader's informers deliver the Telemetry resource.
Elect(p) ==
    /\ leader = NoPod /\ proc[p] = "up"
    /\ leader' = p
    /\ queued' = TRUE
    /\ UNCHANGED <<store, files, proc, loaded, step, mine, certFaults>>

----------------------------------------------------------------------------
(***************************************************************************)
(* What goes wrong, and what others do.                                    *)
(***************************************************************************)
\* A call fails: a read, a write that conflicts, a file that is not written.
CallFails(p) ==
    /\ step[p] # "idle" /\ step[p] # "server"
    /\ step[p] = "writeKey" => TornSaves
    /\ Fault
    /\ Failed(p)
    /\ UNCHANGED <<store, files, proc, loaded, leader>>

\* The container stops and starts again; the volume is kept.
Crash(p) ==
    /\ proc[p] # "gone"
    /\ step[p] = "writeKey" => TornSaves
    /\ Fault
    /\ proc' = [proc EXCEPT ![p] = "starting"]
    /\ step' = [step EXCEPT ![p] = "readCA"]
    /\ mine' = [mine EXCEPT ![p] = NoCA]
    /\ loaded' = [loaded EXCEPT ![p] = NoCert]
    /\ leader' = IF leader = p THEN NoPod ELSE leader
    /\ queued' = (queued /\ leader # p)
    /\ UNCHANGED <<store, files>>

\* The Deployment removes the pod, and the volume with it: the old one at the
\* end of a rollout, or any one that is evicted.
RemovePod(p) ==
    /\ proc[p] # "gone"
    /\ IF \E q \in Pods \ {p} : proc[q] = "up" THEN UNCHANGED certFaults ELSE Fault
    /\ proc' = [proc EXCEPT ![p] = "gone"]
    /\ step' = [step EXCEPT ![p] = "idle"]
    /\ mine' = [mine EXCEPT ![p] = NoCA]
    /\ crt' = [crt EXCEPT ![p] = NoCert]
    /\ key' = [key EXCEPT ![p] = "none"]
    /\ loaded' = [loaded EXCEPT ![p] = NoCert]
    /\ leader' = IF leader = p THEN NoPod ELSE leader
    /\ queued' = (queued /\ leader # p)
    /\ UNCHANGED store

\* The Secret is deleted, or loses its certificate or its key.  It carries no
\* module label, so the label-scoped cache never delivers it and the leader is not
\* told.
DeleteSecret ==
    /\ caSecret # NoCA
    /\ Fault
    /\ caSecret' = NoCA
    /\ UNCHANGED <<caLeft, bundle, files, proc, loaded, step, mine, leader, queued>>

\* The object is applied anew without its bundle, as an upgrade of the module
\* does.
ResetConfig ==
    /\ \E n \in ConfigNames :
          bundle[n] # NoCA /\ bundle' = [bundle EXCEPT ![n] = NoCA]
    /\ Fault
    /\ queued' = (queued \/ leader # NoPod)
    /\ UNCHANGED <<caSecret, caLeft, files, proc, loaded, step, mine, leader>>

----------------------------------------------------------------------------
(***************************************************************************)
(* A resync period passes and delivers the Telemetry resource again.  Work *)
(* that has started, a rollout and an election end within a period.        *)
(***************************************************************************)
Settled ==
    /\ leader # NoPod /\ ~queued
    /\ \A p \in Pods :
          /\ step[p] = "idle"
          /\ key[p] = "matching" => loaded[p] = crt[p]

Older(c) == IF c = NoCert THEN c
            ELSE [ca |-> c.ca, left |-> IF c.left = 0 THEN 0 ELSE c.left - 1]

Tick ==
    /\ Settled
    /\ \A p \in Pods : proc[p] # "gone" => p = leader
    /\ caLeft' = [c \in CAIds |-> IF caLeft[c] = 0 THEN 0 ELSE caLeft[c] - 1]
    /\ crt' = [p \in Pods |-> Older(crt[p])]
    /\ loaded' = [p \in Pods |-> Older(loaded[p])]
    /\ queued' = TRUE
    /\ UNCHANGED <<caSecret, bundle, proc, key, step, mine, leader, certFaults>>

Work(p) == \/ Reconcile(p) \/ ReadCA(p) \/ WriteCA(p) \/ CheckServer(p)
           \/ WriteCrt(p) \/ WriteKey(p) \/ ApplyBundle(p)

CertNext ==
    \/ \E p \in Pods :
          \/ Start(p) \/ Reconcile(p) \/ ReadCA(p) \/ WriteCA(p)
          \/ CheckServer(p) \/ WriteCrt(p) \/ WriteKey(p) \/ ApplyBundle(p)
          \/ Reload(p) \/ Elect(p) \/ CallFails(p) \/ Crash(p) \/ RemovePod(p)
    \/ DeleteSecret \/ ResetConfig \/ Tick

CertSpec == CertInit /\ [][CertNext]_certVars

----------------------------------------------------------------------------
(***************************************************************************)
(* Properties.                                                             *)
(***************************************************************************)

\* A server certificate never outlives the CA that signed it: the CA is
\* replaced 30 days before its end (newCACertProvider) and a server
\* certificate lasts a week, so checkServerCert never has to reject a
\* certificate because its CA expired under it.
ServerNeverOutlivesCA ==
    \A p \in Pods :
        /\ crt[p] # NoCert => crt[p].left <= caLeft[crt[p].ca]
        /\ loaded[p] # NoCert => loaded[p].left <= caLeft[loaded[p].ca]

\* No pod answers webhook calls with a certificate that has expired: the
\* resync comes back to provideCert before the hard expiry, because the soft
\* expiry leaves more than one period (checkExpiry).
ServedNotExpired ==
    \A p \in Pods : loaded[p] # NoCert => loaded[p].left > 0

\* When nothing is left to do before the next resync, the CA bundle in every
\* object is the CA of the certificate the leader serves: whatever order two
\* pods generated a CA, saved a certificate and updated the objects in, a
\* watched object changed last and EnsureCertificate ran once more.
RestingChain ==
    Settled => \A n \in ConfigNames : bundle[n] = loaded[leader].ca

\* Some leader serves an unexpired certificate that every CA bundle accepts.
WebhooksWork ==
    /\ leader # NoPod
    /\ loaded[leader] # NoCert /\ loaded[leader].left > 0
    /\ \A n \in ConfigNames : bundle[n] = loaded[leader].ca
=============================================================================
