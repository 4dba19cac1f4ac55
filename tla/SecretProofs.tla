---------------------------- MODULE SecretProofs ----------------------------
(***************************************************************************)
(* Proofs about Secrets.  The lifetimes of the webhook certificates, for   *)
(* any number of pods and CAs and all lifetimes that LifetimesAssumption   *)
(* admits.  And the watcher of the Secrets that pipelines refer to: it     *)
(* leaks no goroutine, a pipeline is linked to the Secrets it refers to,   *)
(* and a change is lost only before the list from whose version a watch    *)
(* goes on: from the start of the watcher or the end of the connection     *)
(* before.  For any number of pipelines, Secrets and faults.               *)
(***************************************************************************)
EXTENDS WebhookCert, SecretWatch, TLAPS

----------------------------------------------------------------------------
(***************************************************************************)
(* No server certificate outlives its CA.                                  *)
(***************************************************************************)

\* A pod that is past the CA in EnsureCertificate has a CA to sign with, which
\* lasts longer than what it is about to sign.
MineLasts ==
    \A p \in Pods :
        /\ step[p] \in {"server", "writeCrt", "writeKey"} \cup ConfigNames => mine[p] \in CAIds
        /\ step[p] \in {"server", "writeCrt"} => caLeft[mine[p]] >= ServerMaxAge

CoverInv == CertTypeOK /\ MineLasts /\ ServerNeverOutlivesCA

\* A certificate that is there names its CA and its time left.
LEMMA SomeCert ==
    ASSUME NEW c \in ServerCert \cup {NoCert}, c # NoCert
    PROVE  c \in ServerCert /\ c.ca \in CAIds /\ c.left \in 0..ServerMaxAge
BY Zenon DEF ServerCert

\* A certificate ages by one period, and not below zero.
LEMMA OlderCert ==
    ASSUME NEW c \in ServerCert \cup {NoCert}
    PROVE  /\ Older(c) \in ServerCert \cup {NoCert}
           /\ Older(c) # NoCert => /\ c # NoCert
                                   /\ Older(c).ca = c.ca
                                   /\ Older(c).left = IF c.left = 0 THEN 0 ELSE c.left - 1
<1>1. CASE c = NoCert
  BY <1>1, Zenon DEF Older
<1>2. CASE c # NoCert
  <2>1. c.ca \in CAIds /\ c.left \in 0..ServerMaxAge
    BY <1>2, SomeCert, Zenon
  <2>2. (IF c.left = 0 THEN 0 ELSE c.left - 1) \in 0..ServerMaxAge
    BY <2>1, LifetimesAssumption
  <2> QED
    BY <1>2, <2>1, <2>2, Zenon DEF Older, ServerCert
<1> QED
  BY <1>1, <1>2, Zenon

LEMMA CoverInit == CertInit => CoverInv
<1> SUFFICES ASSUME CertInit PROVE CoverInv
  BY Zenon
<1>1. /\ caSecret \in CAIds \cup {NoCA}
      /\ caLeft \in [CAIds -> 0..CAMaxAge]
      /\ bundle \in [ConfigNames -> CAIds \cup {NoCA}]
      /\ mine \in [Pods -> CAIds \cup {NoCA}]
      /\ leader \in Pods \cup {NoPod}
      /\ certFaults \in 0..MaxCertFaults
  BY LifetimesAssumption, BoundsAssumption DEF CertInit
<1>2. /\ proc \in [Pods -> {"gone", "starting", "up"}]
      /\ key \in [Pods -> KeyStates]
      /\ step \in [Pods -> PlainSteps \cup ConfigNames]
  BY Zenon DEF CertInit, KeyStates, PlainSteps
<1>3. /\ crt \in [Pods -> ServerCert \cup {NoCert}]
      /\ loaded \in [Pods -> ServerCert \cup {NoCert}]
  BY Zenon DEF CertInit
<1>4. queued \in BOOLEAN
  BY Zenon DEF CertInit
<1>5. MineLasts /\ ServerNeverOutlivesCA
  BY Zenon DEF CertInit, MineLasts, ServerNeverOutlivesCA, ConfigNames
<1> QED
  BY <1>1, <1>2, <1>3, <1>4, <1>5, Zenon DEF CoverInv, CertTypeOK

\* The steps that change no CA and no certificate.
LEMMA CoverControl ==
    ASSUME CoverInv, NEW p \in Pods,
           \/ Start(p) \/ Reconcile(p) \/ ReadCA(p) \/ CheckServer(p) \/ WriteKey(p)
           \/ Elect(p)
    PROVE  CoverInv'
<1> USE LifetimesAssumption, BoundsAssumption DEF CoverInv, CertTypeOK, MineLasts
<1>1. CASE Start(p)
  BY <1>1 DEF Start, Fault, store, files, ServerNeverOutlivesCA, PlainSteps, ConfigNames
<1>2. CASE Reconcile(p)
  BY <1>2, Zenon DEF Reconcile, store, files, ServerNeverOutlivesCA, PlainSteps, ConfigNames
<1>3. CASE ReadCA(p)
  BY <1>3 DEF ReadCA, checkCASecret, checkExpiry, store, files, ServerNeverOutlivesCA,
              PlainSteps, ConfigNames
<1>4. CASE CheckServer(p)
  BY <1>4, Zenon
  DEF CheckServer, firstConfig, store, files, ServerNeverOutlivesCA, PlainSteps, ConfigNames
<1>5. CASE WriteKey(p)
  BY <1>5, Zenon
  DEF WriteKey, firstConfig, store, ServerNeverOutlivesCA, PlainSteps, ConfigNames, KeyStates
<1>6. CASE Elect(p)
  BY <1>6, Zenon DEF Elect, store, files, ServerNeverOutlivesCA, PlainSteps, ConfigNames
<1> QED
  BY <1>1, <1>2, <1>3, <1>4, <1>5, <1>6, Zenon

\* A new CA takes the place of one nothing refers to, and lasts long enough.
LEMMA CoverWriteCA ==
    ASSUME CoverInv, NEW p \in Pods, WriteCA(p)
    PROVE  CoverInv'
<1> USE DEF CoverInv, CertTypeOK
<1>1. PICK c \in FreeCAs : /\ caSecret' = c
                           /\ caLeft' = [caLeft EXCEPT ![c] = CAMaxAge]
                           /\ mine' = [mine EXCEPT ![p] = c]
  BY Zenon DEF WriteCA
<1>2. /\ c \in CAIds
      /\ \A q \in Pods : /\ mine[q] # c
                         /\ crt[q] # NoCert => crt[q].ca # c
                         /\ loaded[q] # NoCert => loaded[q].ca # c
  BY Zenon DEF FreeCAs
<1>3. CertTypeOK'
  <2>1. /\ caLeft' \in [CAIds -> 0..CAMaxAge]
        /\ caSecret' \in CAIds \cup {NoCA}
        /\ mine' \in [Pods -> CAIds \cup {NoCA}]
    BY <1>1, <1>2, LifetimesAssumption
  <2>2. step' \in [Pods -> PlainSteps \cup ConfigNames]
    BY Zenon DEF WriteCA, PlainSteps
  <2> QED
    BY <2>1, <2>2, Zenon DEF WriteCA, files
<1>4. MineLasts'
  <2> SUFFICES ASSUME NEW q \in Pods
               PROVE  /\ step'[q] \in {"server", "writeCrt", "writeKey"} \cup ConfigNames
                            => mine'[q] \in CAIds
                      /\ step'[q] \in {"server", "writeCrt"}
                            => caLeft'[mine'[q]] >= ServerMaxAge
    BY Zenon DEF MineLasts
  <2>1. CASE q = p
    BY <1>1, <1>2, <2>1, LifetimesAssumption
  <2>2. CASE q # p
    BY <1>1, <1>2, <2>2, Zenon DEF WriteCA, MineLasts
  <2> QED
    BY <2>1, <2>2, Zenon
<1>5. ServerNeverOutlivesCA'
  <2> SUFFICES ASSUME NEW q \in Pods
               PROVE  /\ crt[q] # NoCert => crt[q].left <= caLeft'[crt[q].ca]
                      /\ loaded[q] # NoCert => loaded[q].left <= caLeft'[loaded[q].ca]
    BY Zenon DEF ServerNeverOutlivesCA, WriteCA, files
  <2>1. /\ crt[q] # NoCert => crt[q].ca \in CAIds
        /\ loaded[q] # NoCert => loaded[q].ca \in CAIds
    BY SomeCert, Zenon
  <2> QED
    BY <1>1, <1>2, <2>1, Zenon DEF ServerNeverOutlivesCA
<1> QED
  BY <1>3, <1>4, <1>5, Zenon

\* A new certificate lasts as long as ServerMaxAge, its CA at least as long.
LEMMA CoverWriteCrt ==
    ASSUME CoverInv, NEW p \in Pods, WriteCrt(p)
    PROVE  CoverInv'
<1> USE DEF CoverInv, CertTypeOK
<1> DEFINE new == [ca |-> mine[p], left |-> ServerMaxAge]
<1>1. mine[p] \in CAIds /\ caLeft[mine[p]] >= ServerMaxAge
  BY Zenon DEF WriteCrt, MineLasts
<1>2. new \in ServerCert /\ new.ca = mine[p] /\ new.left = ServerMaxAge
  BY <1>1, LifetimesAssumption DEF ServerCert
<1>3. crt' = [crt EXCEPT ![p] = new]
  BY Zenon DEF WriteCrt
<1> HIDE DEF new
<1>4. CertTypeOK'
  BY <1>2, <1>3 DEF WriteCrt, store, PlainSteps, KeyStates
<1>5. MineLasts'
  BY Zenon DEF WriteCrt, store, MineLasts, ConfigNames
<1>6. ServerNeverOutlivesCA'
  BY <1>1, <1>2, <1>3, Zenon DEF WriteCrt, store, ServerNeverOutlivesCA
<1> QED
  BY <1>4, <1>5, <1>6, Zenon

\* The last object's update ends EnsureCertificate, and may load the pair.
LEMMA CoverApplyBundle ==
    ASSUME CoverInv, NEW p \in Pods, ApplyBundle(p)
    PROVE  CoverInv'
<1> USE DEF CoverInv, CertTypeOK
<1>1. mine[p] \in CAIds
  BY Zenon DEF ApplyBundle, MineLasts
<1>2. queued' \in BOOLEAN
  BY Zenon DEF ApplyBundle
<1>3. CASE nextConfig[step[p]] # "none"
  <2>1. nextConfig[step[p]] \in ConfigNames
    BY <1>3 DEF ApplyBundle, ConfigNames, nextConfig
  <2> QED
    BY <1>1, <1>2, <1>3, <2>1
       DEF ApplyBundle, files, MineLasts, ServerNeverOutlivesCA, ConfigNames
<1>4. CASE nextConfig[step[p]] = "none"
  <2>1. Ensured(p)
    BY <1>4, Zenon DEF ApplyBundle
  <2>2. /\ step' \in [Pods -> PlainSteps \cup ConfigNames]
        /\ step'[p] \in {"idle", "readCA"}
        /\ \A q \in Pods \ {p} : step'[q] = step[q] /\ mine'[q] = mine[q]
    BY <2>1 DEF Ensured, PlainSteps
  <2>3. /\ loaded' \in [Pods -> ServerCert \cup {NoCert}]
        /\ \A q \in Pods : loaded'[q] \in {loaded[q], crt[q]}
        /\ proc' \in [Pods -> {"gone", "starting", "up"}]
        /\ mine' \in [Pods -> CAIds \cup {NoCA}]
    BY <2>1 DEF Ensured
  <2>4. CertTypeOK'
    BY <1>1, <1>2, <2>2, <2>3, Zenon DEF ApplyBundle, files
  <2>5. MineLasts'
    BY <2>2, Zenon DEF ApplyBundle, MineLasts, ConfigNames
  <2>6. ServerNeverOutlivesCA'
    BY <2>3, SMTT(30) DEF ApplyBundle, files, ServerNeverOutlivesCA
  <2> QED
    BY <2>4, <2>5, <2>6
<1> QED
  BY <1>3, <1>4, Zenon

\* The steps that load a pair, fail or remove.
LEMMA CoverMishaps ==
    ASSUME CoverInv,
           \/ \E p \in Pods : Reload(p) \/ CallFails(p) \/ Crash(p) \/ RemovePod(p)
           \/ DeleteSecret \/ ResetConfig
    PROVE  CoverInv'
<1> USE LifetimesAssumption, BoundsAssumption
    DEF CoverInv, CertTypeOK, MineLasts, ServerNeverOutlivesCA
<1>1. ASSUME NEW p \in Pods, Reload(p) PROVE CoverInv'
  BY <1>1, Zenon DEF Reload, store, files
<1>2. ASSUME NEW p \in Pods, CallFails(p) PROVE CoverInv'
  <2>1. queued' \in BOOLEAN
    BY <1>2, Zenon DEF CallFails, Failed
  <2> QED
    BY <1>2, <2>1 DEF CallFails, Failed, Fault, store, files, PlainSteps, ConfigNames
<1>3. ASSUME NEW p \in Pods, Crash(p) PROVE CoverInv'
  <2>1. queued' \in BOOLEAN
    BY <1>3, Zenon DEF Crash
  <2> QED
    BY <1>3, <2>1 DEF Crash, Fault, store, files, PlainSteps, ConfigNames
<1>4. ASSUME NEW p \in Pods, RemovePod(p) PROVE CoverInv'
  <2>1. queued' \in BOOLEAN
    BY <1>4, Zenon DEF RemovePod
  <2> QED
    BY <1>4, <2>1 DEF RemovePod, Fault, store, PlainSteps, ConfigNames, KeyStates
<1>5. CASE DeleteSecret
  BY <1>5 DEF DeleteSecret, Fault, files
<1>6. CASE ResetConfig
  <2>1. queued' \in BOOLEAN
    BY <1>6, Zenon DEF ResetConfig
  <2> QED
    BY <1>6, <2>1 DEF ResetConfig, Fault, files
<1> QED
  BY <1>1, <1>2, <1>3, <1>4, <1>5, <1>6, Zenon

\* A period passes for the certificates and for their CAs alike.
LEMMA CoverTick ==
    ASSUME CoverInv, Tick
    PROVE  CoverInv'
<1> USE DEF CoverInv, CertTypeOK
<1>1. /\ caLeft' \in [CAIds -> 0..CAMaxAge]
      /\ \A c \in CAIds : caLeft'[c] = IF caLeft[c] = 0 THEN 0 ELSE caLeft[c] - 1
  <2>1. ASSUME NEW c \in CAIds
        PROVE  (IF caLeft[c] = 0 THEN 0 ELSE caLeft[c] - 1) \in 0..CAMaxAge
    <3>1. caLeft[c] \in 0..CAMaxAge
      BY Zenon
    <3> QED
      BY <3>1, LifetimesAssumption
  <2> QED
    BY <2>1, Zenon DEF Tick
<1>2. /\ crt' \in [Pods -> ServerCert \cup {NoCert}]
      /\ loaded' \in [Pods -> ServerCert \cup {NoCert}]
  BY OlderCert, Zenon DEF Tick
<1>3. CertTypeOK'
  BY <1>1, <1>2, Zenon DEF Tick
<1>4. MineLasts'
  BY Zenon DEF Tick, Settled, MineLasts, ConfigNames
<1>5. ServerNeverOutlivesCA'
  <2>1. ASSUME NEW c \in ServerCert \cup {NoCert}, c # NoCert => c.left <= caLeft[c.ca],
               Older(c) # NoCert
        PROVE  Older(c).left <= caLeft'[Older(c).ca]
    <3>1. /\ c # NoCert /\ Older(c).ca = c.ca
          /\ Older(c).left = IF c.left = 0 THEN 0 ELSE c.left - 1
      BY <2>1, OlderCert, Zenon
    <3>2. c.ca \in CAIds /\ c.left \in 0..ServerMaxAge
      BY <3>1, SomeCert, Zenon
    <3> QED
      BY <1>1, <2>1, <3>1, <3>2, LifetimesAssumption
  <2>2. ASSUME NEW p \in Pods
        PROVE  /\ crt'[p] = Older(crt[p]) /\ loaded'[p] = Older(loaded[p])
               /\ crt[p] # NoCert => crt[p].left <= caLeft[crt[p].ca]
               /\ loaded[p] # NoCert => loaded[p].left <= caLeft[loaded[p].ca]
    BY Zenon DEF Tick, ServerNeverOutlivesCA
  <2>3. ASSUME NEW p \in Pods
        PROVE  /\ Older(crt[p]) # NoCert
                     => Older(crt[p]).left <= caLeft'[Older(crt[p]).ca]
               /\ Older(loaded[p]) # NoCert
                     => Older(loaded[p]).left <= caLeft'[Older(loaded[p]).ca]
    BY <2>1, <2>2, Zenon
  <2> QED
    BY <2>2, <2>3, Zenon DEF ServerNeverOutlivesCA
<1> QED
  BY <1>3, <1>4, <1>5, Zenon

LEMMA CoverNext ==
    ASSUME CoverInv, [CertNext]_certVars
    PROVE  CoverInv'
<1>1. CASE CertNext
  BY <1>1, CoverControl, CoverWriteCA, CoverWriteCrt, CoverApplyBundle, CoverMishaps, CoverTick, Zenon
  DEF CertNext
<1>2. CASE UNCHANGED certVars
  BY <1>2, Zenon DEF certVars, CoverInv, CertTypeOK, MineLasts, ServerNeverOutlivesCA
<1> QED
  BY <1>1, <1>2, Zenon

\* For every number of pods and every lifetime: no certificate a pod keeps or
\* answers with (server_cert_provider.go) outlives the CA that signed it, even
\* if saves are torn, pods crash and the Secret is deleted.
THEOREM CertificatesAreCovered == CertSpec => []ServerNeverOutlivesCA
<1>1. CoverInv => ServerNeverOutlivesCA
  BY Zenon DEF CoverInv
<1> QED
  BY <1>1, CoverInit, CoverNext, PTL DEF CertSpec

----------------------------------------------------------------------------
(***************************************************************************)
(* No expired certificate is served.                                       *)
(***************************************************************************)

\* The stored certificate is not due for renewal; its key belongs to it.
Signed(p) == crt[p] # NoCert /\ crt[p].left > ServerSoftExpiry
Fresh(p) == Signed(p) /\ key[p] = "matching"

\* What a period finds when it passes: a leader that is done with its work has
\* a pair that lasts beyond the period, and no other pod has a certificate.
LeaderIsFresh ==
    leader # NoPod => /\ proc[leader] = "up"
                      /\ ~queued /\ step[leader] = "idle" => Fresh(leader)

PodIsFresh(p) ==
    /\ proc[p] = "gone" => step[p] = "idle" /\ crt[p] = NoCert /\ loaded[p] = NoCert
    /\ crt[p] # NoCert => crt[p].left > 0
    /\ loaded[p] # NoCert => loaded[p].left > 0
    /\ key[p] = "other" => step[p] = "writeKey"
    /\ step[p] = "writeKey" => Signed(p)
    /\ step[p] \in ConfigNames => Fresh(p)

RenewInv == CertTypeOK /\ LeaderIsFresh /\ \A p \in Pods : PodIsFresh(p)

LEMMA RenewInit == CertInit => RenewInv
<1> SUFFICES ASSUME CertInit PROVE RenewInv
  OBVIOUS
<1>1. CertTypeOK
  BY CoverInit, Zenon DEF CoverInv
<1>2. LeaderIsFresh
  BY Zenon DEF CertInit, LeaderIsFresh
<1>3. ASSUME NEW p \in Pods PROVE PodIsFresh(p)
  BY Zenon DEF CertInit, PodIsFresh, ConfigNames
<1> QED
  BY <1>1, <1>2, <1>3, Zenon DEF RenewInv

\* What most steps need of the types.
Shape ==
    /\ crt = [p \in Pods |-> crt[p]] /\ key = [p \in Pods |-> key[p]]
    /\ proc = [p \in Pods |-> proc[p]] /\ loaded = [p \in Pods |-> loaded[p]]
    /\ step = [p \in Pods |-> step[p]] /\ mine = [p \in Pods |-> mine[p]]
    /\ bundle = [n \in ConfigNames |-> bundle[n]]
    /\ queued \in BOOLEAN /\ leader \in Pods \cup {NoPod} /\ NoPod \notin Pods

LEMMA TypeGivesShape == CertTypeOK => Shape
  BY BoundsAssumption, Zenon DEF CertTypeOK, Shape

\* The steps that leave certificates and keys alone.
LEMMA RenewControl ==
    ASSUME RenewInv, NEW p \in Pods,
           \/ Start(p) \/ Reconcile(p) \/ ReadCA(p) \/ WriteCA(p) \/ CheckServer(p)
           \/ Elect(p)
    PROVE  LeaderIsFresh' /\ \A q \in Pods : PodIsFresh(q)'
<1>0. Shape
  BY TypeGivesShape, Zenon DEF RenewInv
<1> USE <1>0 DEF Shape, RenewInv, LeaderIsFresh, PodIsFresh, Fresh, Signed, ConfigNames, files
<1>1. CASE Start(p)
  BY <1>1 DEF Start
<1>2. CASE Reconcile(p)
  BY <1>2, Zenon DEF Reconcile
<1>3. CASE ReadCA(p)
  BY <1>3 DEF ReadCA
<1>4. CASE WriteCA(p)
  BY <1>4, Zenon DEF WriteCA
<1>5. CASE CheckServer(p)
  <2>1. key[p] \in KeyStates
    BY Zenon DEF CertTypeOK
  <2>2. storedCertUsable(p, mine[p]) => Fresh(p)
    BY <1>5, <2>1, Zenon
    DEF CheckServer, storedCertUsable, checkServerCert, checkExpiry, KeyStates
  <2> QED
    BY <1>5, <2>2 DEF CheckServer, firstConfig
<1>6. CASE Elect(p)
  BY <1>6, Zenon DEF Elect
<1> QED
  BY <1>1, <1>2, <1>3, <1>4, <1>5, <1>6, Zenon

\* save ends with a pair that is not due for renewal.
LEMMA RenewSave ==
    ASSUME RenewInv, NEW p \in Pods, WriteCrt(p) \/ WriteKey(p)
    PROVE  LeaderIsFresh' /\ \A q \in Pods : PodIsFresh(q)'
<1>0. Shape
  BY TypeGivesShape, Zenon DEF RenewInv
<1> USE <1>0 DEF Shape, RenewInv, LeaderIsFresh, PodIsFresh, Fresh, Signed, ConfigNames
<1>1. CASE WriteCrt(p)
  <2> DEFINE new == [ca |-> mine[p], left |-> ServerMaxAge]
  <2>1. new # NoCert /\ new.left > ServerSoftExpiry /\ new.left > 0
    BY LifetimesAssumption DEF NoCert
  <2>2. crt' = [crt EXCEPT ![p] = new]
    BY <1>1, Zenon DEF WriteCrt
  <2>3. proc[p] # "gone"
    BY <1>1, Zenon DEF WriteCrt
  <2> HIDE DEF new
  <2> QED
    BY <1>1, <2>1, <2>2, <2>3, Zenon DEF WriteCrt
<1>2. CASE WriteKey(p)
  BY <1>2, Zenon DEF WriteKey, firstConfig
<1> QED
  BY <1>1, <1>2, Zenon

\* EnsureCertificate ends with a pair that matches: it is loaded, at the latest now.
LEMMA EnsuredLoads ==
    ASSUME Shape, NEW p \in Pods, Ensured(p), key[p] = "matching",
           proc[p] \in {"starting", "up"}
    PROVE  /\ step' = [step EXCEPT ![p] = "idle"]
           /\ \A q \in Pods : loaded'[q] \in {loaded[q], crt[q]}
           /\ \A q \in Pods \ {p} : loaded'[q] = loaded[q] /\ proc'[q] = proc[q]
           /\ proc'[p] = "up"
<1>1. CASE proc[p] = "up"
  BY <1>1, Zenon DEF Ensured, Shape
<1>2. CASE proc[p] = "starting"
  BY <1>2 DEF Ensured, Shape
<1> QED
  BY <1>1, <1>2, Zenon

\* A pair is loaded when EnsureCertificate has checked it, or by Reload.
LEMMA RenewLoad ==
    ASSUME RenewInv, NEW p \in Pods, ApplyBundle(p) \/ Reload(p)
    PROVE  LeaderIsFresh' /\ \A q \in Pods : PodIsFresh(q)'
<1>0. Shape
  BY TypeGivesShape DEF RenewInv
<1> USE <1>0 DEF Shape, RenewInv, LeaderIsFresh, PodIsFresh, Fresh, Signed, files
<1>1. CASE ApplyBundle(p)
  <2>1. step[p] \in ConfigNames /\ Fresh(p) /\ proc[p] # "gone" /\ (queued => queued')
    BY <1>1, Zenon DEF ApplyBundle, ConfigNames
  <2>2. CASE nextConfig[step[p]] # "none"
    <3>1. nextConfig[step[p]] \in ConfigNames
      BY <2>1, <2>2 DEF ConfigNames, nextConfig
    <3> QED
      BY <1>1, <2>1, <2>2, <3>1 DEF ApplyBundle, ConfigNames
  <2>3. CASE nextConfig[step[p]] = "none"
    <3>1. Ensured(p) /\ crt' = crt /\ key' = key /\ leader' = leader
      BY <1>1, <2>3, Zenon DEF ApplyBundle
    <3>2. /\ step' = [step EXCEPT ![p] = "idle"]
          /\ \A q \in Pods : loaded'[q] \in {loaded[q], crt[q]}
          /\ \A q \in Pods \ {p} : loaded'[q] = loaded[q] /\ proc'[q] = proc[q]
          /\ proc'[p] = "up"
      <4>1. proc[p] \in {"starting", "up"} /\ key[p] = "matching"
        BY <2>1 DEF CertTypeOK
      <4> QED
        BY <3>1, <4>1, EnsuredLoads, Zenon
    <3>3. LeaderIsFresh'
      BY <2>1, <3>1, <3>2, Zenon DEF ConfigNames
    <3>4. ASSUME NEW q \in Pods PROVE PodIsFresh(q)'
      BY <2>1, <3>1, <3>2, Zenon DEF ConfigNames
    <3> QED
      BY <3>3, <3>4, Zenon
  <2> QED
    BY <2>2, <2>3, Zenon
<1>2. CASE Reload(p)
  BY <1>2, SMTT(30) DEF Reload
<1> QED
  BY <1>1, <1>2, Zenon

\* What fails is tried again by the leader, and never leaves half a save.
LEMMA RenewMishaps ==
    ASSUME ~TornSaves, RenewInv,
           \/ \E p \in Pods : CallFails(p) \/ Crash(p) \/ RemovePod(p)
           \/ DeleteSecret \/ ResetConfig
    PROVE  LeaderIsFresh' /\ \A q \in Pods : PodIsFresh(q)'
<1>0. Shape
  BY TypeGivesShape, Zenon DEF RenewInv
<1> USE <1>0 DEF Shape, RenewInv, LeaderIsFresh, PodIsFresh, Fresh, Signed, ConfigNames, files
<1>1. ASSUME NEW p \in Pods, CallFails(p) PROVE LeaderIsFresh' /\ \A q \in Pods : PodIsFresh(q)'
  BY <1>1, Zenon DEF CallFails, Failed
<1>2. ASSUME NEW p \in Pods, Crash(p) PROVE LeaderIsFresh' /\ \A q \in Pods : PodIsFresh(q)'
  BY <1>2, Zenon DEF Crash
<1>3. ASSUME NEW p \in Pods, RemovePod(p) PROVE LeaderIsFresh' /\ \A q \in Pods : PodIsFresh(q)'
  BY <1>3, Zenon DEF RemovePod
<1>4. CASE DeleteSecret
  BY <1>4, Zenon DEF DeleteSecret
<1>5. CASE ResetConfig
  BY <1>5, Zenon DEF ResetConfig
<1> QED
  BY <1>1, <1>2, <1>3, <1>4, <1>5, Zenon

\* A period passes only when the leader's pair lasts beyond it and is loaded.
LEMMA RenewTick ==
    ASSUME RenewInv, Tick
    PROVE  LeaderIsFresh' /\ \A q \in Pods : PodIsFresh(q)'
<1>0. Shape
  BY TypeGivesShape, Zenon DEF RenewInv
<1> USE <1>0 DEF Shape, RenewInv
<1>1. LeaderIsFresh'
  BY Zenon DEF Tick, LeaderIsFresh
<1>2. ASSUME NEW q \in Pods PROVE PodIsFresh(q)'
  <2>1. /\ crt'[q] = Older(crt[q]) /\ loaded'[q] = Older(loaded[q])
        /\ step'[q] = "idle" /\ step[q] = "idle"
        /\ proc'[q] = proc[q] /\ key'[q] = key[q]
        /\ proc[q] # "gone" => q = leader
    BY Zenon DEF Tick, Settled
  <2>2. key[q] # "other"
    BY <2>1, Zenon DEF PodIsFresh
  <2>3. CASE proc[q] = "gone"
    <3>1. crt'[q] = NoCert /\ loaded'[q] = NoCert
      BY <2>1, <2>3, Zenon DEF PodIsFresh, Older
    <3> QED
      BY <2>1, <2>2, <3>1, Zenon DEF PodIsFresh, ConfigNames
  <2>4. CASE proc[q] # "gone"
    <3>1. Fresh(q) /\ loaded[q] = crt[q]
      BY <2>1, <2>4, Zenon DEF Tick, Settled, LeaderIsFresh, Fresh
    <3>2. crt[q] \in ServerCert \cup {NoCert}
      BY Zenon DEF CertTypeOK
    <3>3. crt[q] # NoCert /\ crt[q].left > ServerSoftExpiry /\ crt[q].left \in 0..ServerMaxAge
      BY <3>1, <3>2, SomeCert, Zenon DEF Fresh, Signed
    <3>4. Older(crt[q]) # NoCert => Older(crt[q]).left > 0
      BY <3>3, <3>2, OlderCert, LifetimesAssumption
    <3> QED
      BY <2>1, <2>2, <2>4, <3>1, <3>4, Zenon DEF PodIsFresh, ConfigNames
  <2> QED
    BY <2>3, <2>4, Zenon
<1> QED
  BY <1>1, <1>2, Zenon

LEMMA RenewNext ==
    ASSUME ~TornSaves, CoverInv, RenewInv, [CertNext]_certVars
    PROVE  RenewInv'
<1>1. CertTypeOK'
  BY CoverNext, Zenon DEF CoverInv
<1>2. CASE CertNext
  BY <1>1, <1>2, RenewControl, RenewSave, RenewLoad, RenewMishaps, RenewTick, Zenon
  DEF CertNext, RenewInv
<1>3. CASE UNCHANGED certVars
  BY <1>1, <1>3, Zenon DEF certVars, RenewInv, LeaderIsFresh, PodIsFresh, Fresh, Signed
<1> QED
  BY <1>2, <1>3, Zenon

\* For every number of pods and every lifetime: the webhook server of no pod
\* answers with an expired certificate (checkExpiry with the soft expiry of
\* server_cert_provider.go), provided that save is not interrupted between its
\* two files.
THEOREM NoExpiredCertificateIsServed ==
    ASSUME ~TornSaves
    PROVE  CertSpec => []ServedNotExpired
<1>1. RenewInv => ServedNotExpired
  BY Zenon DEF RenewInv, PodIsFresh, ServedNotExpired
<1>2. CertInit => CoverInv /\ RenewInv
  BY CoverInit, RenewInit, Zenon
<1>3. CoverInv /\ RenewInv /\ [CertNext]_certVars => (CoverInv /\ RenewInv)'
  BY CoverNext, RenewNext, Zenon
<1> QED
  BY <1>1, <1>2, <1>3, PTL DEF CertSpec

----------------------------------------------------------------------------
(***************************************************************************)
(* The CA bundles are those of the certificate that is served.             *)
(***************************************************************************)

\* The objects applyWebhookConfigResources has been through when it gets to one.
AppliedBefore ==
    [validating |-> {}, mutating |-> {"validating"}, logCRD |-> {"validating", "mutating"},
     metricCRD |-> {"validating", "mutating", "logCRD"}]

\* With no request waiting, what the leader applied is still there: any pod that
\* changed an object since would have put a request back.
BundlesHold ==
    leader # NoPod /\ ~queued =>
        /\ step[leader] = "idle" => \A n \in ConfigNames : bundle[n] = crt[leader].ca
        /\ step[leader] \in ConfigNames =>
              \A n \in AppliedBefore[step[leader]] : bundle[n] = mine[leader]

SignedByMine(p) == step[p] \in {"writeKey"} \cup ConfigNames => crt[p].ca = mine[p]

ChainInv == CertTypeOK /\ BundlesHold /\ \A p \in Pods : SignedByMine(p)

LEMMA ChainInit == CertInit => ChainInv
<1> SUFFICES ASSUME CertInit PROVE ChainInv
  OBVIOUS
<1>1. CertTypeOK
  BY CoverInit DEF CoverInv
<1> QED
  BY <1>1, Zenon DEF CertInit, ChainInv, BundlesHold, SignedByMine, ConfigNames

\* A pod gets to a step at which it has applied nothing yet.
LEMMA ChainNewStep ==
    ASSUME ChainInv, NEW p \in Pods, NEW s \in {"readCA", "writeCA", "server"},
           step' = [step EXCEPT ![p] = s],
           \A q \in Pods \ {p} : mine'[q] = mine[q],
           UNCHANGED <<bundle, crt, leader>>,
           queued' = queued \/ leader = p
    PROVE  BundlesHold' /\ \A q \in Pods : SignedByMine(q)'
<1>0. Shape
  BY TypeGivesShape, Zenon DEF ChainInv
<1> USE <1>0 DEF Shape, ChainInv
<1>1. step'[p] = s /\ \A q \in Pods \ {p} : step'[q] = step[q]
  BY Zenon
<1>2. s # "idle" /\ s # "writeKey" /\ s \notin ConfigNames
  BY Zenon DEF ConfigNames
<1>3. \A q \in Pods : SignedByMine(q)'
  BY <1>1, <1>2, Zenon DEF SignedByMine
<1>4. ASSUME leader = p PROVE BundlesHold'
  BY <1>1, <1>2, <1>4, Zenon DEF BundlesHold
<1>5. ASSUME leader # p PROVE BundlesHold'
  BY <1>1, <1>5, Zenon DEF BundlesHold
<1> QED
  BY <1>3, <1>4, <1>5, Zenon

\* The steps that change no bundle.
LEMMA ChainControl ==
    ASSUME ChainInv, NEW p \in Pods,
           \/ Start(p) \/ Reconcile(p) \/ ReadCA(p) \/ WriteCA(p) \/ CheckServer(p)
           \/ WriteCrt(p) \/ WriteKey(p) \/ Reload(p) \/ Elect(p)
    PROVE  BundlesHold' /\ \A q \in Pods : SignedByMine(q)'
<1>0. Shape
  BY TypeGivesShape, Zenon DEF ChainInv
<1> USE <1>0 DEF Shape, store, files
<1>1. CASE Start(p)
  <2>1. /\ step' = [step EXCEPT ![p] = "readCA"]
        /\ UNCHANGED <<bundle, crt, leader, mine, queued>>
    BY <1>1, Zenon DEF Start
  <2> QED
    BY <2>1, ChainNewStep, Zenon
<1>2. CASE Reconcile(p)
  <2>1. /\ step' = [step EXCEPT ![p] = "readCA"]
        /\ leader = p /\ UNCHANGED <<bundle, crt, leader, mine>>
    BY <1>2, Zenon DEF Reconcile
  <2> QED
    BY <2>1, ChainNewStep, Zenon
<1>3. CASE ReadCA(p)
  <2>1. PICK s \in {"writeCA", "server"} : step' = [step EXCEPT ![p] = s]
    BY <1>3, Zenon DEF ReadCA
  <2>2. \A q \in Pods \ {p} : mine'[q] = mine[q]
    BY <1>3, Zenon DEF ReadCA, ChainInv, CertTypeOK
  <2> QED
    BY <1>3, <2>1, <2>2, ChainNewStep, Zenon DEF ReadCA
<1>4. CASE WriteCA(p)
  <2>1. \A q \in Pods \ {p} : mine'[q] = mine[q]
    BY <1>4, Zenon DEF WriteCA, ChainInv, CertTypeOK
  <2> QED
    BY <1>4, <2>1, ChainNewStep, Zenon DEF WriteCA
<1> USE DEF ChainInv, CertTypeOK, BundlesHold, SignedByMine, ConfigNames
<1>5. CASE CheckServer(p)
  <2>1. storedCertUsable(p, mine[p]) => crt[p].ca = mine[p]
    BY Zenon DEF storedCertUsable, checkServerCert
  <2> QED
    BY <1>5, <2>1, Zenon DEF CheckServer, firstConfig, AppliedBefore
<1>6. CASE WriteCrt(p)
  BY <1>6, Zenon DEF WriteCrt
<1>7. CASE WriteKey(p)
  BY <1>7, Zenon DEF WriteKey, firstConfig, AppliedBefore
<1>8. CASE Reload(p)
  BY <1>8, Zenon DEF Reload
<1>9. CASE Elect(p)
  BY <1>9, Zenon DEF Elect
<1> QED
  BY <1>1, <1>2, <1>3, <1>4, <1>5, <1>6, <1>7, <1>8, <1>9, Zenon

\* One more object has the leader's bundle, or a request is put back.
LEMMA ChainApplyBundle ==
    ASSUME ChainInv, NEW p \in Pods, ApplyBundle(p)
    PROVE  BundlesHold' /\ \A q \in Pods : SignedByMine(q)'
<1>0. Shape
  BY TypeGivesShape, Zenon DEF ChainInv
<1> USE <1>0 DEF Shape, ChainInv
<1>1. /\ step[p] \in ConfigNames /\ crt[p].ca = mine[p]
      /\ bundle' = [bundle EXCEPT ![step[p]] = mine[p]]
      /\ leader' = leader /\ crt' = crt
      /\ leader # NoPod /\ ~queued' => ~queued /\ \A n \in ConfigNames : bundle'[n] = bundle[n]
  <2>1. step[p] \in ConfigNames /\ bundle' = [bundle EXCEPT ![step[p]] = mine[p]]
    BY Zenon DEF ApplyBundle
  <2>2. leader # NoPod /\ ~queued' => ~queued /\ bundle[step[p]] = mine[p]
    BY Zenon DEF ApplyBundle
  <2> QED
    BY <2>1, <2>2, Zenon DEF ApplyBundle, files, SignedByMine
<1>2. CASE nextConfig[step[p]] # "none"
  <2>1. /\ step' = [step EXCEPT ![p] = nextConfig[step[p]]] /\ mine' = mine
        /\ nextConfig[step[p]] \in ConfigNames
        /\ AppliedBefore[nextConfig[step[p]]] = AppliedBefore[step[p]] \cup {step[p]}
    <3>1. step' = [step EXCEPT ![p] = nextConfig[step[p]]] /\ mine' = mine
      BY <1>2, Zenon DEF ApplyBundle
    <3>2. \A n \in ConfigNames :
              nextConfig[n] # "none" =>
                  /\ nextConfig[n] \in ConfigNames
                  /\ AppliedBefore[nextConfig[n]] = AppliedBefore[n] \cup {n}
      BY DEF ConfigNames, nextConfig, AppliedBefore
    <3> QED
      BY <1>1, <1>2, <3>1, <3>2, Zenon
  <2>2. BundlesHold'
    <3> SUFFICES ASSUME leader # NoPod, ~queued'
                 PROVE  BundlesHold'
      BY <1>1, Zenon DEF BundlesHold
    <3>1. CASE leader = p
      BY <1>1, <2>1, <3>1 DEF BundlesHold, ConfigNames
    <3>2. CASE leader # p
      <4>1. /\ step'[leader] = step[leader] /\ mine'[leader] = mine[leader]
            /\ \A n \in ConfigNames : AppliedBefore[n] \subseteq ConfigNames
        BY <2>1, <3>2 DEF AppliedBefore, ConfigNames
      <4> QED
        BY <1>1, <3>2, <4>1, SMTT(30) DEF BundlesHold
    <3> QED
      BY <3>1, <3>2, Zenon
  <2>3. ASSUME NEW q \in Pods PROVE SignedByMine(q)'
    BY <1>1, <2>1, Zenon DEF SignedByMine
  <2> QED
    BY <2>2, <2>3, Zenon
<1>3. CASE nextConfig[step[p]] = "none"
  <2>1. Ensured(p)
    BY <1>3, Zenon DEF ApplyBundle
  <2>2. /\ step[p] = "metricCRD"
        /\ ConfigNames = AppliedBefore[step[p]] \cup {step[p]}
    BY <1>1, <1>3 DEF ConfigNames, nextConfig, AppliedBefore
  <2>3. /\ step'[p] \in {"idle", "readCA"}
        /\ \A q \in Pods \ {p} : step'[q] = step[q] /\ mine'[q] = mine[q]
    BY <2>1, Zenon DEF Ensured
  <2>4. BundlesHold'
    <3> SUFFICES ASSUME leader # NoPod, ~queued'
                 PROVE  BundlesHold'
      BY <1>1 DEF BundlesHold
    <3>1. CASE leader = p
      <4>1. \A n \in ConfigNames : bundle'[n] = crt'[p].ca
        BY <1>1, <2>2, <3>1, SMTT(30) DEF BundlesHold
      <4> QED
        BY <1>1, <2>3, <3>1, <4>1, Zenon DEF BundlesHold, ConfigNames
    <3>2. CASE leader # p
      <4>1. /\ step'[leader] = step[leader] /\ mine'[leader] = mine[leader]
            /\ \A n \in ConfigNames : AppliedBefore[n] \subseteq ConfigNames
        BY <2>3, <3>2 DEF AppliedBefore, ConfigNames
      <4> QED
        BY <1>1, <3>2, <4>1, SMTT(30) DEF BundlesHold
    <3> QED
      BY <3>1, <3>2
  <2>5. ASSUME NEW q \in Pods PROVE SignedByMine(q)'
    BY <1>1, <2>3, Zenon DEF SignedByMine, ConfigNames
  <2> QED
    BY <2>4, <2>5
<1> QED
  BY <1>2, <1>3, Zenon

\* What fails, disappears, is reset or grows older puts a request back.
LEMMA ChainMishaps ==
    ASSUME ChainInv,
           \/ \E p \in Pods : CallFails(p) \/ Crash(p) \/ RemovePod(p)
           \/ DeleteSecret \/ ResetConfig \/ Tick
    PROVE  BundlesHold' /\ \A q \in Pods : SignedByMine(q)'
<1>0. Shape
  BY TypeGivesShape, Zenon DEF ChainInv
<1> USE <1>0 DEF Shape, ChainInv, BundlesHold, SignedByMine, ConfigNames, store, files
<1>1. ASSUME NEW p \in Pods, CallFails(p) PROVE BundlesHold' /\ \A q \in Pods : SignedByMine(q)'
  BY <1>1, Zenon DEF CallFails, Failed
<1>2. ASSUME NEW p \in Pods, Crash(p) PROVE BundlesHold' /\ \A q \in Pods : SignedByMine(q)'
  BY <1>2, Zenon DEF Crash
<1>3. ASSUME NEW p \in Pods, RemovePod(p) PROVE BundlesHold' /\ \A q \in Pods : SignedByMine(q)'
  BY <1>3, Zenon DEF RemovePod
<1>4. CASE DeleteSecret
  BY <1>4, Zenon DEF DeleteSecret
<1>5. CASE ResetConfig
  BY <1>5, Zenon DEF ResetConfig
<1>6. CASE Tick
  BY <1>6, Zenon DEF Tick, Settled
<1> QED
  BY <1>1, <1>2, <1>3, <1>4, <1>5, <1>6, Zenon

LEMMA ChainNext ==
    ASSUME CoverInv, ChainInv, [CertNext]_certVars
    PROVE  ChainInv'
<1>1. CertTypeOK'
  BY CoverNext, Zenon DEF CoverInv
<1>2. CASE CertNext
  BY <1>1, <1>2, ChainControl, ChainApplyBundle, ChainMishaps, Zenon DEF CertNext, ChainInv
<1>3. CASE UNCHANGED certVars
  BY <1>1, <1>3, Zenon DEF certVars, ChainInv, BundlesHold, SignedByMine
<1> QED
  BY <1>2, <1>3, Zenon

\* For every number of pods, in whatever order they generate CAs, save and
\* update the objects (EnsureCertificate): when the leader has no request left,
\* all four CA bundles are that of the certificate it serves.
THEOREM BundlesMatchServedCertificate ==
    ASSUME ~TornSaves
    PROVE  CertSpec => []RestingChain
<1>1. RenewInv /\ ChainInv => RestingChain
  BY Zenon
  DEF RenewInv, LeaderIsFresh, Fresh, ChainInv, BundlesHold, CertTypeOK, Settled, RestingChain
<1>2. CertInit => CoverInv /\ RenewInv /\ ChainInv
  BY CoverInit, RenewInit, ChainInit, Zenon
<1>3. CoverInv /\ RenewInv /\ ChainInv /\ [CertNext]_certVars
         => (CoverInv /\ RenewInv /\ ChainInv)'
  BY CoverNext, RenewNext, ChainNext, Zenon
<1> QED
  BY <1>1, <1>2, <1>3, PTL DEF CertSpec

-----------------------------------------------------------------------------
(***************************************************************************)
(* The Secret watcher.                                                     *)
(***************************************************************************)

\* What the client knows of the watchers it has started for s: the last one is the only
\* one that may be in the map, all others are canceled, and the one in the map is
\* canceled exactly after Stop.
ClientInv ==
    \A s \in Secrets :
        /\ watchers[s] \in {0, starts[s]}
        /\ \A k \in Number :
              /\ k > starts[s] => g[s][k].pc = "unused"
              /\ k <= starts[s] /\ k # watchers[s] => g[s][k].canceled
              /\ k = watchers[s] /\ stopped => g[s][k].canceled
              /\ k = watchers[s] /\ ~stopped => ~g[s][k].canceled /\ g[s][k].linked # {}

\* The inductive invariant.
WatchInv == TypeOK /\ ClientInv /\ LinksMatchReferences

LEMMA WatchInvImpliesNoStray == WatchInv => NoStrayWatcher
  BY StartsAssumption DEF WatchInv, TypeOK, ClientInv, NoStrayWatcher, Active, Number, Watcher

LEMMA InitWatchInv == Init => WatchInv
  <1> SUFFICES ASSUME Init PROVE WatchInv
    OBVIOUS
  <1>1. TypeOK
    <2>1. Unused \in Watcher
      BY DEF Unused, Watcher, PCs
    <2>2. g \in [Secrets -> [Number -> Watcher]]
      BY <2>1, Zenon DEF Init
    <2>3. stale \in [Pipelines -> SUBSET Secrets]
      <3>1. Secrets \in SUBSET Secrets
        BY Zenon
      <3> QED
        BY <3>1, Zenon DEF Init
    <2>4. watchers \in [Secrets -> 0..MaxStarts] /\ starts \in [Secrets -> 0..MaxStarts]
      BY StartsAssumption DEF Init
    <2>5. /\ exists \in SUBSET Secrets
          /\ triggered \in SUBSET Pipelines
          /\ reading \in SUBSET Pipelines
          /\ missed \in SUBSET Secrets
      BY Zenon DEF Init
    <2>6. version \in [Secrets -> Nat] /\ edits \in Nat /\ changes \in Nat /\ faults \in Nat
      BY Zenon DEF Init
    <2>7. stopped \in BOOLEAN /\ running \in BOOLEAN /\ returned \in BOOLEAN
      BY Zenon DEF Init
    <2> QED
      BY <2>2, <2>3, <2>4, <2>5, <2>6, <2>7, Zenon DEF Init, TypeOK
  <1>2. ClientInv
    BY StartsAssumption DEF Init, ClientInv, Unused, Number
  <1>3. LinksMatchReferences
    BY Zenon DEF Init, LinksMatchReferences
  <1> QED
    BY <1>1, <1>2, <1>3, Zenon DEF WatchInv

\* A step of a goroutine: its own state changes, but not whether it is canceled or, unless
\* it is, to which pipelines it is linked.
Moves(s, k, w) ==
    /\ g' = [g EXCEPT ![s][k] = w]
    /\ w \in Watcher
    /\ w.canceled = g[s][k].canceled
    /\ ~w.canceled => w.linked = g[s][k].linked
    /\ g[s][k].pc # "unused"
    /\ triggered' \in SUBSET Pipelines
    /\ triggered \subseteq triggered'
    /\ missed' \in SUBSET Secrets
    /\ faults' \in Nat
    /\ UNCHANGED <<cluster, client, running, returned, reading, stale, edits, changes>>

LEMMA MovePreserves ==
    ASSUME WatchInv, NEW s \in Secrets, NEW k \in Number, NEW w, Moves(s, k, w)
    PROVE  WatchInv'
  <1> USE StartsAssumption DEF Moves, cluster, client
  <1>0. /\ g \in [Secrets -> [Number -> Watcher]]
        /\ g' \in [Secrets -> [Number -> Watcher]]
        /\ g'[s][k] = w
        /\ \A t \in Secrets, j \in Number : <<t, j>> # <<s, k>> => g'[t][j] = g[t][j]
    BY Zenon DEF WatchInv, TypeOK
  <1>1. TypeOK'
    BY <1>0, Zenon DEF WatchInv, TypeOK
  <1>2. ASSUME NEW t \in Secrets, NEW j \in Number
        PROVE  /\ g'[t][j].canceled = g[t][j].canceled
               /\ ~g[t][j].canceled => g'[t][j].linked = g[t][j].linked
               /\ g[t][j].pc = "unused" => g'[t][j].pc = "unused"
    BY <1>0, Zenon
  <1>3. ClientInv'
    BY <1>2 DEF WatchInv, ClientInv
  <1>4. LinksMatchReferences'
    <2> SUFFICES ASSUME NEW p \in Pipelines, p \notin triggered', ~stopped'
                 PROVE  {t \in Secrets : p \in Linked(t)'} = refs[p]
      BY Zenon DEF LinksMatchReferences
    <2>1. p \notin triggered /\ ~stopped
      BY Zenon
    <2>2. ASSUME NEW t \in Secrets
          PROVE  Linked(t)' = Linked(t)
      <3>1. CASE watchers[t] = 0
        BY <3>1, Zenon DEF Linked
      <3>2. CASE watchers[t] # 0
        <4>1. watchers[t] \in Number
          BY <3>2 DEF WatchInv, TypeOK, Number
        <4> QED
          BY <1>2, <2>1, <3>2, <4>1 DEF Linked, WatchInv, ClientInv
      <3> QED
        BY <3>1, <3>2, Zenon
    <2> QED
      BY <2>1, <2>2, Zenon DEF WatchInv, LinksMatchReferences
  <1> QED
    BY <1>1, <1>3, <1>4, Zenon DEF WatchInv

\* The goroutine's actions are such steps.
Step(s, k) ==
    \/ List(s, k) \/ ListFails(s, k) \/ Watch(s, k) \/ WatchFails(s, k)
    \/ Receive(s, k) \/ ChannelCloses(s, k) \/ Routed(s, k) \/ Reconnect(s, k)
    \/ \E p \in Pipelines : Route(s, k, p)

LEMMA StepMoves ==
    ASSUME WatchInv, NEW s \in Secrets, NEW k \in Number, Step(s, k)
    PROVE  \E w : Moves(s, k, w)
  <1> DEFINE v == g[s][k]
  <1>0. /\ v \in Watcher
        /\ version[s] \in Int /\ version[s] - 1 \in Int
        /\ triggered \in SUBSET Pipelines /\ missed \in SUBSET Secrets /\ faults \in Nat
        /\ missed \union {s} \in SUBSET Secrets
    BY DEF WatchInv, TypeOK
  <1>f. Fails(v) => faults' \in Nat
    BY <1>0 DEF Fails
  <1> USE <1>0 DEF Moves, Become, Watcher, PCs
  <1>1. CASE List(s, k)
    <2> DEFINE w == [v EXCEPT !.pc = "watch", !.fresh = FALSE, !.pos = version[s]]
    <2>1. Moves(s, k, w)
      BY <1>1, Zenon DEF List
    <2> QED
      BY <2>1, Zenon
  <1>2. CASE ListFails(s, k)
    <2> DEFINE w == [v EXCEPT !.pc = "watch", !.fresh = TRUE]
    <2>1. Moves(s, k, w)
      BY <1>2, <1>f, Zenon DEF ListFails
    <2> QED
      BY <2>1, Zenon
  <1>3. CASE Watch(s, k)
    <2> DEFINE w == [v EXCEPT !.pc = "receive", !.fresh = FALSE,
                              !.pos = IF ~v.fresh THEN @
                                      ELSE IF s \in exists THEN version[s] - 1
                                      ELSE version[s]]
    <2>1. Moves(s, k, w)
      BY <1>3, Zenon DEF Watch
    <2> QED
      BY <2>1, Zenon
  <1>4. CASE WatchFails(s, k)
    <2> DEFINE w == [v EXCEPT !.pc = "delay"]
    <2>1. Moves(s, k, w)
      BY <1>4, <1>f, Zenon DEF WatchFails
    <2> QED
      BY <2>1, Zenon
  <1>5. CASE Receive(s, k)
    <2> DEFINE w == [v EXCEPT !.pc = "route", !.pos = @ + 1, !.todo = v.linked]
    <2>1. v.linked \in SUBSET Pipelines /\ v.pos + 1 \in Int
      OBVIOUS
    <2>2. w \in Watcher /\ w.canceled = v.canceled /\ w.linked = v.linked
      BY <2>1, Zenon
    <2>3. Moves(s, k, w)
      BY <1>5, <2>2, Zenon DEF Receive
    <2> QED
      BY <2>3, Zenon
  <1>6. CASE ChannelCloses(s, k)
    <2> DEFINE w == [v EXCEPT !.pc = "delay"]
    <2>1. Moves(s, k, w)
      BY <1>6, <1>f, Zenon DEF ChannelCloses
    <2> QED
      BY <2>1, Zenon
  <1>7. CASE Routed(s, k)
    <2> DEFINE w == [v EXCEPT !.pc = "receive"]
    <2>1. Moves(s, k, w)
      BY <1>7, Zenon DEF Routed
    <2> QED
      BY <2>1, Zenon
  <1>8. CASE Reconnect(s, k)
    <2> DEFINE w == IF v.canceled THEN Ended ELSE [v EXCEPT !.pc = "list"]
    <2>1. CASE v.canceled
      <3>1. Ended \in Watcher /\ Ended.canceled = TRUE
        BY DEF Ended
      <3>2. v.canceled = TRUE
        BY <2>1, Zenon
      <3>3. Moves(s, k, Ended)
        BY <1>8, <3>1, <3>2, Zenon DEF Reconnect
      <3> QED
        BY <3>3, Zenon
    <2>2. CASE ~v.canceled
      <3>1. w = [v EXCEPT !.pc = "list"]
        BY <2>2, Zenon
      <3>2. w \in Watcher /\ w.canceled = v.canceled /\ w.linked = v.linked
        BY <3>1, Zenon
      <3> QED
        BY <1>8, <3>1, <3>2, Zenon DEF Reconnect
    <2> QED
      BY <2>1, <2>2, Zenon
  <1>9. ASSUME NEW p \in Pipelines, Route(s, k, p)
        PROVE  \E w : Moves(s, k, w)
    <2> DEFINE w == [v EXCEPT !.todo = @ \ {p}]
    <2>1. Moves(s, k, w)
      BY <1>9, Zenon DEF Route
    <2> QED
      BY <2>1, Zenon
  <1> QED
    BY <1>1, <1>2, <1>3, <1>4, <1>5, <1>6, <1>7, <1>8, <1>9, Zenon DEF Step

-----------------------------------------------------------------------------
\* The operations of the client.

LEMMA NewWatcherType ==
    ASSUME WatchInv, NEW s \in Secrets, NEW p \in Pipelines
    PROVE  /\ newWatcher(s, p) \in Watcher
           /\ newWatcher(s, p).canceled = FALSE
           /\ newWatcher(s, p).linked = {p}
  <1>1. version[s] \in Int
    BY DEF WatchInv, TypeOK
  <1> QED
    BY <1>1, Zenon DEF newWatcher, Watcher, PCs

LEMMA UnlinkType ==
    ASSUME NEW w \in Watcher, NEW p \in Pipelines
    PROVE  /\ unlink(w, p) \in Watcher
           /\ unlink(w, p).pc = w.pc /\ unlink(w, p).pos = w.pos /\ unlink(w, p).todo = w.todo
           /\ unlink(w, p).linked = w.linked \ {p}
           /\ unlink(w, p).canceled <=> (w.canceled \/ w.linked = {p})
  BY Zenon DEF unlink, Watcher

LEMMA LinkType ==
    ASSUME NEW w \in Watcher, NEW p \in Pipelines
    PROVE  /\ link(w, p) \in Watcher
           /\ link(w, p).pc = w.pc /\ link(w, p).pos = w.pos /\ link(w, p).todo = w.todo
           /\ link(w, p).linked = w.linked \union {p}
           /\ link(w, p).canceled = w.canceled
  BY Zenon DEF link, Watcher

\* The watchers of one Secret, as long as the client is not stopped.
WatchersOf(s) ==
    /\ watchers[s] \in {0, starts[s]} /\ starts[s] \in 0..MaxStarts
    /\ \A k \in Number :
          /\ g[s][k] \in Watcher
          /\ k > starts[s] => g[s][k].pc = "unused"
          /\ k <= starts[s] /\ k # watchers[s] => g[s][k].canceled
          /\ k = watchers[s] => ~g[s][k].canceled /\ g[s][k].linked # {}

\* What SyncWatchers(p) does to them: it starts a watcher for p, unlinks p from the watcher,
\* links p to it, or leaves it alone.
Starts(s, p) ==
    /\ s \in refs[p] /\ watchers[s] = 0 /\ starts[s] < MaxStarts
    /\ starts'[s] = starts[s] + 1 /\ watchers'[s] = starts[s] + 1
    /\ \A k \in Number : g'[s][k] = IF k = starts[s] + 1 THEN newWatcher(s, p) ELSE g[s][k]

Unlinks(s, p) ==
    /\ s \notin refs[p] /\ p \in Linked(s) /\ starts'[s] = starts[s]
    /\ watchers'[s] = IF Linked(s) = {p} THEN 0 ELSE watchers[s]
    /\ \A k \in Number : g'[s][k] = IF k = watchers[s] THEN unlink(g[s][k], p) ELSE g[s][k]

Links(s, p) ==
    /\ s \in refs[p] /\ watchers[s] # 0
    /\ starts'[s] = starts[s] /\ watchers'[s] = watchers[s]
    /\ \A k \in Number : g'[s][k] = IF k = watchers[s] THEN link(g[s][k], p) ELSE g[s][k]

Leaves(s, p) ==
    /\ s \notin refs[p] /\ p \notin Linked(s)
    /\ starts'[s] = starts[s] /\ watchers'[s] = watchers[s]
    /\ \A k \in Number : g'[s][k] = g[s][k]

\* After it p is linked to the watcher exactly if it refers to the Secret.
Synced(s, p) ==
    /\ WatchersOf(s)'
    /\ Linked(s)' = IF s \in refs[p] THEN Linked(s) \union {p} ELSE Linked(s) \ {p}

LEMMA ClientWatchers ==
    ASSUME WatchInv, ~stopped, NEW s \in Secrets
    PROVE  WatchersOf(s)
  <1>1. watchers[s] \in {0, starts[s]} /\ starts[s] \in 0..MaxStarts
    BY Zenon DEF WatchInv, TypeOK, ClientInv
  <1>2. ASSUME NEW k \in Number PROVE g[s][k] \in Watcher
    BY Zenon DEF WatchInv, TypeOK
  <1> QED
    BY <1>1, <1>2, Zenon DEF WatchInv, ClientInv, WatchersOf

LEMMA SyncCases ==
    ASSUME NEW p \in Pipelines, SyncWatchers(p), NEW s \in Secrets
    PROVE  Starts(s, p) \/ Unlinks(s, p) \/ Links(s, p) \/ Leaves(s, p)
  <1> DEFINE new == s \in refs[p] /\ watchers[s] = 0
             unlinked == s \notin refs[p] /\ p \in Linked(s)
  <1>1. /\ new => starts[s] < MaxStarts
        /\ starts'[s] = IF new THEN starts[s] + 1 ELSE starts[s]
        /\ watchers'[s] = IF new THEN starts'[s]
                          ELSE IF unlinked /\ Linked(s) = {p} THEN 0 ELSE watchers[s]
        /\ \A k \in Number : g'[s][k] = IF new /\ k = starts'[s] THEN newWatcher(s, p)
                                        ELSE IF k # watchers[s] THEN g[s][k]
                                        ELSE IF unlinked THEN unlink(g[s][k], p)
                                        ELSE IF s \in refs[p] THEN link(g[s][k], p)
                                        ELSE g[s][k]
    BY Zenon DEF SyncWatchers, ToUnlink
  <1>2. CASE new
    <2>1. \A k \in Number : k # watchers[s]
      BY <1>2, StartsAssumption DEF Number
    <2> QED
      BY <1>1, <1>2, <2>1, Zenon DEF Starts
  <1>3. CASE unlinked
    BY <1>1, <1>3, Zenon DEF Unlinks
  <1>4. CASE ~new /\ s \in refs[p]
    BY <1>1, <1>4, Zenon DEF Links
  <1>5. CASE ~unlinked /\ s \notin refs[p]
    BY <1>1, <1>5, Zenon DEF Leaves
  <1> QED
    BY <1>2, <1>3, <1>4, <1>5, Zenon

LEMMA SyncStarts ==
    ASSUME WatchInv, NEW p \in Pipelines, NEW s \in Secrets, WatchersOf(s), Starts(s, p)
    PROVE  Synced(s, p)
  <1> DEFINE k1 == starts[s] + 1
  <1>1. /\ Linked(s) = {} /\ starts[s] \in 0..MaxStarts /\ k1 \in Number /\ k1 # 0
        /\ s \in refs[p] /\ starts'[s] = k1 /\ watchers'[s] = k1
    BY StartsAssumption DEF WatchersOf, Starts, Linked, Number
  <1>2. /\ g'[s][k1] \in Watcher /\ g'[s][k1].canceled = FALSE /\ g'[s][k1].linked = {p}
        /\ \A k \in Number : k # k1 => g'[s][k] = g[s][k]
    BY <1>1, NewWatcherType, ZenonT(30) DEF Starts
  <1>3. \A k \in Number :
           /\ k > k1 => k > starts[s]
           /\ k <= k1 /\ k # k1 => k <= starts[s] /\ k # watchers[s]
    BY StartsAssumption DEF WatchersOf, Starts, Number
  <1> HIDE DEF k1
  <1>4. Linked(s)' = {p}
    BY <1>1, <1>2, Zenon DEF Linked
  <1>5. k1 \in 0..MaxStarts
    BY <1>1, StartsAssumption DEF Number
  <1>6. WatchersOf(s)'
    BY <1>1, <1>2, <1>3, <1>5 DEF WatchersOf
  <1> QED
    BY <1>1, <1>4, <1>6, Zenon DEF Synced

LEMMA SyncUnlinks ==
    ASSUME NEW p \in Pipelines, NEW s \in Secrets, WatchersOf(s), Unlinks(s, p)
    PROVE  Synced(s, p)
  <1> DEFINE k0 == watchers[s]
  <1>1. /\ k0 \in Number /\ k0 = starts[s] /\ k0 # 0 /\ starts'[s] = k0
        /\ Linked(s) = g[s][k0].linked /\ g[s][k0] \in Watcher /\ ~g[s][k0].canceled
    BY StartsAssumption DEF WatchersOf, Unlinks, Linked, Number
  <1>2. /\ g'[s][k0] \in Watcher /\ g'[s][k0].linked = Linked(s) \ {p}
        /\ g'[s][k0].canceled <=> Linked(s) = {p}
        /\ \A k \in Number : k # k0 => g'[s][k] = g[s][k]
    BY <1>1, UnlinkType DEF Unlinks
  <1>3. s \notin refs[p] /\ p \in Linked(s)
    BY Zenon DEF Unlinks
  <1>4. CASE Linked(s) = {p}
    <2>1. watchers'[s] = 0 /\ Linked(s)' = {}
      BY <1>4, Zenon DEF Unlinks, Linked
    <2>2. \A k \in Number : k # 0
      BY StartsAssumption DEF Number
    <2> HIDE DEF k0
    <2>3. WatchersOf(s)'
      BY <1>1, <1>2, <1>4, <2>1, <2>2 DEF WatchersOf, k0
    <2> QED
      BY <1>3, <1>4, <2>1, <2>3, Zenon DEF Synced
  <1>5. CASE Linked(s) # {p}
    <2>1. watchers'[s] = k0 /\ Linked(s) \ {p} # {}
      BY <1>3, <1>5, Zenon DEF Unlinks
    <2> HIDE DEF k0
    <2>2. Linked(s)' = Linked(s) \ {p}
      BY <1>1, <1>2, <2>1, Zenon DEF Linked
    <2>3. WatchersOf(s)'
      BY <1>1, <1>2, <1>5, <2>1 DEF WatchersOf, k0
    <2> QED
      BY <1>3, <2>2, <2>3, Zenon DEF Synced
  <1> QED
    BY <1>4, <1>5, Zenon

LEMMA SyncLinks ==
    ASSUME NEW p \in Pipelines, NEW s \in Secrets, WatchersOf(s), Links(s, p)
    PROVE  Synced(s, p)
  <1> DEFINE k0 == watchers[s]
  <1>1. /\ k0 \in Number /\ k0 # 0 /\ Linked(s) = g[s][k0].linked /\ g[s][k0] \in Watcher
        /\ s \in refs[p]
    BY StartsAssumption DEF WatchersOf, Links, Linked, Number
  <1>2. /\ g'[s][k0] \in Watcher /\ g'[s][k0].linked = Linked(s) \union {p}
        /\ g'[s][k0].canceled = g[s][k0].canceled /\ g'[s][k0].pc = g[s][k0].pc
        /\ \A k \in Number : k # k0 => g'[s][k] = g[s][k]
    BY <1>1, LinkType DEF Links
  <1>3. watchers'[s] = k0 /\ starts'[s] = starts[s]
    BY Zenon DEF Links
  <1> HIDE DEF k0
  <1>4. Linked(s)' = Linked(s) \union {p}
    BY <1>1, <1>2, <1>3, ZenonT(30) DEF Linked
  <1>5. WatchersOf(s)'
    BY <1>2, <1>3 DEF WatchersOf, k0
  <1> QED
    BY <1>1, <1>4, <1>5, Zenon DEF Synced

LEMMA SyncLeaves ==
    ASSUME NEW p \in Pipelines, NEW s \in Secrets, WatchersOf(s), Leaves(s, p)
    PROVE  Synced(s, p)
  <1>1. watchers[s] # 0 => watchers[s] \in Number
    BY StartsAssumption DEF WatchersOf, Number
  <1>2. Linked(s)' = Linked(s) /\ s \notin refs[p] /\ p \notin Linked(s)
    BY <1>1, Zenon DEF Leaves, Linked
  <1>3. WatchersOf(s)'
    BY DEF WatchersOf, Leaves
  <1> QED
    BY <1>2, <1>3, Zenon DEF Synced

LEMMA SyncPreserves ==
    ASSUME WatchInv, NEW p \in Pipelines, SyncWatchers(p)
    PROVE  WatchInv'
  <1>1. ~stopped /\ ~stopped' /\ refs' = refs /\ triggered' = triggered \ {p}
    BY Zenon DEF SyncWatchers, cluster
  <1>2. ASSUME NEW s \in Secrets PROVE Synced(s, p)
    BY <1>1, ClientWatchers, SyncCases, SyncStarts, SyncUnlinks, SyncLinks, SyncLeaves, Zenon
  <1>3. ASSUME NEW s \in Secrets PROVE WatchersOf(s)'
    BY <1>2, Zenon DEF Synced
  <1>4. /\ starts' \in [Secrets -> 0..MaxStarts]
        /\ watchers' \in [Secrets -> 0..MaxStarts]
        /\ g' \in [Secrets -> [Number -> Watcher]]
    <2>1. ASSUME NEW s \in Secrets
          PROVE  /\ starts'[s] \in 0..MaxStarts /\ watchers'[s] \in 0..MaxStarts
                 /\ \A k \in Number : g'[s][k] \in Watcher
      BY <1>3, StartsAssumption DEF WatchersOf
    <2>2. /\ starts' = [s \in Secrets |-> starts'[s]]
          /\ watchers' = [s \in Secrets |-> watchers'[s]]
          /\ g' = [s \in Secrets |-> [k \in Number |-> g'[s][k]]]
      BY Zenon DEF SyncWatchers
    <2> QED
      BY <2>1, <2>2, Zenon
  <1>5. TypeOK'
    BY <1>4, Zenon DEF WatchInv, TypeOK, SyncWatchers, cluster, budgets
  <1>6. ClientInv'
    BY <1>1, <1>3 DEF ClientInv, WatchersOf
  <1>7. LinksMatchReferences'
    <2>0. refs[p] \subseteq Secrets
      BY Zenon DEF WatchInv, TypeOK
    <2> SUFFICES ASSUME NEW q \in Pipelines, q \notin triggered'
                 PROVE  {s \in Secrets : q \in Linked(s)'} = refs[q]
      BY <1>1, Zenon DEF LinksMatchReferences
    <2>1. CASE q = p
      BY <1>2, <2>0, <2>1, Zenon DEF Synced
    <2>2. CASE q # p
      <3>1. {s \in Secrets : q \in Linked(s)} = refs[q]
        BY <1>1, <2>2, Zenon DEF WatchInv, LinksMatchReferences
      <3> QED
        BY <1>2, <2>2, <3>1, Zenon DEF Synced
    <2> QED
      BY <2>1, <2>2, Zenon
  <1> QED
    BY <1>5, <1>6, <1>7, Zenon DEF WatchInv

LEMMA StopPreserves == WatchInv /\ Stop => WatchInv'
  <1> SUFFICES ASSUME WatchInv, Stop PROVE WatchInv'
    BY Zenon
  <1> USE StartsAssumption
  <1>1. ASSUME NEW w \in Watcher
        PROVE  /\ [w EXCEPT !.canceled = TRUE] \in Watcher
               /\ [w EXCEPT !.canceled = TRUE].canceled
               /\ [w EXCEPT !.canceled = TRUE].pc = w.pc
    BY Zenon DEF Watcher
  <1>2. /\ g \in [Secrets -> [Number -> Watcher]]
        /\ watchers \in [Secrets -> 0..MaxStarts]
        /\ watchers' = watchers /\ starts' = starts /\ stopped' = TRUE
        /\ g' = [s \in Secrets |-> [k \in Number |->
                   IF k = watchers[s] THEN [g[s][k] EXCEPT !.canceled = TRUE] ELSE g[s][k]]]
    BY Zenon DEF WatchInv, TypeOK, Stop
  <1>3. g' \in [Secrets -> [Number -> Watcher]]
    <2>1. ASSUME NEW s \in Secrets, NEW k \in Number
          PROVE  (IF k = watchers[s] THEN [g[s][k] EXCEPT !.canceled = TRUE] ELSE g[s][k])
                     \in Watcher
      BY <1>1, <1>2, Zenon
    <2> QED
      BY <1>2, <2>1, Zenon
  <1>4. TypeOK'
    BY <1>2, <1>3, Zenon DEF WatchInv, TypeOK, Stop, cluster, budgets
  <1>5. ASSUME NEW s \in Secrets, NEW k \in Number
        PROVE  /\ g'[s][k].pc = g[s][k].pc
               /\ k = watchers[s] => g'[s][k].canceled
               /\ k # watchers[s] => g'[s][k] = g[s][k]
    BY <1>1, <1>2
  <1>6. ClientInv'
    BY <1>2, <1>5 DEF WatchInv, ClientInv
  <1>7. LinksMatchReferences'
    BY <1>2, Zenon DEF LinksMatchReferences
  <1> QED
    BY <1>4, <1>6, <1>7, Zenon DEF WatchInv

\* All other actions leave the client and the watchers alone.
LEMMA OthersPreserve ==
    ASSUME WatchInv, UNCHANGED <<client, g>>, TypeOK',
           \A p \in Pipelines : p \notin triggered' => p \notin triggered /\ refs'[p] = refs[p]
    PROVE  WatchInv'
  <1>1. ClientInv'
    BY DEF WatchInv, ClientInv, client
  <1>2. \A s \in Secrets : Linked(s)' = Linked(s)
    BY Zenon DEF Linked, client
  <1>3. LinksMatchReferences'
    BY <1>2 DEF WatchInv, LinksMatchReferences, client
  <1> QED
    BY <1>1, <1>3, Zenon DEF WatchInv

LEMMA NextPreserves == WatchInv /\ [Next]_vars => WatchInv'
  <1> SUFFICES ASSUME WatchInv, [Next]_vars PROVE WatchInv'
    BY Zenon
  <1>1. ASSUME NEW p \in Pipelines, NEW secrets \in SUBSET Secrets, EditPipeline(p, secrets)
        PROVE  WatchInv'
    <2>1. TypeOK'
      BY <1>1 DEF EditPipeline, WatchInv, TypeOK, client
    <2> QED
      BY <1>1, <2>1, OthersPreserve, Zenon DEF EditPipeline, WatchInv, TypeOK
  <1>2. ASSUME NEW s \in Secrets, ChangeSecret(s)
        PROVE  WatchInv'
    <2>1. TypeOK'
      BY <1>2 DEF ChangeSecret, WatchInv, TypeOK, client
    <2> QED
      BY <1>2, <2>1, OthersPreserve, Zenon DEF ChangeSecret
  <1>3. ASSUME NEW p \in Pipelines, SyncWatchers(p)
        PROVE  WatchInv'
    BY <1>3, SyncPreserves, Zenon
  <1>4. ASSUME NEW p \in Pipelines, ReadSecrets(p)
        PROVE  WatchInv'
    <2>1. TypeOK'
      BY <1>4, Zenon DEF ReadSecrets, WatchInv, TypeOK, client, cluster, budgets
    <2> QED
      BY <1>4, <2>1, OthersPreserve, Zenon DEF ReadSecrets, cluster
  <1>5. CASE Shutdown
    <2>1. TypeOK'
      BY <1>5, Zenon DEF Shutdown, WatchInv, TypeOK, client, cluster, budgets
    <2> QED
      BY <1>5, <2>1, OthersPreserve, Zenon DEF Shutdown, cluster
  <1>6. CASE Stop
    BY <1>6, StopPreserves, Zenon
  <1>7. CASE StopReturns
    <2>1. TypeOK'
      BY <1>7, Zenon DEF StopReturns, WatchInv, TypeOK, client, cluster, budgets
    <2> QED
      BY <1>7, <2>1, OthersPreserve, Zenon DEF StopReturns, cluster
  <1>8. ASSUME NEW s \in Secrets, NEW k \in Number, Step(s, k)
        PROVE  WatchInv'
    <2>1. PICK w : Moves(s, k, w)
      BY <1>8, StepMoves, Zenon
    <2> QED
      BY <2>1, MovePreserves, Zenon
  <1>9. CASE UNCHANGED vars
    <2>1. TypeOK'
      BY <1>9, Zenon DEF vars, WatchInv, TypeOK, client, cluster, budgets
    <2> QED
      BY <1>9, <2>1, OthersPreserve, Zenon DEF vars, cluster
  <1> QED
    BY <1>1, <1>2, <1>3, <1>4, <1>5, <1>6, <1>7, <1>8, <1>9, Zenon DEF Next, Goroutine, Step

\* The invariant holds in every behaviour.
THEOREM WatchInvariant == Spec => []WatchInv
  BY InitWatchInv, NextPreserves, PTL DEF Spec

\* No goroutine is leaked, however pipelines link, unlink and link again and whenever the
\* client is stopped: one that runs and is not canceled is in the client's map and has a
\* linked pipeline (SyncWatchers, unlinkPipelineFromWatchers, stopWithTimeout).
THEOREM NoWatcherIsStray == Spec => []NoStrayWatcher
  BY WatchInvariant, WatchInvImpliesNoStray, PTL

\* Once synchronised, a pipeline is linked to exactly the Secrets it refers to
\* (SyncWatchers).
THEOREM LinksAreReferences == Spec => []LinksMatchReferences
  <1>1. WatchInv => LinksMatchReferences
    BY Zenon DEF WatchInv
  <1> QED
    BY <1>1, WatchInvariant, PTL

-----------------------------------------------------------------------------
\* The watcher w of a Secret with n changes has, or will get, an event for p.
Announces(w, n, p) == w.pos # n \/ (w.pc = "route" /\ p \in w.todo)

\* A pipeline that has not read the last change of a Secret it refers to is in the queue,
\* or being reconciled, or an event is on its way, unless a gap has swallowed it.
ChangeInv ==
    /\ stopped => ~running
    /\ \A s \in Secrets, k \in Number : g[s][k].pos <= version[s]
    /\ running =>
          \A p \in Pipelines, s \in Secrets :
              (s \in stale[p] /\ s \in refs[p] /\ s \notin missed) =>
                  \/ p \in triggered \/ p \in reading
                  \/ watchers[s] # 0 /\ Announces(g[s][watchers[s]], version[s], p)

\* A step of a goroutine loses no event for a linked pipeline that no gap has swallowed.
LEMMA StepAnnounces ==
    ASSUME WatchInv, NEW s \in Secrets, NEW k \in Number, Step(s, k), g[s][k].pos <= version[s]
    PROVE  /\ g'[s][k].pos <= version[s]
           /\ missed \subseteq missed'
           /\ \A p \in g[s][k].linked :
                 (running /\ ~g[s][k].canceled /\ Announces(g[s][k], version[s], p)) =>
                     s \in missed' \/ p \in triggered' \/ Announces(g'[s][k], version[s], p)
  <1> DEFINE v == g[s][k]
             w == g'[s][k]
  <1>0. /\ v \in Watcher /\ version[s] \in Nat /\ v.pos <= version[s] /\ v.pos \in Int
        /\ g \in [Secrets -> [Number -> Watcher]]
    BY DEF WatchInv, TypeOK, Watcher
  <1>1. \A u : g' = [g EXCEPT ![s][k] = u] => w = u
    BY <1>0, Zenon
  <1> SUFFICES /\ w.pos <= version[s] /\ missed \subseteq missed'
               /\ \A p \in v.linked :
                     (running /\ ~v.canceled /\ Announces(v, version[s], p)) =>
                         s \in missed' \/ p \in triggered' \/ Announces(w, version[s], p)
    BY Zenon
  <1> HIDE DEF v, w
  <1> USE DEF Announces
  <1>2. CASE List(s, k)
    <2>1. w = [v EXCEPT !.pc = "watch", !.fresh = FALSE, !.pos = version[s]]
      BY <1>1, <1>2, Zenon DEF List, Become, v
    <2>2. w.pos = version[s] /\ v.pc = "list"
      BY <1>0, <1>2, <2>1, Zenon DEF Watcher, List, v
    <2> QED BY <1>0, <1>2, <2>2 DEF List, v
  <1>3. CASE ListFails(s, k)
    <2>1. w = [v EXCEPT !.pc = "watch", !.fresh = TRUE]
      BY <1>1, <1>3, Zenon DEF ListFails, Become, v
    <2>2. w.pos = v.pos /\ v.pc = "list" /\ missed' = missed
      BY <1>0, <1>3, <2>1, Zenon DEF Watcher, ListFails, v
    <2> QED BY <1>0, <2>2, Zenon
  <1>4. CASE Watch(s, k)
    <2>1. w = [v EXCEPT !.pc = "receive", !.fresh = FALSE,
                        !.pos = IF ~v.fresh THEN @
                                ELSE IF s \in exists THEN version[s] - 1
                                ELSE version[s]]
      BY <1>1, <1>4, Zenon DEF Watch, Become, v
    <2>2. /\ v.pc = "watch" /\ missed \subseteq missed'
          /\ w.pos = IF ~v.fresh THEN v.pos ELSE IF s \in exists THEN version[s] - 1 ELSE version[s]
      BY <1>0, <1>4, <2>1, Zenon DEF Watcher, Watch, v
    <2>3. (v.fresh /\ s \notin exists /\ v.pos # version[s]) => s \in missed'
      BY <1>4, Zenon DEF Watch, v
    <2> QED BY <1>0, <2>2, <2>3
  <1>5. CASE WatchFails(s, k)
    <2>1. w = [v EXCEPT !.pc = "delay"]
      BY <1>1, <1>5, Zenon DEF WatchFails, Become, v
    <2>2. w.pos = v.pos /\ v.pc = "watch" /\ missed' = missed
      BY <1>0, <1>5, <2>1, Zenon DEF Watcher, WatchFails, v
    <2> QED BY <1>0, <2>2, Zenon
  <1>6. CASE Receive(s, k)
    <2>1. w = [v EXCEPT !.pc = "route", !.pos = @ + 1, !.todo = v.linked]
      BY <1>1, <1>6, Zenon DEF Receive, Become, v
    <2>2. /\ w.pos = v.pos + 1 /\ w.pc = "route" /\ w.todo = v.linked
          /\ v.pos < version[s] /\ missed' = missed
      BY <1>0, <1>6, <2>1, Zenon DEF Watcher, Receive, v
    <2> QED BY <1>0, <2>2
  <1>7. CASE ChannelCloses(s, k)
    <2>1. w = [v EXCEPT !.pc = "delay"]
      BY <1>1, <1>7, Zenon DEF ChannelCloses, Become, v
    <2>2. w.pos = v.pos /\ v.pc = "receive" /\ missed' = missed
      BY <1>0, <1>7, <2>1, Zenon DEF Watcher, ChannelCloses, v
    <2> QED BY <1>0, <2>2, Zenon
  <1>8. CASE Routed(s, k)
    <2>1. w = [v EXCEPT !.pc = "receive"]
      BY <1>1, <1>8, Zenon DEF Routed, Become, v
    <2>2. w.pos = v.pos /\ v.todo = {} /\ missed' = missed
      BY <1>0, <1>8, <2>1, Zenon DEF Watcher, Routed, v
    <2> QED BY <1>0, <2>2, Zenon
  <1>9. CASE Reconnect(s, k)
    <2>1. w = IF v.canceled THEN Ended ELSE [v EXCEPT !.pc = "list"]
      BY <1>1, <1>9, Zenon DEF Reconnect, Become, v
    <2>2. v.pc = "delay" /\ missed' = missed /\ w.pos = IF v.canceled THEN 0 ELSE v.pos
      BY <1>0, <1>9, <2>1, Zenon DEF Watcher, Reconnect, Ended, v
    <2> QED BY <1>0, <2>2
  <1>10. ASSUME NEW q \in Pipelines, Route(s, k, q)
         PROVE  /\ w.pos <= version[s] /\ missed \subseteq missed'
                /\ \A p \in v.linked :
                      (running /\ ~v.canceled /\ Announces(v, version[s], p)) =>
                          s \in missed' \/ p \in triggered' \/ Announces(w, version[s], p)
    <2>1. w = [v EXCEPT !.todo = @ \ {q}]
      BY <1>1, <1>10, Zenon DEF Route, Become, v
    <2>2. w.pos = v.pos /\ w.pc = v.pc /\ w.todo = v.todo \ {q} /\ missed' = missed
      BY <1>0, <1>10, <2>1, Zenon DEF Watcher, Route
    <2>3. running => q \in triggered'
      BY <1>10, Zenon DEF Route
    <2> QED BY <1>0, <2>2, <2>3, Zenon
  <1> QED BY <1>2, <1>3, <1>4, <1>5, <1>6, <1>7, <1>8, <1>9, <1>10, Zenon DEF Step

\* Synchronising a pipeline leaves the events of the watchers alone, and ends no watcher
\* that another pipeline is linked to.
LEMMA SyncAnnounces ==
    ASSUME WatchInv, NEW p \in Pipelines, SyncWatchers(p), NEW s \in Secrets, NEW k \in Number
    PROVE  /\ g'[s][k].pos \in {g[s][k].pos, version[s]}
           /\ k = watchers[s] =>
                 /\ \A q : Announces(g'[s][k], version[s], q) <=> Announces(g[s][k], version[s], q)
                 /\ \A q \in Linked(s) : q # p => watchers'[s] = watchers[s]
  <1>1. ~stopped
    BY Zenon DEF SyncWatchers
  <1>2. /\ g[s][k] \in Watcher /\ k # 0
        /\ watchers[s] # 0 => watchers[s] \in Number
    BY <1>1, ClientWatchers, StartsAssumption DEF WatchersOf, Number
  <1>3. CASE Starts(s, p)
    <2>1. newWatcher(s, p).pos = version[s]
      BY Zenon DEF newWatcher
    <2> QED
      BY <1>2, <1>3, <2>1, Zenon DEF Starts
  <1>4. CASE Unlinks(s, p)
    BY <1>2, <1>4, UnlinkType DEF Unlinks, Announces
  <1>5. CASE Links(s, p)
    BY <1>2, <1>5, LinkType DEF Links, Announces
  <1>6. CASE Leaves(s, p)
    BY <1>6, Zenon DEF Leaves
  <1> QED
    BY <1>3, <1>4, <1>5, <1>6, SyncCases, Zenon

\* At the start everything is in the queue.
LEMMA InitChangeInv == Init => ChangeInv
  BY DEF Init, ChangeInv, Unused

\* No watcher is ahead of its Secret.
LEMMA Positions ==
    ASSUME WatchInv, ChangeInv, NEW s \in Secrets, NEW k \in Number
    PROVE  g[s][k].pos \in Int /\ version[s] \in Nat /\ g[s][k].pos <= version[s]
  <1>1. g[s][k] \in Watcher /\ version[s] \in Nat
    BY Zenon DEF WatchInv, TypeOK
  <1> QED
    BY <1>1, Zenon DEF Watcher, ChangeInv

\* A pipeline that waits for nothing is linked to the Secrets it refers to.
LEMMA LinkedWatcher ==
    ASSUME WatchInv, ChangeInv, NEW p \in Pipelines, NEW s \in Secrets, s \in refs[p],
           running, p \notin triggered
    PROVE  /\ watchers[s] # 0 /\ watchers[s] \in Number
           /\ Linked(s) = g[s][watchers[s]].linked /\ p \in Linked(s)
           /\ ~g[s][watchers[s]].canceled
  <1>1. ~stopped /\ p \in Linked(s)
    BY Zenon DEF WatchInv, LinksMatchReferences, ChangeInv
  <1>2. watchers[s] # 0 /\ Linked(s) = g[s][watchers[s]].linked
    BY <1>1, Zenon DEF Linked
  <1> QED
    BY <1>1, <1>2, ClientWatchers, StartsAssumption DEF WatchersOf, Number

LEMMA ChangeKeepsWaking ==
    ASSUME WatchInv, ChangeInv, NEW t \in Secrets, ChangeSecret(t)
    PROVE  ChangeInv'
  <1>1. /\ \A s \in Secrets : version'[s] = IF s = t THEN version[s] + 1 ELSE version[s]
        /\ \A p \in Pipelines : stale'[p] = stale[p] \union {t}
        /\ UNCHANGED <<refs, watchers, stopped, g, running, triggered, reading, missed>>
    BY Zenon DEF ChangeSecret, client, WatchInv, TypeOK
  <1>2. \A s \in Secrets, k \in Number : g'[s][k].pos <= version'[s]
    BY <1>1, Positions
  <1>3. ASSUME running, NEW p \in Pipelines, NEW s \in Secrets,
               s \in stale'[p], s \in refs[p], s \notin missed,
               p \notin triggered, p \notin reading
        PROVE  watchers[s] # 0 /\ Announces(g[s][watchers[s]], version'[s], p)
    <2>1. watchers[s] # 0 /\ watchers[s] \in Number
      BY <1>3, LinkedWatcher, Zenon
    <2>2. CASE s = t
      BY <1>1, <2>1, <2>2, Positions DEF Announces
    <2>3. CASE s # t
      BY <1>1, <1>3, <2>3 DEF ChangeInv
    <2> QED
      BY <2>2, <2>3, Zenon
  <1> QED
    BY <1>1, <1>2, <1>3, Zenon DEF ChangeInv

LEMMA SyncKeepsWaking ==
    ASSUME WatchInv, ChangeInv, NEW q \in Pipelines, SyncWatchers(q)
    PROVE  ChangeInv'
  <1>1. /\ UNCHANGED <<refs, version, stopped, running, stale, missed>>
        /\ triggered' = triggered \ {q} /\ reading' = reading \union {q}
    BY Zenon DEF SyncWatchers, cluster
  <1>2. \A s \in Secrets, k \in Number : g'[s][k].pos <= version[s]
    BY Positions, SyncAnnounces
  <1>3. ASSUME running, NEW p \in Pipelines, NEW s \in Secrets,
               s \in stale[p], s \in refs[p], s \notin missed,
               p \notin triggered', p \notin reading'
        PROVE  watchers'[s] # 0 /\ Announces(g'[s][watchers'[s]], version[s], p)
    <2>1. p # q /\ p \notin triggered /\ p \notin reading
      BY <1>1, <1>3, Zenon
    <2>2. watchers[s] # 0 /\ watchers[s] \in Number /\ p \in Linked(s)
      BY <1>3, <2>1, LinkedWatcher, Zenon
    <2>3. watchers'[s] = watchers[s]
      BY <2>1, <2>2, SyncAnnounces, Zenon
    <2>4. Announces(g[s][watchers[s]], version[s], p)
      BY <1>3, <2>1, Zenon DEF ChangeInv
    <2> QED
      BY <2>2, <2>3, <2>4, SyncAnnounces, Zenon
  <1> QED
    BY <1>1, <1>2, <1>3, Zenon DEF ChangeInv

LEMMA StepKeepsWaking ==
    ASSUME WatchInv, ChangeInv, NEW t \in Secrets, NEW j \in Number, Step(t, j)
    PROVE  ChangeInv'
  <1>1. /\ \A s \in Secrets, k \in Number : <<s, k>> # <<t, j>> => g'[s][k] = g[s][k]
        /\ UNCHANGED <<refs, version, watchers, stopped, running, reading, stale>>
        /\ triggered \subseteq triggered'
    <2>1. PICK w : Moves(t, j, w)
      BY StepMoves, Zenon
    <2> QED
      BY <2>1, Zenon DEF Moves, cluster, client, WatchInv, TypeOK
  <1>2. /\ g'[t][j].pos <= version[t]
        /\ missed \subseteq missed'
        /\ \A p \in g[t][j].linked :
              (running /\ ~g[t][j].canceled /\ Announces(g[t][j], version[t], p)) =>
                  t \in missed' \/ p \in triggered' \/ Announces(g'[t][j], version[t], p)
    BY Positions, StepAnnounces, Zenon
  <1>3. \A s \in Secrets, k \in Number : g'[s][k].pos <= version[s]
    BY <1>1, <1>2, Positions, Zenon
  <1>4. ASSUME running, NEW p \in Pipelines, NEW s \in Secrets,
               s \in stale[p], s \in refs[p], s \notin missed',
               p \notin triggered', p \notin reading
        PROVE  watchers[s] # 0 /\ Announces(g'[s][watchers[s]], version[s], p)
    <2>1. p \notin triggered /\ s \notin missed
      BY <1>1, <1>2, <1>4, Zenon
    <2>2. /\ watchers[s] # 0 /\ watchers[s] \in Number
          /\ p \in g[s][watchers[s]].linked /\ ~g[s][watchers[s]].canceled
      BY <1>4, <2>1, LinkedWatcher, Zenon
    <2>3. Announces(g[s][watchers[s]], version[s], p)
      BY <1>4, <2>1, Zenon DEF ChangeInv
    <2>4. CASE s = t /\ watchers[s] = j
      BY <1>2, <1>4, <2>2, <2>3, <2>4, Zenon
    <2>5. CASE <<s, watchers[s]>> # <<t, j>>
      BY <1>1, <2>2, <2>3, <2>5, Zenon
    <2> QED
      BY <2>4, <2>5, Zenon
  <1> QED
    BY <1>1, <1>3, <1>4, Zenon DEF ChangeInv

\* No step loses the last that will wake a pipeline.
LEMMA NextChangeInv == WatchInv /\ ChangeInv /\ [Next]_vars => ChangeInv'
  <1> SUFFICES ASSUME WatchInv, ChangeInv, [Next]_vars PROVE ChangeInv'
    BY Zenon
  <1>1. ASSUME NEW p \in Pipelines, NEW secrets \in SUBSET Secrets, EditPipeline(p, secrets)
        PROVE  ChangeInv'
    BY <1>1, Zenon DEF EditPipeline, ChangeInv, client, WatchInv, TypeOK
  <1>2. ASSUME NEW q \in Pipelines, ReadSecrets(q)
        PROVE  ChangeInv'
    BY <1>2, Zenon DEF ReadSecrets, ChangeInv, client, cluster, WatchInv, TypeOK
  <1>3. CASE Shutdown
    BY <1>3, Zenon DEF Shutdown, ChangeInv, client, cluster
  <1>4. CASE Stop
    <2>1. ~running' /\ version' = version
      BY <1>4, Zenon DEF Stop, cluster
    <2>2. ASSUME NEW s \in Secrets, NEW k \in Number PROVE g'[s][k].pos = g[s][k].pos
      <3>1. g[s][k] \in Watcher
        BY Zenon DEF WatchInv, TypeOK
      <3> QED
        BY <1>4, <3>1, Zenon DEF Stop, Watcher
    <2> QED
      BY <2>1, <2>2, Positions, Zenon DEF ChangeInv
  <1>5. CASE StopReturns
    BY <1>5, Zenon DEF StopReturns, ChangeInv, client, cluster
  <1>6. CASE UNCHANGED vars
    BY <1>6, Zenon DEF vars, ChangeInv, client, cluster
  <1> QED
    BY <1>1, <1>2, <1>3, <1>4, <1>5, <1>6, ChangeKeepsWaking, SyncKeepsWaking, StepKeepsWaking, Zenon
    DEF Next, Goroutine, Step

\* No change of a Secret gets lost but in the gap before a list of a watcher: whatever
\* pipelines share a watcher, link and unlink while an event is routed, and however often
\* requests fail, at rest every pipeline has read the last change of each Secret it refers
\* to, unless that change was made in such a gap (processEventLoop, eventRouter).
THEOREM GapsAloneLoseChanges == Spec => []OnlyGapsLoseChanges
  <1>1. WatchInv /\ ChangeInv => OnlyGapsLoseChanges
    <2> SUFFICES ASSUME WatchInv, ChangeInv, AtRest, NEW p \in Pipelines,
                        NEW s \in stale[p] \intersect refs[p], s \notin missed
                 PROVE  FALSE
      BY Zenon DEF OnlyGapsLoseChanges
    <2>1. s \in Secrets /\ running /\ p \notin triggered /\ p \notin reading
      BY Zenon DEF WatchInv, TypeOK, AtRest
    <2>2. watchers[s] # 0 /\ Announces(g[s][watchers[s]], version[s], p)
      BY <2>1, Zenon DEF ChangeInv
    <2> QED
      BY <2>1, <2>2, Zenon DEF Announces, AtRest
  <1>2. Spec => []ChangeInv
    BY InitChangeInv, NextChangeInv, WatchInvariant, PTL DEF Spec
  <1> QED
    BY <1>1, <1>2, WatchInvariant, PTL

=============================================================================
