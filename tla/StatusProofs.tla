---------------------------- MODULE StatusProofs ----------------------------
(***************************************************************************)
(* The status of pipelines is true for every pipeline and every state of   *)
(* the cluster: any number of pipelines, Pods and containers, whatever     *)
(* every check and every exporter answers.  The runs choose from bounded   *)
(* families.                                                               *)
(***************************************************************************)
EXTENDS MCStatus, WellFoundedInduction, TLAPS

-----------------------------------------------------------------------------
\* The first of a list.

LEMMA MinIsLeast ==
    ASSUME NEW S \in SUBSET Nat, S # {}
    PROVE  PH!Min(S) \in S /\ \A i \in S : PH!Min(S) <= i
<1>1. PICK m \in S : \A i \in S : <<i, m>> \notin OpToRel(<, Nat)
  BY NatLessThanWellFounded, WFMin, Zenon
<1>2. ASSUME NEW i \in S PROVE m <= i
  <2>1. ~(i < m)
    BY <1>1, Zenon DEF OpToRel
  <2> QED
    BY <2>1
<1> QED
  BY <1>2, Zenon DEF PH!Min

\* FirstError returns an error exactly if some check does, and one of theirs.
LEMMA FirstErrorIsOne ==
    ASSUME NEW c, DOMAIN c \subseteq Nat
    PROVE  \/ PH!FirstError(c) = "nil" /\ \A i \in DOMAIN c : c[i] = "nil"
           \/ PH!FirstError(c) # "nil" /\ \E i \in DOMAIN c : PH!FirstError(c) = c[i]
<1> DEFINE failed == {i \in DOMAIN c : c[i] # "nil"}
<1>1. CASE failed = {}
  BY <1>1, Zenon DEF PH!FirstError
<1>2. CASE failed # {}
  <2>1. failed \in SUBSET Nat
    BY Zenon
  <2>2. PH!Min(failed) \in failed
    BY <1>2, <2>1, MinIsLeast, Zenon
  <2> QED
    BY <1>2, <2>2, Zenon DEF PH!FirstError
<1> QED
  BY <1>1, <1>2, Zenon

LEMMA FirstOfTwo ==
    ASSUME NEW a, NEW b, NEW e, e = PH!FirstError(<<a, b>>)
    PROVE  \/ e = "nil" /\ a = "nil" /\ b = "nil"
           \/ e # "nil" /\ e \in {a, b}
<1> DEFINE c == <<a, b>>
<1>1. DOMAIN c = {1, 2} /\ c[1] = a /\ c[2] = b /\ {1, 2} \subseteq Nat
  OBVIOUS
<1> HIDE DEF c
<1>2. \/ PH!FirstError(c) = "nil" /\ \A i \in DOMAIN c : c[i] = "nil"
      \/ PH!FirstError(c) # "nil" /\ \E i \in DOMAIN c : PH!FirstError(c) = c[i]
  BY <1>1, FirstErrorIsOne, Zenon
<1>3. e = PH!FirstError(c)
  BY Zenon DEF c
<1> QED
  BY <1>1, <1>2, <1>3

LEMMA FirstOfThree ==
    ASSUME NEW a, NEW b, NEW d, NEW e, e = PH!FirstError(<<a, b, d>>)
    PROVE  \/ e = "nil" /\ a = "nil" /\ b = "nil" /\ d = "nil"
           \/ e # "nil" /\ e \in {a, b, d}
<1> DEFINE c == <<a, b, d>>
<1>1. DOMAIN c = {1, 2, 3} /\ c[1] = a /\ c[2] = b /\ c[3] = d /\ {1, 2, 3} \subseteq Nat
  OBVIOUS
<1> HIDE DEF c
<1>2. \/ PH!FirstError(c) = "nil" /\ \A i \in DOMAIN c : c[i] = "nil"
      \/ PH!FirstError(c) # "nil" /\ \E i \in DOMAIN c : PH!FirstError(c) = c[i]
  BY <1>1, FirstErrorIsOne, Zenon
<1>3. e = PH!FirstError(c)
  BY Zenon DEF c
<1> QED
  BY <1>1, <1>2, <1>3

LEMMA FirstOfSeven ==
    ASSUME NEW a1, NEW a2, NEW a3, NEW a4, NEW a5, NEW a6, NEW a7, NEW e, e = PH!FirstError(<<a1, a2, a3, a4, a5, a6, a7>>)
    PROVE  \/ /\ e = "nil"
              /\ a1 = "nil" /\ a2 = "nil" /\ a3 = "nil" /\ a4 = "nil"
              /\ a5 = "nil" /\ a6 = "nil" /\ a7 = "nil"
           \/ e # "nil" /\ e \in {a1, a2, a3, a4, a5, a6, a7}
<1> DEFINE c == <<a1, a2, a3, a4, a5, a6, a7>>
<1>1. /\ DOMAIN c = {1, 2, 3, 4, 5, 6, 7} /\ {1, 2, 3, 4, 5, 6, 7} \subseteq Nat
      /\ c[1] = a1 /\ c[2] = a2 /\ c[3] = a3 /\ c[4] = a4 /\ c[5] = a5 /\ c[6] = a6 /\ c[7] = a7
  OBVIOUS
<1> HIDE DEF c
<1>2. \/ PH!FirstError(c) = "nil" /\ \A i \in DOMAIN c : c[i] = "nil"
      \/ PH!FirstError(c) # "nil" /\ \E i \in DOMAIN c : PH!FirstError(c) = c[i]
  BY <1>1, FirstErrorIsOne, Zenon
<1>3. e = PH!FirstError(c)
  BY Zenon DEF c
<1> QED
  BY <1>1, <1>2, <1>3

LEMMA FirstOfEight ==
    ASSUME NEW a1, NEW a2, NEW a3, NEW a4, NEW a5, NEW a6, NEW a7, NEW a8, NEW e, e = PH!FirstError(<<a1, a2, a3, a4, a5, a6, a7, a8>>)
    PROVE  \/ /\ e = "nil"
              /\ a1 = "nil" /\ a2 = "nil" /\ a3 = "nil" /\ a4 = "nil"
              /\ a5 = "nil" /\ a6 = "nil" /\ a7 = "nil" /\ a8 = "nil"
           \/ e # "nil" /\ e \in {a1, a2, a3, a4, a5, a6, a7, a8}
<1> DEFINE c == <<a1, a2, a3, a4, a5, a6, a7, a8>>
<1>1. /\ DOMAIN c = {1, 2, 3, 4, 5, 6, 7, 8} /\ {1, 2, 3, 4, 5, 6, 7, 8} \subseteq Nat
      /\ c[1] = a1 /\ c[2] = a2 /\ c[3] = a3 /\ c[4] = a4
      /\ c[5] = a5 /\ c[6] = a6 /\ c[7] = a7 /\ c[8] = a8
  OBVIOUS
<1> HIDE DEF c
<1>2. \/ PH!FirstError(c) = "nil" /\ \A i \in DOMAIN c : c[i] = "nil"
      \/ PH!FirstError(c) # "nil" /\ \E i \in DOMAIN c : PH!FirstError(c) = c[i]
  BY <1>1, FirstErrorIsOne, Zenon
<1>3. e = PH!FirstError(c)
  BY Zenon DEF c
<1> QED
  BY <1>1, <1>2, <1>3

-----------------------------------------------------------------------------
\* Validation.

LEMMA ExpiryMeans ==
    ASSUME NEW s
    PROVE  LET e == PH!Expiry(s)
           IN  \/ e = "nil"
               \/ e = "CertExpired" /\ s = "expired"
               \/ e = "CertAboutToExpire" /\ s = "expiring"
<1>1. PH!Expiry(s) \in {PH!Check(s = "expired", "CertExpired"), PH!Check(s = "expiring", "CertAboutToExpire")}
        \/ PH!Expiry(s) = "nil"
  BY FirstOfTwo, ZenonT(30) DEF PH!Expiry
<1> QED
  BY <1>1, Zenon DEF PH!Check

\* The errors of a TLS configuration and what they say of it.
TLSError(tls, e) ==
    \/ e = "CertExpired" /\ "expired" \in {tls.cert, tls.ca}
    \/ e = "CertAboutToExpire" /\ "expiring" \in {tls.cert, tls.ca}
    \/ /\ e = "TLSInvalid"
       /\ \/ (tls.cert = "none") # (tls.key = "none")
          \/ {"unresolved", "unparsable"} \cap {tls.cert, tls.key, tls.ca} # {}
          \/ tls.key = "mismatch" \/ tls.ca = "notCA"

LEMMA TLSErrorMeans ==
    ASSUME NEW tls
    PROVE  PH!TLSCertValidator(tls) = "nil" \/ TLSError(tls, PH!TLSCertValidator(tls))
<1> DEFINE e == PH!TLSCertValidator(tls)
<1>1. \/ e = "nil"
      \/ e # "nil" /\ e \in {PH!Check((tls.cert = "none") # (tls.key = "none"), "TLSInvalid"),
               PH!Check("unresolved" \in {tls.cert, tls.key, tls.ca}, "TLSInvalid"),
               PH!Check("unparsable" \in {tls.cert, tls.key, tls.ca}, "TLSInvalid"),
               PH!Check(tls.key = "mismatch", "TLSInvalid"),
               PH!Expiry(tls.cert),
               PH!Check(tls.ca = "notCA", "TLSInvalid"),
               PH!Expiry(tls.ca)}
  BY FirstOfSeven DEF PH!TLSCertValidator
<1> HIDE DEF e
<1>2. CASE e \in {PH!Expiry(tls.cert), PH!Expiry(tls.ca)}
  BY <1>2, ExpiryMeans, ZenonT(30) DEF TLSError, e
<1>3. CASE e # "nil" /\ e \in {PH!Check((tls.cert = "none") # (tls.key = "none"), "TLSInvalid"),
               PH!Check("unresolved" \in {tls.cert, tls.key, tls.ca}, "TLSInvalid"),
               PH!Check("unparsable" \in {tls.cert, tls.key, tls.ca}, "TLSInvalid"),
               PH!Check(tls.key = "mismatch", "TLSInvalid"),
               PH!Check(tls.ca = "notCA", "TLSInvalid")}
  <2>1. /\ e = "TLSInvalid"
        /\ \/ (tls.cert = "none") # (tls.key = "none")
           \/ "unresolved" \in {tls.cert, tls.key, tls.ca} \/ "unparsable" \in {tls.cert, tls.key, tls.ca}
           \/ tls.key = "mismatch" \/ tls.ca = "notCA"
    BY <1>3, Zenon DEF PH!Check
  <2> QED
    BY <2>1, Zenon DEF TLSError, e
<1> QED
  BY <1>1, <1>2, <1>3, Zenon DEF e

LEMMA SecretErrorMeans ==
    ASSUME NEW spec, NEW secretView
    PROVE  LET e == PH!SecretRefValidator(spec, secretView)
           IN  \/ e = "nil"
               \/ e = "SecretRefNotFound" /\ secretView = "missing"
               \/ e = "APIRequestFailed" /\ secretView = "apiFailure"
<1>1. \/ PH!SecretRefValidator(spec, secretView) = "nil"
      \/ PH!SecretRefValidator(spec, secretView)
           \in {PH!Check(spec.secret /\ secretView = "missing", "SecretRefNotFound"),
                PH!Check(spec.secret /\ secretView = "apiFailure", "APIRequestFailed")}
  BY FirstOfTwo DEF PH!SecretRefValidator
<1> QED
  BY <1>1, Zenon DEF PH!Check

LEMMA LockErrorMeans ==
    ASSUME NEW lockView
    PROVE  LET e == PH!IsLockHolder(lockView)
           IN  \/ e = "nil" /\ lockView \notin {"absent", "other"}
               \/ e = "APIRequestFailed" /\ lockView = "absent"
               \/ e = "MaxPipelinesExceeded" /\ lockView = "other"
<1> DEFINE a == PH!Check(lockView = "absent", "APIRequestFailed")
           b == PH!Check(lockView = "other", "MaxPipelinesExceeded")
           e == PH!IsLockHolder(lockView)
<1>1. e = PH!FirstError(<<a, b>>)
  BY Zenon DEF PH!IsLockHolder
<1>2. /\ a = IF lockView = "absent" THEN "APIRequestFailed" ELSE "nil"
      /\ b = IF lockView = "other" THEN "MaxPipelinesExceeded" ELSE "nil"
  BY Zenon DEF PH!Check
<1> HIDE DEF a, b, e
<1>3. \/ e = "nil" /\ a = "nil" /\ b = "nil"
      \/ e # "nil" /\ e \in {a, b}
  BY <1>1, FirstOfTwo, Zenon
<1>4. \/ e = "nil" /\ lockView \notin {"absent", "other"}
      \/ e = "APIRequestFailed" /\ lockView = "absent"
      \/ e = "MaxPipelinesExceeded" /\ lockView = "other"
  BY <1>2, <1>3
<1> QED
  BY <1>4, Zenon DEF e

\* The errors of validate and what they say of what it looked at.
OTelError(spec, secretView, lockView, e) ==
    \/ e = "SecretRefNotFound" /\ secretView = "missing"
    \/ e = "APIRequestFailed" /\ (secretView = "apiFailure" \/ lockView = "absent")
    \/ e = "EndpointInvalid" /\ ~spec.endpoint
    \/ e = "MaxPipelinesExceeded" /\ lockView = "other"
    \/ e = "InvalidOTTLSpec" /\ (~spec.transform \/ ~spec.filter)
    \/ e = "InvalidAdditionalMetric" /\ ~spec.metrics
    \/ TLSError(spec.tls, e)

LEMMA OTelErrorMeans ==
    ASSUME NEW spec, NEW secretView, NEW lockView
    PROVE  LET e == PH!validate(spec, secretView, lockView)
           IN  \/ e = "nil" /\ lockView \notin {"absent", "other"}
               \/ OTelError(spec, secretView, lockView, e)
<1> DEFINE e == PH!validate(spec, secretView, lockView)
           a == PH!SecretRefValidator(spec, secretView)
           b == PH!EndpointValidator(spec)
           c == IF PH!tlsValidationRequired(spec) THEN PH!TLSCertValidator(spec.tls) ELSE "nil"
           d == PH!IsLockHolder(lockView)
           f == PH!Check(~spec.transform, "InvalidOTTLSpec")
           g == PH!Check(~spec.filter, "InvalidOTTLSpec")
           h == PH!Check(~spec.metrics, "InvalidAdditionalMetric")
<1>1. e = PH!FirstError(<<a, b, c, d, f, g, h>>)
  BY Zenon DEF PH!validate
<1>2. \/ c = "nil" \/ TLSError(spec.tls, c)
  BY TLSErrorMeans, Zenon
<1>3. \/ a = "nil"
      \/ a = "SecretRefNotFound" /\ secretView = "missing"
      \/ a = "APIRequestFailed" /\ secretView = "apiFailure"
  BY SecretErrorMeans, Zenon
<1>4. \/ d = "nil" /\ lockView \notin {"absent", "other"}
      \/ d = "APIRequestFailed" /\ lockView = "absent"
      \/ d = "MaxPipelinesExceeded" /\ lockView = "other"
  BY LockErrorMeans, Zenon
<1>5. /\ b = "nil" \/ (b = "EndpointInvalid" /\ ~spec.endpoint)
      /\ f = "nil" \/ (f = "InvalidOTTLSpec" /\ ~spec.transform)
      /\ g = "nil" \/ (g = "InvalidOTTLSpec" /\ ~spec.filter)
      /\ h = "nil" \/ (h = "InvalidAdditionalMetric" /\ ~spec.metrics)
  BY Zenon DEF PH!EndpointValidator, PH!Check
<1> HIDE DEF a, b, c, d, e, f, g, h
<1>6. \/ e = "nil" /\ d = "nil"
      \/ e # "nil" /\ (e = a \/ e = b \/ e = c \/ e = d \/ e = f \/ e = g \/ e = h)
  BY <1>1, FirstOfSeven
<1>7. CASE e = "nil" /\ d = "nil"
  <2>1. lockView \notin {"absent", "other"}
    BY <1>4, <1>7
  <2> QED
    BY <1>7, <2>1, Zenon DEF e
<1>8. CASE e # "nil" /\ (e = a \/ e = b \/ e = c \/ e = d \/ e = f \/ e = g \/ e = h)
  <2>1. OTelError(spec, secretView, lockView, e)
    BY <1>2, <1>3, <1>4, <1>5, <1>8, Zenon DEF OTelError
  <2> QED
    BY <2>1, Zenon DEF e
<1> QED
  BY <1>6, <1>7, <1>8, Zenon

\* Every error has a reason of its own, or that of the TLS configuration, and
\* isReconcilable agrees with the status.
LEMMA OTelConditionOf ==
    ASSUME NEW e
    PROVE  LET c == PH!evaluateConfigGeneratedCondition(e)
           IN  /\ e = "nil" => c.status = "True" /\ c.reason = "GatewayConfigured"
               /\ e = "MaxPipelinesExceeded" => c.status = "False" /\ c.reason = "MaxPipelinesExceeded"
               /\ e = "SecretRefNotFound" => c.status = "False" /\ c.reason = "ReferencedSecretMissing"
               /\ e = "EndpointInvalid" => c.status = "False" /\ c.reason = "EndpointInvalid"
               /\ e = "InvalidOTTLSpec" => c.status = "False" /\ c.reason = "OTTLSpecInvalid"
               /\ e = "InvalidAdditionalMetric" => c.status = "False" /\ c.reason = "RuntimeAdditionalMetricInvalid"
               /\ e = "APIRequestFailed" => c.status = "False" /\ c.reason = "ValidationFailed"
               /\ e = "CertExpired" => c.status = "False" /\ c.reason = "TLSCertificateExpired"
               /\ e = "CertAboutToExpire" => c.status = "True" /\ c.reason = "TLSCertificateAboutToExpire"
               /\ e = "TLSInvalid" => c.status = "False" /\ c.reason = "TLSConfigurationInvalid"
BY Zenon DEF PH!Condition, PH!evaluateConfigGeneratedCondition, PH!EvaluateTLSCertCondition

\* What a reason claims.
LEMMA ReasonMeans ==
    /\ ReasonHolds("GatewayConfigured") /\ ReasonHolds("AgentConfigured")
    /\ built.kind = "fluentbitspec" => ReasonHolds("FipsModeEnabled")
    /\ built.lockView = "other" => ReasonHolds("MaxPipelinesExceeded")
    /\ built.secretView = "missing" => ReasonHolds("ReferencedSecretMissing")
    /\ ~built.spec.endpoint => ReasonHolds("EndpointInvalid")
    /\ ~built.spec.transform \/ ~built.spec.filter => ReasonHolds("OTTLSpecInvalid")
    /\ ~built.spec.metrics => ReasonHolds("RuntimeAdditionalMetricInvalid")
    /\ built.secretView = "apiFailure" \/ built.lockView = "absent" => ReasonHolds("ValidationFailed")
    /\ "expired" \in {built.spec.tls.cert, built.spec.tls.ca} => ReasonHolds("TLSCertificateExpired")
    /\ "expiring" \in {built.spec.tls.cert, built.spec.tls.ca} => ReasonHolds("TLSCertificateAboutToExpire")
    /\ TLSFails => ReasonHolds("TLSConfigurationInvalid")
    /\ built.kind = "fluentbitspec"
         /\ (~built.spec.files \/ ~built.spec.filters \/ ~built.spec.custom \/ ~built.spec.hostname)
         => ReasonHolds("TLSConfigurationInvalid")
BY DEF ReasonHolds

LEMMA OTelIsJustified ==
    ASSUME built.kind = "otelspec", built.lockView \in PH!LockViews
    PROVE  OTelJustified
<1> DEFINE e == PH!validate(built.spec, built.secretView, built.lockView)
           c == PH!evaluateConfigGeneratedCondition(e)
           Goal == /\ (c.status = "True") <=> e \in {"nil", "CertAboutToExpire"}
                   /\ ReasonHolds(c.reason)
                   /\ e = "nil" => built.lockView = "holder"
                   /\ e = "CertAboutToExpire" => c.reason = "TLSCertificateAboutToExpire"
<1>1. \/ e = "nil" /\ built.lockView \notin {"absent", "other"}
      \/ OTelError(built.spec, built.secretView, built.lockView, e)
  BY OTelErrorMeans, Zenon
<1> HIDE DEF e
<1>2. SUFFICES Goal
  BY Zenon DEF OTelJustified, PH!isReconcilable, e
<1> HIDE DEF c
<1>4. CASE e = "nil" /\ built.lockView \notin {"absent", "other"}
  <2>1. c.status = "True" /\ c.reason = "GatewayConfigured"
    BY <1>4, OTelConditionOf, Zenon DEF c
  <2>2. built.lockView = "holder"
    BY <1>4 DEF PH!LockViews
  <2> QED
    BY <1>4, <2>1, <2>2, ReasonMeans
<1>5. CASE e = "SecretRefNotFound" /\ built.secretView = "missing"
  <2>1. c.status = "False" /\ c.reason = "ReferencedSecretMissing"
    BY <1>5, OTelConditionOf, Zenon DEF c
  <2> QED
    BY <1>5, <2>1, ReasonMeans
<1>6. CASE e = "APIRequestFailed" /\ (built.secretView = "apiFailure" \/ built.lockView = "absent")
  <2>1. c.status = "False" /\ c.reason = "ValidationFailed"
    BY <1>6, OTelConditionOf, Zenon DEF c
  <2> QED
    BY <1>6, <2>1, ReasonMeans
<1>7. CASE e = "EndpointInvalid" /\ ~built.spec.endpoint
  <2>1. c.status = "False" /\ c.reason = "EndpointInvalid"
    BY <1>7, OTelConditionOf, Zenon DEF c
  <2> QED
    BY <1>7, <2>1, ReasonMeans
<1>8. CASE e = "MaxPipelinesExceeded" /\ built.lockView = "other"
  <2>1. c.status = "False" /\ c.reason = "MaxPipelinesExceeded"
    BY <1>8, OTelConditionOf, Zenon DEF c
  <2> QED
    BY <1>8, <2>1, ReasonMeans
<1>9. CASE e = "InvalidOTTLSpec" /\ (~built.spec.transform \/ ~built.spec.filter)
  <2>1. c.status = "False" /\ c.reason = "OTTLSpecInvalid"
    BY <1>9, OTelConditionOf, Zenon DEF c
  <2> QED
    BY <1>9, <2>1, ReasonMeans
<1>10. CASE e = "InvalidAdditionalMetric" /\ ~built.spec.metrics
  <2>1. c.status = "False" /\ c.reason = "RuntimeAdditionalMetricInvalid"
    BY <1>10, OTelConditionOf, Zenon DEF c
  <2> QED
    BY <1>10, <2>1, ReasonMeans
<1>11. CASE e = "CertExpired" /\ "expired" \in {built.spec.tls.cert, built.spec.tls.ca}
  <2>1. c.status = "False" /\ c.reason = "TLSCertificateExpired"
    BY <1>11, OTelConditionOf, Zenon DEF c
  <2> QED
    BY <1>11, <2>1, ReasonMeans
<1>12. CASE e = "CertAboutToExpire" /\ "expiring" \in {built.spec.tls.cert, built.spec.tls.ca}
  <2>1. c.status = "True" /\ c.reason = "TLSCertificateAboutToExpire"
    BY <1>12, OTelConditionOf, Zenon DEF c
  <2> QED
    BY <1>12, <2>1, ReasonMeans
<1>13. CASE e = "TLSInvalid" /\ TLSFails
  <2>1. c.status = "False" /\ c.reason = "TLSConfigurationInvalid"
    BY <1>13, OTelConditionOf, Zenon DEF c
  <2> QED
    BY <1>13, <2>1, ReasonMeans
<1>14. TLSError(built.spec.tls, e) =>
          \/ e = "CertExpired" /\ "expired" \in {built.spec.tls.cert, built.spec.tls.ca}
          \/ e = "CertAboutToExpire" /\ "expiring" \in {built.spec.tls.cert, built.spec.tls.ca}
          \/ e = "TLSInvalid" /\ TLSFails
  BY Zenon DEF TLSError, TLSFails
<1> HIDE DEF Goal
<1> QED
  BY <1>1, <1>4, <1>5, <1>6, <1>7, <1>8, <1>9, <1>10, <1>11, <1>12, <1>13, <1>14, Zenon DEF OTelError

\* An error of the first check is returned whatever the others say.
LEMMA FirstComesFirst ==
    ASSUME NEW c, 1 \in DOMAIN c, DOMAIN c \subseteq Nat \ {0}, c[1] # "nil"
    PROVE  PH!FirstError(c) = c[1]
<1> DEFINE failed == {i \in DOMAIN c : c[i] # "nil"}
           m == PH!Min(failed)
<1>1. failed \in SUBSET Nat /\ 1 \in failed
  BY Zenon
<1>2. m \in failed /\ m <= 1
  BY <1>1, MinIsLeast, Zenon
<1>3. m \in Nat \ {0}
  BY <1>2, Zenon
<1>4. PH!FirstError(c) = c[m]
  BY <1>1, Zenon DEF PH!FirstError
<1> HIDE DEF m, failed
<1>5. m = 1
  BY <1>2, <1>3
<1> QED
  BY <1>4, <1>5, Zenon

FluentBitError(spec, secretView, lockView, e) ==
    \/ e = "MaxPipelinesExceeded" /\ lockView = "other"
    \/ e = "SecretRefNotFound" /\ secretView = "missing"
    \/ e = "APIRequestFailed" /\ secretView = "apiFailure"
    \/ e = "EndpointInvalid" /\ ~spec.endpoint
    \/ TLSError(spec.tls, e)
    \/ /\ e \in {"DuplicateFileNames", "InvalidCustomFilter", "InvalidCustomOutput", "InvalidHostname"}
       /\ ~spec.files \/ ~spec.filters \/ ~spec.custom \/ ~spec.hostname

LEMMA FluentBitErrorMeans ==
    ASSUME NEW spec, NEW secretView, NEW lockView
    PROVE  LET e == PH!ValidateFluentBit(spec, secretView, lockView)
           IN  /\ e = "nil" \/ FluentBitError(spec, secretView, lockView, e)
               /\ lockView = "other" => e = "MaxPipelinesExceeded"
<1> DEFINE e == PH!ValidateFluentBit(spec, secretView, lockView)
           a == PH!TryAcquireLock(lockView)
           b == PH!SecretRefValidator(spec, secretView)
           c == PH!Check(spec.http /\ ~spec.endpoint, "EndpointInvalid")
           d == IF PH!fluentBitTLSValidationRequired(spec) THEN PH!TLSCertValidator(spec.tls) ELSE "nil"
           f == PH!Check(~spec.files, "DuplicateFileNames")
           g == PH!Check(~spec.filters, "InvalidCustomFilter")
           h == PH!Check(~spec.http /\ ~spec.custom, "InvalidCustomOutput")
           i == PH!Check(spec.http /\ ~spec.hostname, "InvalidHostname")
<1>1. e = PH!FirstError(<<a, b, c, d, f, g, h, i>>)
  BY Zenon DEF PH!ValidateFluentBit
<1>2. \/ d = "nil" \/ TLSError(spec.tls, d)
  BY TLSErrorMeans, Zenon
<1>3. \/ b = "nil"
      \/ b = "SecretRefNotFound" /\ secretView = "missing"
      \/ b = "APIRequestFailed" /\ secretView = "apiFailure"
  BY SecretErrorMeans, Zenon
<1>4. a = IF lockView = "other" THEN "MaxPipelinesExceeded" ELSE "nil"
  BY Zenon DEF PH!TryAcquireLock, PH!Check
<1>5. /\ c = "nil" \/ (c = "EndpointInvalid" /\ ~spec.endpoint)
      /\ f = "nil" \/ (f = "DuplicateFileNames" /\ ~spec.files)
      /\ g = "nil" \/ (g = "InvalidCustomFilter" /\ ~spec.filters)
      /\ h = "nil" \/ (h = "InvalidCustomOutput" /\ ~spec.custom)
      /\ i = "nil" \/ (i = "InvalidHostname" /\ ~spec.hostname)
  BY Zenon DEF PH!Check
<1> HIDE DEF a, b, c, d, e, f, g, h, i
<1>6. \/ e = "nil"
      \/ e # "nil" /\ (e = a \/ e = b \/ e = c \/ e = d \/ e = f \/ e = g \/ e = h \/ e = i)
  BY <1>1, FirstOfEight
<1>7. e = "nil" \/ FluentBitError(spec, secretView, lockView, e)
  <2>1. CASE e # "nil" /\ (e = a \/ e = b \/ e = c \/ e = d)
    BY <1>2, <1>3, <1>4, <1>5, <2>1, Zenon DEF FluentBitError
  <2>2. CASE e # "nil" /\ (e = f \/ e = g \/ e = h \/ e = i)
    <3>1. /\ e \in {"DuplicateFileNames", "InvalidCustomFilter", "InvalidCustomOutput", "InvalidHostname"}
          /\ ~spec.files \/ ~spec.filters \/ ~spec.custom \/ ~spec.hostname
      BY <1>5, <2>2, Zenon
    <3> QED
      BY <3>1, Zenon DEF FluentBitError
  <2> QED
    BY <1>6, <2>1, <2>2, Zenon
<1>8. ASSUME lockView = "other" PROVE e = "MaxPipelinesExceeded"
  <2> DEFINE checks == <<a, b, c, d, f, g, h, i>>
  <2>1. checks[1] = a /\ 1 \in DOMAIN checks /\ DOMAIN checks \subseteq Nat \ {0}
    OBVIOUS
  <2>2. a = "MaxPipelinesExceeded" /\ a # "nil"
    BY <1>4, <1>8
  <2> HIDE DEF checks
  <2>3. PH!FirstError(checks) = a
    BY <2>1, <2>2, FirstComesFirst, Zenon
  <2> QED
    BY <1>1, <2>2, <2>3, Zenon DEF checks
<1> QED
  BY <1>7, <1>8, Zenon DEF e

LEMMA FluentBitConditionOf ==
    ASSUME NEW e
    PROVE  LET c == PH!evaluateFluentBitConfigGeneratedCondition(FALSE, e)
           IN  /\ e = "nil" => c.status = "True" /\ c.reason = "AgentConfigured"
               /\ e = "MaxPipelinesExceeded" => c.status = "False" /\ c.reason = "MaxPipelinesExceeded"
               /\ e = "SecretRefNotFound" => c.status = "False" /\ c.reason = "ReferencedSecretMissing"
               /\ e = "EndpointInvalid" => c.status = "False" /\ c.reason = "EndpointInvalid"
               /\ e = "APIRequestFailed" => c.status = "False" /\ c.reason = "ValidationFailed"
               /\ e = "CertExpired" => c.status = "False" /\ c.reason = "TLSCertificateExpired"
               /\ e = "CertAboutToExpire" => c.status = "True" /\ c.reason = "TLSCertificateAboutToExpire"
               /\ e \in {"TLSInvalid", "DuplicateFileNames", "InvalidCustomFilter", "InvalidCustomOutput",
                         "InvalidHostname"}
                    => c.status = "False" /\ c.reason = "TLSConfigurationInvalid"
BY Zenon DEF PH!Condition, PH!evaluateFluentBitConfigGeneratedCondition, PH!EvaluateTLSCertCondition

LEMMA FluentBitIsJustified ==
    ASSUME built.kind = "fluentbitspec"
    PROVE  FluentBitJustified
<1> DEFINE e == PH!ValidateFluentBit(built.spec, built.secretView, built.lockView)
           c(fips) == PH!evaluateFluentBitConfigGeneratedCondition(fips, e)
<1>1. /\ e = "nil" \/ FluentBitError(built.spec, built.secretView, built.lockView, e)
      /\ built.lockView = "other" => e = "MaxPipelinesExceeded"
  BY FluentBitErrorMeans, Zenon
<1> HIDE DEF e
<1>2. c(TRUE).status = "False" /\ c(TRUE).reason = "FipsModeEnabled"
  BY Zenon DEF PH!evaluateFluentBitConfigGeneratedCondition, PH!Condition
<1>3. /\ (c(FALSE).status = "True") <=> e \in {"nil", "CertAboutToExpire"}
      /\ ReasonHolds(c(FALSE).reason)
  <2> DEFINE d == c(FALSE)
             Goal == /\ (d.status = "True") <=> e \in {"nil", "CertAboutToExpire"}
                     /\ ReasonHolds(d.reason)
  <2>0. SUFFICES Goal
    BY Zenon
  <2> HIDE DEF d
  <2>1. CASE e = "nil"
    <3>1. d.status = "True" /\ d.reason = "AgentConfigured"
      BY <2>1, FluentBitConditionOf, Zenon DEF d
    <3> QED
      BY <2>1, <3>1, ReasonMeans
  <2>2. CASE e = "MaxPipelinesExceeded" /\ built.lockView = "other"
    <3>1. d.status = "False" /\ d.reason = "MaxPipelinesExceeded"
      BY <2>2, FluentBitConditionOf, Zenon DEF d
    <3> QED
      BY <2>2, <3>1, ReasonMeans
  <2>3. CASE e = "SecretRefNotFound" /\ built.secretView = "missing"
    <3>1. d.status = "False" /\ d.reason = "ReferencedSecretMissing"
      BY <2>3, FluentBitConditionOf, Zenon DEF d
    <3> QED
      BY <2>3, <3>1, ReasonMeans
  <2>4. CASE e = "APIRequestFailed" /\ built.secretView = "apiFailure"
    <3>1. d.status = "False" /\ d.reason = "ValidationFailed"
      BY <2>4, FluentBitConditionOf, Zenon DEF d
    <3> QED
      BY <2>4, <3>1, ReasonMeans
  <2>5. CASE e = "EndpointInvalid" /\ ~built.spec.endpoint
    <3>1. d.status = "False" /\ d.reason = "EndpointInvalid"
      BY <2>5, FluentBitConditionOf, Zenon DEF d
    <3> QED
      BY <2>5, <3>1, ReasonMeans
  <2>6. CASE e = "CertExpired" /\ "expired" \in {built.spec.tls.cert, built.spec.tls.ca}
    <3>1. d.status = "False" /\ d.reason = "TLSCertificateExpired"
      BY <2>6, FluentBitConditionOf, Zenon DEF d
    <3> QED
      BY <2>6, <3>1, ReasonMeans
  <2>7. CASE e = "CertAboutToExpire" /\ "expiring" \in {built.spec.tls.cert, built.spec.tls.ca}
    <3>1. d.status = "True" /\ d.reason = "TLSCertificateAboutToExpire"
      BY <2>7, FluentBitConditionOf, Zenon DEF d
    <3> QED
      BY <2>7, <3>1, ReasonMeans
  <2>8. CASE e = "TLSInvalid" /\ TLSFails
    <3>1. d.status = "False" /\ d.reason = "TLSConfigurationInvalid"
      BY <2>8, FluentBitConditionOf, Zenon DEF d
    <3> QED
      BY <2>8, <3>1, ReasonMeans
  <2>9. CASE /\ e \in {"DuplicateFileNames", "InvalidCustomFilter", "InvalidCustomOutput", "InvalidHostname"}
             /\ ~built.spec.files \/ ~built.spec.filters \/ ~built.spec.custom \/ ~built.spec.hostname
    <3>1. d.status = "False" /\ d.reason = "TLSConfigurationInvalid"
      BY <2>9, FluentBitConditionOf, Zenon DEF d
    <3> QED
      BY <2>9, <3>1, ReasonMeans
  <2>10. TLSError(built.spec.tls, e) =>
            \/ e = "CertExpired" /\ "expired" \in {built.spec.tls.cert, built.spec.tls.ca}
            \/ e = "CertAboutToExpire" /\ "expiring" \in {built.spec.tls.cert, built.spec.tls.ca}
            \/ e = "TLSInvalid" /\ TLSFails
    BY Zenon DEF TLSError, TLSFails
  <2> HIDE DEF Goal
  <2> QED
    BY <1>1, <2>1, <2>2, <2>3, <2>4, <2>5, <2>6, <2>7, <2>8, <2>9, <2>10, Zenon DEF FluentBitError
<1>4. ReasonHolds("FipsModeEnabled")
  BY ReasonMeans, Zenon
<1>5. e \in {"nil", "CertAboutToExpire"} => built.lockView # "other"
  BY <1>1
<1> SUFFICES ASSUME NEW fips \in BOOLEAN, NEW enabled
             PROVE  LET reconcilable == PH!IsReconcilableFluentBit(fips, FALSE, enabled, e)
                    IN  /\ reconcilable => c(fips).status = "True"
                        /\ c(fips).status = "True" => reconcilable \/ enabled = FALSE
                        /\ reconcilable => built.lockView # "other"
                        /\ ReasonHolds(c(fips).reason)
  BY Zenon DEF FluentBitJustified, e
<1> HIDE DEF c
<1>6. CASE fips = TRUE
  BY <1>2, <1>4, <1>6, Zenon DEF PH!IsReconcilableFluentBit
<1>7. CASE fips = FALSE
  BY <1>3, <1>5, <1>7, Zenon DEF PH!IsReconcilableFluentBit
<1> QED
  BY <1>6, <1>7, Zenon

-----------------------------------------------------------------------------
\* Readiness.

IsPod(pod) == \E n \in Nat : DOMAIN pod.containers = 1 .. n

\* The first container that waits.
LEMMA FirstWaiting ==
    ASSUME NEW pod, IsPod(pod)
    PROVE  LET waiting == {i \in DOMAIN pod.containers : pod.containers[i].waiting # Nil}
           IN  (waiting # {} /\ pod.containers[PH!Min(waiting)].waiting \notin PH!Starting) <=>
                 \E i \in DOMAIN pod.containers :
                    /\ pod.containers[i].waiting \notin {Nil} \cup PH!Starting
                    /\ \A j \in 1 .. i - 1 : pod.containers[j].waiting = Nil
<1> DEFINE waiting == {i \in DOMAIN pod.containers : pod.containers[i].waiting # Nil}
           W(i) == pod.containers[i].waiting
           m == PH!Min(waiting)
<1>1. PICK n \in Nat : DOMAIN pod.containers = 1 .. n
  BY Zenon DEF IsPod
<1>2. ASSUME waiting # {} PROVE m \in waiting /\ \A i \in waiting : m <= i
  <2>1. waiting \in SUBSET Nat
    BY <1>1
  <2> QED
    BY <1>2, <2>1, MinIsLeast, Zenon
<1>3. \A i : i \in waiting <=> i \in 1 .. n /\ W(i) # Nil
  BY <1>1, Zenon
<1> HIDE DEF waiting, m, W
<1>4. ASSUME waiting # {}, W(m) \notin PH!Starting
      PROVE  \E i \in 1 .. n : W(i) \notin {Nil} \cup PH!Starting /\ \A j \in 1 .. i - 1 : W(j) = Nil
  <2>1. m \in 1 .. n /\ W(m) # Nil /\ \A i \in waiting : m <= i
    BY <1>2, <1>3, <1>4, Zenon
  <2>2. ASSUME NEW j \in 1 .. m - 1 PROVE W(j) = Nil
    <3>1. j \in 1 .. n /\ ~(m <= j)
      BY <2>1
    <3> QED
      BY <1>3, <2>1, <3>1, Zenon
  <2> QED
    BY <1>4, <2>1, <2>2, Zenon
<1>5. ASSUME NEW i \in 1 .. n, W(i) \notin {Nil} \cup PH!Starting, \A j \in 1 .. i - 1 : W(j) = Nil
      PROVE  waiting # {} /\ W(m) \notin PH!Starting
  <2>1. i \in waiting /\ W(i) \notin PH!Starting
    BY <1>3, <1>5, Zenon
  <2>2. m \in 1 .. n /\ W(m) # Nil /\ m <= i
    BY <1>2, <1>3, <2>1, Zenon
  <2>3. m \notin 1 .. i - 1
    BY <1>5, <2>2, Zenon
  <2>4. m = i
    BY <2>2, <2>3
  <2> QED
    BY <2>1, <2>4, Zenon
<1> QED
  BY <1>1, <1>4, <1>5, Zenon DEF waiting, m, W

\* A Pod is in error exactly if it is broken.
LEMMA PodErrorMeans ==
    ASSUME NEW pod, IsPod(pod)
    PROVE  /\ PH!PodError(pod) \in {"nil", "PodIsPending", "PodIsFailing"}
           /\ (PH!PodError(pod) = "nil") <=> ~Broken(pod)
<1> DEFINE waiting == {i \in DOMAIN pod.containers : pod.containers[i].waiting # Nil}
           stuck == \E i \in DOMAIN pod.containers :
                       /\ pod.containers[i].waiting \notin {Nil} \cup PH!Starting
                       /\ \A j \in 1 .. i - 1 : pod.containers[j].waiting = Nil
           a == PH!checkPodPendingState(pod)
           b == PH!checkPodFailedState(pod)
           s == [i \in DOMAIN pod.containers |-> PH!checkPodsWaitingState(pod, pod.containers[i])]
           c == PH!FirstError(s)
           e == PH!FirstError(<<a, b, c>>)
<1>1. (waiting # {} /\ pod.containers[PH!Min(waiting)].waiting \notin PH!Starting) <=> stuck
  BY FirstWaiting, Zenon
<1>2. a = IF pod.phase = "Pending" /\ (pod.scheduled => stuck) THEN "PodIsPending" ELSE "nil"
  <2> HIDE DEF stuck
  <2> QED
    BY <1>1, Zenon DEF PH!checkPodPendingState, PH!Check
<1>3. b = IF pod.phase = "Failed" THEN "PodIsFailing" ELSE "nil"
  BY Zenon DEF PH!checkPodFailedState, PH!Check
<1>4. /\ DOMAIN s = DOMAIN pod.containers /\ DOMAIN s \subseteq Nat
      /\ \A i \in DOMAIN s :
            s[i] = IF pod.phase = "Running" /\ pod.containers[i].waiting # Nil THEN "PodIsPending" ELSE "nil"
  <2>1. DOMAIN s = DOMAIN pod.containers
    BY Zenon
  <2>2. DOMAIN pod.containers \subseteq Nat
    BY DEF IsPod
  <2>3. ASSUME NEW i \in DOMAIN s
        PROVE  s[i] = IF pod.phase = "Running" /\ pod.containers[i].waiting # Nil THEN "PodIsPending" ELSE "nil"
    BY <2>1, <2>3, Zenon DEF PH!checkPodsWaitingState, PH!Check
  <2> QED
    BY <2>1, <2>2, <2>3, Zenon
<1> DEFINE waits == \E i \in DOMAIN pod.containers : pod.containers[i].waiting # Nil
<1>5. c = IF pod.phase = "Running" /\ waits THEN "PodIsPending" ELSE "nil"
  <2> HIDE DEF s
  <2>1. \/ PH!FirstError(s) = "nil" /\ \A i \in DOMAIN s : s[i] = "nil"
        \/ PH!FirstError(s) # "nil" /\ \E i \in DOMAIN s : PH!FirstError(s) = s[i]
    BY <1>4, FirstErrorIsOne, Zenon
  <2>2. "PodIsPending" # "nil"
    OBVIOUS
  <2> QED
    BY <1>4, <2>1, <2>2, Zenon
<1>6. PH!PodError(pod) = IF pod.phase = "Running" /\ pod.ready THEN "nil" ELSE e
  BY Zenon DEF PH!PodError
<1>7. Broken(pod) <=> \/ pod.phase = "Failed"
                      \/ pod.phase = "Pending" /\ (~pod.scheduled \/ stuck)
                      \/ pod.phase = "Running" /\ ~pod.ready /\ waits
  BY Zenon DEF Broken
<1> HIDE DEF stuck, waits, a, b, c, e
<1>8. \/ e = "nil" /\ a = "nil" /\ b = "nil" /\ c = "nil"
      \/ e # "nil" /\ e \in {a, b, c}
  BY FirstOfThree DEF e
<1>9. CASE pod.phase = "Running" /\ pod.ready
  BY <1>6, <1>7, <1>9
<1>10. CASE ~(pod.phase = "Running" /\ pod.ready)
  <2>1. PH!PodError(pod) = e
    BY <1>6, <1>10, Zenon
  <2>2. e \in {"nil", "PodIsPending", "PodIsFailing"}
    BY <1>2, <1>3, <1>5, <1>8, Zenon
  <2>3. (e = "nil") <=> (a = "nil" /\ b = "nil" /\ c = "nil")
    BY <1>8
  <2>4. /\ (a = "nil") <=> ~(pod.phase = "Pending" /\ (~pod.scheduled \/ stuck))
        /\ (b = "nil") <=> ~(pod.phase = "Failed")
        /\ (c = "nil") <=> ~(pod.phase = "Running" /\ waits)
    <3>1. "PodIsPending" # "nil" /\ "PodIsFailing" # "nil"
      OBVIOUS
    <3> QED
      BY <1>2, <1>3, <1>5, <3>1, Zenon
  <2> QED
    BY <1>7, <1>10, <2>1, <2>2, <2>3, <2>4, Zenon
<1> QED
  BY <1>9, <1>10, Zenon

\* What is read of a workload: nothing, an error, or a DaemonSet with its Pods.
IsWorkload(ds) ==
    /\ ds.read \in {"found", "absent", "failed"} /\ ds.listed \in BOOLEAN
    /\ DOMAIN ds.pods \subseteq Nat
    /\ \A i \in DOMAIN ds.pods : IsPod(ds.pods[i])

RolledOut(ds) == ds.updated = ds.desired /\ ds.ready >= ds.desired
HasBroken(ds) == \E i \in DOMAIN ds.pods : Broken(ds.pods[i])

\* The Pods of a workload are in error exactly if one is broken, none exists or they
\* cannot be listed.
LEMMA PodStatusMeans ==
    ASSUME NEW ds, IsWorkload(ds)
    PROVE  LET e == PH!checkPodStatus(ds)
           IN  /\ e \in {"nil", "PodsListing", "NoPodsDeployed", "PodIsPending", "PodIsFailing"}
               /\ e = "nil" => ds.listed /\ ~HasBroken(ds)
               /\ e # "nil" => HasBroken(ds) \/ ~ds.listed \/ ds.pods = <<>>
<1> DEFINE s == [i \in DOMAIN ds.pods |-> PH!PodError(ds.pods[i])]
           e == PH!FirstError(s)
<1>1. /\ DOMAIN s = DOMAIN ds.pods /\ DOMAIN s \subseteq Nat
      /\ \A i \in DOMAIN s : /\ s[i] \in {"nil", "PodIsPending", "PodIsFailing"}
                             /\ (s[i] = "nil") <=> ~Broken(ds.pods[i])
  BY PodErrorMeans, Zenon DEF IsWorkload
<1>2. PH!checkPodStatus(ds) =
          IF ~ds.listed THEN "PodsListing" ELSE IF ds.pods = <<>> THEN "NoPodsDeployed" ELSE e
  BY Zenon DEF PH!checkPodStatus
<1>3. \/ e = "nil" /\ \A i \in DOMAIN s : s[i] = "nil"
      \/ e # "nil" /\ \E i \in DOMAIN s : e = s[i]
  <2> HIDE DEF s
  <2> QED
    BY <1>1, FirstErrorIsOne, Zenon
<1> HIDE DEF s, e
<1>4. /\ e \in {"nil", "PodIsPending", "PodIsFailing"}
      /\ (e = "nil") <=> ~HasBroken(ds)
  BY <1>1, <1>3, Zenon DEF HasBroken
<1>5. "NoPodsDeployed" # "nil" /\ "PodsListing" # "nil"
  OBVIOUS
<1> QED
  BY <1>2, <1>4, <1>5, Zenon

\* Readiness is what the rollout and the Pods say.
LEMMA ReadyMeans ==
    ASSUME NEW ds, IsWorkload(ds)
    PROVE  LET e == PH!IsReady(ds)
           IN  \/ e = "nil" /\ ds.read = "found" /\ RolledOut(ds)
               \/ /\ e = "RolloutInProgress" /\ ds.read = "found" /\ ~RolledOut(ds)
                  /\ ds.listed /\ ~HasBroken(ds)
               \/ /\ e \notin {"nil", "RolloutInProgress"}
                  /\ ds.read # "found" \/ (~RolledOut(ds) /\ (HasBroken(ds) \/ ~ds.listed \/ ds.pods = <<>>))
<1> DEFINE c == PH!checkPodStatus(ds)
           f == PH!FirstError(<<c, "RolloutInProgress">>)
<1>1. /\ c \in {"nil", "PodsListing", "NoPodsDeployed", "PodIsPending", "PodIsFailing"}
      /\ c = "nil" => ds.listed /\ ~HasBroken(ds)
      /\ c # "nil" => HasBroken(ds) \/ ~ds.listed \/ ds.pods = <<>>
  BY PodStatusMeans, Zenon
<1>2. CASE ds.read = "absent"
  <2>1. PH!IsReady(ds) = "DaemonSetNotFound" /\ ds.read # "found"
    BY <1>2 DEF PH!IsReady
  <2> QED
    BY <2>1
<1>3. CASE ds.read = "failed"
  <2>1. PH!IsReady(ds) = "DaemonSetFetching" /\ ds.read # "found"
    BY <1>3 DEF PH!IsReady
  <2> QED
    BY <2>1
<1>4. CASE ds.read = "found"
  <2>1. PH!IsReady(ds) = IF RolledOut(ds) THEN "nil" ELSE f
    <3>1. ds.read # "absent" /\ ds.read # "failed"
      BY <1>4
    <3> QED
      BY <3>1, Zenon DEF PH!IsReady, RolledOut
  <2> HIDE DEF c
  <2>2. /\ c = "nil" => f = "RolloutInProgress"
        /\ c # "nil" => f = c
    <3> DEFINE d == <<c, "RolloutInProgress">>
    <3>1. CASE c = "nil"
      BY <3>1, FirstOfTwo
    <3>2. CASE c # "nil"
      <4>1. 1 \in DOMAIN d /\ DOMAIN d \subseteq Nat \ {0} /\ d[1] = c
        OBVIOUS
      <4> HIDE DEF d
      <4>2. PH!FirstError(d) = c
        BY <3>2, <4>1, FirstComesFirst, Zenon
      <4> QED
        BY <3>2, <4>2, Zenon DEF d
    <3> QED
      BY <3>1, <3>2, Zenon
  <2>3. /\ c = "nil" => f = "RolloutInProgress"
        /\ c # "nil" => f \notin {"nil", "RolloutInProgress"}
    BY <1>1, <2>2
  <2> HIDE DEF f
  <2> QED
    BY <1>1, <1>4, <2>1, <2>3, Zenon
<1> QED
  BY <1>2, <1>3, <1>4, Zenon DEF IsWorkload

\* What the reasons of the health conditions claim, one by one.
LEMMA WorkloadReason ==
    ASSUME NEW c
    PROVE  /\ /\ c.reason \in {"GatewayReady", "AgentReady"} /\ c.status = "True"
              /\ built.ds.read = "found" /\ RolledOut(built.ds)
              => WorkloadJustified(c)
           /\ /\ c.reason = "RolloutInProgress" /\ c.status = "True"
              /\ built.ds.read = "found" /\ ~RolledOut(built.ds) /\ built.ds.listed /\ ~HasBroken(built.ds)
              => WorkloadJustified(c)
           /\ /\ c.reason \in {"GatewayNotReady", "AgentNotReady"} /\ c.status = "False"
              /\ \/ built.ds.read # "found"
                 \/ ~RolledOut(built.ds) /\ (HasBroken(built.ds) \/ ~built.ds.listed \/ built.ds.pods = <<>>)
              => WorkloadJustified(c)
  BY Zenon DEF WorkloadJustified, RolledOut, HasBroken

LEMMA NotGeneratedReason ==
    ASSUME NEW c, c.status = "False", c.reason = "GatewayConfigurationNotGenerated", built.generated = "False"
    PROVE  WorkloadJustified(c)
  BY Zenon DEF WorkloadJustified

LEMMA NotRequiredReason ==
    ASSUME NEW c, c.reason = "AgentNotRequired", ~built.pipeline.agent
    PROVE  WorkloadJustified(c)
  BY Zenon DEF WorkloadJustified

LEMMA WorkloadConditionIsJustified ==
    ASSUME IsWorkload(built.ds), NEW ready, NEW notReady,
           \/ ready = "GatewayReady" /\ notReady = "GatewayNotReady"
           \/ ready = "AgentReady" /\ notReady = "AgentNotReady"
    PROVE  WorkloadJustified(PH!WorkloadCondition(PH!IsReady(built.ds), ready, notReady))
<1> DEFINE e == PH!IsReady(built.ds)
           c == PH!WorkloadCondition(e, ready, notReady)
<1>0. ready \in {"GatewayReady", "AgentReady"} /\ notReady \in {"GatewayNotReady", "AgentNotReady"}
  OBVIOUS
<1>1. \/ e = "nil" /\ built.ds.read = "found" /\ RolledOut(built.ds)
      \/ /\ e = "RolloutInProgress" /\ built.ds.read = "found"
         /\ ~RolledOut(built.ds) /\ built.ds.listed /\ ~HasBroken(built.ds)
      \/ /\ e \notin {"nil", "RolloutInProgress"}
         /\ \/ built.ds.read # "found"
            \/ ~RolledOut(built.ds) /\ (HasBroken(built.ds) \/ ~built.ds.listed \/ built.ds.pods = <<>>)
  BY ReadyMeans, Zenon
<1>2. /\ e = "nil" => c.status = "True" /\ c.reason = ready
      /\ e = "RolloutInProgress" => c.status = "True" /\ c.reason = "RolloutInProgress"
      /\ e \notin {"nil", "RolloutInProgress"} => c.status = "False" /\ c.reason = notReady
  <2> HIDE DEF e
  <2>1. "nil" # "RolloutInProgress"
    OBVIOUS
  <2>2. /\ e = "nil" => c = PH!Condition("True", ready)
        /\ e = "RolloutInProgress" => c = PH!Condition("True", "RolloutInProgress")
        /\ e \notin {"nil", "RolloutInProgress"} => c = PH!Condition("False", notReady)
    BY <2>1, Zenon DEF PH!WorkloadCondition
  <2>3. \A st, r : PH!Condition(st, r).status = st /\ PH!Condition(st, r).reason = r
    BY Zenon DEF PH!Condition
  <2> HIDE DEF c
  <2> QED
    BY <2>2, <2>3
<1> HIDE DEF e, c
<1>3. WorkloadJustified(c)
  BY <1>0, <1>1, <1>2, WorkloadReason, Zenon
<1> QED
  BY <1>3, Zenon DEF e, c

-----------------------------------------------------------------------------
\* The first case that holds.

LEMMA FirstThatIsOne ==
    ASSUME NEW c, NEW d, DOMAIN c \subseteq Nat
    PROVE  \/ PH!FirstThat(c, d) = d /\ \A i \in DOMAIN c : ~c[i][1]
           \/ \E i \in DOMAIN c : /\ c[i][1] /\ PH!FirstThat(c, d) = c[i][2]
                                  /\ \A j \in DOMAIN c : c[j][1] => i <= j
<1> DEFINE holding == {i \in DOMAIN c : c[i][1]}
<1>1. CASE holding = {}
  BY <1>1, Zenon DEF PH!FirstThat
<1>2. CASE holding # {}
  <2>1. holding \in SUBSET Nat
    BY Zenon
  <2>2. PH!Min(holding) \in holding /\ \A j \in holding : PH!Min(holding) <= j
    BY <1>2, <2>1, MinIsLeast, Zenon
  <2> QED
    BY <1>2, <2>2, Zenon DEF PH!FirstThat
<1> QED
  BY <1>1, <1>2, Zenon

LEMMA FirstThatOfTwo ==
    ASSUME NEW a \in BOOLEAN, NEW b \in BOOLEAN,
           NEW u, NEW v, NEW d, NEW e,
           e = PH!FirstThat(<<<<a, u>>, <<b, v>>>>, d)
    PROVE  \/ a /\ e = u
           \/ ~a /\ b /\ e = v
           \/ ~a /\ ~b /\ e = d
<1> DEFINE c == <<<<a, u>>, <<b, v>>>>
<1>1. DOMAIN c = {1, 2} /\ DOMAIN c \subseteq Nat
  OBVIOUS
<1>2. /\ c[1][1] = a /\ c[1][2] = u
      /\ c[2][1] = b /\ c[2][2] = v
  OBVIOUS
<1>3. e = PH!FirstThat(c, d)
  BY Zenon
<1> HIDE DEF c
<1>4. \/ e = d /\ \A i \in DOMAIN c : ~c[i][1]
      \/ \E i \in DOMAIN c : c[i][1] /\ e = c[i][2] /\ \A j \in DOMAIN c : c[j][1] => i <= j
  BY <1>1, <1>3, FirstThatIsOne, Zenon
<1> QED
  BY <1>1, <1>2, <1>4

LEMMA FirstThatOfThree ==
    ASSUME NEW a \in BOOLEAN, NEW b \in BOOLEAN, NEW f \in BOOLEAN,
           NEW u, NEW v, NEW w, NEW d, NEW e,
           e = PH!FirstThat(<<<<a, u>>, <<b, v>>, <<f, w>>>>, d)
    PROVE  \/ a /\ e = u
           \/ ~a /\ b /\ e = v
           \/ ~a /\ ~b /\ f /\ e = w
           \/ ~a /\ ~b /\ ~f /\ e = d
<1> DEFINE c == <<<<a, u>>, <<b, v>>, <<f, w>>>>
<1>1. DOMAIN c = {1, 2, 3} /\ DOMAIN c \subseteq Nat
  OBVIOUS
<1>2. /\ c[1][1] = a /\ c[1][2] = u
      /\ c[2][1] = b /\ c[2][2] = v
      /\ c[3][1] = f /\ c[3][2] = w
  OBVIOUS
<1>3. e = PH!FirstThat(c, d)
  BY Zenon
<1> HIDE DEF c
<1>4. \/ e = d /\ \A i \in DOMAIN c : ~c[i][1]
      \/ \E i \in DOMAIN c : c[i][1] /\ e = c[i][2] /\ \A j \in DOMAIN c : c[j][1] => i <= j
  BY <1>1, <1>3, FirstThatIsOne, Zenon
<1> QED
  BY <1>1, <1>2, <1>4

LEMMA FirstThatOfFour ==
    ASSUME NEW a \in BOOLEAN, NEW b \in BOOLEAN, NEW f \in BOOLEAN, NEW g \in BOOLEAN,
           NEW u, NEW v, NEW w, NEW x, NEW d, NEW e,
           e = PH!FirstThat(<<<<a, u>>, <<b, v>>, <<f, w>>, <<g, x>>>>, d)
    PROVE  \/ a /\ e = u
           \/ ~a /\ b /\ e = v
           \/ ~a /\ ~b /\ f /\ e = w
           \/ ~a /\ ~b /\ ~f /\ g /\ e = x
           \/ ~a /\ ~b /\ ~f /\ ~g /\ e = d
<1> DEFINE c == <<<<a, u>>, <<b, v>>, <<f, w>>, <<g, x>>>>
<1>1. DOMAIN c = {1, 2, 3, 4} /\ DOMAIN c \subseteq Nat
  OBVIOUS
<1>2. /\ c[1][1] = a /\ c[1][2] = u
      /\ c[2][1] = b /\ c[2][2] = v
      /\ c[3][1] = f /\ c[3][2] = w
      /\ c[4][1] = g /\ c[4][2] = x
  OBVIOUS
<1>3. e = PH!FirstThat(c, d)
  BY Zenon
<1> HIDE DEF c
<1>4. \/ e = d /\ \A i \in DOMAIN c : ~c[i][1]
      \/ \E i \in DOMAIN c : c[i][1] /\ e = c[i][2] /\ \A j \in DOMAIN c : c[j][1] => i <= j
  BY <1>1, <1>3, FirstThatIsOne, Zenon
<1> QED
  BY <1>1, <1>2, <1>4

LEMMA FirstThatOfFive ==
    ASSUME NEW a \in BOOLEAN, NEW b \in BOOLEAN, NEW f \in BOOLEAN, NEW g \in BOOLEAN, NEW h \in BOOLEAN,
           NEW u, NEW v, NEW w, NEW x, NEW y, NEW d, NEW e,
           e = PH!FirstThat(<<<<a, u>>, <<b, v>>, <<f, w>>, <<g, x>>, <<h, y>>>>, d)
    PROVE  \/ a /\ e = u
           \/ ~a /\ b /\ e = v
           \/ ~a /\ ~b /\ f /\ e = w
           \/ ~a /\ ~b /\ ~f /\ g /\ e = x
           \/ ~a /\ ~b /\ ~f /\ ~g /\ h /\ e = y
           \/ ~a /\ ~b /\ ~f /\ ~g /\ ~h /\ e = d
<1> DEFINE c == <<<<a, u>>, <<b, v>>, <<f, w>>, <<g, x>>, <<h, y>>>>
<1>1. DOMAIN c = {1, 2, 3, 4, 5} /\ DOMAIN c \subseteq Nat
  OBVIOUS
<1>2. /\ c[1][1] = a /\ c[1][2] = u
      /\ c[2][1] = b /\ c[2][2] = v
      /\ c[3][1] = f /\ c[3][2] = w
      /\ c[4][1] = g /\ c[4][2] = x
      /\ c[5][1] = h /\ c[5][2] = y
  OBVIOUS
<1>3. e = PH!FirstThat(c, d)
  BY Zenon
<1> HIDE DEF c
<1>4. \/ e = d /\ \A i \in DOMAIN c : ~c[i][1]
      \/ \E i \in DOMAIN c : c[i][1] /\ e = c[i][2] /\ \A j \in DOMAIN c : c[j][1] => i <= j
  BY <1>1, <1>3, FirstThatIsOne, Zenon
<1> QED
  BY <1>1, <1>2, <1>4

-----------------------------------------------------------------------------
\* The flow condition.

FlowReasons ==
    {"GatewayAllTelemetryDataDropped", "GatewaySomeTelemetryDataDropped", "GatewayThrottling",
     "AgentAllTelemetryDataDropped", "AgentSomeTelemetryDataDropped", "AgentNoLogsDelivered",
     "AgentBufferFillingUp", "FlowHealthy"}

LEMMA ConditionFields ==
    \A status, reason : /\ PH!Condition(status, reason).status = status
                        /\ PH!Condition(status, reason).reason = reason
  BY Zenon DEF PH!Condition

LEMMA FiringIsBoolean ==
    \A alerts, rule, name, t : PH!isFiringWithMatcher(alerts, rule, name, t) \in BOOLEAN
  BY Zenon DEF PH!isFiringWithMatcher

LEMMA GatewayProbe ==
    ASSUME NEW alerts, NEW name, NEW t, NEW g, g = PH!ProbeGateway(alerts, name, t)
    PROVE  /\ g.allDataDropped = PH!isFiringWithMatcher(alerts, "GatewayAllDataDropped", name, t)
           /\ g.someDataDropped = PH!isFiringWithMatcher(alerts, "GatewaySomeDataDropped", name, t)
           /\ g.throttling = PH!isFiringWithMatcher(alerts, "GatewayThrottling", name, t)
           /\ g.allDataDropped \in BOOLEAN /\ g.someDataDropped \in BOOLEAN /\ g.throttling \in BOOLEAN
  BY FiringIsBoolean, Zenon DEF PH!ProbeGateway

LEMMA AgentProbe ==
    ASSUME NEW alerts, NEW name, NEW t, NEW a, a = PH!ProbeAgent(alerts, name, t)
    PROVE  /\ a.allDataDropped = PH!isFiringWithMatcher(alerts, "AgentAllDataDropped", name, t)
           /\ a.someDataDropped = PH!isFiringWithMatcher(alerts, "AgentSomeDataDropped", name, t)
           /\ a.allDataDropped \in BOOLEAN /\ a.someDataDropped \in BOOLEAN
  BY FiringIsBoolean, Zenon DEF PH!ProbeAgent

LEMMA FluentBitProbe ==
    ASSUME NEW alerts, NEW name, NEW f, f = PH!ProbeFluentBit(alerts, name)
    PROVE  /\ f.allDataDropped = PH!isFiringWithMatcher(alerts, "FluentBitAllDataDropped", name, "log")
           /\ f.someDataDropped = PH!isFiringWithMatcher(alerts, "FluentBitSomeDataDropped", name, "log")
           /\ f.noLogsDelivered = PH!isFiringWithMatcher(alerts, "FluentBitNoLogsDelivered", name, "log")
           /\ f.bufferFillingUp = PH!isFiringWithMatcher(alerts, "FluentBitBufferInUse", name, "log")
           /\ f.allDataDropped \in BOOLEAN /\ f.someDataDropped \in BOOLEAN
           /\ f.noLogsDelivered \in BOOLEAN /\ f.bufferFillingUp \in BOOLEAN
           /\ DOMAIN f = {"allDataDropped", "someDataDropped", "bufferFillingUp", "noLogsDelivered"}
  BY FiringIsBoolean, Zenon DEF PH!ProbeFluentBit

\* The reason of a gateway: the first of its rules that fires.
LEMMA GatewayReason ==
    ASSUME NEW alerts, NEW name, NEW t, NEW g, g = PH!ProbeGateway(alerts, name, t),
           NEW e, e = PH!gatewayFlowHealthReasonFor(g)
    PROVE  \/ g.allDataDropped /\ e = "GatewayAllTelemetryDataDropped"
           \/ ~g.allDataDropped /\ g.someDataDropped /\ e = "GatewaySomeTelemetryDataDropped"
           \/ /\ ~g.allDataDropped /\ ~g.someDataDropped /\ g.throttling /\ e = "GatewayThrottling"
           \/ ~g.allDataDropped /\ ~g.someDataDropped /\ ~g.throttling /\ e = "FlowHealthy"
<1> DEFINE a == g.allDataDropped
           b == g.someDataDropped
           c == g.throttling
<1>1. a \in BOOLEAN /\ b \in BOOLEAN /\ c \in BOOLEAN
  BY GatewayProbe, Zenon
<1>2. e = PH!FirstThat(<<<<a, "GatewayAllTelemetryDataDropped">>, <<b, "GatewaySomeTelemetryDataDropped">>,
                         <<c, "GatewayThrottling">>>>, "FlowHealthy")
  BY Zenon DEF PH!gatewayFlowHealthReasonFor
<1> HIDE DEF a, b, c
<1>3. \/ a /\ e = "GatewayAllTelemetryDataDropped"
      \/ ~a /\ b /\ e = "GatewaySomeTelemetryDataDropped"
      \/ ~a /\ ~b /\ c /\ e = "GatewayThrottling"
      \/ ~a /\ ~b /\ ~c /\ e = "FlowHealthy"
  BY <1>1, <1>2, FirstThatOfThree
<1> QED
  BY <1>3, Zenon DEF a, b, c

LEMMA AgentReason ==
    ASSUME NEW alerts, NEW name, NEW t, NEW g, g = PH!ProbeAgent(alerts, name, t),
           NEW e, e = PH!agentFlowHealthReasonFor(g)
    PROVE  \/ g.allDataDropped /\ e = "AgentAllTelemetryDataDropped"
           \/ ~g.allDataDropped /\ g.someDataDropped /\ e = "AgentSomeTelemetryDataDropped"
           \/ ~g.allDataDropped /\ ~g.someDataDropped /\ e = "FlowHealthy"
<1> DEFINE a == g.allDataDropped
           b == g.someDataDropped
<1>1. a \in BOOLEAN /\ b \in BOOLEAN
  BY AgentProbe, Zenon
<1>2. e = PH!FirstThat(<<<<a, "AgentAllTelemetryDataDropped">>, <<b, "AgentSomeTelemetryDataDropped">>>>,
                       "FlowHealthy")
  BY Zenon DEF PH!agentFlowHealthReasonFor
<1> HIDE DEF a, b
<1>3. \/ a /\ e = "AgentAllTelemetryDataDropped"
      \/ ~a /\ b /\ e = "AgentSomeTelemetryDataDropped"
      \/ ~a /\ ~b /\ e = "FlowHealthy"
  BY <1>1, <1>2, FirstThatOfTwo
<1> QED
  BY <1>3, Zenon DEF a, b

\* The reason of a MetricPipeline: the gateway's rules, then the agent's.
LEMMA MetricReason ==
    ASSUME NEW alerts, NEW name, NEW t, NEW g, g = PH!ProbeGateway(alerts, name, t),
           NEW h, h = PH!ProbeAgent(alerts, name, t),
           NEW e, e = PH!flowHealthReasonFor(g, h)
    PROVE  \/ g.allDataDropped /\ e = "GatewayAllTelemetryDataDropped"
           \/ ~g.allDataDropped /\ g.someDataDropped /\ e = "GatewaySomeTelemetryDataDropped"
           \/ ~g.allDataDropped /\ ~g.someDataDropped /\ g.throttling /\ e = "GatewayThrottling"
           \/ /\ ~g.allDataDropped /\ ~g.someDataDropped /\ ~g.throttling
              /\ \/ h.allDataDropped /\ e = "AgentAllTelemetryDataDropped"
                 \/ ~h.allDataDropped /\ h.someDataDropped /\ e = "AgentSomeTelemetryDataDropped"
                 \/ ~h.allDataDropped /\ ~h.someDataDropped /\ e = "FlowHealthy"
<1> DEFINE a == g.allDataDropped
           b == g.someDataDropped
           c == g.throttling
           i == h.allDataDropped
           j == h.someDataDropped
<1>1. a \in BOOLEAN /\ b \in BOOLEAN /\ c \in BOOLEAN
  BY GatewayProbe, Zenon
<1>2. i \in BOOLEAN /\ j \in BOOLEAN
  BY AgentProbe, Zenon
<1>3. e = PH!FirstThat(<<<<a, "GatewayAllTelemetryDataDropped">>, <<b, "GatewaySomeTelemetryDataDropped">>,
                         <<c, "GatewayThrottling">>, <<i, "AgentAllTelemetryDataDropped">>,
                         <<j, "AgentSomeTelemetryDataDropped">>>>, "FlowHealthy")
  BY Zenon DEF PH!flowHealthReasonFor
<1> HIDE DEF a, b, c, i, j
<1>4. \/ a /\ e = "GatewayAllTelemetryDataDropped"
      \/ ~a /\ b /\ e = "GatewaySomeTelemetryDataDropped"
      \/ ~a /\ ~b /\ c /\ e = "GatewayThrottling"
      \/ ~a /\ ~b /\ ~c /\ i /\ e = "AgentAllTelemetryDataDropped"
      \/ ~a /\ ~b /\ ~c /\ ~i /\ j /\ e = "AgentSomeTelemetryDataDropped"
      \/ ~a /\ ~b /\ ~c /\ ~i /\ ~j /\ e = "FlowHealthy"
  BY <1>1, <1>2, <1>3, FirstThatOfFive
<1> QED
  BY <1>4, Zenon DEF a, b, c, i, j

LEMMA FluentBitReason ==
    ASSUME NEW alerts, NEW name, NEW f, f = PH!ProbeFluentBit(alerts, name),
           NEW e, e = PH!fluentBitFlowHealthReasonFor(f)
    PROVE  \/ f.allDataDropped /\ e = "AgentAllTelemetryDataDropped"
           \/ ~f.allDataDropped /\ f.someDataDropped /\ e = "AgentSomeTelemetryDataDropped"
           \/ /\ ~f.allDataDropped /\ ~f.someDataDropped
              /\ \/ f.noLogsDelivered /\ e = "AgentNoLogsDelivered"
                 \/ ~f.noLogsDelivered /\ f.bufferFillingUp /\ e = "AgentBufferFillingUp"
                 \/ ~f.noLogsDelivered /\ ~f.bufferFillingUp /\ e = "FlowHealthy"
<1> DEFINE a == f.allDataDropped
           b == f.someDataDropped
           c == f.noLogsDelivered
           d == f.bufferFillingUp
<1>1. a \in BOOLEAN /\ b \in BOOLEAN /\ c \in BOOLEAN /\ d \in BOOLEAN
  BY FluentBitProbe, Zenon
<1>2. e = PH!FirstThat(<<<<a, "AgentAllTelemetryDataDropped">>, <<b, "AgentSomeTelemetryDataDropped">>,
                         <<c, "AgentNoLogsDelivered">>, <<d, "AgentBufferFillingUp">>>>, "FlowHealthy")
  BY Zenon DEF PH!fluentBitFlowHealthReasonFor
<1> HIDE DEF a, b, c, d
<1>3. \/ a /\ e = "AgentAllTelemetryDataDropped"
      \/ ~a /\ b /\ e = "AgentSomeTelemetryDataDropped"
      \/ ~a /\ ~b /\ c /\ e = "AgentNoLogsDelivered"
      \/ ~a /\ ~b /\ ~c /\ d /\ e = "AgentBufferFillingUp"
      \/ ~a /\ ~b /\ ~c /\ ~d /\ e = "FlowHealthy"
  BY <1>1, <1>2, FirstThatOfFour
<1> QED
  BY <1>3, Zenon DEF a, b, c, d

\* The reason of an OTel LogPipeline: the worst of its agent's r and its gateway's s.
LEMMA CombinedReason ==
    ASSUME NEW none, none \notin FlowReasons,
           NEW r \in {none, "AgentAllTelemetryDataDropped", "AgentSomeTelemetryDataDropped", "FlowHealthy"},
           NEW s \in {none, "GatewayAllTelemetryDataDropped", "GatewaySomeTelemetryDataDropped",
                      "GatewayThrottling", "FlowHealthy"},
           NEW e, e = PH!combineFlowHealthReasons(r, s)
    PROVE  e = IF r = "AgentAllTelemetryDataDropped" THEN "AgentAllTelemetryDataDropped"
               ELSE IF s = "GatewayAllTelemetryDataDropped" THEN "GatewayAllTelemetryDataDropped"
               ELSE IF r = "AgentSomeTelemetryDataDropped" THEN "AgentSomeTelemetryDataDropped"
               ELSE IF s = "GatewaySomeTelemetryDataDropped" THEN "GatewaySomeTelemetryDataDropped"
               ELSE IF s = "GatewayThrottling" THEN "GatewayThrottling" ELSE "FlowHealthy"
<1> DEFINE among(agent, gateway) == {agent, gateway} \cap {r, s} # {}
           a == among("AgentAllTelemetryDataDropped", "GatewayAllTelemetryDataDropped")
           b == among("AgentSomeTelemetryDataDropped", "GatewaySomeTelemetryDataDropped")
           f == "AgentBufferFillingUp" \in {r, s}
           g == "GatewayThrottling" \in {r, s}
           u == IF r = "AgentAllTelemetryDataDropped" THEN "AgentAllTelemetryDataDropped"
                ELSE "GatewayAllTelemetryDataDropped"
           v == IF r = "AgentSomeTelemetryDataDropped" THEN "AgentSomeTelemetryDataDropped"
                ELSE "GatewaySomeTelemetryDataDropped"
<1>1. a \in BOOLEAN /\ b \in BOOLEAN /\ f \in BOOLEAN /\ g \in BOOLEAN
  OBVIOUS
<1>2. e = PH!FirstThat(<<<<a, u>>, <<b, v>>, <<f, "AgentBufferFillingUp">>, <<g, "GatewayThrottling">>>>,
                       "FlowHealthy")
  BY Zenon DEF PH!combineFlowHealthReasons
<1>3. /\ a <=> r = "AgentAllTelemetryDataDropped" \/ s = "GatewayAllTelemetryDataDropped"
      /\ b <=> r = "AgentSomeTelemetryDataDropped" \/ s = "GatewaySomeTelemetryDataDropped"
      /\ ~f
      /\ g <=> s = "GatewayThrottling"
  BY ZenonT(30) DEF FlowReasons
<1> HIDE DEF a, b, f, g, u, v
<1>4. \/ a /\ e = u
      \/ ~a /\ b /\ e = v
      \/ ~a /\ ~b /\ f /\ e = "AgentBufferFillingUp"
      \/ ~a /\ ~b /\ ~f /\ g /\ e = "GatewayThrottling"
      \/ ~a /\ ~b /\ ~f /\ ~g /\ e = "FlowHealthy"
  BY <1>1, <1>2, FirstThatOfFour
<1> QED
  BY <1>3, <1>4, Zenon DEF u, v

\* What the health of a flow is about, by the probes that are answered.
FlowOutcome(p, obs, c) ==
    \/ obs.config.status = "False" /\ c = PH!NotGenerated
    \/ /\ obs.config.status # "False" /\ "gateway" \in Probes(p) \ obs.answers
       /\ c = PH!GatewayProbingFailed
    \/ /\ obs.config.status # "False" /\ "agent" \in Probes(p) \ obs.answers
       /\ c = PH!AgentProbingFailed
    \/ /\ obs.config.status # "False" /\ Probes(p) \subseteq obs.answers
       /\ c.status \in {"True", "False"} /\ c.reason \in FlowReasons

LEMMA FlowHasOutcome ==
    ASSUME NEW p, IsPipeline(p), p.otlp \in BOOLEAN, p.agent \in BOOLEAN, NEW obs,
           NEW c, c = PH!setFlowHealthCondition(p, obs)
    PROVE  FlowOutcome(p, obs, c)
<1>1. \A reason : /\ PH!FlowCondition(reason).reason = reason
                  /\ PH!FlowCondition(reason).status \in {"True", "False"}
  BY ConditionFields, Zenon DEF PH!FlowCondition
<1>2. \A alerts, t : PH!gatewayFlowHealthReasonFor(PH!ProbeGateway(alerts, p.name, t)) \in
          {"GatewayAllTelemetryDataDropped", "GatewaySomeTelemetryDataDropped", "GatewayThrottling", "FlowHealthy"}
  BY GatewayReason
<1>3. \A alerts, t : PH!agentFlowHealthReasonFor(PH!ProbeAgent(alerts, p.name, t)) \in
          {"AgentAllTelemetryDataDropped", "AgentSomeTelemetryDataDropped", "FlowHealthy"}
  BY AgentReason
<1>4. CASE p.mode = "trace"
  <2>1. c = PH!evaluateTraceFlowHealth(p, obs) /\ Probes(p) = {"gateway"}
    BY <1>4, Zenon DEF PH!setFlowHealthCondition, Probes
  <2> DEFINE e == PH!gatewayFlowHealthReasonFor(PH!ProbeGateway(obs.alerts, p.name, "trace"))
  <2>2. e \in FlowReasons
    BY <1>2, Zenon DEF FlowReasons
  <2>3. c = IF obs.config.status = "False" THEN PH!NotGenerated
            ELSE IF "gateway" \notin obs.answers THEN PH!GatewayProbingFailed
            ELSE PH!FlowCondition(e)
    BY <2>1, Zenon DEF PH!evaluateTraceFlowHealth
  <2> HIDE DEF e
  <2> QED
    BY <1>1, <2>1, <2>2, <2>3, Zenon DEF FlowOutcome
<1>5. CASE p.mode = "metric"
  <2>1. c = PH!evaluateMetricFlowHealth(p, obs) /\ Probes(p) = {"gateway", "agent"}
    BY <1>5, Zenon DEF PH!setFlowHealthCondition, Probes
  <2> DEFINE e == PH!flowHealthReasonFor(PH!ProbeGateway(obs.alerts, p.name, "metric"),
                                         PH!ProbeAgent(obs.alerts, p.name, "metric"))
  <2>2. e \in FlowReasons
    BY MetricReason DEF FlowReasons
  <2>3. c = IF obs.config.status = "False" THEN PH!NotGenerated
            ELSE IF "gateway" \notin obs.answers THEN PH!GatewayProbingFailed
            ELSE IF "agent" \notin obs.answers THEN PH!AgentProbingFailed
            ELSE PH!FlowCondition(e)
    BY <2>1, Zenon DEF PH!evaluateMetricFlowHealth
  <2> HIDE DEF e
  <2> QED
    BY <1>1, <2>1, <2>2, <2>3, Zenon DEF FlowOutcome
<1>6. CASE p.mode = "log"
  <2>1. /\ c = PH!evaluateLogFlowHealth(p, obs) /\ p.runtime = p.agent
        /\ Probes(p) = {probe \in {"gateway", "agent"} : IF probe = "gateway" THEN p.otlp ELSE p.agent}
    <3>1. p.mode \notin {"trace", "metric", "fluentbit"}
      BY <1>6
    <3> QED
      BY <1>6, <3>1, Zenon DEF PH!setFlowHealthCondition, IsPipeline, Probes
  <2> DEFINE none == ""
             r == IF ~PH!requiresAgentProbing(p) THEN none
                  ELSE PH!agentFlowHealthReasonFor(PH!ProbeAgent(obs.alerts, p.name, "log"))
             s == IF ~PH!requiresGatewayProbing(p) THEN none
                  ELSE PH!gatewayFlowHealthReasonFor(PH!ProbeGateway(obs.alerts, p.name, "log"))
             e == PH!combineFlowHealthReasons(r, s)
  <2>2. none \notin FlowReasons
    BY Zenon DEF FlowReasons
  <2>3. /\ r \in {none, "AgentAllTelemetryDataDropped", "AgentSomeTelemetryDataDropped", "FlowHealthy"}
        /\ s \in {none, "GatewayAllTelemetryDataDropped", "GatewaySomeTelemetryDataDropped",
                  "GatewayThrottling", "FlowHealthy"}
    BY <1>2, <1>3, Zenon
  <2>4. c = IF obs.config.status = "False" THEN PH!NotGenerated
            ELSE IF p.agent /\ "agent" \notin obs.answers THEN PH!AgentProbingFailed
            ELSE IF p.otlp /\ "gateway" \notin obs.answers THEN PH!GatewayProbingFailed
            ELSE PH!FlowCondition(e)
    BY <2>1, Zenon DEF PH!evaluateLogFlowHealth, PH!requiresAgentProbing, PH!requiresGatewayProbing
  <2> HIDE DEF r, s, none
  <2>5. e \in FlowReasons
    BY <2>2, <2>3, CombinedReason DEF FlowReasons
  <2> HIDE DEF e
  <2>6. /\ "gateway" \in Probes(p) <=> p.otlp
        /\ "agent" \in Probes(p) <=> p.agent
        /\ Probes(p) \subseteq {"gateway", "agent"}
    <3>1. "gateway" # "agent"
      OBVIOUS
    <3> QED
      BY <2>1, <3>1, Zenon
  <2> QED
    BY <1>1, <2>4, <2>5, <2>6, Zenon DEF FlowOutcome
<1>7. CASE p.mode = "fluentbit"
  <2>1. c = PH!evaluateFluentBitFlowHealth(p, obs) /\ Probes(p) = {"agent"}
    BY <1>7, Zenon DEF PH!setFlowHealthCondition, Probes
  <2> DEFINE e == PH!fluentBitFlowHealthReasonFor(PH!ProbeFluentBit(obs.alerts, p.name))
  <2>2. e \in FlowReasons
    BY FluentBitReason, Zenon DEF FlowReasons
  <2>3. \/ obs.config.status = "False" /\ c = PH!NotGenerated
        \/ obs.config.status # "False" /\ "agent" \notin obs.answers /\ c = PH!AgentProbingFailed
        \/ /\ obs.config.status # "False" /\ "agent" \in obs.answers
           /\ \E status \in {"True", "False"} : c = PH!Condition(status, e)
    BY <2>1, Zenon DEF PH!evaluateFluentBitFlowHealth
  <2> HIDE DEF e
  <2>4. \A status : PH!Condition(status, e).status = status /\ PH!Condition(status, e).reason = e
    BY ConditionFields, Zenon
  <2> QED
    BY <2>1, <2>2, <2>3, <2>4, Zenon DEF FlowOutcome
<1> QED
  BY <1>4, <1>5, <1>6, <1>7, Zenon DEF IsPipeline

\* Once the configuration is generated, the condition tells of the flow; it is Unknown
\* exactly if a probe it rests on is not answered, and names such a probe.
LEMMA FlowConditionTells ==
    ASSUME NEW p, IsPipeline(p), p.otlp \in BOOLEAN, p.agent \in BOOLEAN, NEW obs,
           NEW c, c = PH!setFlowHealthCondition(p, obs)
    PROVE  /\ obs.config.status = "False" => c.reason = "ConfigurationNotGenerated"
           /\ obs.config.status # "False" => c.reason # "ConfigurationNotGenerated"
           /\ (c.status = "Unknown") <=>
                  obs.config.status # "False" /\ ~(Probes(p) \subseteq obs.answers)
           /\ c.reason = "GatewayProbingFailed" => "gateway" \in Probes(p) \ obs.answers
           /\ c.reason = "AgentProbingFailed" => "agent" \in Probes(p) \ obs.answers
<1>1. FlowOutcome(p, obs, c)
  BY FlowHasOutcome, Zenon
<1>2. {"ConfigurationNotGenerated", "GatewayProbingFailed", "AgentProbingFailed"} \cap FlowReasons = {}
  BY DEF FlowReasons
<1>3. /\ PH!NotGenerated.reason = "ConfigurationNotGenerated" /\ PH!NotGenerated.status = "False"
      /\ PH!GatewayProbingFailed.reason = "GatewayProbingFailed"
      /\ PH!GatewayProbingFailed.status = "Unknown"
      /\ PH!AgentProbingFailed.reason = "AgentProbingFailed" /\ PH!AgentProbingFailed.status = "Unknown"
  BY ConditionFields, Zenon DEF PH!NotGenerated, PH!GatewayProbingFailed, PH!AgentProbingFailed
<1>4. CASE obs.config.status = "False"
  <2>1. c = PH!NotGenerated
    BY <1>1, <1>4, Zenon DEF FlowOutcome
  <2> QED
    BY <1>3, <1>4, <2>1
<1>5. CASE obs.config.status # "False"
  <2>1. CASE c = PH!GatewayProbingFailed /\ "gateway" \in Probes(p) \ obs.answers
    BY <1>3, <1>5, <2>1
  <2>2. CASE c = PH!AgentProbingFailed /\ "agent" \in Probes(p) \ obs.answers
    BY <1>3, <1>5, <2>2
  <2>3. CASE /\ Probes(p) \subseteq obs.answers
             /\ c.status \in {"True", "False"} /\ c.reason \in FlowReasons
    <3>1. c.status # "Unknown"
      BY <2>3
    <3> QED
      BY <1>2, <1>5, <2>3, <3>1, Zenon
  <2> QED
    BY <1>1, <1>5, <2>1, <2>2, <2>3, Zenon DEF FlowOutcome
<1> QED
  BY <1>4, <1>5

LEMMA ReadinessIsJustified ==
    ASSUME IsPipeline(built.pipeline), built.pipeline.otlp \in BOOLEAN, built.pipeline.agent \in BOOLEAN,
           IsWorkload(built.ds), built.generated \in {"True", "False"}
    PROVE  ReadinessJustified
<1> DEFINE p == built.pipeline
           obs(answers) == [config |-> PH!Condition(built.generated, "any"), answers |-> answers,
                            alerts |-> {}, agent |-> built.ds, gateway |-> built.ds]
<1> SUFFICES ASSUME NEW answers \in SUBSET {"gateway", "agent"}
             PROVE  LET status == PH!updateStatus(p, obs(answers))
                    IN  /\ \A type \in {"AgentHealthy", "GatewayHealthy"} :
                             status[type] # Nil => WorkloadJustified(status[type])
                        /\ built.generated = "False" <=>
                             status.TelemetryFlowHealthy.reason = "ConfigurationNotGenerated"
                        /\ (status.TelemetryFlowHealthy.status = "Unknown") <=>
                               built.generated = "True" /\ ~(Probes(built.pipeline) \subseteq answers)
                        /\ \A probe \in {"gateway", "agent"} :
                             status.TelemetryFlowHealthy.reason =
                                 (IF probe = "gateway" THEN "GatewayProbingFailed" ELSE "AgentProbingFailed") =>
                                 probe \in Probes(built.pipeline) \ answers
  BY Zenon DEF ReadinessJustified
<1> DEFINE o == obs(answers)
           agent == PH!setAgentHealthyCondition(p, o)
           gateway == PH!setGatewayHealthyCondition(p, o)
           flow == PH!setFlowHealthCondition(p, o)
<1>1. o.config.status = built.generated /\ o.answers = answers /\ o.agent = built.ds /\ o.gateway = built.ds
  BY ConditionFields, Zenon
<1>2. /\ PH!updateStatus(p, o)["AgentHealthy"] = agent
      /\ PH!updateStatus(p, o)["GatewayHealthy"] = gateway
      /\ PH!updateStatus(p, o).TelemetryFlowHealthy = flow
  <2> HIDE DEF o, p
  <2> QED
    BY Zenon DEF PH!updateStatus
<1> HIDE DEF o, obs
<1>3. agent # Nil => WorkloadJustified(agent)
  <2>1. CASE p.mode = "trace"
    BY <2>1, Zenon DEF PH!setAgentHealthyCondition
  <2>2. CASE p.mode # "trace" /\ (p.mode = "fluentbit" \/ p.agent)
    <3>1. agent = PH!WorkloadCondition(PH!IsReady(built.ds), "AgentReady", "AgentNotReady")
      BY <1>1, <2>2, Zenon DEF PH!setAgentHealthyCondition, PH!GetAgentHealthyCondition
    <3> QED
      BY <3>1, WorkloadConditionIsJustified, ZenonT(30)
  <2>3. CASE p.mode # "trace" /\ p.mode # "fluentbit" /\ ~p.agent
    <3>1. agent.reason = "AgentNotRequired"
      BY <2>3, ConditionFields, ZenonT(30) DEF PH!setAgentHealthyCondition, PH!NotRequired
    <3> QED
      BY <2>3, <3>1, NotRequiredReason, Zenon
  <2> QED
    BY <2>1, <2>2, <2>3, Zenon
<1>4. gateway # Nil => WorkloadJustified(gateway)
  <2>1. CASE p.mode = "fluentbit" \/ (p.mode = "log" /\ ~p.otlp)
    BY <2>1, Zenon DEF PH!setGatewayHealthyCondition
  <2>2. CASE ~(p.mode = "fluentbit" \/ (p.mode = "log" /\ ~p.otlp)) /\ built.generated = "False"
    <3>1. gateway = PH!Condition("False", "GatewayConfigurationNotGenerated")
      BY <1>1, <2>2, Zenon DEF PH!setGatewayHealthyCondition, PH!GetGatewayHealthyCondition
    <3> HIDE DEF gateway
    <3>2. gateway.status = "False" /\ gateway.reason = "GatewayConfigurationNotGenerated"
      BY <3>1, ConditionFields, Zenon
    <3> QED
      BY <2>2, <3>2, NotGeneratedReason, Zenon
  <2>3. CASE ~(p.mode = "fluentbit" \/ (p.mode = "log" /\ ~p.otlp)) /\ built.generated # "False"
    <3>1. gateway = PH!WorkloadCondition(PH!IsReady(built.ds), "GatewayReady", "GatewayNotReady")
      BY <1>1, <2>3, Zenon DEF PH!setGatewayHealthyCondition, PH!GetGatewayHealthyCondition
    <3> QED
      BY <3>1, WorkloadConditionIsJustified, ZenonT(30)
  <2> QED
    BY <2>1, <2>2, <2>3, Zenon
<1> HIDE DEF agent, gateway, flow
<1>5. /\ built.generated = "False" => flow.reason = "ConfigurationNotGenerated"
      /\ built.generated # "False" => flow.reason # "ConfigurationNotGenerated"
      /\ (flow.status = "Unknown") <=> built.generated # "False" /\ ~(Probes(p) \subseteq answers)
      /\ flow.reason = "GatewayProbingFailed" => "gateway" \in Probes(p) \ answers
      /\ flow.reason = "AgentProbingFailed" => "agent" \in Probes(p) \ answers
  BY <1>1, FlowConditionTells DEF flow
<1>6. built.generated # "False" <=> built.generated = "True"
  OBVIOUS
<1>7. \A probe \in {"gateway", "agent"} :
        flow.reason = (IF probe = "gateway" THEN "GatewayProbingFailed" ELSE "AgentProbingFailed") =>
            probe \in Probes(p) \ answers
  BY <1>5, Zenon
<1> QED
  BY <1>2, <1>3, <1>4, <1>5, <1>6, <1>7, ZenonT(30) DEF o

\* Whatever a pipeline specifies and whatever is read of Secrets, of the lock and of the
\* workload, the conditions of its status are true (the status.go of the four reconcilers
\* with their validators, and workloadstatus.IsReady): ConfigurationGenerated agrees with
\* isReconcilable and names a check that fails, Ready is said only of a rolled out workload,
\* and NotReady only if a Pod is broken, none exists or they cannot be read; the health of
\* the flow is Unknown exactly if a probe it rests on fails.
THEOREM ConditionAlwaysJustified ==
    ASSUME built.kind = "otelspec" => built.lockView \in PH!LockViews,
           built.kind = "readiness" =>
               /\ IsPipeline(built.pipeline)
               /\ built.pipeline.otlp \in BOOLEAN /\ built.pipeline.agent \in BOOLEAN
               /\ IsWorkload(built.ds)
               /\ built.generated \in {"True", "False"}
    PROVE  ConditionIsJustified
<1>1. ASSUME built.kind = "otelspec" PROVE OTelJustified
  BY <1>1, OTelIsJustified, Zenon
<1>2. ASSUME built.kind = "fluentbitspec" PROVE FluentBitJustified
  BY <1>2, FluentBitIsJustified, Zenon
<1>3. ASSUME built.kind = "readiness" PROVE ReadinessJustified
  BY <1>3, ReadinessIsJustified, Zenon
<1> QED
  BY <1>1, <1>2, <1>3, Zenon DEF ConditionIsJustified

=============================================================================
