------------------------- MODULE PipelineValidation -------------------------
(* What the pipeline validators decide: validate of the three pipeline kinds,   *)
(* the TLS certificate validator it calls, isReconcilable, which turns the      *)
(* result into "render this pipeline or not", and                               *)
(* evaluateConfigGeneratedCondition, which turns it into the status condition   *)
(* the user sees.  Pure operators: what they read from the cluster is passed    *)
(* in.                                                                          *)
EXTENDS Integers, Sequences, FiniteSetsExt

(* A specification, reduced to what the checks look at:                         *)
(*   otlp       the output is OTLP (otherwise Fluent Bit takes the pipeline)    *)
(*   secret     values are taken from a Secret                                  *)
(*   endpoint   the endpoint value is well formed for its protocol              *)
(*   tls        the certificate, key and CA configured for the output           *)
(*   transform, filter, metrics   the OTTL statements and the additional        *)
(*              runtime metrics are well formed                                 *)
CertStates == {"none", "unresolved", "unparsable", "expired", "expiring", "valid"}
KeyStates  == {"none", "unresolved", "unparsable", "mismatch", "match"}
CAStates   == {"none", "unresolved", "unparsable", "notCA", "expired", "expiring", "valid"}

TLSParams == [cert : CertStates, key : KeyStates, ca : CAStates]

\* How the referenced Secrets and the lock ConfigMap look to the validator.
SecretViews == {"ok", "missing", "apiFailure"}
LockViews   == {"absent", "holder", "other"}

-----------------------------------------------------------------------------
\* Each check returns an error or "nil"; the first error of a list is returned.
FirstError(checks) ==
    LET failed == {i \in DOMAIN checks : checks[i] # "nil"}
    IN IF failed = {} THEN "nil" ELSE checks[Min(failed)]

Check(failed, error) == IF failed THEN error ELSE "nil"

SecretRefValidator(spec, secretView) ==
    FirstError(<<Check(spec.secret /\ secretView = "missing", "SecretRefNotFound"),
                 Check(spec.secret /\ secretView = "apiFailure", "APIRequestFailed")>>)

EndpointValidator(spec) == Check(spec.otlp /\ ~spec.endpoint, "EndpointInvalid")

\* A certificate in its last two weeks is reported as about to expire.
Expiry(state) ==
    FirstError(<<Check(state = "expired", "CertExpired"),
                 Check(state = "expiring", "CertAboutToExpire")>>)

TLSCertValidator(tls) ==
    FirstError(<<
        Check((tls.cert = "none") # (tls.key = "none"), "TLSInvalid"),
        Check("unresolved" \in {tls.cert, tls.key, tls.ca}, "TLSInvalid"),
        Check("unparsable" \in {tls.cert, tls.key, tls.ca}, "TLSInvalid"),
        Check(tls.key = "mismatch", "TLSInvalid"),
        Expiry(tls.cert),
        Check(tls.ca = "notCA", "TLSInvalid"),
        Expiry(tls.ca)>>)

tlsValidationRequired(spec) ==
    spec.otlp /\ {spec.tls.cert, spec.tls.key, spec.tls.ca} # {"none"}

IsLockHolder(lockView) ==
    FirstError(<<Check(lockView = "absent", "APIRequestFailed"),
                 Check(lockView = "other", "MaxPipelinesExceeded")>>)

validate(spec, secretView, lockView) ==
    FirstError(<<
        SecretRefValidator(spec, secretView),
        EndpointValidator(spec),
        IF tlsValidationRequired(spec) THEN TLSCertValidator(spec.tls) ELSE "nil",
        IsLockHolder(lockView),
        Check(~spec.transform, "InvalidOTTLSpec"),
        Check(~spec.filter, "InvalidOTTLSpec"),
        Check(~spec.metrics, "InvalidAdditionalMetric")>>)

-----------------------------------------------------------------------------
\* A certificate that is about to expire does not stop the pipeline.
isReconcilable(deleting, error) == ~deleting /\ error \in {"nil", "CertAboutToExpire"}

\* The only validation error that is returned to the controller for a retry.
IsRetried(error) == error = "APIRequestFailed"

Condition(status, reason) == [status |-> status, reason |-> reason]

\* Mutation: a certificate that is about to expire is reported as a failure.
TLSConditionFailsEarly(error) ==
    CASE error = "CertExpired"       -> Condition("False", "TLSCertificateExpired")
      [] error = "CertAboutToExpire" -> Condition("False", "TLSCertificateAboutToExpire")
      [] OTHER                       -> Condition("False", "TLSConfigurationInvalid")

EvaluateTLSCertCondition(error) ==
    CASE error = "CertExpired"       -> Condition("False", "TLSCertificateExpired")
      [] error = "CertAboutToExpire" -> Condition("True", "TLSCertificateAboutToExpire")
      [] OTHER                       -> Condition("False", "TLSConfigurationInvalid")

evaluateConfigGeneratedCondition(error) ==
    CASE error = "nil"                  -> Condition("True", "GatewayConfigured")
      [] error = "MaxPipelinesExceeded" -> Condition("False", "MaxPipelinesExceeded")
      [] error = "SecretRefNotFound"    -> Condition("False", "ReferencedSecretMissing")
      [] error = "EndpointInvalid"      -> Condition("False", "EndpointInvalid")
      [] error = "InvalidOTTLSpec"      -> Condition("False", "OTTLSpecInvalid")
      [] error = "InvalidAdditionalMetric" ->
             Condition("False", "RuntimeAdditionalMetricInvalid")
      [] error = "APIRequestFailed"     -> Condition("False", "ValidationFailed")
      [] OTHER                          -> EvaluateTLSCertCondition(error)
=============================================================================
