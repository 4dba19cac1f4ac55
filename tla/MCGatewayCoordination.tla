----------------------- MODULE MCGatewayCoordination -----------------------
(* Instances of GatewayCoordination for TLC.                                    *)
EXTENDS GatewayCoordination

\* Two pipelines of different kinds, which share the coordination ConfigMap, or of the
\* same kind, which compete for a slot.
TwoKinds == [p \in Names |-> IF p = "logs" THEN "LogPipeline" ELSE "TracePipeline"]

NoTLS == [cert |-> "none", key |-> "none", ca |-> "none"]

\* A valid specification, one that takes its values from the Secret, and an invalid one.
Plain == [otlp |-> TRUE, secret |-> FALSE, endpoint |-> TRUE, tls |-> NoTLS,
          transform |-> TRUE, filter |-> TRUE, metrics |-> TRUE]
WithSecret == [Plain EXCEPT !.secret = TRUE]
Invalid == [Plain EXCEPT !.transform = FALSE]

SecretAndInvalid == {WithSecret, Invalid}
SecretOnly == {WithSecret}
PlainAndInvalid == {Plain, Invalid}
=============================================================================
