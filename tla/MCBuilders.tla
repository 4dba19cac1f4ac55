----------------------------- MODULE MCBuilders -----------------------------
(***************************************************************************)
(* Everything the manager computes, called once with every input of a      *)
(* bounded family.                                                         *)
(***************************************************************************)
EXTENDS MCFluentBit, MCStatus, MCVersions

Init == built = [kind |-> "none"]

Next ==
    \/ BuildMetricAgentConfig \/ BuildGatewayConfig \/ BuildLogAgentConfig
    \/ BuildResources \/ BuildTraffic
    \/ BuildFlow \/ BuildValidation \/ BuildReadiness
    \/ BuildFluentBitConfig
    \/ BuildVersions \/ BuildHistory

Spec == Init /\ [][Next]_built

=============================================================================
