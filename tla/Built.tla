-------------------------------- MODULE Built -------------------------------
(***************************************************************************)
(* The one variable of the runs in which the manager's operators are       *)
(* called: a record with the kind of the input and the input.              *)
(***************************************************************************)
EXTENDS Common

VARIABLE built

=============================================================================
