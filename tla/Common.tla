------------------------------- MODULE Common -------------------------------
(***************************************************************************)
(* Constants that the modules of operators share.                          *)
(***************************************************************************)

CONSTANTS
    Nil,                \* a nil pointer, or no configuration
    SystemNamespaces    \* the namespaces that are left out by default

=============================================================================
