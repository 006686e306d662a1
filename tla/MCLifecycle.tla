----------------------------- MODULE MCLifecycle -----------------------------
(* Budgets for Lifecycle: set, unset and negative; grace periods that are   *)
(* just enough and just too short.                                         *)
EXTENDS Lifecycle

SomeConfigs == [drain : {-1, 0, 1, 3}, shutdown : {0, 1}, flush : {-1, 2}, spare : {0, 1}]
=============================================================================
