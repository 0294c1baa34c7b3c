--------------------------- MODULE MCPolicyLifecycle ---------------------------
(***************************************************************************)
(* Instances of PolicyLifecycle for TLC.  Transactions and goroutines are  *)
(* interchangeable, so states equal up to renaming them are one state in   *)
(* the runs that check invariants and action properties.                   *)
(***************************************************************************)
EXTENDS PolicyLifecycle, TLC

Symmetry == Permutations(Txn) \cup Permutations(Goroutine)
=================================================================================
