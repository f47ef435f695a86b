------------------------- MODULE MCSalaryCommitment -------------------------
(***************************************************************************)
(* The instance checked by TLC.  Employees, values and reference           *)
(* identifiers are only compared for equality, so they are symmetric.      *)
(***************************************************************************)
EXTENDS SalaryCommitment, TLC

Symmetry == Permutations(Employee) \cup Permutations(Value) \cup Permutations(RefId)
=============================================================================
