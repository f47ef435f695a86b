--------------------------- MODULE MCAuditModule ---------------------------
(***************************************************************************)
(* The instance checked by TLC.  Auditors are only compared for equality,  *)
(* so they are symmetric.                                                  *)
(***************************************************************************)
EXTENDS AuditModule, TLC

\* Delegation is allowed, for the whole company, up to ledger 1.
OpenPolicy == {[allow |-> TRUE, maxScope |-> "FullCompany", maxExpiration |-> 1]}

Symmetry == Permutations(GrantInput)
=============================================================================
