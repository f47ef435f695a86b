------------------------- MODULE MCPaymentExecutor -------------------------
(***************************************************************************)
(* The instance of the executor, the registry and the verifier checked by  *)
(* TLC.  Employees and nullifiers are interchangeable.  A key with two     *)
(* points is one the executor's proofs do not fit.                         *)
(***************************************************************************)
EXTENDS PaymentExecutor, TLC

\* With ten decimals the least amount is 10.
CheckedAmount == {-1, 0, 5, 10}

PayeeSymmetry == Permutations(Employee) \cup Permutations(Nullifier)
=============================================================================
