-------------------------- MODULE MCProofVerifier --------------------------
(***************************************************************************)
(* The instance checked by TLC.  Identifiers and proofs are only compared  *)
(* for equality, so they are symmetric.                                    *)
(***************************************************************************)
EXTENDS ProofVerifier, TLC

Symmetry == Permutations(RefId) \cup Permutations(Proof)
=============================================================================
