-------------------------- MODULE MCPayrollRecords --------------------------
(***************************************************************************)
(* The instance checked by TLC.  Periods, batch keys and digests are only  *)
(* compared for equality, so they are symmetric.                           *)
(***************************************************************************)
EXTENDS PayrollRecords, TLC

Symmetry == Permutations(Period) \cup Permutations(BatchKey) \cup Permutations(Digest)

\* The families of records share the pause manager, the admin and the clock,
\* and no operation of one reads another: each is explored by itself.
OneFamily ==
    Cardinality({f \in {<<"drafts", runDraftCounter > 0>>,
                        <<"checkpoints", \E k \in BatchKey : batchCheckpoint[k] # None>>,
                        <<"holds", HoldId # {}>>,
                        <<"reservations", \E a \in Asset : reservationExpiry[a] # None>>,
                        <<"approvals", consumedQuorum # {}>>,
                        <<"evidence", DOMAIN evidencePointer # {}>>,
                        <<"splits", DOMAIN batchSplit # {}>>} : f[2]}) <= 1
=============================================================================
