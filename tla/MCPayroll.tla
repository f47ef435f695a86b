----------------------------- MODULE MCPayroll -----------------------------
(***************************************************************************)
(* Instances of the payroll contract for TLC.  A configuration empties the *)
(* input sets of the operations it is not about, which disables them.      *)
(***************************************************************************)
EXTENDS PayrollProperties, TLC

\* Reviews, challenges, archiving and the passing of time are explored for the
\* first run, before a second one is started: they are stored per run, and no
\* entry point reads those of another run.
ReviewsOfFirstRun ==
    runCounter > 1 =>
        /\ now = 0
        /\ authorizedReviewer = {}
        /\ runReview = [r \in RunId |-> None]
        /\ challengedRun = {}
        /\ archivedRun = {}
        /\ archiveMarker = {}

\* Employees are told apart by their payments alone, deposits not at all.
PaymentSymmetry == Permutations(Employee) \cup Permutations(DepositId)
=============================================================================
