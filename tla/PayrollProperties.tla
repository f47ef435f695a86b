------------------------- MODULE PayrollProperties -------------------------
(***************************************************************************)
(* What the payroll contract guarantees, and what its documents say of it. *)
(***************************************************************************)
EXTENDS Payroll

Pending == {r \in RunId : pendingRun[r] # None}

Executed == {r \in RunId : payrollRun[r] # None}

Cancelled == {r \in RunId : cancelledBatch[r] # None}

ReservedTotal == SumFunctionOnSet([r \in Pending |-> pendingRun[r].total], Pending)

PaidTotal == SumFunctionOnSet(paid, Employee)

----------------------------------------------------------------------------
RunTypeOK ==
    /\ runCounter \in 0..MaxRuns
    /\ runNonce \in [Nonce -> RunId \cup {None}]
    /\ nonceSequence \in [Address -> Nonce \cup {None}]
    /\ preparer \in [RunId -> Address \cup {None}]
    /\ pendingRun \in [RunId -> PendingPayrollRun \cup {None}]
    /\ payrollRun \in [RunId -> PayrollRunRecord \cup {None}]
    /\ cancelledBatch \in [RunId -> CancelledBatchStatus \cup {None}]
    /\ payrollState \in [RunId -> RunState \cup {None}]
    /\ pendingRunCount \in Nat
    /\ draftCommitment \subseteq DraftHash

FundTypeOK ==
    /\ lockedFunds \in Int
    /\ lockCalls \in 0..MaxLockCalls
    /\ directLock \in Int
    /\ treasury \in Nat
    /\ paid \in [Employee -> Nat]
    /\ withdrawn \in Nat
    /\ companyBalance \in Nat
    /\ depositNonce \subseteq DepositId
    /\ emergencyRequest \in WithdrawalInput \cup {None}

RoleTypeOK ==
    /\ admin \in Address
    /\ treasuryOwner \in Address
    /\ adminRotation \in Proposal \cup {None}
    /\ treasuryRotation \in Proposal \cup {None}
    /\ adminHandover \in Proposal \cup {None}

ConfigTypeOK ==
    /\ companyState \in CompanyState \cup {None}
    /\ allowedAsset \subseteq Asset
    /\ supportedAssets \in {None} \cup (SUBSET Asset)
    /\ pauseManager \in PauseManager \cup {None}

ReviewTypeOK ==
    /\ authorizedReviewer \subseteq Reviewer
    /\ runReview \in [RunId -> Review \cup {None}]
    /\ challengedRun \subseteq RunId
    /\ archivedRun \subseteq RunId
    /\ archiveMarker \subseteq RunId

EnvTypeOK ==
    /\ now \in 0..MaxTime
    /\ pausedManagers \subseteq PauseManager
    /\ committed \subseteq Employee
    /\ commitmentLocked \subseteq Employee
    /\ nullifiers \subseteq Nat

\* Every storage entry of the contract has the type its DataKey declares; in
\* particular the treasury's balance is never negative, although a withdrawal
\* is checked against a difference that direct calls can drive up.
TypeOK == RunTypeOK /\ FundTypeOK /\ RoleTypeOK /\ ConfigTypeOK /\ ReviewTypeOK /\ EnvTypeOK

----------------------------------------------------------------------------
(***************************************************************************)
(* Runs.                                                                   *)
(***************************************************************************)
\* A run identifier that derive_run_id has handed out is pending, executed or
\* cancelled, and only one of these: finalize_payroll_run and
\* cancel_payroll_run cannot both resolve a run, in whatever order they come.
\* An identifier not handed out yet has no record of any kind.
RunPartition ==
    \A r \in RunId :
        /\ r <= runCounter <=> payrollState[r] # None
        /\ r <= runCounter <=> r \in Pending \cup Executed \cup Cancelled
        /\ r \notin Pending \cap Executed
        /\ r \notin Pending \cap Cancelled
        /\ r \notin Executed \cap Cancelled

\* The counter behind the configuration lock is the number of pending runs,
\* so the lock opens exactly when the last of them is resolved.
PendingCountExact == pendingRunCount = Cardinality(Pending)

\* Apart from direct calls of add_locked_funds and subtract_locked_funds, the
\* funds the contract counts as locked are the sum of the totals of the
\* pending runs: no reservation is leaked or released twice.
ReservationsBalance == lockedFunds - directLock = ReservedTotal

\* A consumed nonce names one run for ever, two nonces never name the same
\* run, and the record of a run carries the nonce that names it, whichever of
\* prepare_payroll_run and batch_process_payroll consumed it.
NonceOnce ==
    /\ \A m, n \in Nonce : runNonce[m] # None /\ runNonce[m] = runNonce[n] => m = n
    /\ \A n \in Nonce : runNonce[n] # None => runNonce[n] <= runCounter
    /\ \A r \in Pending : runNonce[pendingRun[r].nonce] = r
    /\ \A r \in Executed : runNonce[payrollRun[r].nonce] = r

\* The runs one admin starts have increasing nonces in the order of their
\* identifiers (validate_nonce_monotonicity), also when another admin starts
\* runs in between.
NonceOrder ==
    \A m, n \in Nonce :
        /\ runNonce[m] # None
        /\ runNonce[n] # None
        /\ runNonce[m] < runNonce[n]
        /\ preparer[runNonce[m]] = preparer[runNonce[n]]
        => NonceValue(m) < NonceValue(n)

\* What a run was prepared for is what is recorded of it: the total, the
\* nonce and the draft of a run are the same in every later record of it, and
\* an executed or a cancelled run never becomes anything else.
TermsKept ==
    \A r \in RunId :
        /\ r \in Pending =>
             \/ pendingRun'[r] = pendingRun[r]
             \/ /\ payrollRun'[r] # None
                /\ payrollRun'[r].total = pendingRun[r].total
                /\ payrollRun'[r].nonce = pendingRun[r].nonce
                /\ payrollRun'[r].draft = pendingRun[r].draft
             \/ /\ cancelledBatch'[r] # None
                /\ cancelledBatch'[r].total = pendingRun[r].total
                /\ cancelledBatch'[r].draft = pendingRun[r].draft
        /\ r \in Executed =>
             /\ payrollRun'[r] # None
             /\ payrollRun'[r].admin = payrollRun[r].admin
             /\ payrollRun'[r].total = payrollRun[r].total
             /\ payrollRun'[r].nonce = payrollRun[r].nonce
             /\ payrollRun'[r].draft = payrollRun[r].draft
        /\ r \in Cancelled => cancelledBatch'[r] = cancelledBatch[r]

RunTermsKept == [][TermsKept]_vars

\* Settlement is final: once an executed run is Completed, neither
\* update_reconciliation_status nor the conformance hook changes its state or
\* its reconciliation status (issue #244).
SettledStays ==
    \A r \in Executed :
        payrollState[r] = "Completed" =>
            /\ payrollState'[r] = "Completed"
            /\ payrollRun'[r].recon = payrollRun[r].recon

SettlementFinal == [][SettledStays]_vars

\* A run whose books are reconciled is Completed, and a cancelled run reads
\* Cancelled, whatever the conformance hook and the reconciliation calls did
\* before and after.
StateAgreesWithRecords ==
    \A r \in RunId :
        /\ r \in Executed => (payrollRun[r].recon = "Reconciled" => payrollState[r] = "Completed")
        /\ r \in Cancelled => payrollState[r] = "Cancelled"

\* While a run is pending, the treasury owner, the payout allowlist and the
\* company state stay as they are (require_no_active_payroll_run).
ConfigStable ==
    Pending # {} => UNCHANGED <<treasuryOwner, allowedAsset, supportedAssets, companyState>>

ConfigLocked == [][ConfigStable]_vars

\* cancel_payroll_run can resolve any pending run at any time, paused or not,
\* whoever is admin by now: the lock can always be cleared.
EscapeHatch == \A r \in Pending : ENABLED CancelPayrollRun(r)

----------------------------------------------------------------------------
(***************************************************************************)
(* Funds and configuration.                                                *)
(***************************************************************************)
\* A withdrawal never touches reserved funds, although runs may be prepared
\* between its request and its approval.
WithdrawalLeavesReserved ==
    withdrawn' # withdrawn => treasury' >= ReservedTotal + directLock

WithdrawalKeepsReservations == [][WithdrawalLeavesReserved]_vars

\* Tokens are neither made nor lost: what the treasury held and was given is
\* what it holds, what employees were paid and what was withdrawn.
TokensConserved == treasury + PaidTotal + withdrawn = InitialBalance + companyBalance

\* The list get_supported_assets returns is the set of assets
\* is_asset_allowed accepts, though the two are stored apart and the list
\* does not exist until the first set_asset_allowed.
SupportedAssetsAgree == SupportedAssetList(supportedAssets, allowedAsset) = allowedAsset

----------------------------------------------------------------------------
(***************************************************************************)
(* The abstract ledger of runs the contract implements.                    *)
(***************************************************************************)
LedgerStatus ==
    [r \in RunId |-> CASE pendingRun[r] # None -> "reserved"
                       [] payrollRun[r] # None -> "settled"
                       [] cancelledBatch[r] # None -> "released"
                       [] OTHER -> "free"]

LedgerAmount ==
    [r \in RunId |-> CASE pendingRun[r] # None -> pendingRun[r].total
                       [] payrollRun[r] # None -> payrollRun[r].total
                       [] cancelledBatch[r] # None -> cancelledBatch[r].total
                       [] OTHER -> 0]

Ledger == INSTANCE RunLedger
          WITH LastRun <- MaxRuns, Amount <- Total, status <- LedgerStatus,
               amount <- LedgerAmount, reserved <- lockedFunds - directLock

\* The contract implements the ledger: whatever mixture of entry points is
\* called, its runs are started in order, are resolved at most once and keep
\* their amounts, and its reservations move only with them.
ImplementsLedger == Ledger!Spec

----------------------------------------------------------------------------
(***************************************************************************)
(* Statements of the repository's documents and comments that the code     *)
(* does not keep.  Each is the property of a run that shows how.           *)
(***************************************************************************)
\* "While any run is pending, changing the acting admin [...] could silently
\* invalidate assumptions [...] This gate rejects those specific changes"
\* (require_no_active_payroll_run).  accept_admin_handover does not pass the gate.
AdminFixedWhilePending == [][Pending # {} => admin' = admin]_vars

\* "Genuine New Execution with New Nonce (Allowed) [...] Execution proceeds
\* normally" (docs/payroll-idempotency-and-replay-protection.md): a batch with
\* a new, larger nonce can be executed whenever the company is active, nothing
\* is paused, the treasury covers it and the payee's commitment is stored and
\* unlocked.  The nullifiers of a batch depend on positions alone, so the
\* second batch of a deployment meets the nullifiers of the first.
NewNonceExecutes ==
    \A e \in committed \ commitmentLocked, n \in Nonce, total \in Total :
        /\ runCounter < MaxRuns
        /\ NotPaused
        /\ CompanyActive
        /\ TokenAllowed
        /\ NonceFresh(n)
        /\ NonceMonotone(n)
        /\ total <= treasury
        => ENABLED BatchProcessPayroll([x \in {e} |-> total], total, n, None)
=============================================================================
