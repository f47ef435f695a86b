------------------------------ MODULE Payroll ------------------------------
(***************************************************************************)
(* The payroll contract (contracts/payroll/src/lib.rs): payroll runs from  *)
(* preparation to settlement, the funds they reserve, the nonces that name *)
(* them, the roles and the configuration that gate them.                   *)
(*                                                                         *)
(* A Soroban invocation is atomic: a panic anywhere in it, or in a         *)
(* contract it calls, undoes all of its effects.  An entry point is        *)
(* therefore one action whose guard is the conjunction of the checks it    *)
(* makes.  A call by anybody but the address an entry point authorises     *)
(* fails, so the caller is not a parameter.                                *)
(***************************************************************************)
EXTENDS Integers, FiniteSets, Functions

CONSTANTS
    Address,        \* accounts that can hold the admin or treasury-owner role
    FirstAdmin, FirstOwner,
    AdminSuccessor, OwnerSuccessor,  \* accounts a rotation or a handover may name
    Reviewer,       \* accounts the admin may authorise as reviewers
    Employee,       \* payees of a direct batch
    PauseManager,   \* deployed pause managers the admin may install
    Asset, Token,   \* token contracts; Token is the payout token
    AssetInput,     \* assets the admin may (dis)allow
    NonceHigh, NonceLow,  \* the two 16-byte halves of a nonce, as numbers
    DraftHash,      \* non-zero digests committed as drafts or metadata
    DepositId,      \* non-zero deposit identifiers
    Total,          \* payments, batch totals and deposits
    WithdrawalInput,\* amounts of emergency withdrawals
    AuditInput,     \* run identifiers passed to reviews, challenges and archiving
    LockInput,      \* amounts passed to the two reservation entry points
    HookState,      \* states passed to transition_payroll_run_state
    ReconciliationInput,  \* statuses passed to update_reconciliation_status
    CompanyInput,   \* states passed to set_company_state
    InitialBalance, \* the treasury's tokens when the contract is initialised
    ApprovalExpiry, \* DEFAULT_APPROVAL_EXPIRY_SECONDS, in ticks
    MaxBatch,       \* MAX_BATCH
    MaxRuns, MaxTime, MaxLockCalls,  \* bounds of the checked instance
    None            \* an absent storage entry

Nonce == NonceHigh \X NonceLow

RunId == 1..MaxRuns

RunState == {"Draft", "Validating", "ProofPending", "ReadyToSubmit",
             "Submitted", "Confirming", "Completed", "Failed", "Cancelled",
             "ReconciliationRequired"}

ReconciliationStatus == {"Unreconciled", "Reconciled", "Failed"}

CompanyState == {"Active", "Paused", "Archived", "Incomplete"}

ReviewDecision == {"Approved", "Rejected", "ChangesRequested"}

PendingPayrollRun ==
    [admin : Address, total : Total, nonce : Nonce, draft : DraftHash \cup {None}]

PayrollRunRecord ==
    [admin : Address, total : Total, nonce : Nonce, draft : DraftHash \cup {None},
     recon : ReconciliationStatus, metadata : DraftHash \cup {None}]

CancelledBatchStatus ==
    [by : Address, total : Total, draft : DraftHash \cup {None}]

Proposal == [holder : Address, by : Address]

Review == [reviewer : Reviewer, decision : ReviewDecision, at : 0..MaxTime]

(***************************************************************************)
(* The assumptions say that the constants have the types of the contract's *)
(* arguments and that None is no stored value.                             *)
(***************************************************************************)
ASSUME AddressAssumption ==
    /\ FirstAdmin \in Address
    /\ FirstOwner \in Address
    /\ AdminSuccessor \subseteq Address
    /\ OwnerSuccessor \subseteq Address
    /\ IsFiniteSet(Employee)

ASSUME NumberAssumption ==
    /\ Total \subseteq Nat \ {0}
    /\ WithdrawalInput \subseteq Nat \ {0}
    /\ LockInput \subseteq Int
    /\ NonceHigh \subseteq Nat
    /\ NonceLow \subseteq Nat
    /\ InitialBalance \in Nat
    /\ ApprovalExpiry \in Nat
    /\ MaxBatch \in Nat
    /\ MaxRuns \in Nat
    /\ MaxTime \in Nat
    /\ MaxLockCalls \in Nat

ASSUME InputAssumption ==
    /\ HookState \subseteq RunState
    /\ ReconciliationInput \subseteq ReconciliationStatus
    /\ CompanyInput \subseteq CompanyState
    /\ Token \in Asset
    /\ AssetInput \subseteq Asset
    /\ AuditInput \subseteq RunId

ASSUME NoneAssumption ==
    /\ None \notin PendingPayrollRun
    /\ None \notin PayrollRunRecord
    /\ None \notin CancelledBatchStatus
    /\ None \notin Proposal
    /\ None \notin Review
    /\ None \notin Nonce
    /\ None \notin DraftHash
    /\ None \notin RunState
    /\ None \notin PauseManager
    /\ \A assets \in SUBSET Asset : None # assets
    /\ None \notin Int

VARIABLES
    \* runs
    runCounter, runNonce, nonceSequence, pendingRun, payrollRun,
    cancelledBatch, payrollState, pendingRunCount,
    \* reservations; lockCalls and directLock record the direct calls of
    \* add_locked_funds and subtract_locked_funds
    lockedFunds, lockCalls, directLock,
    \* draft and metadata hashes
    draftCommitment,
    \* tokens: the treasury's, the employees', the withdrawal recipients', and
    \* the contract's own record of deposits
    treasury, paid, withdrawn, companyBalance, depositNonce, emergencyRequest,
    \* roles
    admin, treasuryOwner, adminRotation, treasuryRotation, adminHandover,
    \* configuration
    companyState, allowedAsset, supportedAssets, pauseManager,
    \* reviews, audit challenges and archive flags
    authorizedReviewer, runReview, challengedRun, archivedRun, archiveMarker,
    \* what the contract reads of its environment: the ledger clock, the pause
    \* managers that are paused, and the salary-commitment contract
    now, pausedManagers, committed, commitmentLocked, nullifiers,
    \* history: who allocated a run
    preparer

nonceVars == <<runCounter, runNonce, nonceSequence, preparer>>
recordVars == <<pendingRun, payrollRun, cancelledBatch, payrollState, pendingRunCount>>
runVars == <<nonceVars, recordVars>>
lockVars == <<lockedFunds, lockCalls, directLock>>
tokenVars == <<treasury, paid, withdrawn, companyBalance, depositNonce>>
fundVars == <<lockVars, tokenVars, emergencyRequest>>
proposalVars == <<adminRotation, treasuryRotation, adminHandover>>
roleVars == <<admin, treasuryOwner, proposalVars>>
configVars == <<companyState, allowedAsset, supportedAssets, pauseManager>>
reviewVars == <<authorizedReviewer, runReview, challengedRun, archivedRun, archiveMarker>>
commitmentVars == <<committed, commitmentLocked, nullifiers>>
envVars == <<now, pausedManagers>>

vars == <<runVars, fundVars, draftCommitment, roleVars, configVars, reviewVars,
          commitmentVars, envVars>>

----------------------------------------------------------------------------
(***************************************************************************)
(* Guards shared by the entry points.                                      *)
(***************************************************************************)
NotPaused == pauseManager \notin pausedManagers

CompanyActive == companyState \in {None, "Active"}

\* Mutant: off by one.
NoActivePayrollRun_OffByOne == pendingRunCount <= 1

NoActivePayrollRun == pendingRunCount = 0

TokenAllowed == Token \in allowedAsset

AvailableTreasuryBalance == treasury - lockedFunds

\* nonce_to_u256 reads the first sixteen of the thirty-two bytes.
NonceValue(n) == n[1]

\* Mutant: only the admin's last nonce is remembered.
NonceFresh_LastOnly(n) == nonceSequence[admin] # n

NonceFresh(n) == runNonce[n] = None

\* Mutant: an equal value passes.
NonceMonotone_OrEqual(n) ==
    nonceSequence[admin] # None => NonceValue(n) >= NonceValue(nonceSequence[admin])

NonceMonotone(n) ==
    nonceSequence[admin] # None => NonceValue(n) > NonceValue(nonceSequence[admin])

DraftCommitted(d) == d # None => d \in draftCommitment

\* Mutant: a cancelled run may be validated again.
AllowedTransitions_Reopen ==
    ({"Draft", "Failed", "Cancelled"} \X {"Validating"})
    \cup ({"Submitted", "Failed"} \X {"Cancelled"})

AllowedTransitions ==
    ({"Draft"} \X {"Validating", "Cancelled"})
    \cup ({"Validating"} \X {"ProofPending", "Failed", "Cancelled"})
    \cup ({"ProofPending"} \X {"ReadyToSubmit", "Failed", "Cancelled"})
    \cup ({"ReadyToSubmit"} \X {"Submitted", "Failed", "Cancelled"})
    \cup ({"Submitted"} \X {"Confirming", "Failed", "Cancelled"})
    \cup ({"Confirming"} \X {"Completed", "Failed", "ReconciliationRequired"})
    \cup ({"Failed"} \X {"Validating", "ProofPending", "Cancelled"})
    \cup ({"ReconciliationRequired"} \X {"Completed", "Failed"})

Terminal == {"Completed", "Cancelled"}

HasRunState(r) ==
    payrollState[r] # None \/ payrollRun[r] # None \/ pendingRun[r] # None

PayrollRunState(r) ==
    IF payrollState[r] # None THEN payrollState[r]
    ELSE IF payrollRun[r] # None
         THEN IF payrollRun[r].recon = "Reconciled" THEN "Completed"
                                                    ELSE "ReconciliationRequired"
         ELSE "Submitted"

ApprovalExpired(r) ==
    /\ runReview[r] # None
    /\ runReview[r].decision = "Approved"
    /\ now > runReview[r].at + ApprovalExpiry

----------------------------------------------------------------------------
(***************************************************************************)
(* The effects the entry points are made of.                               *)
(***************************************************************************)
AllocateRun(id, n) ==
    /\ runCounter' = id
    /\ runNonce' = [runNonce EXCEPT ![n] = id]
    /\ nonceSequence' = [nonceSequence EXCEPT ![admin] = n]
    /\ preparer' = [preparer EXCEPT ![id] = admin]

\* Mutant: the reservation replaces the earlier ones.
AddLockedFunds_Overwrite(amount) == lockedFunds' = amount

AddLockedFunds(amount) == lockedFunds' = lockedFunds + amount

\* Mutant: the reservation is not released.
SubtractLockedFunds_Leak(amount) == lockedFunds' = lockedFunds

SubtractLockedFunds(amount) == lockedFunds' = lockedFunds - amount

RecordRunState(r, s) == payrollState' = [payrollState EXCEPT ![r] = s]

\* Mutant: resolving a run leaves the counter.
ResolvedRunCount_Kept == pendingRunCount

ResolvedRunCount == IF pendingRunCount > 0 THEN pendingRunCount - 1 ELSE 0

\* Mutant: the removal of the pending entry is forgotten.
RemovePending_Kept(r) == pendingRun' = pendingRun

RemovePending(r) == pendingRun' = [pendingRun EXCEPT ![r] = None]

\* Mutant: the draft hash is not carried over.
NewRunRecord_NoDraft(total, n, d) ==
    [admin |-> admin, total |-> total, nonce |-> n, draft |-> None,
     recon |-> "Unreconciled", metadata |-> None]

NewRunRecord(total, n, d) ==
    [admin |-> admin, total |-> total, nonce |-> n, draft |-> d,
     recon |-> "Unreconciled", metadata |-> None]

----------------------------------------------------------------------------
(***************************************************************************)
(* Payroll runs.                                                           *)
(***************************************************************************)
\* Reserves a run and its funds.  Neither the pause manager nor the treasury
\* balance is consulted, and a draft commitment is checked but kept.
PreparePayrollRun(total, n, d) ==
    LET id == runCounter + 1 IN
    /\ id \in RunId
    /\ CompanyActive
    /\ NonceFresh(n)
    /\ DraftCommitted(d)
    /\ NonceMonotone(n)
    /\ TokenAllowed
    /\ AllocateRun(id, n)
    /\ pendingRun' = [pendingRun EXCEPT
                        ![id] = [admin |-> admin, total |-> total, nonce |-> n, draft |-> d]]
    /\ RecordRunState(id, "Submitted")
    /\ pendingRunCount' = pendingRunCount + 1
    /\ AddLockedFunds(total)
    /\ UNCHANGED <<payrollRun, cancelledBatch, lockCalls, directLock, tokenVars,
                   emergencyRequest, draftCommitment, roleVars, configVars,
                   reviewVars, commitmentVars, envVars>>

\* Turns a pending run into a permanent record; no token moves.
FinalizePayrollRun(r) ==
    LET run == pendingRun[r] IN
    /\ NotPaused
    /\ run # None
    /\ ~ApprovalExpired(r)
    /\ payrollRun[r] = None
    /\ SubtractLockedFunds(run.total)
    /\ RemovePending(r)
    /\ RecordRunState(r, "ReconciliationRequired")
    /\ pendingRunCount' = ResolvedRunCount
    /\ payrollRun' = [payrollRun EXCEPT ![r] = NewRunRecord(run.total, run.nonce, run.draft)]
    /\ UNCHANGED <<nonceVars, cancelledBatch, lockCalls, directLock, tokenVars,
                   emergencyRequest, draftCommitment, roleVars, configVars,
                   reviewVars, commitmentVars, envVars>>

\* Mutant: cancelling needs the contract unpaused.
CanCancel_NotPaused(r) == payrollRun[r] = None /\ pendingRun[r] # None /\ NotPaused

CanCancel(r) == payrollRun[r] = None /\ pendingRun[r] # None

\* cancel_payroll_run_with_reason and its alias: allowed while paused.
CancelPayrollRun(r) ==
    LET run == pendingRun[r] IN
    /\ CanCancel(r)
    /\ SubtractLockedFunds(run.total)
    /\ cancelledBatch' = [cancelledBatch EXCEPT
                            ![r] = [by |-> admin, total |-> run.total, draft |-> run.draft]]
    /\ RemovePending(r)
    /\ RecordRunState(r, "Cancelled")
    /\ pendingRunCount' = ResolvedRunCount
    /\ UNCHANGED <<nonceVars, payrollRun, lockCalls, directLock, tokenVars,
                   emergencyRequest, draftCommitment, roleVars, configVars,
                   reviewVars, commitmentVars, envVars>>

\* The nullifier of the i-th payment of a batch encodes the index i alone.
BatchNullifiers(payees) == 0..(Cardinality(payees) - 1)

\* The calls a batch makes to the salary-commitment contract for each payee:
\* get_commitment, record_nullifier and lock_commitment_updates.
BatchCommitments(payees) ==
    /\ payees \subseteq committed
    /\ payees \cap commitmentLocked = {}
    /\ BatchNullifiers(payees) \cap nullifiers = {}
    /\ commitmentLocked' = commitmentLocked \cup payees
    /\ nullifiers' = nullifiers \cup BatchNullifiers(payees)
    /\ committed' = committed

BatchTotal(pay) == SumFunctionOnSet(pay, DOMAIN pay)

\* Executes a batch at once.  The treasury balance must cover it; funds
\* reserved by pending runs count as available.
BatchProcessPayroll(pay, total, n, d) ==
    LET id == runCounter + 1
        payees == DOMAIN pay IN
    /\ id \in RunId
    /\ CompanyActive
    /\ n # <<0, 0>>
    /\ payees # {}
    /\ Cardinality(payees) <= MaxBatch
    /\ NonceFresh(n)
    /\ DraftCommitted(d)
    /\ total = BatchTotal(pay)
    /\ NonceMonotone(n)
    /\ TokenAllowed
    /\ NotPaused
    /\ treasury >= total
    /\ AllocateRun(id, n)
    /\ BatchCommitments(payees)
    /\ treasury' = treasury - total
    /\ paid' = [e \in Employee |-> IF e \in payees THEN paid[e] + pay[e] ELSE paid[e]]
    /\ draftCommitment' = draftCommitment \ {d}
    /\ payrollRun' = [payrollRun EXCEPT ![id] = NewRunRecord(total, n, d)]
    /\ RecordRunState(id, "ReconciliationRequired")
    /\ UNCHANGED <<pendingRun, cancelledBatch, pendingRunCount, lockVars, withdrawn,
                   companyBalance, depositNonce, emergencyRequest, roleVars,
                   configVars, reviewVars, envVars>>

ReconciledState(status) ==
    CASE status = "Reconciled" -> "Completed"
      [] status = "Unreconciled" -> "ReconciliationRequired"
      [] status = "Failed" -> "Failed"

\* Mutant: the reconciliation status is consulted instead of the state.
SettlementFinalized_ByStatus(r) == payrollRun[r].recon = "Reconciled"

SettlementFinalized(r) == PayrollRunState(r) = "Completed"

UpdateReconciliationStatus(r, status) ==
    LET current == PayrollRunState(r)
        next == ReconciledState(status) IN
    /\ NotPaused
    /\ payrollRun[r] # None
    /\ ~SettlementFinalized(r)
    /\ current = next \/ <<current, next>> \in AllowedTransitions
    /\ payrollRun' = [payrollRun EXCEPT ![r].recon = status]
    /\ RecordRunState(r, next)
    /\ UNCHANGED <<nonceVars, pendingRun, cancelledBatch, pendingRunCount, fundVars,
                   draftCommitment, roleVars, configVars, reviewVars,
                   commitmentVars, envVars>>

\* The admin's conformance hook: writes the canonical state and nothing else.
TransitionPayrollRunState(r, next) ==
    /\ NotPaused
    /\ HasRunState(r)
    /\ <<PayrollRunState(r), next>> \in AllowedTransitions
    /\ RecordRunState(r, next)
    /\ UNCHANGED <<nonceVars, pendingRun, payrollRun, cancelledBatch, pendingRunCount,
                   fundVars, draftCommitment, roleVars, configVars, reviewVars,
                   commitmentVars, envVars>>

\* commit_draft and commit_metadata_hash share one key space.
CommitDraft(d) ==
    /\ NotPaused
    /\ d \notin draftCommitment
    /\ draftCommitment' = draftCommitment \cup {d}
    /\ UNCHANGED <<runVars, fundVars, roleVars, configVars, reviewVars,
                   commitmentVars, envVars>>

SetRunMetadata(r, h) ==
    /\ NotPaused
    /\ h \in draftCommitment
    /\ payrollRun[r] # None
    /\ draftCommitment' = draftCommitment \ {h}
    /\ payrollRun' = [payrollRun EXCEPT ![r].metadata = h]
    /\ UNCHANGED <<nonceVars, pendingRun, cancelledBatch, payrollState, pendingRunCount,
                   fundVars, roleVars, configVars, reviewVars, commitmentVars, envVars>>

----------------------------------------------------------------------------
(***************************************************************************)
(* Treasury: deposits, emergency withdrawals, reservations.                *)
(***************************************************************************)
\* Mutant: the depositor's balance is replaced.
CreditDeposit_Overwrite(amount) == companyBalance' = amount

CreditDeposit(amount) == companyBalance' = companyBalance + amount

Deposit(id, amount) ==
    /\ NotPaused
    /\ id \notin depositNonce
    /\ depositNonce' = depositNonce \cup {id}
    /\ treasury' = treasury + amount
    /\ CreditDeposit(amount)
    /\ UNCHANGED <<runVars, lockVars, paid, withdrawn, emergencyRequest,
                   draftCommitment, roleVars, configVars, reviewVars,
                   commitmentVars, envVars>>

RequestEmergencyWithdrawal(amount) ==
    /\ NotPaused
    /\ emergencyRequest = None
    /\ amount <= AvailableTreasuryBalance
    /\ emergencyRequest' = amount
    /\ UNCHANGED <<runVars, lockVars, tokenVars, draftCommitment, roleVars, configVars,
                   reviewVars, commitmentVars, envVars>>

\* Mutant: the reservations made since the request are not looked at.
RequestStillAvailable_IgnoreLocked == emergencyRequest <= treasury

\* The available balance is read again: it may have shrunk since the request.
RequestStillAvailable == emergencyRequest <= AvailableTreasuryBalance

\* Mutant: the token contract lets a balance go below zero.
TreasuryCovers_Always(amount) == amount > 0

\* The token contract refuses a transfer the treasury cannot cover.
TreasuryCovers(amount) == amount <= treasury

ApproveEmergencyWithdrawal ==
    /\ NotPaused
    /\ emergencyRequest # None
    /\ RequestStillAvailable
    /\ TreasuryCovers(emergencyRequest)
    /\ emergencyRequest' = None
    /\ treasury' = treasury - emergencyRequest
    /\ withdrawn' = withdrawn + emergencyRequest
    /\ UNCHANGED <<runVars, lockVars, paid, companyBalance, depositNonce,
                   draftCommitment, roleVars, configVars, reviewVars,
                   commitmentVars, envVars>>

CancelEmergencyWithdrawal ==
    /\ NotPaused
    /\ emergencyRequest # None
    /\ emergencyRequest' = None
    /\ UNCHANGED <<runVars, lockVars, tokenVars, draftCommitment, roleVars, configVars,
                   reviewVars, commitmentVars, envVars>>

\* add_locked_funds and subtract_locked_funds are public functions of the
\* contract as well as helpers of the entry points above; directLock is the
\* net effect of the calls from outside, of which there are MaxLockCalls.
CallAddLockedFunds(amount) ==
    /\ lockCalls < MaxLockCalls
    /\ lockCalls' = lockCalls + 1
    /\ AddLockedFunds(amount)
    /\ directLock' = directLock + amount
    /\ UNCHANGED <<runVars, tokenVars, emergencyRequest, draftCommitment, roleVars,
                   configVars, reviewVars, commitmentVars, envVars>>

CallSubtractLockedFunds(amount) ==
    /\ lockCalls < MaxLockCalls
    /\ lockCalls' = lockCalls + 1
    /\ SubtractLockedFunds(amount)
    /\ directLock' = directLock - amount
    /\ UNCHANGED <<runVars, tokenVars, emergencyRequest, draftCommitment, roleVars,
                   configVars, reviewVars, commitmentVars, envVars>>

----------------------------------------------------------------------------
(***************************************************************************)
(* Roles.  A rotation and a handover of the admin role may be pending at   *)
(* the same time; accepting one leaves the other's proposal in place.      *)
(***************************************************************************)
rolesFrame == <<runVars, fundVars, draftCommitment, configVars, reviewVars,
                commitmentVars, envVars>>

ProposeAdminRotation(a) ==
    /\ NotPaused
    /\ adminRotation = None
    /\ adminRotation' = [holder |-> a, by |-> admin]
    /\ UNCHANGED <<admin, treasuryOwner, treasuryRotation, adminHandover, rolesFrame>>

AcceptAdminRotation ==
    /\ NotPaused
    /\ adminRotation # None
    /\ NoActivePayrollRun
    /\ admin' = adminRotation.holder
    /\ adminRotation' = None
    /\ UNCHANGED <<treasuryOwner, treasuryRotation, adminHandover, rolesFrame>>

CancelAdminRotation ==
    /\ NotPaused
    /\ adminRotation # None
    /\ adminRotation' = None
    /\ UNCHANGED <<admin, treasuryOwner, treasuryRotation, adminHandover, rolesFrame>>

ProposeTreasuryRotation(a) ==
    /\ NotPaused
    /\ treasuryRotation = None
    /\ treasuryRotation' = [holder |-> a, by |-> treasuryOwner]
    /\ UNCHANGED <<admin, treasuryOwner, adminRotation, adminHandover, rolesFrame>>

AcceptTreasuryRotation ==
    /\ NotPaused
    /\ treasuryRotation # None
    /\ NoActivePayrollRun
    /\ treasuryOwner' = treasuryRotation.holder
    /\ treasuryRotation' = None
    /\ UNCHANGED <<admin, adminRotation, adminHandover, rolesFrame>>

CancelTreasuryRotation ==
    /\ NotPaused
    /\ treasuryRotation # None
    /\ treasuryRotation' = None
    /\ UNCHANGED <<admin, treasuryOwner, adminRotation, adminHandover, rolesFrame>>

RequestAdminHandover(a) ==
    /\ NotPaused
    /\ adminHandover = None
    /\ adminHandover' = [holder |-> a, by |-> admin]
    /\ UNCHANGED <<admin, treasuryOwner, adminRotation, treasuryRotation, rolesFrame>>

\* Unlike AcceptAdminRotation, not refused while a run is pending.
AcceptAdminHandover ==
    /\ NotPaused
    /\ adminHandover # None
    /\ admin' = adminHandover.holder
    /\ adminHandover' = None
    /\ UNCHANGED <<treasuryOwner, adminRotation, treasuryRotation, rolesFrame>>

CancelAdminHandover ==
    /\ NotPaused
    /\ adminHandover # None
    /\ adminHandover' = None
    /\ UNCHANGED <<admin, treasuryOwner, adminRotation, treasuryRotation, rolesFrame>>

----------------------------------------------------------------------------
(***************************************************************************)
(* Configuration.                                                          *)
(***************************************************************************)
configFrame == <<runVars, fundVars, draftCommitment, roleVars, reviewVars,
                 commitmentVars, envVars>>

SetPauseManager(p) ==
    /\ pauseManager' = p
    /\ UNCHANGED <<companyState, allowedAsset, supportedAssets, configFrame>>

\* get_supported_assets: the stored list, or the payout token while there is none.
SupportedAssetList(stored, allowed) ==
    IF stored # None THEN stored ELSE {Token} \cap allowed

\* Mutant: an asset that is disallowed stays in the list.
UpdatedAssetList_NoRemoval(list, a, allow) == IF allow THEN list \cup {a} ELSE list

UpdatedAssetList(list, a, allow) == IF allow THEN list \cup {a} ELSE list \ {a}

SetAssetAllowed(a, allow) ==
    /\ NoActivePayrollRun
    /\ allowedAsset' = IF allow THEN allowedAsset \cup {a} ELSE allowedAsset \ {a}
    /\ supportedAssets' =
         UpdatedAssetList(SupportedAssetList(supportedAssets, allowedAsset'), a, allow)
    /\ UNCHANGED <<companyState, pauseManager, configFrame>>

SetCompanyState(s) ==
    /\ NoActivePayrollRun
    /\ companyState' = s
    /\ UNCHANGED <<allowedAsset, supportedAssets, pauseManager, configFrame>>

----------------------------------------------------------------------------
(***************************************************************************)
(* Reviews, audit challenges and archiving.  A review is stored under a    *)
(* run identifier, whether or not there is such a run; the last one counts.*)
(***************************************************************************)
reviewFrame == <<runVars, fundVars, draftCommitment, roleVars, configVars,
                 commitmentVars, envVars>>

AddReviewer(v) ==
    /\ NotPaused
    /\ authorizedReviewer' = authorizedReviewer \cup {v}
    /\ UNCHANGED <<runReview, challengedRun, archivedRun, archiveMarker, reviewFrame>>

RemoveReviewer(v) ==
    /\ NotPaused
    /\ authorizedReviewer' = authorizedReviewer \ {v}
    /\ UNCHANGED <<runReview, challengedRun, archivedRun, archiveMarker, reviewFrame>>

RecordReview(v, r, decision) ==
    /\ NotPaused
    /\ v \in authorizedReviewer
    /\ runReview' = [runReview EXCEPT
                       ![r] = [reviewer |-> v, decision |-> decision, at |-> now]]
    /\ UNCHANGED <<authorizedReviewer, challengedRun, archivedRun, archiveMarker,
                   reviewFrame>>

ApprovePayrollRun(v, r) == RecordReview(v, r, "Approved")

RejectPayrollRun(v, r) == RecordReview(v, r, "Rejected")

RequestChangesPayrollRun(v, r) == RecordReview(v, r, "ChangesRequested")

FlagRunChallenged(r) ==
    /\ challengedRun' = challengedRun \cup {r}
    /\ UNCHANGED <<authorizedReviewer, runReview, archivedRun, archiveMarker, reviewFrame>>

ClearRunChallenge(r) ==
    /\ challengedRun' = challengedRun \ {r}
    /\ UNCHANGED <<authorizedReviewer, runReview, archivedRun, archiveMarker, reviewFrame>>

Archivable(r) == payrollRun[r] # None

ArchivePayrollRun(r) ==
    /\ Archivable(r)
    /\ r \notin challengedRun
    /\ r \notin archivedRun
    /\ archivedRun' = archivedRun \cup {r}
    /\ UNCHANGED <<authorizedReviewer, runReview, challengedRun, archiveMarker, reviewFrame>>

\* The second way to archive a run keeps a marker of its own.
ArchivePayrollRunWithReason(r) ==
    /\ Archivable(r)
    /\ r \notin archiveMarker
    /\ archiveMarker' = archiveMarker \cup {r}
    /\ UNCHANGED <<authorizedReviewer, runReview, challengedRun, archivedRun, reviewFrame>>

----------------------------------------------------------------------------
(***************************************************************************)
(* The environment: the ledger clock, the pause managers, and the writes   *)
(* of the salary-commitment contract's admin that a batch depends on.      *)
(***************************************************************************)
envFrame == <<runVars, fundVars, draftCommitment, roleVars, configVars, reviewVars>>

Tick ==
    /\ now < MaxTime
    /\ now' = now + 1
    /\ UNCHANGED <<envFrame, commitmentVars, pausedManagers>>

Pause(p) ==
    /\ pausedManagers' = pausedManagers \cup {p}
    /\ UNCHANGED <<envFrame, commitmentVars, now>>

Unpause(p) ==
    /\ pausedManagers' = pausedManagers \ {p}
    /\ UNCHANGED <<envFrame, commitmentVars, now>>

StoreCommitment(e) ==
    /\ committed' = committed \cup {e}
    /\ UNCHANGED <<envFrame, commitmentLocked, nullifiers, envVars>>

UnlockCommitmentUpdates(e) ==
    /\ e \in commitmentLocked
    /\ commitmentLocked' = commitmentLocked \ {e}
    /\ UNCHANGED <<envFrame, committed, nullifiers, envVars>>

----------------------------------------------------------------------------
Init ==
    /\ runCounter = 0
    /\ runNonce = [n \in Nonce |-> None]
    /\ nonceSequence = [a \in Address |-> None]
    /\ pendingRun = [r \in RunId |-> None]
    /\ payrollRun = [r \in RunId |-> None]
    /\ cancelledBatch = [r \in RunId |-> None]
    /\ payrollState = [r \in RunId |-> None]
    /\ pendingRunCount = 0
    /\ lockedFunds = 0
    /\ lockCalls = 0
    /\ directLock = 0
    /\ draftCommitment = {}
    /\ treasury = InitialBalance
    /\ paid = [e \in Employee |-> 0]
    /\ withdrawn = 0
    /\ companyBalance = 0
    /\ depositNonce = {}
    /\ emergencyRequest = None
    /\ admin = FirstAdmin
    /\ treasuryOwner = FirstOwner
    /\ adminRotation = None
    /\ treasuryRotation = None
    /\ adminHandover = None
    /\ companyState = None
    /\ allowedAsset = {Token}
    /\ supportedAssets = None
    /\ pauseManager = None
    /\ authorizedReviewer = {}
    /\ runReview = [r \in RunId |-> None]
    /\ challengedRun = {}
    /\ archivedRun = {}
    /\ archiveMarker = {}
    /\ now = 0
    /\ pausedManagers = {}
    /\ committed = {}
    /\ commitmentLocked = {}
    /\ nullifiers = {}
    /\ preparer = [r \in RunId |-> None]

RunNext ==
    \/ \E total \in Total, n \in Nonce, d \in DraftHash \cup {None} :
         PreparePayrollRun(total, n, d)
    \/ \E r \in RunId : FinalizePayrollRun(r)
    \/ \E r \in RunId : CancelPayrollRun(r)
    \/ \E payees \in SUBSET Employee, total \in Total, n \in Nonce,
          d \in DraftHash \cup {None} :
         \E pay \in [payees -> Total] : BatchProcessPayroll(pay, total, n, d)
    \/ \E r \in RunId, status \in ReconciliationInput :
         UpdateReconciliationStatus(r, status)
    \/ \E r \in RunId, s \in HookState : TransitionPayrollRunState(r, s)
    \/ \E d \in DraftHash : CommitDraft(d)
    \/ \E r \in RunId, h \in DraftHash : SetRunMetadata(r, h)

FundNext ==
    \/ \E id \in DepositId, amount \in Total : Deposit(id, amount)
    \/ \E amount \in WithdrawalInput : RequestEmergencyWithdrawal(amount)
    \/ ApproveEmergencyWithdrawal
    \/ CancelEmergencyWithdrawal
    \/ \E amount \in LockInput : CallAddLockedFunds(amount)
    \/ \E amount \in LockInput : CallSubtractLockedFunds(amount)

RoleNext ==
    \/ \E a \in AdminSuccessor : ProposeAdminRotation(a)
    \/ AcceptAdminRotation
    \/ CancelAdminRotation
    \/ \E a \in OwnerSuccessor : ProposeTreasuryRotation(a)
    \/ AcceptTreasuryRotation
    \/ CancelTreasuryRotation
    \/ \E a \in AdminSuccessor : RequestAdminHandover(a)
    \/ AcceptAdminHandover
    \/ CancelAdminHandover

ConfigNext ==
    \/ \E p \in PauseManager : SetPauseManager(p)
    \/ \E a \in AssetInput, allow \in BOOLEAN : SetAssetAllowed(a, allow)
    \/ \E s \in CompanyInput : SetCompanyState(s)

ReviewNext ==
    \/ \E v \in Reviewer : AddReviewer(v)
    \/ \E v \in Reviewer : RemoveReviewer(v)
    \/ \E v \in Reviewer, r \in AuditInput : ApprovePayrollRun(v, r)
    \/ \E v \in Reviewer, r \in AuditInput : RejectPayrollRun(v, r)
    \/ \E v \in Reviewer, r \in AuditInput : RequestChangesPayrollRun(v, r)
    \/ \E r \in AuditInput : FlagRunChallenged(r)
    \/ \E r \in AuditInput : ClearRunChallenge(r)
    \/ \E r \in AuditInput : ArchivePayrollRun(r)
    \/ \E r \in AuditInput : ArchivePayrollRunWithReason(r)

EnvNext ==
    \/ Tick
    \/ \E p \in PauseManager : Pause(p)
    \/ \E p \in PauseManager : Unpause(p)
    \/ \E e \in Employee : StoreCommitment(e)
    \/ \E e \in Employee : UnlockCommitmentUpdates(e)

Next == RunNext \/ FundNext \/ RoleNext \/ ConfigNext \/ ReviewNext \/ EnvNext

Spec == Init /\ [][Next]_vars
=============================================================================
