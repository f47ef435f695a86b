--------------------------- MODULE PayrollProofs ---------------------------
(***************************************************************************)
(* Theorems about the payroll contract, for every choice of its constants: *)
(* the types of its entries and the life of a run.                         *)
(***************************************************************************)
EXTENDS PayrollProperties, TLAPS

\* Zenon proves the leaves of the proofs that name no prover; those that need
\* arithmetic, records or sequences name the SMT solver.
USE Zenon

----------------------------------------------------------------------------
(***************************************************************************)
(* Which variables the operations of a group leave alone.                  *)
(***************************************************************************)
\* The operations on funds (deposits, withdrawals, reservations) change
\* neither runs nor anything else outside the contract's accounts.
LEMMA FundFrame ==
    FundNext => UNCHANGED <<runVars, draftCommitment, roleVars, configVars, reviewVars,
                            commitmentVars, envVars>>
BY DEF FundNext, Deposit, RequestEmergencyWithdrawal, ApproveEmergencyWithdrawal,
       CancelEmergencyWithdrawal, CallAddLockedFunds, CallSubtractLockedFunds

\* The rotations and the handover change roles only.
LEMMA RoleFrame ==
    RoleNext => UNCHANGED <<runVars, fundVars, draftCommitment, configVars, reviewVars,
                            commitmentVars, envVars>>
BY DEF RoleNext, ProposeAdminRotation, AcceptAdminRotation, CancelAdminRotation,
       ProposeTreasuryRotation, AcceptTreasuryRotation, CancelTreasuryRotation,
       RequestAdminHandover, AcceptAdminHandover, CancelAdminHandover, rolesFrame

\* set_pause_manager, set_asset_allowed and set_company_state change
\* configuration only.
LEMMA ConfigFrame ==
    ConfigNext => UNCHANGED <<runVars, fundVars, draftCommitment, roleVars, reviewVars,
                              commitmentVars, envVars>>
BY DEF ConfigNext, SetPauseManager, SetAssetAllowed, SetCompanyState, configFrame

\* Reviews, challenges and archiving change their own records only.
LEMMA ReviewFrame ==
    ReviewNext => UNCHANGED <<runVars, fundVars, draftCommitment, roleVars, configVars,
                              commitmentVars, envVars>>
BY DEF ReviewNext, AddReviewer, RemoveReviewer, ApprovePayrollRun, RejectPayrollRun,
       RequestChangesPayrollRun, RecordReview, FlagRunChallenged, ClearRunChallenge,
       ArchivePayrollRun, ArchivePayrollRunWithReason, reviewFrame

\* The contract's environment does not write its storage.
LEMMA EnvFrame ==
    EnvNext => UNCHANGED <<runVars, fundVars, draftCommitment, roleVars, configVars, reviewVars>>
BY DEF EnvNext, Tick, Pause, Unpause, StoreCommitment, UnlockCommitmentUpdates, envFrame

\* Operations on runs change no role, no configuration and no review.
LEMMA RunFrame ==
    RunNext => UNCHANGED <<roleVars, configVars, reviewVars, envVars, emergencyRequest,
                           lockCalls, directLock, withdrawn, companyBalance, depositNonce>>
<1> DEFINE frame == <<roleVars, configVars, reviewVars, envVars, emergencyRequest,
                      lockCalls, directLock, withdrawn, companyBalance, depositNonce>>
<1> USE DEF fundVars, lockVars, tokenVars
<1>1. ASSUME NEW total, NEW n, NEW d, PreparePayrollRun(total, n, d) PROVE UNCHANGED frame
  BY <1>1 DEF PreparePayrollRun
<1>2. ASSUME NEW r, FinalizePayrollRun(r) PROVE UNCHANGED frame
  BY <1>2 DEF FinalizePayrollRun
<1>3. ASSUME NEW r, CancelPayrollRun(r) PROVE UNCHANGED frame
  BY <1>3 DEF CancelPayrollRun
<1>4. ASSUME NEW pay, NEW total, NEW n, NEW d, BatchProcessPayroll(pay, total, n, d)
      PROVE  UNCHANGED frame
  BY <1>4 DEF BatchProcessPayroll
<1>5. ASSUME NEW r, NEW status, UpdateReconciliationStatus(r, status) PROVE UNCHANGED frame
  BY <1>5 DEF UpdateReconciliationStatus
<1>6. ASSUME NEW r, NEW s, TransitionPayrollRunState(r, s) PROVE UNCHANGED frame
  BY <1>6 DEF TransitionPayrollRunState
<1>7. ASSUME NEW d, CommitDraft(d) PROVE UNCHANGED frame
  BY <1>7 DEF CommitDraft
<1>8. ASSUME NEW r, NEW h, SetRunMetadata(r, h) PROVE UNCHANGED frame
  BY <1>8 DEF SetRunMetadata
<1> HIDE DEF frame
<1>9. RunNext => UNCHANGED frame
  BY <1>1, <1>2, <1>3, <1>4, <1>5, <1>6, <1>7, <1>8 DEF RunNext
<1> QED
  BY <1>9 DEF frame

----------------------------------------------------------------------------
(***************************************************************************)
(* Types.                                                                  *)
(***************************************************************************)
\* Totals are integers.
LEMMA TotalInt == \A x \in Total : x \in Int
  BY NumberAssumption, SMT

\* The difference of two integers is an integer.
LEMMA DifferenceInt == \A x, y \in Int : x - y \in Int
  BY SMT

\* A pending run is stored with a well-typed total, nonce and draft.
LEMMA PendingFields ==
  ASSUME RunTypeOK, NEW r \in RunId, pendingRun[r] # None
  PROVE  /\ pendingRun[r].total \in Total
         /\ pendingRun[r].nonce \in Nonce
         /\ pendingRun[r].draft \in DraftHash \cup {None}
<1>1. pendingRun[r] \in PendingPayrollRun
  BY DEF RunTypeOK
<1> QED
  BY <1>1 DEF PendingPayrollRun

\* The records that prepare_payroll_run, finalize_payroll_run,
\* batch_process_payroll and cancel_payroll_run write are well typed, and so
\* are told apart from a missing entry.
LEMMA NewPending ==
  ASSUME RoleTypeOK, NEW total \in Total, NEW n \in Nonce, NEW d \in DraftHash \cup {None}
  PROVE  /\ [admin |-> admin, total |-> total, nonce |-> n, draft |-> d] \in PendingPayrollRun
         /\ [admin |-> admin, total |-> total, nonce |-> n, draft |-> d] # None
<1>1. [admin |-> admin, total |-> total, nonce |-> n, draft |-> d] \in PendingPayrollRun
  BY DEF PendingPayrollRun, RoleTypeOK
<1> QED
  BY <1>1, NoneAssumption

LEMMA NewRecord ==
  ASSUME RoleTypeOK, NEW total \in Total, NEW n \in Nonce, NEW d \in DraftHash \cup {None}
  PROVE  NewRunRecord(total, n, d) \in PayrollRunRecord /\ NewRunRecord(total, n, d) # None
<1>1. NewRunRecord(total, n, d) \in PayrollRunRecord
  BY DEF NewRunRecord, PayrollRunRecord, RoleTypeOK, ReconciliationStatus
<1> QED
  BY <1>1, NoneAssumption

LEMMA NewCancelled ==
  ASSUME RoleTypeOK, NEW total \in Total, NEW d \in DraftHash \cup {None}
  PROVE  /\ [by |-> admin, total |-> total, draft |-> d] \in CancelledBatchStatus
         /\ [by |-> admin, total |-> total, draft |-> d] # None
<1>1. [by |-> admin, total |-> total, draft |-> d] \in CancelledBatchStatus
  BY DEF CancelledBatchStatus, RoleTypeOK
<1> QED
  BY <1>1, NoneAssumption

\* Every operation keeps the types of the run records.
LEMMA RunTypeStep == TypeOK /\ [Next]_vars => RunTypeOK'
<1> SUFFICES ASSUME TypeOK, [Next]_vars PROVE RunTypeOK'
  OBVIOUS
<1> USE DEF TypeOK, RunTypeOK, RoleTypeOK, RunId, RunState, nonceVars, recordVars, runVars
<1>1. ASSUME NEW total \in Total, NEW n \in Nonce, NEW d \in DraftHash \cup {None},
             PreparePayrollRun(total, n, d)
      PROVE  RunTypeOK'
  <2> DEFINE run == [admin |-> admin, total |-> total, nonce |-> n, draft |-> d]
  <2>1. run \in PendingPayrollRun
    BY NewPending
  <2>2. pendingRun' = [pendingRun EXCEPT ![runCounter + 1] = run]
    BY <1>1 DEF PreparePayrollRun
  <2> HIDE DEF run
  <2>3. pendingRun' \in [RunId -> PendingPayrollRun \cup {None}]
    BY <2>1, <2>2
  <2> QED
    BY <1>1, <2>3, NumberAssumption, SMT DEF PreparePayrollRun, AllocateRun, RecordRunState
<1>2. ASSUME NEW r \in RunId, FinalizePayrollRun(r) PROVE RunTypeOK'
  <2> DEFINE run == NewRunRecord(pendingRun[r].total, pendingRun[r].nonce, pendingRun[r].draft)
  <2>1. run \in PayrollRunRecord
    BY <1>2, PendingFields, NewRecord DEF FinalizePayrollRun
  <2>2. payrollRun' = [payrollRun EXCEPT ![r] = run]
    BY <1>2 DEF FinalizePayrollRun
  <2> HIDE DEF run
  <2>3. payrollRun' \in [RunId -> PayrollRunRecord \cup {None}]
    BY <2>1, <2>2
  <2> QED
    BY <1>2, <2>3, SMT DEF FinalizePayrollRun, RemovePending, RecordRunState, ResolvedRunCount
<1>3. ASSUME NEW r \in RunId, CancelPayrollRun(r) PROVE RunTypeOK'
  <2> DEFINE run == [by |-> admin, total |-> pendingRun[r].total, draft |-> pendingRun[r].draft]
  <2>1. run \in CancelledBatchStatus
    BY <1>3, PendingFields, NewCancelled DEF CancelPayrollRun, CanCancel
  <2>2. cancelledBatch' = [cancelledBatch EXCEPT ![r] = run]
    BY <1>3 DEF CancelPayrollRun
  <2> HIDE DEF run
  <2>3. cancelledBatch' \in [RunId -> CancelledBatchStatus \cup {None}]
    BY <2>1, <2>2
  <2> QED
    BY <1>3, <2>3, SMT DEF CancelPayrollRun, RemovePending, RecordRunState, ResolvedRunCount
<1>4. ASSUME NEW total \in Total, NEW n \in Nonce, NEW d \in DraftHash \cup {None},
             NEW payees \in SUBSET Employee, NEW pay \in [payees -> Total],
             BatchProcessPayroll(pay, total, n, d)
      PROVE  RunTypeOK'
  <2>1. payrollRun' \in [RunId -> PayrollRunRecord \cup {None}]
    <3>1. NewRunRecord(total, n, d) \in PayrollRunRecord
      BY NewRecord
    <3>2. payrollRun' = [payrollRun EXCEPT ![runCounter + 1] = NewRunRecord(total, n, d)]
      BY <1>4 DEF BatchProcessPayroll
    <3> QED
      BY <3>1, <3>2
  <2>2. AllocateRun(runCounter + 1, n) /\ runCounter + 1 \in RunId
    BY <1>4 DEF BatchProcessPayroll
  <2>3. payrollState' \in [RunId -> RunState \cup {None}] /\ draftCommitment' \subseteq DraftHash
    BY <1>4 DEF BatchProcessPayroll, RecordRunState
  <2>4. /\ runCounter' \in 0..MaxRuns
        /\ runNonce' \in [Nonce -> RunId \cup {None}]
        /\ nonceSequence' \in [Address -> Nonce \cup {None}]
        /\ preparer' \in [RunId -> Address \cup {None}]
    BY <2>2, NumberAssumption, SMT DEF AllocateRun
  <2>5. UNCHANGED <<pendingRun, cancelledBatch, pendingRunCount>>
    BY <1>4 DEF BatchProcessPayroll
  <2> QED
    BY <2>1, <2>3, <2>4, <2>5
<1>5. ASSUME NEW r \in RunId, NEW status \in ReconciliationInput,
             UpdateReconciliationStatus(r, status)
      PROVE  RunTypeOK'
  BY <1>5, InputAssumption, SMT
  DEF UpdateReconciliationStatus, RecordRunState, ReconciledState, PayrollRunRecord,
      ReconciliationStatus
<1>6. ASSUME NEW r \in RunId, NEW s \in HookState, TransitionPayrollRunState(r, s)
      PROVE  RunTypeOK'
  BY <1>6, InputAssumption DEF TransitionPayrollRunState, RecordRunState
<1>7. ASSUME NEW d \in DraftHash, CommitDraft(d) PROVE RunTypeOK'
  BY <1>7 DEF CommitDraft
<1>8. ASSUME NEW r \in RunId, NEW h \in DraftHash, SetRunMetadata(r, h) PROVE RunTypeOK'
  BY <1>8, SMT DEF SetRunMetadata, PayrollRunRecord
<1>9. CASE RunNext
  BY <1>1, <1>2, <1>3, <1>4, <1>5, <1>6, <1>7, <1>8, <1>9 DEF RunNext
<1>10. CASE FundNext \/ RoleNext \/ ConfigNext \/ ReviewNext \/ EnvNext \/ UNCHANGED vars
  BY <1>10, FundFrame, RoleFrame, ConfigFrame, ReviewFrame, EnvFrame DEF vars
<1> QED
  BY <1>9, <1>10 DEF Next

\* Every operation keeps the types of the accounts.
LEMMA FundTypeStep == TypeOK /\ [Next]_vars => FundTypeOK'
<1> SUFFICES ASSUME TypeOK, [Next]_vars PROVE FundTypeOK'
  OBVIOUS
<1> USE DEF TypeOK, FundTypeOK, lockVars, tokenVars, fundVars
<1>1. ASSUME NEW total \in Total, NEW n \in Nonce, NEW d \in DraftHash \cup {None},
             PreparePayrollRun(total, n, d)
      PROVE  FundTypeOK'
  BY <1>1, NumberAssumption, SMT DEF PreparePayrollRun, AddLockedFunds
<1>2. ASSUME NEW r \in RunId, FinalizePayrollRun(r) \/ CancelPayrollRun(r) PROVE FundTypeOK'
  <2>1. pendingRun[r] # None
    BY <1>2 DEF FinalizePayrollRun, CancelPayrollRun, CanCancel
  <2>2. pendingRun[r].total \in Int
    <3>1. pendingRun[r].total \in Total
      BY <2>1, PendingFields DEF TypeOK
    <3> QED
      BY <3>1, TotalInt
  <2>3. /\ lockedFunds' = lockedFunds - pendingRun[r].total
        /\ UNCHANGED <<lockCalls, directLock, tokenVars, emergencyRequest>>
    <3>1. CASE FinalizePayrollRun(r)
      BY <3>1 DEF FinalizePayrollRun, SubtractLockedFunds
    <3>2. CASE CancelPayrollRun(r)
      BY <3>2 DEF CancelPayrollRun, SubtractLockedFunds
    <3> QED
      BY <1>2, <3>1, <3>2
  <2>4. lockedFunds' \in Int
    <3>1. lockedFunds \in Int /\ lockedFunds' = lockedFunds - pendingRun[r].total
      BY <2>3
    <3> QED
      BY <2>2, <3>1, DifferenceInt
  <2> QED
    BY <2>3, <2>4
<1>3. ASSUME NEW total \in Total, NEW n \in Nonce, NEW d \in DraftHash \cup {None},
             NEW payees \in SUBSET Employee, NEW pay \in [payees -> Total],
             BatchProcessPayroll(pay, total, n, d)
      PROVE  FundTypeOK'
  <2>1. treasury' \in Nat
    BY <1>3, NumberAssumption, SMT DEF BatchProcessPayroll
  <2>2. paid' \in [Employee -> Nat]
    <3>1. ASSUME NEW e \in Employee
          PROVE  (IF e \in payees THEN paid[e] + pay[e] ELSE paid[e]) \in Nat
      <4>1. paid[e] \in Nat
        OBVIOUS
      <4>2. e \in payees => pay[e] \in Nat
        BY NumberAssumption
      <4> QED
        BY <4>1, <4>2, SMT
    <3>2. DOMAIN pay = payees
      OBVIOUS
    <3> QED
      BY <1>3, <3>1, <3>2 DEF BatchProcessPayroll
  <2> QED
    BY <1>3, <2>1, <2>2 DEF BatchProcessPayroll
<1>4. CASE RunNext
  <2>1. ASSUME NEW r \in RunId, NEW status \in ReconciliationInput,
               UpdateReconciliationStatus(r, status)
        PROVE  FundTypeOK'
    BY <2>1 DEF UpdateReconciliationStatus
  <2>2. ASSUME NEW r \in RunId, NEW s \in HookState, TransitionPayrollRunState(r, s)
        PROVE  FundTypeOK'
    BY <2>2 DEF TransitionPayrollRunState
  <2>3. ASSUME NEW r \in RunId, NEW h \in DraftHash, CommitDraft(h) \/ SetRunMetadata(r, h)
        PROVE  FundTypeOK'
    BY <2>3 DEF CommitDraft, SetRunMetadata
  <2>4. ASSUME NEW d \in DraftHash, CommitDraft(d) PROVE FundTypeOK'
    BY <2>4 DEF CommitDraft
  <2> QED
    BY <1>1, <1>2, <1>3, <1>4, <2>1, <2>2, <2>3, <2>4 DEF RunNext
<1>5. CASE FundNext
  <2>1. ASSUME NEW id \in DepositId, NEW amount \in Total, Deposit(id, amount)
        PROVE  FundTypeOK'
    BY <2>1, NumberAssumption, SMT DEF Deposit, CreditDeposit
  <2>2. ASSUME NEW amount \in WithdrawalInput, RequestEmergencyWithdrawal(amount)
        PROVE  FundTypeOK'
    BY <2>2 DEF RequestEmergencyWithdrawal
  <2>3. CASE ApproveEmergencyWithdrawal
    <3>1. emergencyRequest \in Nat
      BY <2>3, NumberAssumption DEF ApproveEmergencyWithdrawal
    <3> QED
      BY <2>3, <3>1, SMT DEF ApproveEmergencyWithdrawal, TreasuryCovers
  <2>4. CASE CancelEmergencyWithdrawal
    BY <2>4 DEF CancelEmergencyWithdrawal
  <2>5. ASSUME NEW amount \in LockInput, CallAddLockedFunds(amount) PROVE FundTypeOK'
    BY <2>5, NumberAssumption, SMT DEF CallAddLockedFunds, AddLockedFunds
  <2>6. ASSUME NEW amount \in LockInput, CallSubtractLockedFunds(amount) PROVE FundTypeOK'
    BY <2>6, NumberAssumption, SMT DEF CallSubtractLockedFunds, SubtractLockedFunds
  <2> QED
    BY <1>5, <2>1, <2>2, <2>3, <2>4, <2>5, <2>6 DEF FundNext
<1>6. CASE RoleNext \/ ConfigNext \/ ReviewNext \/ EnvNext \/ UNCHANGED vars
  BY <1>6, RoleFrame, ConfigFrame, ReviewFrame, EnvFrame DEF vars
<1> QED
  BY <1>4, <1>5, <1>6 DEF Next

\* Every operation keeps the types of the roles and of the proposals.
LEMMA RoleTypeStep == TypeOK /\ [Next]_vars => RoleTypeOK'
<1> SUFFICES ASSUME TypeOK, [Next]_vars PROVE RoleTypeOK'
  OBVIOUS
<1> USE DEF TypeOK, RoleTypeOK, roleVars, proposalVars
<1>1. CASE RoleNext
  <2>1. ASSUME NEW a \in AdminSuccessor, ProposeAdminRotation(a) \/ RequestAdminHandover(a)
        PROVE  RoleTypeOK'
    BY <2>1, AddressAssumption, SMT DEF Proposal, ProposeAdminRotation, RequestAdminHandover
  <2>2. ASSUME NEW a \in OwnerSuccessor, ProposeTreasuryRotation(a) PROVE RoleTypeOK'
    BY <2>2, AddressAssumption DEF Proposal, ProposeTreasuryRotation
  <2>3. CASE AcceptAdminRotation
    BY <2>3 DEF Proposal, AcceptAdminRotation
  <2>4. CASE AcceptTreasuryRotation
    BY <2>4 DEF Proposal, AcceptTreasuryRotation
  <2>5. CASE AcceptAdminHandover
    BY <2>5 DEF Proposal, AcceptAdminHandover
  <2>6. CASE CancelAdminRotation \/ CancelTreasuryRotation \/ CancelAdminHandover
    BY <2>6 DEF CancelAdminRotation, CancelTreasuryRotation, CancelAdminHandover
  <2> QED
    BY <1>1, <2>1, <2>2, <2>3, <2>4, <2>5, <2>6 DEF RoleNext
<1>2. CASE RunNext \/ FundNext \/ ConfigNext \/ ReviewNext \/ EnvNext \/ UNCHANGED vars
  BY <1>2, RunFrame, FundFrame, ConfigFrame, ReviewFrame, EnvFrame DEF vars
<1> QED
  BY <1>1, <1>2 DEF Next

\* Every operation keeps the types of the configuration.
LEMMA ConfigTypeStep == TypeOK /\ [Next]_vars => ConfigTypeOK'
<1> SUFFICES ASSUME TypeOK, [Next]_vars PROVE ConfigTypeOK'
  OBVIOUS
<1> USE DEF TypeOK, ConfigTypeOK, configVars
<1>1. ASSUME NEW p \in PauseManager, SetPauseManager(p) PROVE ConfigTypeOK'
  BY <1>1 DEF SetPauseManager
<1>2. ASSUME NEW a \in AssetInput, NEW allow \in BOOLEAN, SetAssetAllowed(a, allow)
      PROVE  ConfigTypeOK'
  <2>1. allowedAsset' \subseteq Asset
    BY <1>2, InputAssumption DEF SetAssetAllowed
  <2>2. SupportedAssetList(supportedAssets, allowedAsset') \subseteq Asset
    BY <2>1 DEF SupportedAssetList
  <2>3. supportedAssets' \subseteq Asset
    BY <1>2, <2>2, InputAssumption DEF SetAssetAllowed, UpdatedAssetList
  <2> QED
    BY <1>2, <2>1, <2>3 DEF SetAssetAllowed
<1>3. ASSUME NEW s \in CompanyInput, SetCompanyState(s) PROVE ConfigTypeOK'
  BY <1>3, InputAssumption DEF SetCompanyState
<1>4. CASE RunNext \/ FundNext \/ RoleNext \/ ReviewNext \/ EnvNext \/ UNCHANGED vars
  BY <1>4, RunFrame, FundFrame, RoleFrame, ReviewFrame, EnvFrame DEF vars
<1> QED
  BY <1>1, <1>2, <1>3, <1>4 DEF Next, ConfigNext

\* Every operation keeps the types of the reviews and of the archive flags.
LEMMA ReviewTypeStep == TypeOK /\ [Next]_vars => ReviewTypeOK'
<1> SUFFICES ASSUME TypeOK, [Next]_vars PROVE ReviewTypeOK'
  OBVIOUS
<1> USE DEF TypeOK, ReviewTypeOK, reviewVars
<1>1. ASSUME NEW v \in Reviewer, AddReviewer(v) \/ RemoveReviewer(v) PROVE ReviewTypeOK'
  BY <1>1 DEF AddReviewer, RemoveReviewer
<1>2. ASSUME NEW v \in Reviewer, NEW r \in AuditInput,
             NEW decision \in ReviewDecision, RecordReview(v, r, decision)
      PROVE  ReviewTypeOK'
  <2>1. [reviewer |-> v, decision |-> decision, at |-> now] \in Review
    BY DEF Review, EnvTypeOK
  <2> QED
    BY <1>2, <2>1, InputAssumption DEF RecordReview
<1>3. ASSUME NEW r \in AuditInput,
             \/ FlagRunChallenged(r)
             \/ ClearRunChallenge(r)
             \/ ArchivePayrollRun(r)
             \/ ArchivePayrollRunWithReason(r)
      PROVE  ReviewTypeOK'
  BY <1>3, InputAssumption
  DEF FlagRunChallenged, ClearRunChallenge, ArchivePayrollRun, ArchivePayrollRunWithReason
<1>4. CASE ReviewNext
  BY <1>1, <1>2, <1>3, <1>4
  DEF ReviewNext, ApprovePayrollRun, RejectPayrollRun, RequestChangesPayrollRun, ReviewDecision
<1>5. CASE RunNext \/ FundNext \/ RoleNext \/ ConfigNext \/ EnvNext \/ UNCHANGED vars
  BY <1>5, RunFrame, FundFrame, RoleFrame, ConfigFrame, EnvFrame DEF vars
<1> QED
  BY <1>4, <1>5 DEF Next

\* Every operation keeps the types of what the contract reads of its environment.
LEMMA EnvTypeStep == TypeOK /\ [Next]_vars => EnvTypeOK'
<1> SUFFICES ASSUME TypeOK, [Next]_vars PROVE EnvTypeOK'
  OBVIOUS
<1> USE DEF TypeOK, EnvTypeOK, commitmentVars, envVars
<1>1. ASSUME NEW total \in Total, NEW n \in Nonce, NEW d \in DraftHash \cup {None},
             NEW payees \in SUBSET Employee, NEW pay \in [payees -> Total],
             BatchProcessPayroll(pay, total, n, d)
      PROVE  EnvTypeOK'
  <2>1. DOMAIN pay = payees
    OBVIOUS
  <2>3. BatchNullifiers(payees) \subseteq Nat
    BY SMT DEF BatchNullifiers
  <2> QED
    BY <1>1, <2>1, <2>3 DEF BatchProcessPayroll, BatchCommitments
<1>2. CASE RunNext
  <2>1. ASSUME NEW total \in Total, NEW n \in Nonce, NEW d \in DraftHash \cup {None},
               PreparePayrollRun(total, n, d)
        PROVE  EnvTypeOK'
    BY <2>1 DEF PreparePayrollRun
  <2>2. ASSUME NEW r \in RunId, FinalizePayrollRun(r) PROVE EnvTypeOK'
    BY <2>2 DEF FinalizePayrollRun
  <2>3. ASSUME NEW r \in RunId, CancelPayrollRun(r) PROVE EnvTypeOK'
    BY <2>3 DEF CancelPayrollRun
  <2>4. ASSUME NEW r \in RunId, NEW s \in ReconciliationInput, UpdateReconciliationStatus(r, s)
        PROVE  EnvTypeOK'
    BY <2>4 DEF UpdateReconciliationStatus
  <2>5. ASSUME NEW r \in RunId, NEW s \in HookState, TransitionPayrollRunState(r, s)
        PROVE  EnvTypeOK'
    BY <2>5 DEF TransitionPayrollRunState
  <2>6. ASSUME NEW h \in DraftHash, CommitDraft(h) PROVE EnvTypeOK'
    BY <2>6 DEF CommitDraft
  <2>7. ASSUME NEW r \in RunId, NEW h \in DraftHash, SetRunMetadata(r, h) PROVE EnvTypeOK'
    BY <2>7 DEF SetRunMetadata
  <2> QED
    BY <1>1, <1>2, <2>1, <2>2, <2>3, <2>4, <2>5, <2>6, <2>7 DEF RunNext
<1>3. CASE EnvNext
  <2>1. CASE Tick
    BY <2>1, NumberAssumption, SMT DEF Tick
  <2>2. ASSUME NEW p \in PauseManager, Pause(p) \/ Unpause(p) PROVE EnvTypeOK'
    BY <2>2 DEF Pause, Unpause
  <2>3. ASSUME NEW e \in Employee, StoreCommitment(e) \/ UnlockCommitmentUpdates(e)
        PROVE  EnvTypeOK'
    BY <2>3 DEF StoreCommitment, UnlockCommitmentUpdates
  <2> QED
    BY <1>3, <2>1, <2>2, <2>3 DEF EnvNext
<1>4. CASE FundNext \/ RoleNext \/ ConfigNext \/ ReviewNext \/ UNCHANGED vars
  BY <1>4, FundFrame, RoleFrame, ConfigFrame, ReviewFrame DEF vars
<1> QED
  BY <1>2, <1>3, <1>4 DEF Next

\* Storage starts out well typed (initialize).
LEMMA TypeInit == Init => TypeOK
<1> SUFFICES ASSUME Init PROVE TypeOK
  OBVIOUS
<1> USE DEF Init
<1>1. RunTypeOK
  BY NumberAssumption, SMTT(30) DEF RunTypeOK
<1>2. FundTypeOK
  BY NumberAssumption, SMTT(30) DEF FundTypeOK
<1>3. RoleTypeOK
  BY AddressAssumption DEF RoleTypeOK
<1>4. ConfigTypeOK
  BY InputAssumption DEF ConfigTypeOK
<1>5. ReviewTypeOK
  BY DEF ReviewTypeOK
<1>6. EnvTypeOK
  <2>1. now \in 0..MaxTime
    BY NumberAssumption, SMT
  <2> QED
    BY <2>1 DEF EnvTypeOK
<1> QED
  BY <1>1, <1>2, <1>3, <1>4, <1>5, <1>6 DEF TypeOK

\* Whatever is called in whatever order, every storage entry keeps the type its
\* key declares; the treasury's balance is never negative.
THEOREM TypeCorrect == Spec => []TypeOK
<1>1. TypeOK /\ [Next]_vars => TypeOK'
  BY RunTypeStep, FundTypeStep, RoleTypeStep, ConfigTypeStep, ReviewTypeStep, EnvTypeStep
  DEF TypeOK
<1> QED
  BY <1>1, TypeInit, PTL DEF Spec

----------------------------------------------------------------------------
(***************************************************************************)
(* The life of a run.                                                      *)
(***************************************************************************)
\* The operations other than those on runs leave the records of runs alone.
LEMMA RecordFrame ==
  FundNext \/ RoleNext \/ ConfigNext \/ ReviewNext \/ EnvNext \/ UNCHANGED vars
  => UNCHANGED <<nonceVars, recordVars>>
  BY FundFrame, RoleFrame, ConfigFrame, ReviewFrame, EnvFrame DEF vars, runVars

\* Giving the next identifier one record and a state keeps the partition, be
\* the record a pending run (prepare_payroll_run) or an executed one
\* (batch_process_payroll).
LEMMA NewRunKeepsPartition ==
  ASSUME RunTypeOK, RunPartition,
         NEW run, NEW s, run # None, s # None,
         runCounter + 1 \in RunId,
         runCounter' = runCounter + 1,
         payrollState' = [payrollState EXCEPT ![runCounter + 1] = s],
         \/ /\ pendingRun' = [pendingRun EXCEPT ![runCounter + 1] = run]
            /\ UNCHANGED <<payrollRun, cancelledBatch>>
         \/ /\ payrollRun' = [payrollRun EXCEPT ![runCounter + 1] = run]
            /\ UNCHANGED <<pendingRun, cancelledBatch>>
  PROVE  RunPartition'
<1> USE DEF Pending, Executed, Cancelled
<1> DEFINE id == runCounter + 1
<1>1. runCounter \in Nat /\ RunId \subseteq Nat
  BY NumberAssumption, SMT DEF RunTypeOK, RunId
<1>2. /\ ~(id <= runCounter)
      /\ \A r \in RunId : r <= runCounter' <=> r <= runCounter \/ r = id
  BY <1>1, SMT
<1>3. pendingRun[id] = None /\ payrollRun[id] = None /\ cancelledBatch[id] = None
  BY <1>2 DEF RunPartition
<1>4. \A r \in RunId : payrollState'[r] # None <=> payrollState[r] # None \/ r = id
  BY DEF RunTypeOK
<1>5. CASE /\ pendingRun' = [pendingRun EXCEPT ![id] = run]
           /\ UNCHANGED <<payrollRun, cancelledBatch>>
  <2>1. \A r \in RunId : pendingRun'[r] # None <=> pendingRun[r] # None \/ r = id
    BY <1>5 DEF RunTypeOK
  <2> HIDE DEF id
  <2> QED
    BY <1>2, <1>3, <1>4, <1>5, <2>1 DEF RunPartition
<1>6. CASE /\ payrollRun' = [payrollRun EXCEPT ![id] = run]
           /\ UNCHANGED <<pendingRun, cancelledBatch>>
  <2>1. \A r \in RunId : payrollRun'[r] # None <=> payrollRun[r] # None \/ r = id
    BY <1>6 DEF RunTypeOK
  <2> HIDE DEF id
  <2> QED
    BY <1>2, <1>3, <1>4, <1>6, <2>1 DEF RunPartition
<1> QED
  BY <1>5, <1>6

\* Every operation keeps a run pending, executed or cancelled, and only one of
\* these.
LEMMA RunPartitionStep == TypeOK /\ RunPartition /\ [Next]_vars => RunPartition'
<1> SUFFICES ASSUME TypeOK, RunPartition, [Next]_vars PROVE RunPartition'
  OBVIOUS
<1> USE DEF RunPartition, Pending, Executed, Cancelled, nonceVars, recordVars
<1>t. RunTypeOK /\ RoleTypeOK
  BY DEF TypeOK
<1>1. ASSUME NEW total \in Total, NEW n \in Nonce, NEW d \in DraftHash \cup {None},
             PreparePayrollRun(total, n, d)
      PROVE  RunPartition'
  <2>1. [admin |-> admin, total |-> total, nonce |-> n, draft |-> d] # None
    BY <1>t, NewPending
  <2>2. "Submitted" # None
    BY NoneAssumption DEF RunState
  <2>3. PICK run :
          /\ run # None
          /\ runCounter + 1 \in RunId
          /\ runCounter' = runCounter + 1
          /\ pendingRun' = [pendingRun EXCEPT ![runCounter + 1] = run]
          /\ payrollState' = [payrollState EXCEPT ![runCounter + 1] = "Submitted"]
          /\ UNCHANGED <<payrollRun, cancelledBatch>>
    BY <1>1, <2>1 DEF PreparePayrollRun, AllocateRun, RecordRunState
  <2> QED
    BY <2>2, <2>3, NewRunKeepsPartition, <1>t
<1>2. ASSUME NEW r \in RunId, FinalizePayrollRun(r) PROVE RunPartition'
  <2>1. NewRunRecord(pendingRun[r].total, pendingRun[r].nonce, pendingRun[r].draft) # None
    <3>1. pendingRun[r] # None
      BY <1>2 DEF FinalizePayrollRun
    <3> QED
      BY <1>t, <3>1, PendingFields, NewRecord
  <2>2. "ReconciliationRequired" # None
    BY NoneAssumption DEF RunState
  <2> QED
    BY <1>2, <1>t, <2>1, <2>2
    DEF FinalizePayrollRun, RemovePending, RecordRunState, RunTypeOK
<1>3. ASSUME NEW r \in RunId, CancelPayrollRun(r) PROVE RunPartition'
  <2>1. [by |-> admin, total |-> pendingRun[r].total, draft |-> pendingRun[r].draft] # None
    <3>1. pendingRun[r] # None
      BY <1>3 DEF CancelPayrollRun, CanCancel
    <3> QED
      BY <1>t, <3>1, PendingFields, NewCancelled
  <2>2. "Cancelled" # None
    BY NoneAssumption DEF RunState
  <2> QED
    BY <1>3, <1>t, <2>1, <2>2
    DEF CancelPayrollRun, CanCancel, RemovePending, RecordRunState, RunTypeOK
<1>4. ASSUME NEW total \in Total, NEW n \in Nonce, NEW d \in DraftHash \cup {None},
             NEW payees \in SUBSET Employee, NEW pay \in [payees -> Total],
             BatchProcessPayroll(pay, total, n, d)
      PROVE  RunPartition'
  <2>1. NewRunRecord(total, n, d) # None
    BY <1>t, NewRecord
  <2>2. "ReconciliationRequired" # None
    BY NoneAssumption DEF RunState
  <2>3. PICK run :
          /\ run # None
          /\ runCounter + 1 \in RunId
          /\ runCounter' = runCounter + 1
          /\ payrollRun' = [payrollRun EXCEPT ![runCounter + 1] = run]
          /\ payrollState' = [payrollState EXCEPT ![runCounter + 1] = "ReconciliationRequired"]
          /\ UNCHANGED <<pendingRun, cancelledBatch>>
    BY <1>4, <2>1 DEF BatchProcessPayroll, AllocateRun, RecordRunState
  <2> QED
    BY <2>2, <2>3, NewRunKeepsPartition, <1>t
<1>5. ASSUME NEW r \in RunId, NEW status \in ReconciliationInput,
             UpdateReconciliationStatus(r, status)
      PROVE  RunPartition'
  <2>1. ReconciledState(status) # None
    BY InputAssumption, NoneAssumption DEF ReconciledState, ReconciliationStatus, RunState
  <2>2. \A q \in RunId : payrollRun'[q] # None <=> payrollRun[q] # None
    <3>1. payrollRun[r] \in PayrollRunRecord
      BY <1>5, <1>t DEF UpdateReconciliationStatus, RunTypeOK
    <3>2. [payrollRun[r] EXCEPT !.recon = status] # None
      BY <3>1, InputAssumption, NoneAssumption, SMT DEF PayrollRunRecord
    <3>3. payrollRun' = [payrollRun EXCEPT ![r] = [payrollRun[r] EXCEPT !.recon = status]]
      BY <1>5 DEF UpdateReconciliationStatus
    <3> QED
      BY <1>5, <1>t, <3>2, <3>3 DEF UpdateReconciliationStatus, RunTypeOK
  <2>3. \A q \in RunId : payrollState'[q] # None <=> payrollState[q] # None
    BY <1>5, <1>t, <2>1 DEF UpdateReconciliationStatus, RecordRunState, RunTypeOK
  <2> QED
    BY <1>5, <2>2, <2>3 DEF UpdateReconciliationStatus
<1>6. ASSUME NEW r \in RunId, NEW s \in HookState, TransitionPayrollRunState(r, s)
      PROVE  RunPartition'
  <2>1. s # None
    BY InputAssumption, NoneAssumption
  <2>2. \A q \in RunId : payrollState'[q] # None <=> payrollState[q] # None
    BY <1>6, <1>t, <2>1
    DEF TransitionPayrollRunState, RecordRunState, RunTypeOK, HasRunState
  <2> QED
    BY <1>6, <2>2 DEF TransitionPayrollRunState
<1>7. ASSUME NEW d \in DraftHash, CommitDraft(d) PROVE RunPartition'
  BY <1>7 DEF CommitDraft, runVars
<1>8. ASSUME NEW r \in RunId, NEW h \in DraftHash, SetRunMetadata(r, h) PROVE RunPartition'
  <2>1. \A q \in RunId : payrollRun'[q] # None <=> payrollRun[q] # None
    <3>1. payrollRun[r] \in PayrollRunRecord
      BY <1>8, <1>t DEF SetRunMetadata, RunTypeOK
    <3>2. [payrollRun[r] EXCEPT !.metadata = h] # None
      BY <3>1, NoneAssumption, SMT DEF PayrollRunRecord
    <3>3. payrollRun' = [payrollRun EXCEPT ![r] = [payrollRun[r] EXCEPT !.metadata = h]]
      BY <1>8 DEF SetRunMetadata
    <3> QED
      BY <1>8, <1>t, <3>2, <3>3 DEF SetRunMetadata, RunTypeOK
  <2> QED
    BY <1>8, <2>1 DEF SetRunMetadata
<1>9. CASE FundNext \/ RoleNext \/ ConfigNext \/ ReviewNext \/ EnvNext \/ UNCHANGED vars
  BY <1>9, RecordFrame
<1>10. CASE RunNext
  <2> HIDE DEF RunPartition
  <2> QED
    BY <1>1, <1>2, <1>3, <1>4, <1>5, <1>6, <1>7, <1>8, <1>10 DEF RunNext
<1> QED
  BY <1>9, <1>10 DEF Next

\* A run identifier that derive_run_id handed out is pending, executed or
\* cancelled, and only one of these, for any number of runs.
THEOREM RunPartitionHolds == Spec => []RunPartition
<1>1. Init => RunPartition
  <2> SUFFICES ASSUME Init, NEW r \in RunId
               PROVE  /\ ~(r <= runCounter) /\ payrollState[r] = None
                      /\ pendingRun[r] = None /\ payrollRun[r] = None /\ cancelledBatch[r] = None
    BY DEF RunPartition, Pending, Executed, Cancelled
  <2>1. r \in Nat /\ r >= 1
    BY NumberAssumption, SMT DEF RunId
  <2> QED
    BY <2>1, SMT DEF Init
<1> QED
  BY <1>1, RunPartitionStep, TypeCorrect, PTL DEF Spec

\* An operation that leaves the pending runs and what is reserved for them.
KeepsReservations ==
    /\ pendingRun' = pendingRun
    /\ lockedFunds' - directLock' = lockedFunds - directLock

\* Every pending run passes the whole guard of cancel_payroll_run, which asks
\* neither the pause manager nor for a particular admin: no record of an
\* execution stands in the way of clearing the configuration lock.  This is the
\* part of EscapeHatch that is not about ENABLED.
THEOREM PendingCancellableHolds == Spec => [](\A r \in Pending : CanCancel(r))
<1>1. RunPartition => \A r \in Pending : CanCancel(r)
  BY DEF RunPartition, Pending, Executed, CanCancel
<1> QED
  BY <1>1, RunPartitionHolds, PTL
=============================================================================
