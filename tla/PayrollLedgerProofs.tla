------------------------ MODULE PayrollLedgerProofs ------------------------
(***************************************************************************)
(* Theorems about the payroll contract, for every choice of its constants: *)
(* the configuration lock, the funds reserved for pending runs, and the    *)
(* tokens.                                                                 *)
(***************************************************************************)
EXTENDS PayrollProofs, SumTheorems

\* Zenon proves the leaves of the proofs that name no prover; those that need
\* arithmetic, records or sequences name the SMT solver.
USE Zenon

----------------------------------------------------------------------------
(***************************************************************************)
(* The counter behind the configuration lock.                              *)
(***************************************************************************)
\* The pending runs are finite in number.
LEMMA PendingFinite == IsFiniteSet(Pending) /\ Cardinality(Pending) \in Nat
<1>1. IsFiniteSet(RunId)
  BY NumberAssumption, FS_Interval, SMT DEF RunId
<1>2. Pending \subseteq RunId
  BY DEF Pending
<1> QED
  BY <1>1, <1>2, FS_Subset, FS_CardinalityType

\* Every operation moves the counter and the set of pending runs together.
LEMMA PendingCountStep ==
  TypeOK /\ RunPartition /\ PendingCountExact /\ [Next]_vars => PendingCountExact'
<1> SUFFICES ASSUME TypeOK, RunPartition, PendingCountExact, [Next]_vars
             PROVE  PendingCountExact'
  OBVIOUS
<1> USE DEF PendingCountExact
<1>t. RunTypeOK /\ RoleTypeOK
  BY DEF TypeOK
<1>1. ASSUME NEW total \in Total, NEW n \in Nonce, NEW d \in DraftHash \cup {None},
             PreparePayrollRun(total, n, d)
      PROVE  PendingCountExact'
  <2> DEFINE id == runCounter + 1
  <2>1. [admin |-> admin, total |-> total, nonce |-> n, draft |-> d] # None
    BY <1>t, NewPending
  <2>2. id \in RunId /\ id \notin Pending
    <3>1. id \in RunId
      BY <1>1 DEF PreparePayrollRun
    <3>2. ~(id <= runCounter)
      BY <1>t, SMT DEF RunTypeOK
    <3> HIDE DEF id
    <3> QED
      BY <3>1, <3>2 DEF RunPartition
  <2>3. Pending' = Pending \cup {id}
    <3> DEFINE run == [admin |-> admin, total |-> total, nonce |-> n, draft |-> d]
    <3>1. pendingRun' = [pendingRun EXCEPT ![id] = run] /\ run # None
      BY <1>1, <2>1 DEF PreparePayrollRun
    <3> HIDE DEF run, id
    <3> QED
      BY <1>t, <2>2, <3>1 DEF Pending, RunTypeOK
  <2>4. Cardinality(Pending') = Cardinality(Pending) + 1
    BY <2>2, <2>3, PendingFinite, FS_AddElement
  <2> QED
    BY <1>1, <2>4 DEF PreparePayrollRun
<1>2. ASSUME NEW r \in RunId, FinalizePayrollRun(r) \/ CancelPayrollRun(r)
      PROVE  PendingCountExact'
  <2>1. /\ r \in Pending
        /\ RemovePending(r)
        /\ pendingRunCount' = ResolvedRunCount
    BY <1>2 DEF FinalizePayrollRun, CancelPayrollRun, CanCancel, Pending
  <2>2. Pending' = Pending \ {r}
    BY <1>t, <2>1 DEF RemovePending, Pending, RunTypeOK
  <2>3. Cardinality(Pending') = Cardinality(Pending) - 1
    BY <2>1, <2>2, PendingFinite, FS_RemoveElement
  <2>4. Cardinality(Pending) > 0
    BY <2>1, PendingFinite, FS_EmptySet, SMT
  <2> QED
    BY <2>1, <2>3, <2>4, PendingFinite DEF ResolvedRunCount
<1>3. ASSUME UNCHANGED <<pendingRun, pendingRunCount>> PROVE PendingCountExact'
  BY <1>3 DEF Pending
<1>4. CASE RunNext
  <2>1. ASSUME NEW total \in Total, NEW n \in Nonce, NEW d \in DraftHash \cup {None},
               NEW payees \in SUBSET Employee, NEW pay \in [payees -> Total],
               BatchProcessPayroll(pay, total, n, d)
        PROVE  PendingCountExact'
    BY <1>3, <2>1 DEF BatchProcessPayroll
  <2>2. ASSUME NEW r \in RunId, NEW s \in ReconciliationInput, UpdateReconciliationStatus(r, s)
        PROVE  PendingCountExact'
    BY <1>3, <2>2 DEF UpdateReconciliationStatus
  <2>3. ASSUME NEW r \in RunId, NEW s \in HookState, TransitionPayrollRunState(r, s)
        PROVE  PendingCountExact'
    BY <1>3, <2>3 DEF TransitionPayrollRunState
  <2>4. ASSUME NEW d \in DraftHash, CommitDraft(d) PROVE PendingCountExact'
    BY <1>3, <2>4 DEF CommitDraft, runVars, recordVars
  <2>5. ASSUME NEW r \in RunId, NEW h \in DraftHash, SetRunMetadata(r, h)
        PROVE  PendingCountExact'
    BY <1>3, <2>5 DEF SetRunMetadata
  <2> QED
    BY <1>1, <1>2, <1>4, <2>1, <2>2, <2>3, <2>4, <2>5 DEF RunNext
<1>5. CASE FundNext \/ RoleNext \/ ConfigNext \/ ReviewNext \/ EnvNext \/ UNCHANGED vars
  BY <1>3, <1>5, RecordFrame DEF recordVars
<1> QED
  BY <1>4, <1>5 DEF Next

\* The counter that require_no_active_payroll_run reads is the number of
\* pending runs.
THEOREM PendingCountHolds == Spec => []PendingCountExact
<1>1. Init => PendingCountExact
  BY FS_EmptySet DEF Init, PendingCountExact, Pending
<1> QED
  BY <1>1, PendingCountStep, RunPartitionHolds, TypeCorrect, PTL DEF Spec

\* No operation changes the locked configuration while a run is pending.
LEMMA ConfigStableStep == PendingCountExact /\ [Next]_vars => [ConfigStable]_vars
<1> SUFFICES ASSUME PendingCountExact, [Next]_vars, Pending # {} PROVE
             UNCHANGED <<treasuryOwner, allowedAsset, supportedAssets, companyState>>
  BY DEF ConfigStable
<1>1. ~NoActivePayrollRun
  BY PendingFinite, FS_EmptySet DEF NoActivePayrollRun, PendingCountExact
<1>2. CASE RoleNext
  <2>1. treasuryOwner' = treasuryOwner
    BY <1>1, <1>2
    DEF RoleNext, ProposeAdminRotation, AcceptAdminRotation, CancelAdminRotation,
        ProposeTreasuryRotation, AcceptTreasuryRotation, CancelTreasuryRotation,
        RequestAdminHandover, AcceptAdminHandover, CancelAdminHandover
  <2> QED
    BY <1>2, <2>1, RoleFrame DEF configVars
<1>3. CASE ConfigNext
  <2>1. UNCHANGED <<allowedAsset, supportedAssets, companyState>>
    BY <1>1, <1>3 DEF ConfigNext, SetPauseManager, SetAssetAllowed, SetCompanyState
  <2> QED
    BY <1>3, <2>1, ConfigFrame DEF roleVars
<1>4. CASE RunNext \/ FundNext \/ ReviewNext \/ EnvNext \/ UNCHANGED vars
  BY <1>4, RunFrame, FundFrame, ReviewFrame, EnvFrame, SMT DEF vars, roleVars, configVars
<1> QED
  BY <1>2, <1>3, <1>4 DEF Next

\* While a run is pending, the treasury owner, the payout allowlist and the
\* company state stay as they are: require_no_active_payroll_run guards every
\* operation that changes them, for any number of runs and administrators.
THEOREM ConfigLockHolds == Spec => ConfigLocked
  BY ConfigStableStep, PendingCountHolds, PTL DEF Spec, ConfigLocked

----------------------------------------------------------------------------
(***************************************************************************)
(* Reservations and tokens.                                                *)
(***************************************************************************)
\* What a step that prepares a run, resolves a run, or does neither means for
\* the reservations.
Prepares(r, total) ==
    /\ r = runCounter + 1 /\ r \in RunId /\ r \notin Pending
    /\ Pending' = Pending \cup {r}
    /\ pendingRun'[r].total = total
    /\ \A q \in Pending : pendingRun'[q] = pendingRun[q]
    /\ lockedFunds' = lockedFunds + total
    /\ directLock' = directLock

Resolves(r) ==
    /\ r \in Pending
    /\ Pending' = Pending \ {r}
    /\ \A q \in Pending' : pendingRun'[q] = pendingRun[q]
    /\ lockedFunds' = lockedFunds - pendingRun[r].total
    /\ directLock' = directLock

\* prepare_payroll_run adds its run to the pending ones, with its total.
LEMMA PrepareReserves ==
  ASSUME TypeOK, RunPartition, NEW total \in Total, NEW n \in Nonce,
         NEW d \in DraftHash \cup {None}, PreparePayrollRun(total, n, d)
  PROVE  Prepares(runCounter + 1, total)
<1> DEFINE id == runCounter + 1
           run == [admin |-> admin, total |-> total, nonce |-> n, draft |-> d]
<1>t. RunTypeOK /\ RoleTypeOK
  BY DEF TypeOK
<1>1. run # None /\ run.total = total
  BY <1>t, NewPending
<1>2. id \in RunId
  BY DEF PreparePayrollRun
<1>3. id \notin Pending
  <2>1. ~(id <= runCounter)
    BY <1>t, SMT DEF RunTypeOK
  <2> HIDE DEF id
  <2> QED
    BY <1>2, <2>1 DEF RunPartition
<1>4. /\ pendingRun' = [pendingRun EXCEPT ![id] = run]
      /\ lockedFunds' = lockedFunds + total /\ directLock' = directLock
  BY DEF PreparePayrollRun, AddLockedFunds
<1>5. id = runCounter + 1
  OBVIOUS
<1> HIDE DEF run, id
<1>6. Pending' = Pending \cup {id}
  BY <1>t, <1>1, <1>2, <1>4, SMT DEF Pending, RunTypeOK
<1>7. pendingRun'[id].total = total /\ \A q \in Pending : pendingRun'[q] = pendingRun[q]
  BY <1>t, <1>1, <1>2, <1>3, <1>4, SMT DEF Pending, RunTypeOK
<1> QED
  BY <1>2, <1>3, <1>4, <1>5, <1>6, <1>7, SMT DEF Prepares

\* finalize_payroll_run and cancel_payroll_run take one run out of the pending
\* ones and release its total.
LEMMA ResolveReleases ==
  ASSUME TypeOK, NEW r \in RunId, FinalizePayrollRun(r) \/ CancelPayrollRun(r)
  PROVE  Resolves(r)
<1>t. RunTypeOK
  BY DEF TypeOK
<1>1. /\ r \in Pending /\ RemovePending(r) /\ SubtractLockedFunds(pendingRun[r].total)
      /\ directLock' = directLock
  BY DEF FinalizePayrollRun, CancelPayrollRun, CanCancel, Pending
<1>2. Pending' = Pending \ {r} /\ \A q \in Pending' : pendingRun'[q] = pendingRun[q]
  BY <1>t, <1>1 DEF RemovePending, Pending, RunTypeOK
<1> QED
  BY <1>1, <1>2 DEF Resolves, SubtractLockedFunds

\* Every operation does one of the three.
LEMMA ReservationCases ==
  ASSUME TypeOK, RunPartition, [Next]_vars
  PROVE  \/ \E r \in RunId, total \in Total : Prepares(r, total)
         \/ \E r \in RunId : Resolves(r)
         \/ KeepsReservations
<1> DEFINE Cases == \/ \E r \in RunId, total \in Total : Prepares(r, total)
                    \/ \E r \in RunId : Resolves(r)
                    \/ KeepsReservations
<1> SUFFICES Cases
  OBVIOUS
<1>1. ASSUME NEW total \in Total, NEW n \in Nonce, NEW d \in DraftHash \cup {None},
             PreparePayrollRun(total, n, d)
      PROVE  Cases
  <2>1. runCounter + 1 \in RunId
    BY <1>1 DEF PreparePayrollRun
  <2> QED
    BY <1>1, <2>1, PrepareReserves
<1>2. ASSUME NEW r \in RunId, FinalizePayrollRun(r) \/ CancelPayrollRun(r) PROVE Cases
  BY <1>2, ResolveReleases
<1>3. ASSUME UNCHANGED <<pendingRun, lockedFunds, directLock>> PROVE Cases
  BY <1>3 DEF KeepsReservations
<1>4. CASE RunNext
  <2>1. ASSUME NEW pay, NEW total, NEW n, NEW d, BatchProcessPayroll(pay, total, n, d)
        PROVE  Cases
    BY <1>3, <2>1 DEF BatchProcessPayroll, lockVars
  <2>2. ASSUME NEW r, NEW s, UpdateReconciliationStatus(r, s) PROVE Cases
    BY <1>3, <2>2 DEF UpdateReconciliationStatus, fundVars, lockVars
  <2>3. ASSUME NEW r, NEW s, TransitionPayrollRunState(r, s) PROVE Cases
    BY <1>3, <2>3 DEF TransitionPayrollRunState, fundVars, lockVars
  <2>4. ASSUME NEW d, CommitDraft(d) PROVE Cases
    BY <1>3, <2>4 DEF CommitDraft, runVars, recordVars, fundVars, lockVars
  <2>5. ASSUME NEW r, NEW h, SetRunMetadata(r, h) PROVE Cases
    BY <1>3, <2>5 DEF SetRunMetadata, fundVars, lockVars
  <2> HIDE DEF Cases
  <2> QED
    BY <1>1, <1>2, <1>4, <2>1, <2>2, <2>3, <2>4, <2>5 DEF RunNext
<1>5. CASE FundNext
  <2>1. ASSUME NEW amount \in LockInput,
               CallAddLockedFunds(amount) \/ CallSubtractLockedFunds(amount)
        PROVE  Cases
    <3>1. lockedFunds \in Int /\ directLock \in Int /\ amount \in Int
      BY NumberAssumption DEF TypeOK, FundTypeOK
    <3>2. lockedFunds' - directLock' = lockedFunds - directLock
      BY <2>1, <3>1, SMT DEF CallAddLockedFunds, AddLockedFunds, CallSubtractLockedFunds,
                        SubtractLockedFunds
    <3> QED
      BY <1>5, <3>2, FundFrame DEF KeepsReservations, runVars, recordVars
  <2>2. ASSUME NEW id, NEW amount, Deposit(id, amount) PROVE Cases
    BY <1>3, <2>2 DEF Deposit, runVars, recordVars, lockVars
  <2>3. ASSUME NEW amount, RequestEmergencyWithdrawal(amount) PROVE Cases
    BY <1>3, <2>3 DEF RequestEmergencyWithdrawal, runVars, recordVars, lockVars
  <2>4. CASE ApproveEmergencyWithdrawal
    BY <1>3, <2>4 DEF ApproveEmergencyWithdrawal, runVars, recordVars, lockVars
  <2>5. CASE CancelEmergencyWithdrawal
    BY <1>3, <2>5 DEF CancelEmergencyWithdrawal, runVars, recordVars, lockVars
  <2> HIDE DEF Cases
  <2> QED
    BY <1>5, <2>1, <2>2, <2>3, <2>4, <2>5 DEF FundNext
<1>6. CASE RoleNext \/ ConfigNext \/ ReviewNext \/ EnvNext \/ UNCHANGED vars
  BY <1>3, <1>6, RoleFrame, ConfigFrame, ReviewFrame, EnvFrame
  DEF vars, runVars, recordVars, fundVars, lockVars
<1> QED
  BY <1>4, <1>5, <1>6 DEF Next

\* Every operation moves the locked funds with the totals of the pending runs.
LEMMA ReservationsStep ==
  TypeOK /\ RunPartition /\ ReservationsBalance /\ [Next]_vars => ReservationsBalance'
<1> SUFFICES ASSUME TypeOK, RunPartition, ReservationsBalance, [Next]_vars
             PROVE  ReservationsBalance'
  OBVIOUS
<1> DEFINE f == [r \in Pending |-> pendingRun[r].total]
           g == [r \in Pending' |-> pendingRun'[r].total]
<1>1. IsFiniteSet(Pending) /\ lockedFunds \in Int /\ directLock \in Int
  BY PendingFinite DEF TypeOK, FundTypeOK
<1>2. \A r \in Pending : f[r] \in Int
  BY PendingFields, TotalInt DEF TypeOK, Pending
<1>3. /\ ReservedTotal = SumFunctionOnSet(f, Pending)
      /\ ReservedTotal' = SumFunctionOnSet(g, Pending')
  BY DEF ReservedTotal
<1>4. SumFunctionOnSet(f, Pending) \in Int
  BY <1>1, <1>2, SumInt
<1>5. lockedFunds - directLock = SumFunctionOnSet(f, Pending)
  BY <1>3 DEF ReservationsBalance
<1>6. ASSUME NEW r \in RunId, NEW total \in Total, Prepares(r, total)
      PROVE  ReservationsBalance'
  <2>1. /\ g[r] = total /\ \A q \in Pending : g[q] = f[q]
        /\ r \notin Pending /\ Pending' = Pending \cup {r}
        /\ lockedFunds' = lockedFunds + total /\ directLock' = directLock
    BY <1>6 DEF Prepares
  <2>2. total \in Int
    BY TotalInt
  <2> HIDE DEF f, g
  <2>3. SumFunctionOnSet(g, Pending) = SumFunctionOnSet(f, Pending)
    BY <1>1, <2>1, SumEqual
  <2>4. SumFunctionOnSet(g, Pending \cup {r}) = g[r] + SumFunctionOnSet(g, Pending)
    BY <1>1, <1>2, <2>1, <2>2, SumAdd
  <2>5. ReservedTotal' = total + SumFunctionOnSet(f, Pending)
    BY <1>3, <2>1, <2>3, <2>4
  <2> QED
    BY <1>1, <1>4, <1>5, <2>1, <2>2, <2>5, SMT DEF ReservationsBalance
<1>7. ASSUME NEW r \in RunId, Resolves(r) PROVE ReservationsBalance'
  <2>1. /\ f[r] = pendingRun[r].total /\ \A q \in Pending \ {r} : g[q] = f[q]
        /\ r \in Pending /\ Pending' = Pending \ {r}
        /\ lockedFunds' = lockedFunds - f[r] /\ directLock' = directLock
    BY <1>7 DEF Resolves
  <2> HIDE DEF f, g
  <2>2. IsFiniteSet(Pending \ {r})
    BY <1>1, FS_Subset
  <2>3. SumFunctionOnSet(g, Pending \ {r}) = SumFunctionOnSet(f, Pending \ {r})
    BY <2>1, <2>2, SumEqual
  <2>4. SumFunctionOnSet(f, Pending) = f[r] + SumFunctionOnSet(f, Pending \ {r})
    BY <1>1, <1>2, <2>1, SumRemove, SMT
  <2>5. ReservedTotal' = SumFunctionOnSet(f, Pending \ {r})
    BY <1>3, <2>1, <2>3
  <2>6. f[r] \in Int /\ SumFunctionOnSet(f, Pending \ {r}) \in Int
    BY <1>2, <2>1, <2>2, SumInt
  <2> QED
    BY <1>1, <1>5, <2>1, <2>4, <2>5, <2>6, SMT DEF ReservationsBalance
<1>8. CASE KeepsReservations
  BY <1>8 DEF KeepsReservations, ReservationsBalance, ReservedTotal, Pending
<1> QED
  BY <1>6, <1>7, <1>8, ReservationCases

\* The locked funds are, apart from direct calls, the sum of the totals of the
\* pending runs, for any number of runs and any totals.
THEOREM ReservationsBalanceHolds == Spec => []ReservationsBalance
<1>1. Init => ReservationsBalance
  <2> SUFFICES ASSUME Init PROVE ReservationsBalance
    OBVIOUS
  <2>1. Pending = {} /\ lockedFunds = 0 /\ directLock = 0
    BY DEF Init, Pending
  <2>2. ReservedTotal = 0
    BY <2>1, SumEmpty DEF ReservedTotal
  <2> QED
    BY <2>1, <2>2, SMT DEF ReservationsBalance
<1> QED
  BY <1>1, ReservationsStep, RunPartitionHolds, TypeCorrect, PTL DEF Spec

\* A withdrawal leaves the locked funds in the treasury.
LEMMA WithdrawalStep ==
  TypeOK /\ ReservationsBalance /\ [Next]_vars => [WithdrawalLeavesReserved]_vars
<1> SUFFICES ASSUME TypeOK, ReservationsBalance, [Next]_vars, withdrawn' # withdrawn
             PROVE  treasury' >= ReservedTotal + directLock
  BY DEF WithdrawalLeavesReserved
<1>1. CASE ApproveEmergencyWithdrawal
  <2>1. /\ treasury \in Int /\ lockedFunds \in Int /\ directLock \in Int
        /\ emergencyRequest \in Int
    BY <1>1, NumberAssumption, SMT DEF TypeOK, FundTypeOK, ApproveEmergencyWithdrawal
  <2>2. emergencyRequest <= treasury - lockedFunds /\ treasury' = treasury - emergencyRequest
    BY <1>1 DEF ApproveEmergencyWithdrawal, RequestStillAvailable, AvailableTreasuryBalance
  <2>3. ReservedTotal = lockedFunds - directLock
    BY DEF ReservationsBalance
  <2> QED
    BY <2>1, <2>2, <2>3, SMT
<1>2. CASE FundNext
  <2>1. ASSUME NEW id, NEW amount, Deposit(id, amount) PROVE FALSE
    BY <2>1 DEF Deposit
  <2>2. ASSUME NEW amount, RequestEmergencyWithdrawal(amount) PROVE FALSE
    BY <2>2 DEF RequestEmergencyWithdrawal, tokenVars
  <2>3. CASE CancelEmergencyWithdrawal
    BY <2>3 DEF CancelEmergencyWithdrawal, tokenVars
  <2>4. ASSUME NEW amount, CallAddLockedFunds(amount) \/ CallSubtractLockedFunds(amount)
        PROVE  FALSE
    BY <2>4 DEF CallAddLockedFunds, CallSubtractLockedFunds, tokenVars
  <2> QED
    BY <1>1, <1>2, <2>1, <2>2, <2>3, <2>4 DEF FundNext
<1>3. CASE RunNext \/ RoleNext \/ ConfigNext \/ ReviewNext \/ EnvNext \/ UNCHANGED vars
  BY <1>3, RunFrame, RoleFrame, ConfigFrame, ReviewFrame, EnvFrame
  DEF vars, fundVars, tokenVars
<1> QED
  BY <1>2, <1>3 DEF Next

\* approve_emergency_withdrawal never pays out funds that a pending run or a
\* direct call has reserved, however many runs were prepared since the request.
THEOREM WithdrawalKeepsReservationsHolds == Spec => WithdrawalKeepsReservations
  BY WithdrawalStep, ReservationsBalanceHolds, TypeCorrect, PTL
  DEF Spec, WithdrawalKeepsReservations

\* Every operation keeps the tokens in balance.
LEMMA TokensStep == TypeOK /\ TokensConserved /\ [Next]_vars => TokensConserved'
<1> SUFFICES ASSUME TypeOK, TokensConserved, [Next]_vars PROVE TokensConserved'
  OBVIOUS
<1>1. /\ treasury \in Int /\ withdrawn \in Int /\ companyBalance \in Int
      /\ InitialBalance \in Int /\ paid \in [Employee -> Nat] /\ IsFiniteSet(Employee)
  BY NumberAssumption, AddressAssumption, SMT DEF TypeOK, FundTypeOK
<1>2. PaidTotal \in Int
  BY <1>1, SumInt, SMT DEF PaidTotal
<1>3. ASSUME NEW total \in Total, NEW n \in Nonce, NEW d \in DraftHash \cup {None},
             NEW payees \in SUBSET Employee, NEW pay \in [payees -> Total],
             BatchProcessPayroll(pay, total, n, d)
      PROVE  TokensConserved'
  <2>1. /\ treasury' = treasury - total /\ withdrawn' = withdrawn
        /\ companyBalance' = companyBalance
        /\ total = SumFunctionOnSet(pay, payees)
        /\ paid' = [e \in Employee |-> IF e \in payees THEN paid[e] + pay[e] ELSE paid[e]]
    <3>1. DOMAIN pay = payees
      OBVIOUS
    <3> QED
      BY <1>3, <3>1 DEF BatchProcessPayroll, BatchTotal
  <2>2. \A e \in payees : pay[e] \in Int /\ paid'[e] = paid[e] + pay[e]
    BY <2>1, TotalInt
  <2>3. \A e \in Employee \ payees : paid'[e] = paid[e]
    BY <2>1
  <2>4. \A e \in Employee : paid[e] \in Int
    BY <1>1, SMT
  <2>5. SumFunctionOnSet(paid', Employee)
          = SumFunctionOnSet(paid, Employee) + SumFunctionOnSet(pay, payees)
    BY <1>1, <2>2, <2>3, <2>4, SumCredit, SMT
  <2>6. PaidTotal' = PaidTotal + total
    BY <2>1, <2>5 DEF PaidTotal
  <2>7. total \in Int
    BY TotalInt
  <2> QED
    BY <1>1, <1>2, <2>1, <2>6, <2>7, SMT DEF TokensConserved
<1>4. ASSUME UNCHANGED <<treasury, paid, withdrawn, companyBalance>> PROVE TokensConserved'
  BY <1>4 DEF TokensConserved, PaidTotal
<1>5. CASE RunNext
  <2>1. ASSUME NEW total, NEW n, NEW d, PreparePayrollRun(total, n, d) PROVE TokensConserved'
    BY <1>4, <2>1 DEF PreparePayrollRun, tokenVars
  <2>2. ASSUME NEW r, FinalizePayrollRun(r) \/ CancelPayrollRun(r) PROVE TokensConserved'
    BY <1>4, <2>2 DEF FinalizePayrollRun, CancelPayrollRun, tokenVars
  <2>3. ASSUME NEW r, NEW s, UpdateReconciliationStatus(r, s) PROVE TokensConserved'
    BY <1>4, <2>3 DEF UpdateReconciliationStatus, fundVars, tokenVars
  <2>4. ASSUME NEW r, NEW s, TransitionPayrollRunState(r, s) PROVE TokensConserved'
    BY <1>4, <2>4 DEF TransitionPayrollRunState, fundVars, tokenVars
  <2>5. ASSUME NEW d, CommitDraft(d) PROVE TokensConserved'
    BY <1>4, <2>5 DEF CommitDraft, fundVars, tokenVars
  <2>6. ASSUME NEW r, NEW h, SetRunMetadata(r, h) PROVE TokensConserved'
    BY <1>4, <2>6 DEF SetRunMetadata, fundVars, tokenVars
  <2> QED
    BY <1>3, <1>5, <2>1, <2>2, <2>3, <2>4, <2>5, <2>6 DEF RunNext
<1>6. CASE FundNext
  <2>1. ASSUME NEW id, NEW amount \in Total, Deposit(id, amount) PROVE TokensConserved'
    <3>1. /\ treasury' = treasury + amount /\ companyBalance' = companyBalance + amount
          /\ withdrawn' = withdrawn /\ paid' = paid
      BY <2>1 DEF Deposit, CreditDeposit
    <3>2. PaidTotal' = PaidTotal /\ amount \in Int
      BY <3>1, TotalInt DEF PaidTotal
    <3> QED
      BY <1>1, <1>2, <3>1, <3>2, SMT DEF TokensConserved
  <2>2. CASE ApproveEmergencyWithdrawal
    <3>1. /\ treasury' = treasury - emergencyRequest
          /\ withdrawn' = withdrawn + emergencyRequest
          /\ companyBalance' = companyBalance /\ paid' = paid
      BY <2>2 DEF ApproveEmergencyWithdrawal
    <3>2. PaidTotal' = PaidTotal
      BY <3>1 DEF PaidTotal
    <3>3. emergencyRequest \in Int
      BY <2>2, NumberAssumption, SMT DEF TypeOK, FundTypeOK, ApproveEmergencyWithdrawal
    <3> QED
      BY <1>1, <1>2, <3>1, <3>2, <3>3, SMT DEF TokensConserved
  <2>3. ASSUME NEW amount, RequestEmergencyWithdrawal(amount) PROVE TokensConserved'
    BY <1>4, <2>3 DEF RequestEmergencyWithdrawal, tokenVars
  <2>4. CASE CancelEmergencyWithdrawal
    BY <1>4, <2>4 DEF CancelEmergencyWithdrawal, tokenVars
  <2>5. ASSUME NEW amount, CallAddLockedFunds(amount) \/ CallSubtractLockedFunds(amount)
        PROVE  TokensConserved'
    BY <1>4, <2>5 DEF CallAddLockedFunds, CallSubtractLockedFunds, tokenVars
  <2> QED
    BY <1>6, <2>1, <2>2, <2>3, <2>4, <2>5 DEF FundNext
<1>7. CASE RoleNext \/ ConfigNext \/ ReviewNext \/ EnvNext \/ UNCHANGED vars
  BY <1>4, <1>7, RoleFrame, ConfigFrame, ReviewFrame, EnvFrame DEF vars, fundVars, tokenVars
<1> QED
  BY <1>5, <1>6, <1>7 DEF Next

\* Tokens are neither made nor lost by batches, deposits and withdrawals, for
\* any number of employees.
THEOREM TokensConservedHolds == Spec => []TokensConserved
<1>1. Init => TokensConserved
  <2> SUFFICES ASSUME Init PROVE TokensConserved
    OBVIOUS
  <2>1. /\ treasury = InitialBalance /\ withdrawn = 0 /\ companyBalance = 0
        /\ \A e \in Employee : paid[e] = 0
    BY DEF Init
  <2>2. PaidTotal = Cardinality(Employee) * 0
    BY <2>1, AddressAssumption, SumConstant, SMT DEF PaidTotal
  <2>3. Cardinality(Employee) \in Nat
    BY AddressAssumption, FS_CardinalityType
  <2> QED
    BY <2>1, <2>2, <2>3, NumberAssumption, SMT DEF TokensConserved
<1> QED
  BY <1>1, TokensStep, TypeCorrect, PTL DEF Spec

----------------------------------------------------------------------------
(***************************************************************************)
(* The two places an allowed asset is stored in.                           *)
(***************************************************************************)
\* set_asset_allowed changes the list and the flag alike, also when it is the
\* call that creates the list.
LEMMA AssetListStep ==
  ConfigTypeOK /\ SupportedAssetsAgree /\ [Next]_vars => SupportedAssetsAgree'
<1> SUFFICES ASSUME ConfigTypeOK, SupportedAssetsAgree, [Next]_vars PROVE SupportedAssetsAgree'
  OBVIOUS
<1>1. ASSUME NEW a \in AssetInput, NEW allow \in BOOLEAN, SetAssetAllowed(a, allow)
      PROVE  SupportedAssetsAgree'
  <2>1. /\ allowedAsset' = IF allow THEN allowedAsset \cup {a} ELSE allowedAsset \ {a}
        /\ supportedAssets'
             = UpdatedAssetList(SupportedAssetList(supportedAssets, allowedAsset'), a, allow)
    BY <1>1 DEF SetAssetAllowed
  <2>2. supportedAssets' = allowedAsset'
    BY <2>1 DEF UpdatedAssetList, SupportedAssetList, SupportedAssetsAgree
  <2>3. allowedAsset' \in SUBSET Asset
    BY <2>1, InputAssumption DEF ConfigTypeOK
  <2>4. allowedAsset' # None
    BY <2>3, NoneAssumption
  <2> QED
    BY <2>2, <2>4 DEF SupportedAssetsAgree, SupportedAssetList
<1>2. ASSUME UNCHANGED <<allowedAsset, supportedAssets>> PROVE SupportedAssetsAgree'
  BY <1>2 DEF SupportedAssetsAgree, SupportedAssetList
<1>3. CASE ConfigNext
  <2>1. ASSUME NEW p, SetPauseManager(p) PROVE SupportedAssetsAgree'
    BY <1>2, <2>1 DEF SetPauseManager
  <2>2. ASSUME NEW s, SetCompanyState(s) PROVE SupportedAssetsAgree'
    BY <1>2, <2>2 DEF SetCompanyState
  <2> QED
    BY <1>1, <1>3, <2>1, <2>2 DEF ConfigNext
<1>4. CASE RunNext \/ FundNext \/ RoleNext \/ ReviewNext \/ EnvNext \/ UNCHANGED vars
  BY <1>2, <1>4, RunFrame, FundFrame, RoleFrame, ReviewFrame, EnvFrame DEF vars, configVars
<1> QED
  BY <1>3, <1>4 DEF Next

\* get_supported_assets lists exactly the assets is_asset_allowed accepts, for
\* any number of assets and calls.
THEOREM SupportedAssetsAgreeHolds == Spec => []SupportedAssetsAgree
<1>1. Init => SupportedAssetsAgree
  BY DEF Init, SupportedAssetsAgree, SupportedAssetList
<1>2. TypeOK => ConfigTypeOK
  BY DEF TypeOK
<1> QED
  BY <1>1, <1>2, AssetListStep, TypeCorrect, PTL DEF Spec
=============================================================================
