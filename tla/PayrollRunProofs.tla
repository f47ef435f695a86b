------------------------- MODULE PayrollRunProofs --------------------------
(***************************************************************************)
(* Theorems about the payroll contract, for every choice of its constants: *)
(* the refinement of the ledger of runs (RunLedger), the nonces of runs    *)
(* and their records.                                                      *)
(***************************************************************************)
EXTENDS PayrollProofs

\* Zenon proves the leaves of the proofs that name no prover; those that need
\* arithmetic, records or sequences name the SMT solver.
USE Zenon

----------------------------------------------------------------------------
(***************************************************************************)
(* The refinement of the ledger of runs.                                   *)
(***************************************************************************)
\* The ledger's status and amount of a run, read off its records.
LedgerReads ==
    \A r \in RunId :
        /\ pendingRun[r] # None =>
             LedgerStatus[r] = "reserved" /\ LedgerAmount[r] = pendingRun[r].total
        /\ payrollRun[r] # None =>
             LedgerStatus[r] = "settled" /\ LedgerAmount[r] = payrollRun[r].total
        /\ cancelledBatch[r] # None =>
             LedgerStatus[r] = "released" /\ LedgerAmount[r] = cancelledBatch[r].total
        /\ pendingRun[r] = None /\ payrollRun[r] = None /\ cancelledBatch[r] = None =>
             LedgerStatus[r] = "free" /\ LedgerAmount[r] = 0

\* A run has one kind of record, which gives it one entry.
LEMMA LedgerReading == RunPartition => LedgerReads
<1> SUFFICES ASSUME RunPartition, NEW r \in RunId
             PROVE  /\ pendingRun[r] # None =>
                         LedgerStatus[r] = "reserved" /\ LedgerAmount[r] = pendingRun[r].total
                    /\ payrollRun[r] # None =>
                         LedgerStatus[r] = "settled" /\ LedgerAmount[r] = payrollRun[r].total
                    /\ cancelledBatch[r] # None =>
                         LedgerStatus[r] = "released" /\ LedgerAmount[r] = cancelledBatch[r].total
                    /\ pendingRun[r] = None /\ payrollRun[r] = None /\ cancelledBatch[r] = None =>
                         LedgerStatus[r] = "free" /\ LedgerAmount[r] = 0
  BY DEF LedgerReads
<1>1. /\ pendingRun[r] # None => payrollRun[r] = None /\ cancelledBatch[r] = None
      /\ payrollRun[r] # None => cancelledBatch[r] = None
  BY DEF RunPartition, Pending, Executed, Cancelled
<1> QED
  BY <1>1 DEF LedgerStatus, LedgerAmount

\* The same in the next state.
LEMMA LedgerReadingNext == RunPartition' => LedgerReads'
  BY LedgerReading, PTL

\* The two are functions of the run.
LEMMA LedgerFunctions ==
    /\ LedgerStatus = [r \in RunId |-> LedgerStatus[r]]
    /\ LedgerAmount = [r \in RunId |-> LedgerAmount[r]]
    /\ LedgerStatus' = [r \in RunId |-> LedgerStatus'[r]]
    /\ LedgerAmount' = [r \in RunId |-> LedgerAmount'[r]]
  BY SMT DEF LedgerStatus, LedgerAmount

\* Two states whose records agree for a run give it the same entry.
LEMMA LedgerSame ==
    ASSUME NEW r \in RunId, pendingRun'[r] = pendingRun[r], payrollRun'[r] = payrollRun[r],
           cancelledBatch'[r] = cancelledBatch[r]
    PROVE  LedgerStatus'[r] = LedgerStatus[r] /\ LedgerAmount'[r] = LedgerAmount[r]
  BY SMT DEF LedgerStatus, LedgerAmount

\* Handing out the next identifier is a start of the ledger.
LEMMA StartsRun ==
  ASSUME TypeOK, RunPartition, runCounter + 1 \in RunId,
         NEW s, NEW a,
         LedgerStatus'[runCounter + 1] = s, LedgerAmount'[runCounter + 1] = a,
         \A q \in RunId \ {runCounter + 1} :
             LedgerStatus'[q] = LedgerStatus[q] /\ LedgerAmount'[q] = LedgerAmount[q]
  PROVE  Ledger!Start(runCounter + 1, a, s)
<1> DEFINE id == runCounter + 1
<1>1. /\ runCounter \in Int /\ RunId \subseteq Int
      /\ ~(id <= runCounter) /\ \A q \in RunId : q < id => q <= runCounter
  BY NumberAssumption, SMT DEF TypeOK, RunTypeOK, RunId
<1>2. RunId = Ledger!Run
  BY DEF RunId, Ledger!Run
<1> HIDE DEF id
<1>3. id \in RunId
  BY DEF id
<1>4. LedgerStatus[id] = "free"
  BY <1>1, <1>3, LedgerReading DEF LedgerReads, RunPartition, Pending, Executed, Cancelled
<1>5. \A q \in RunId : q < id => LedgerStatus[q] # "free"
  <2> SUFFICES ASSUME NEW q \in RunId, q < id PROVE LedgerStatus[q] # "free"
    OBVIOUS
  <2>1. pendingRun[q] # None \/ payrollRun[q] # None \/ cancelledBatch[q] # None
    BY <1>1 DEF RunPartition, Pending, Executed, Cancelled
  <2> QED
    BY <2>1, LedgerReading DEF LedgerReads
<1>6. /\ LedgerStatus' = [LedgerStatus EXCEPT ![id] = s]
      /\ LedgerAmount' = [LedgerAmount EXCEPT ![id] = a]
  BY <1>3, LedgerFunctions DEF id
<1> QED
  BY <1>2, <1>4, <1>5, <1>6 DEF id, Ledger!Start

\* Every operation is a step of the ledger or leaves it as it is.
LEMMA LedgerStep == TypeOK /\ RunPartition /\ [Next]_vars => [Ledger!Next]_(Ledger!ledgerVars)
<1> SUFFICES ASSUME TypeOK, RunPartition, [Next]_vars
             PROVE  Ledger!Next \/ UNCHANGED Ledger!ledgerVars
  BY DEF Ledger!ledgerVars
<1> DEFINE Step == Ledger!Next \/ UNCHANGED Ledger!ledgerVars
<1> SUFFICES Step
  OBVIOUS
<1>t. /\ RunTypeOK /\ RoleTypeOK
      /\ lockedFunds \in Int /\ directLock \in Int
  BY DEF TypeOK, FundTypeOK
<1>p. LedgerReads /\ LedgerReads'
  BY RunPartitionStep, LedgerReading, LedgerReadingNext
<1>r. RunId = Ledger!Run
  BY DEF RunId, Ledger!Run
<1>1. ASSUME NEW total \in Total, NEW n \in Nonce, NEW d \in DraftHash \cup {None},
             PreparePayrollRun(total, n, d)
      PROVE  Step
  <2> DEFINE id == runCounter + 1
             run == [admin |-> admin, total |-> total, nonce |-> n, draft |-> d]
  <2>1. run # None /\ run.total = total
    BY <1>t, NewPending
  <2>2. /\ id \in RunId /\ pendingRun' = [pendingRun EXCEPT ![id] = run]
        /\ UNCHANGED <<payrollRun, cancelledBatch>>
        /\ lockedFunds' = lockedFunds + total /\ directLock' = directLock
    BY <1>1 DEF PreparePayrollRun, AddLockedFunds
  <2> HIDE DEF run
  <2>3. pendingRun'[id] = run
    BY <1>t, <2>2 DEF RunTypeOK
  <2>4. LedgerStatus'[id] = "reserved" /\ LedgerAmount'[id] = total
    <3>1. pendingRun'[id] # None /\ pendingRun'[id].total = total
      BY <2>1, <2>3
    <3>2. \A q \in RunId : pendingRun'[q] # None =>
            LedgerStatus'[q] = "reserved" /\ LedgerAmount'[q] = pendingRun'[q].total
      BY <1>p DEF LedgerReads
    <3>3. id \in RunId
      BY <2>2
    <3> HIDE DEF id
    <3> QED
      BY <3>1, <3>2, <3>3
  <2>5. ASSUME NEW q \in RunId \ {id}
        PROVE  LedgerStatus'[q] = LedgerStatus[q] /\ LedgerAmount'[q] = LedgerAmount[q]
    <3>1. /\ pendingRun'[q] = pendingRun[q] /\ payrollRun'[q] = payrollRun[q]
          /\ cancelledBatch'[q] = cancelledBatch[q]
      BY <1>t, <2>2 DEF RunTypeOK
    <3> QED
      BY <3>1, LedgerSame
  <2>6. Ledger!Start(id, total, "reserved")
    BY <2>2, <2>4, <2>5, StartsRun
  <2>7. lockedFunds' - directLock' = (lockedFunds - directLock) + total
    BY <1>t, <2>2, TotalInt, SMT
  <2> HIDE DEF id
  <2>8. Ledger!Reserve(id, total)
    BY <2>6, <2>7 DEF Ledger!Reserve
  <2> QED
    BY <1>r, <2>2, <2>8 DEF Ledger!Next
<1>2. ASSUME NEW total \in Total, NEW n \in Nonce, NEW d \in DraftHash \cup {None},
             NEW payees \in SUBSET Employee, NEW pay \in [payees -> Total],
             BatchProcessPayroll(pay, total, n, d)
      PROVE  Step
  <2> DEFINE id == runCounter + 1
             run == NewRunRecord(total, n, d)
  <2>1. run # None /\ run.total = total
    BY <1>t, NewRecord DEF NewRunRecord
  <2>2. /\ id \in RunId /\ payrollRun' = [payrollRun EXCEPT ![id] = run]
        /\ UNCHANGED <<pendingRun, cancelledBatch, lockedFunds, directLock>>
    BY <1>2 DEF BatchProcessPayroll, lockVars
  <2> HIDE DEF run
  <2>3. payrollRun'[id] = run /\ pendingRun'[id] = None
    <3>1. ~(id <= runCounter)
      BY <1>t, SMT DEF RunTypeOK
    <3> HIDE DEF id
    <3> QED
      BY <1>t, <2>2, <3>1 DEF RunTypeOK, RunPartition, Pending
  <2>4. LedgerStatus'[id] = "settled" /\ LedgerAmount'[id] = total
    BY <2>1, <2>2, <2>3, <1>p, SMT DEF LedgerReads
  <2>5. ASSUME NEW q \in RunId \ {id}
        PROVE  LedgerStatus'[q] = LedgerStatus[q] /\ LedgerAmount'[q] = LedgerAmount[q]
    <3>1. /\ pendingRun'[q] = pendingRun[q] /\ payrollRun'[q] = payrollRun[q]
          /\ cancelledBatch'[q] = cancelledBatch[q]
      BY <1>t, <2>2 DEF RunTypeOK
    <3> QED
      BY <3>1, LedgerSame
  <2>6. Ledger!Start(id, total, "settled")
    BY <2>2, <2>4, <2>5, StartsRun
  <2>7. lockedFunds' - directLock' = lockedFunds - directLock
    BY <2>2
  <2> HIDE DEF id
  <2>8. Ledger!PayDirectly(id, total)
    BY <2>6, <2>7 DEF Ledger!PayDirectly
  <2> QED
    BY <1>r, <2>2, <2>8 DEF Ledger!Next
<1>3. ASSUME NEW r \in RunId, FinalizePayrollRun(r) \/ CancelPayrollRun(r) PROVE Step
  <2> DEFINE a == pendingRun[r].total
  <2>1. /\ pendingRun[r] # None /\ pendingRun' = [pendingRun EXCEPT ![r] = None]
        /\ lockedFunds' = lockedFunds - a /\ directLock' = directLock
    BY <1>3 DEF FinalizePayrollRun, CancelPayrollRun, CanCancel, RemovePending,
                SubtractLockedFunds
  <2>2. a \in Int
    BY <1>t, <2>1, PendingFields, TotalInt
  <2>3. payrollRun[r] = None /\ cancelledBatch[r] = None
    BY <2>1 DEF RunPartition, Pending, Executed, Cancelled
  <2>4. LedgerStatus[r] = "reserved" /\ LedgerAmount[r] = a
    BY <2>1, <1>p DEF LedgerReads
  <2>5. PICK s \in {"settled", "released"} :
          /\ LedgerStatus'[r] = s /\ LedgerAmount'[r] = a
          /\ \A q \in RunId \ {r} :
               payrollRun'[q] = payrollRun[q] /\ cancelledBatch'[q] = cancelledBatch[q]
    <3>1. CASE FinalizePayrollRun(r)
      <4> DEFINE run == NewRunRecord(a, pendingRun[r].nonce, pendingRun[r].draft)
      <4>1. run # None /\ run.total = a
        BY <1>t, <2>1, PendingFields, NewRecord DEF NewRunRecord
      <4>2. payrollRun' = [payrollRun EXCEPT ![r] = run] /\ cancelledBatch' = cancelledBatch
        BY <3>1 DEF FinalizePayrollRun
      <4> HIDE DEF run, a
      <4>3. pendingRun'[r] = None /\ payrollRun'[r] = run
        BY <1>t, <2>1, <4>2 DEF RunTypeOK
      <4>4. LedgerStatus'[r] = "settled" /\ LedgerAmount'[r] = a
        BY <4>1, <4>3, <1>p DEF LedgerReads
      <4>5. \A q \in RunId \ {r} :
              payrollRun'[q] = payrollRun[q] /\ cancelledBatch'[q] = cancelledBatch[q]
        BY <1>t, <4>2 DEF RunTypeOK
      <4> QED
        BY <4>4, <4>5
    <3>2. CASE CancelPayrollRun(r)
      <4> DEFINE run == [by |-> admin, total |-> a, draft |-> pendingRun[r].draft]
      <4>1. run # None /\ run.total = a
        BY <1>t, <2>1, PendingFields, NewCancelled
      <4>2. cancelledBatch' = [cancelledBatch EXCEPT ![r] = run] /\ payrollRun' = payrollRun
        BY <3>2 DEF CancelPayrollRun
      <4> HIDE DEF run, a
      <4>3. pendingRun'[r] = None /\ payrollRun'[r] = None /\ cancelledBatch'[r] = run
        BY <1>t, <2>1, <2>3, <4>2 DEF RunTypeOK
      <4>4. LedgerStatus'[r] = "released" /\ LedgerAmount'[r] = a
        BY <4>1, <4>3, <1>p DEF LedgerReads
      <4>5. \A q \in RunId \ {r} :
              payrollRun'[q] = payrollRun[q] /\ cancelledBatch'[q] = cancelledBatch[q]
        BY <1>t, <4>2 DEF RunTypeOK
      <4> QED
        BY <4>4, <4>5
    <3> QED
      BY <1>3, <3>1, <3>2
  <2> HIDE DEF a
  <2>6. ASSUME NEW q \in RunId \ {r}
        PROVE  LedgerStatus'[q] = LedgerStatus[q] /\ LedgerAmount'[q] = LedgerAmount[q]
    <3>1. /\ pendingRun'[q] = pendingRun[q] /\ payrollRun'[q] = payrollRun[q]
          /\ cancelledBatch'[q] = cancelledBatch[q]
      BY <1>t, <2>1, <2>5 DEF RunTypeOK
    <3> QED
      BY <3>1, LedgerSame
  <2>7. LedgerStatus' = [LedgerStatus EXCEPT ![r] = s] /\ LedgerAmount' = LedgerAmount
    BY <2>4, <2>5, <2>6, LedgerFunctions, SMT
  <2>8. lockedFunds' - directLock' = (lockedFunds - directLock) - LedgerAmount[r]
    BY <1>t, <2>1, <2>2, <2>4, SMT
  <2>9. Ledger!Resolve(r, s)
    BY <2>4, <2>7, <2>8 DEF Ledger!Resolve
  <2>10. s = "settled" \/ s = "released"
    BY <2>5
  <2> QED
    BY <1>r, <2>9, <2>10 DEF Ledger!Next
<1>4. ASSUME KeepsReservations, cancelledBatch' = cancelledBatch,
             \A q \in RunId : \/ payrollRun'[q] = payrollRun[q]
                              \/ /\ payrollRun[q] # None /\ payrollRun'[q] # None
                                 /\ payrollRun'[q].total = payrollRun[q].total
      PROVE  Step
  <2>1. ASSUME NEW q \in RunId
        PROVE  LedgerStatus'[q] = LedgerStatus[q] /\ LedgerAmount'[q] = LedgerAmount[q]
    <3>1. CASE payrollRun'[q] = payrollRun[q]
      BY <1>4, <3>1, LedgerSame DEF KeepsReservations
    <3>2. CASE /\ payrollRun[q] # None /\ payrollRun'[q] # None
               /\ payrollRun'[q].total = payrollRun[q].total
      BY <1>4, <3>2, <1>p DEF LedgerReads, KeepsReservations
    <3> QED
      BY <1>4, <3>1, <3>2
  <2>2. LedgerStatus' = LedgerStatus /\ LedgerAmount' = LedgerAmount
    BY <2>1, LedgerFunctions
  <2>3. lockedFunds' - directLock' = lockedFunds - directLock
    BY <1>4 DEF KeepsReservations
  <2> QED
    BY <2>2, <2>3 DEF Ledger!ledgerVars
<1>5. ASSUME UNCHANGED <<recordVars, lockedFunds, directLock>> PROVE Step
  BY <1>4, <1>5 DEF KeepsReservations, recordVars
<1>6. CASE RunNext
  <2>1. ASSUME NEW r \in RunId, NEW s \in ReconciliationInput, UpdateReconciliationStatus(r, s)
        PROVE  Step
    <3> DEFINE run == [payrollRun[r] EXCEPT !.recon = s]
    <3>1. /\ payrollRun[r] # None /\ payrollRun' = [payrollRun EXCEPT ![r] = run]
          /\ UNCHANGED <<pendingRun, cancelledBatch, lockedFunds, directLock>>
      BY <2>1 DEF UpdateReconciliationStatus, fundVars, lockVars
    <3>2. payrollRun[r] \in PayrollRunRecord
      BY <1>t, <3>1 DEF RunTypeOK
    <3>3. run \in PayrollRunRecord /\ run.total = payrollRun[r].total
      BY <3>2, InputAssumption DEF PayrollRunRecord
    <3>4. run # None
      BY <3>3, NoneAssumption
    <3> HIDE DEF run
    <3> QED
      BY <1>t, <1>4, <3>1, <3>3, <3>4 DEF RunTypeOK, KeepsReservations
  <2>2. ASSUME NEW r \in RunId, NEW h \in DraftHash, SetRunMetadata(r, h) PROVE Step
    <3> DEFINE run == [payrollRun[r] EXCEPT !.metadata = h]
    <3>1. /\ payrollRun[r] # None /\ payrollRun' = [payrollRun EXCEPT ![r] = run]
          /\ UNCHANGED <<pendingRun, cancelledBatch, lockedFunds, directLock>>
      BY <2>2 DEF SetRunMetadata, fundVars, lockVars
    <3>2. payrollRun[r] \in PayrollRunRecord
      BY <1>t, <3>1 DEF RunTypeOK
    <3>3. run \in PayrollRunRecord /\ run.total = payrollRun[r].total
      BY <3>2 DEF PayrollRunRecord
    <3>4. run # None
      BY <3>3, NoneAssumption
    <3> HIDE DEF run
    <3> QED
      BY <1>t, <1>4, <3>1, <3>3, <3>4 DEF RunTypeOK, KeepsReservations
  <2>3. ASSUME NEW r, NEW s, TransitionPayrollRunState(r, s) PROVE Step
    BY <1>4, <2>3 DEF TransitionPayrollRunState, KeepsReservations, fundVars, lockVars
  <2>4. ASSUME NEW d, CommitDraft(d) PROVE Step
    BY <1>5, <2>4 DEF CommitDraft, runVars, fundVars, lockVars
  <2> HIDE DEF Step
  <2> QED
    BY <1>1, <1>2, <1>3, <1>6, <2>1, <2>2, <2>3, <2>4 DEF RunNext
<1>7. CASE FundNext
  <2>1. UNCHANGED recordVars
    BY <1>7, FundFrame DEF runVars
  <2>2. lockedFunds' - directLock' = lockedFunds - directLock
    <3>1. ASSUME NEW amount \in LockInput,
                 CallAddLockedFunds(amount) \/ CallSubtractLockedFunds(amount)
          PROVE  lockedFunds' - directLock' = lockedFunds - directLock
      BY <1>t, <3>1, NumberAssumption, SMT DEF CallAddLockedFunds, AddLockedFunds,
             CallSubtractLockedFunds, SubtractLockedFunds
    <3>2. CASE UNCHANGED <<lockedFunds, directLock>>
      BY <3>2
    <3>3. \/ UNCHANGED <<lockedFunds, directLock>>
          \/ \E amount \in LockInput : CallAddLockedFunds(amount) \/ CallSubtractLockedFunds(amount)
      BY <1>7 DEF FundNext, Deposit, RequestEmergencyWithdrawal, ApproveEmergencyWithdrawal,
                  CancelEmergencyWithdrawal, lockVars
    <3> QED
      BY <3>1, <3>2, <3>3
  <2> QED
    BY <1>4, <2>1, <2>2 DEF KeepsReservations, recordVars
<1>8. CASE RoleNext \/ ConfigNext \/ ReviewNext \/ EnvNext \/ UNCHANGED vars
  BY <1>5, <1>8, RoleFrame, ConfigFrame, ReviewFrame, EnvFrame
  DEF vars, runVars, fundVars, lockVars
<1> QED
  BY <1>6, <1>7, <1>8 DEF Next

\* The contract implements the ledger of runs: identifiers are used in order, a
\* run is reserved and resolved once or paid at once, its amount is fixed when
\* it starts, and reservations move only with runs.
THEOREM ImplementsLedgerHolds == Spec => ImplementsLedger
<1>1. Init => Ledger!Init
  <2> SUFFICES ASSUME Init PROVE Ledger!Init
    OBVIOUS
  <2>1. /\ \A r \in RunId : pendingRun[r] = None /\ payrollRun[r] = None /\ cancelledBatch[r] = None
        /\ lockedFunds = 0 /\ directLock = 0
    BY DEF Init
  <2>2. \A r \in RunId : LedgerStatus[r] = "free" /\ LedgerAmount[r] = 0
    BY <2>1 DEF LedgerStatus, LedgerAmount
  <2>3. LedgerStatus = [r \in RunId |-> "free"] /\ LedgerAmount = [r \in RunId |-> 0]
    BY <2>2, LedgerFunctions
  <2>4. RunId = Ledger!Run
    BY DEF RunId, Ledger!Run
  <2> QED
    BY <2>1, <2>3, <2>4, SMT DEF Ledger!Init
<1> QED
  BY <1>1, LedgerStep, RunPartitionHolds, TypeCorrect, PTL DEF Spec, ImplementsLedger, Ledger!Spec

----------------------------------------------------------------------------
(***************************************************************************)
(* Nonces.                                                                 *)
(***************************************************************************)
\* The nonce stored for an admin is at least every nonce of their runs; this
\* is what makes the order of nonces inductive.
LastNonce ==
    \A n \in Nonce :
        runNonce[n] # None =>
            LET a == preparer[runNonce[n]] IN
            /\ a \in Address
            /\ nonceSequence[a] # None
            /\ NonceValue(n) <= NonceValue(nonceSequence[a])

\* What the index of nonces says by itself, without the records of runs.
NonceIndex ==
    /\ \A m, n \in Nonce : runNonce[m] # None /\ runNonce[m] = runNonce[n] => m = n
    /\ \A n \in Nonce : runNonce[n] # None => runNonce[n] <= runCounter
    /\ NonceOrder
    /\ LastNonce

\* What the index says of the records.
NonceRecords ==
    /\ \A r \in Pending : runNonce[pendingRun[r].nonce] = r
    /\ \A r \in Executed : runNonce[payrollRun[r].nonce] = r

\* The value of a nonce is a natural number.
LEMMA NonceValueNat == \A n \in Nonce : NonceValue(n) \in Nat
  BY NumberAssumption DEF Nonce, NonceValue

\* Allocating the next identifier to a fresh nonce above the admin's last one
\* keeps the index, whoever is admin.
LEMMA AllocateKeepsIndex ==
  ASSUME RunTypeOK, RoleTypeOK, NonceIndex, NEW n \in Nonce,
         runCounter + 1 \in RunId, NonceFresh(n), NonceMonotone(n),
         AllocateRun(runCounter + 1, n)
  PROVE  NonceIndex'
<1> DEFINE id == runCounter + 1
<1>1. runCounter \in Nat /\ RunId \subseteq Nat /\ id \in RunId /\ id > runCounter
  BY NumberAssumption, SMT DEF RunTypeOK, RunId
<1>2. /\ runCounter' = id
      /\ \A m \in Nonce : runNonce'[m] = IF m = n THEN id ELSE runNonce[m]
      /\ \A a \in Address : nonceSequence'[a] = IF a = admin THEN n ELSE nonceSequence[a]
      /\ \A r \in RunId : preparer'[r] = IF r = id THEN admin ELSE preparer[r]
  BY DEF AllocateRun, RunTypeOK
<1>3. \A m \in Nonce : runNonce[m] # None =>
          runNonce[m] \in RunId /\ runNonce[m] <= runCounter /\ runNonce[m] # id
  BY <1>1, SMT DEF NonceIndex, RunTypeOK
<1>4. id # None /\ n # None /\ runNonce[n] = None /\ admin \in Address
  <2>1. None \notin Nonce /\ None \notin Int
    BY NoneAssumption
  <2>2. runNonce[n] = None /\ admin \in Address
    BY DEF NonceFresh, RoleTypeOK
  <2>3. id # None /\ n # None
    BY <2>1, <1>1, SMT
  <2> QED
    BY <2>2, <2>3
<1>5. \A a \in Address : nonceSequence[a] # None => nonceSequence[a] \in Nonce
  BY DEF RunTypeOK
<1>6. nonceSequence[admin] # None => NonceValue(n) > NonceValue(nonceSequence[admin])
  BY DEF NonceMonotone
<1>7. /\ \A m, k \in Nonce : runNonce[m] # None /\ runNonce[m] = runNonce[k] => m = k
      /\ NonceOrder /\ LastNonce
  BY DEF NonceIndex
<1> HIDE DEF id
<1>8. \A m \in Nonce : runNonce'[m] # None => runNonce'[m] <= runCounter'
  <2> SUFFICES ASSUME NEW m \in Nonce, runNonce'[m] # None PROVE runNonce'[m] <= id
    BY <1>2
  <2>1. CASE m = n
    <3>1. runNonce'[m] = id /\ id \in Nat
      BY <1>1, <1>2, <2>1
    <3> QED
      BY <3>1, SMT
  <2>2. CASE m # n
    <3>1. runNonce'[m] = runNonce[m] /\ runNonce[m] \in Nat /\ runNonce[m] <= runCounter
      BY <1>1, <1>2, <1>3, <2>2
    <3>2. runCounter \in Nat /\ id \in Nat /\ id > runCounter
      BY <1>1
    <3> QED
      BY <3>1, <3>2, SMT
  <2> QED
    BY <2>1, <2>2
<1>9. \A m, k \in Nonce : runNonce'[m] # None /\ runNonce'[m] = runNonce'[k] => m = k
  <2> SUFFICES ASSUME NEW m \in Nonce, NEW k \in Nonce,
                      runNonce'[m] # None, runNonce'[m] = runNonce'[k], m # k
               PROVE  FALSE
    OBVIOUS
  <2>1. CASE m # n /\ k # n
    <3>1. runNonce'[m] = runNonce[m] /\ runNonce'[k] = runNonce[k]
      BY <1>2, <2>1
    <3> QED
      BY <1>7, <3>1
  <2>2. CASE m = n /\ k # n
    <3>1. runNonce'[k] = id /\ runNonce'[k] = runNonce[k]
      BY <1>2, <2>2
    <3> QED
      BY <1>3, <1>4, <3>1
  <2>3. CASE m # n /\ k = n
    <3>1. runNonce'[m] = id /\ runNonce'[m] = runNonce[m]
      BY <1>2, <2>3
    <3> QED
      BY <1>3, <1>4, <3>1
  <2> QED
    BY <2>1, <2>2, <2>3
<1>10. LastNonce'
  <2> SUFFICES ASSUME NEW m \in Nonce, runNonce'[m] # None
               PROVE  /\ preparer'[runNonce'[m]] \in Address
                      /\ nonceSequence'[preparer'[runNonce'[m]]] # None
                      /\ NonceValue(m) <= NonceValue(nonceSequence'[preparer'[runNonce'[m]]])
    BY DEF LastNonce, NonceValue
  <2>1. CASE m = n
    <3>1. preparer'[runNonce'[m]] = admin /\ nonceSequence'[admin] = n
      BY <1>1, <1>2, <1>4, <2>1
    <3> QED
      BY <1>4, <2>1, <3>1, NonceValueNat, SMT
  <2>2. CASE m # n
    <3> DEFINE a == preparer[runNonce[m]]
    <3>1. runNonce[m] # None /\ preparer'[runNonce'[m]] = a
      BY <1>2, <1>3, <2>2, SMT
    <3>2. a \in Address /\ nonceSequence[a] # None /\ NonceValue(m) <= NonceValue(nonceSequence[a])
      BY <1>7, <3>1 DEF LastNonce
    <3> HIDE DEF a
    <3>3. NonceValue(m) \in Nat /\ NonceValue(n) \in Nat /\ NonceValue(nonceSequence[a]) \in Nat
      BY <1>5, <3>2, NonceValueNat
    <3>4. CASE a = admin
      <4>1. nonceSequence'[a] = n
        BY <1>2, <1>4, <3>4
      <4>2. NonceValue(m) <= NonceValue(n)
        BY <1>6, <3>2, <3>3, <3>4, SMT
      <4> QED
        BY <1>4, <3>1, <3>2, <4>1, <4>2
    <3>5. CASE a # admin
      BY <1>2, <3>1, <3>2, <3>5
    <3> QED
      BY <3>4, <3>5
  <2> QED
    BY <2>1, <2>2
<1>11. NonceOrder'
  <2> SUFFICES ASSUME NEW m \in Nonce, NEW k \in Nonce,
                      runNonce'[m] # None, runNonce'[k] # None, runNonce'[m] < runNonce'[k],
                      preparer'[runNonce'[m]] = preparer'[runNonce'[k]]
               PROVE  NonceValue(m) < NonceValue(k)
    BY DEF NonceOrder, NonceValue
  <2>1. m # n
    <3> SUFFICES ASSUME m = n PROVE FALSE
      OBVIOUS
    <3>1. runNonce'[m] = id
      BY <1>2
    <3>2. runNonce'[k] \in Nat /\ runNonce'[k] <= id
      BY <1>1, <1>2, <1>3, <1>8
    <3>3. id \in Nat
      BY <1>1
    <3> HIDE DEF id
    <3> QED
      BY <3>1, <3>2, <3>3, SMT
  <2>2. runNonce[m] # None /\ preparer'[runNonce'[m]] = preparer[runNonce[m]]
    BY <1>2, <1>3, <2>1, SMT
  <2>3. CASE k = n
    <3>1. preparer[runNonce[m]] = admin
      BY <1>1, <1>2, <2>2, <2>3
    <3>2. nonceSequence[admin] # None /\ NonceValue(m) <= NonceValue(nonceSequence[admin])
      BY <1>7, <2>2, <3>1 DEF LastNonce
    <3>3. /\ NonceValue(m) \in Nat /\ NonceValue(n) \in Nat
          /\ NonceValue(nonceSequence[admin]) \in Nat
      BY <1>4, <1>5, <3>2, NonceValueNat
    <3> QED
      BY <1>6, <2>3, <3>2, <3>3, SMT
  <2>4. CASE k # n
    <3>1. /\ runNonce[k] # None /\ preparer'[runNonce'[k]] = preparer[runNonce[k]]
          /\ runNonce'[m] = runNonce[m] /\ runNonce'[k] = runNonce[k]
      BY <1>2, <1>3, <2>1, <2>4
    <3> QED
      BY <1>7, <2>2, <3>1 DEF NonceOrder
  <2> QED
    BY <2>3, <2>4
<1> QED
  BY <1>8, <1>9, <1>10, <1>11 DEF NonceIndex

\* A step that neither allocates a run nor changes the nonce in a record keeps
\* what the index says.
LEMMA SameNonces ==
  ASSUME NonceIndex, UNCHANGED nonceVars
  PROVE  NonceIndex'
  BY DEF NonceIndex, NonceOrder, LastNonce, NonceValue, nonceVars

\* Every operation keeps the index of nonces and what it says of the records.
LEMMA NonceStep ==
  TypeOK /\ RunPartition /\ NonceIndex /\ NonceRecords /\ [Next]_vars
  => NonceIndex' /\ NonceRecords'
<1> SUFFICES ASSUME TypeOK, RunPartition, NonceIndex, NonceRecords, [Next]_vars
             PROVE  NonceIndex' /\ NonceRecords'
  OBVIOUS
<1> USE DEF Pending, Executed
<1>t. RunTypeOK /\ RoleTypeOK
  BY DEF TypeOK
<1>n. /\ \A r \in RunId : pendingRun[r] # None =>
            pendingRun[r].nonce \in Nonce /\ runNonce[pendingRun[r].nonce] = r
      /\ \A r \in RunId : payrollRun[r] # None =>
            payrollRun[r].nonce \in Nonce /\ runNonce[payrollRun[r].nonce] = r
  <2>1. \A r \in RunId : pendingRun[r] # None => pendingRun[r] \in PendingPayrollRun
    BY <1>t DEF RunTypeOK
  <2>2. \A r \in RunId : payrollRun[r] # None => payrollRun[r] \in PayrollRunRecord
    BY <1>t DEF RunTypeOK
  <2> QED
    BY <2>1, <2>2 DEF NonceRecords, PendingPayrollRun, PayrollRunRecord
<1>a. ASSUME NEW n \in Nonce, runCounter + 1 \in RunId, NonceFresh(n), NonceMonotone(n),
             AllocateRun(runCounter + 1, n)
      PROVE  /\ NonceIndex'
             /\ runNonce'[n] = runCounter + 1
             /\ \A r \in RunId : pendingRun[r] # None => runNonce'[pendingRun[r].nonce] = r
             /\ \A r \in RunId : payrollRun[r] # None => runNonce'[payrollRun[r].nonce] = r
  <2>1. NonceIndex'
    BY <1>a, <1>t, AllocateKeepsIndex
  <2>2. \A m \in Nonce : runNonce'[m] = IF m = n THEN runCounter + 1 ELSE runNonce[m]
    BY <1>a, <1>t DEF AllocateRun, RunTypeOK
  <2>3. runNonce[n] = None /\ \A r \in RunId : r # None
    BY <1>a, NoneAssumption, NumberAssumption, SMT DEF NonceFresh, RunId
  <2> QED
    BY <1>n, <2>1, <2>2, <2>3
<1>1. ASSUME NEW total \in Total, NEW n \in Nonce, NEW d \in DraftHash \cup {None},
             PreparePayrollRun(total, n, d)
      PROVE  NonceIndex' /\ NonceRecords'
  <2> DEFINE run == [admin |-> admin, total |-> total, nonce |-> n, draft |-> d]
             id == runCounter + 1
  <2>1. /\ id \in RunId /\ NonceFresh(n) /\ NonceMonotone(n) /\ AllocateRun(id, n)
        /\ pendingRun' = [pendingRun EXCEPT ![id] = run] /\ payrollRun' = payrollRun
    BY <1>1 DEF PreparePayrollRun
  <2>2. run.nonce = n
    OBVIOUS
  <2>3. /\ NonceIndex'
        /\ runNonce'[n] = id
        /\ \A r \in RunId : pendingRun[r] # None => runNonce'[pendingRun[r].nonce] = r
        /\ \A r \in RunId : payrollRun[r] # None => runNonce'[payrollRun[r].nonce] = r
    BY <1>a, <2>1
  <2> HIDE DEF run, id
  <2>4. \A r \in RunId : pendingRun'[r] = IF r = id THEN run ELSE pendingRun[r]
    BY <1>t, <2>1 DEF RunTypeOK
  <2>5. \A r \in RunId : pendingRun'[r] # None => runNonce'[pendingRun'[r].nonce] = r
    BY <2>2, <2>3, <2>4
  <2>6. \A r \in RunId : payrollRun'[r] # None => runNonce'[payrollRun'[r].nonce] = r
    BY <2>1, <2>3
  <2> QED
    BY <2>3, <2>5, <2>6 DEF NonceRecords
<1>2. ASSUME NEW total \in Total, NEW n \in Nonce, NEW d \in DraftHash \cup {None},
             NEW payees \in SUBSET Employee, NEW pay \in [payees -> Total],
             BatchProcessPayroll(pay, total, n, d)
      PROVE  NonceIndex' /\ NonceRecords'
  <2> DEFINE run == NewRunRecord(total, n, d)
             id == runCounter + 1
  <2>1. /\ id \in RunId /\ NonceFresh(n) /\ NonceMonotone(n) /\ AllocateRun(id, n)
        /\ payrollRun' = [payrollRun EXCEPT ![id] = run] /\ pendingRun' = pendingRun
    BY <1>2 DEF BatchProcessPayroll
  <2>2. run.nonce = n
    BY DEF NewRunRecord
  <2>3. /\ NonceIndex'
        /\ runNonce'[n] = id
        /\ \A r \in RunId : pendingRun[r] # None => runNonce'[pendingRun[r].nonce] = r
        /\ \A r \in RunId : payrollRun[r] # None => runNonce'[payrollRun[r].nonce] = r
    BY <1>a, <2>1
  <2> HIDE DEF run, id
  <2>4. \A r \in RunId : payrollRun'[r] = IF r = id THEN run ELSE payrollRun[r]
    BY <1>t, <2>1 DEF RunTypeOK
  <2>5. \A r \in RunId : payrollRun'[r] # None => runNonce'[payrollRun'[r].nonce] = r
    BY <2>2, <2>3, <2>4
  <2>6. \A r \in RunId : pendingRun'[r] # None => runNonce'[pendingRun'[r].nonce] = r
    BY <2>1, <2>3
  <2> QED
    BY <2>3, <2>5, <2>6 DEF NonceRecords
<1>3. ASSUME NEW r \in RunId, FinalizePayrollRun(r) PROVE NonceIndex' /\ NonceRecords'
  <2> DEFINE run == NewRunRecord(pendingRun[r].total, pendingRun[r].nonce, pendingRun[r].draft)
  <2>1. /\ UNCHANGED nonceVars /\ pendingRun[r] # None
        /\ payrollRun' = [payrollRun EXCEPT ![r] = run]
        /\ pendingRun' = [pendingRun EXCEPT ![r] = None]
    BY <1>3 DEF FinalizePayrollRun, RemovePending
  <2>2. run.nonce = pendingRun[r].nonce
    BY DEF NewRunRecord
  <2> HIDE DEF run
  <2>3. \A q \in RunId : /\ payrollRun'[q] = IF q = r THEN run ELSE payrollRun[q]
                         /\ pendingRun'[q] = IF q = r THEN None ELSE pendingRun[q]
    BY <1>t, <2>1 DEF RunTypeOK
  <2>4. runNonce' = runNonce
    BY <2>1 DEF nonceVars
  <2>5. \A q \in RunId : payrollRun'[q] # None => runNonce'[payrollRun'[q].nonce] = q
    <3> SUFFICES ASSUME NEW q \in RunId, payrollRun'[q] # None
                 PROVE  runNonce[payrollRun'[q].nonce] = q
      BY <2>4
    <3>1. CASE q = r
      <4>1. payrollRun'[q] = run
        BY <2>3, <3>1
      <4>2. runNonce[pendingRun[r].nonce] = r
        BY <1>n, <2>1
      <4> QED
        BY <2>2, <3>1, <4>1, <4>2
    <3>2. CASE q # r
      <4>1. payrollRun'[q] = payrollRun[q]
        BY <2>3, <3>2
      <4> QED
        BY <1>n, <4>1
    <3> QED
      BY <3>1, <3>2
  <2>6. \A q \in RunId : pendingRun'[q] # None => runNonce'[pendingRun'[q].nonce] = q
    BY <1>n, <2>3, <2>4
  <2>7. NonceRecords'
    BY <2>5, <2>6 DEF NonceRecords
  <2> QED
    BY <2>1, <2>7, SameNonces
<1>4. ASSUME NEW r \in RunId, CancelPayrollRun(r) PROVE NonceIndex' /\ NonceRecords'
  <2>1. /\ UNCHANGED nonceVars /\ payrollRun' = payrollRun
        /\ pendingRun' = [pendingRun EXCEPT ![r] = None]
    BY <1>4 DEF CancelPayrollRun, RemovePending
  <2>2. NonceRecords'
    BY <1>n, <1>t, <2>1, SMT DEF NonceRecords, nonceVars, RunTypeOK
  <2> QED
    BY <2>1, <2>2, SameNonces
<1>5. ASSUME UNCHANGED <<nonceVars, pendingRun>>,
             \A r \in RunId : payrollRun'[r] # None =>
                 payrollRun[r] # None /\ payrollRun'[r].nonce = payrollRun[r].nonce
      PROVE  NonceIndex' /\ NonceRecords'
  BY <1>5, <1>n, SameNonces DEF NonceRecords, nonceVars
<1>6. ASSUME NEW r \in RunId, NEW status \in ReconciliationInput,
             UpdateReconciliationStatus(r, status)
      PROVE  NonceIndex' /\ NonceRecords'
  <2>1. /\ UNCHANGED <<nonceVars, pendingRun>> /\ payrollRun[r] # None
        /\ payrollRun' = [payrollRun EXCEPT ![r] = [payrollRun[r] EXCEPT !.recon = status]]
    BY <1>6 DEF UpdateReconciliationStatus
  <2>2. [payrollRun[r] EXCEPT !.recon = status].nonce = payrollRun[r].nonce
    BY <1>t, <2>1 DEF RunTypeOK, PayrollRunRecord
  <2> QED
    BY <1>t, <1>5, <2>1, <2>2 DEF RunTypeOK
<1>7. ASSUME NEW r \in RunId, NEW h \in DraftHash, SetRunMetadata(r, h)
      PROVE  NonceIndex' /\ NonceRecords'
  <2>1. /\ UNCHANGED <<nonceVars, pendingRun>> /\ payrollRun[r] # None
        /\ payrollRun' = [payrollRun EXCEPT ![r] = [payrollRun[r] EXCEPT !.metadata = h]]
    BY <1>7 DEF SetRunMetadata
  <2>2. [payrollRun[r] EXCEPT !.metadata = h].nonce = payrollRun[r].nonce
    BY <1>t, <2>1 DEF RunTypeOK, PayrollRunRecord
  <2> QED
    BY <1>t, <1>5, <2>1, <2>2 DEF RunTypeOK
<1>8. ASSUME NEW r \in RunId, NEW s \in HookState, TransitionPayrollRunState(r, s)
      PROVE  NonceIndex' /\ NonceRecords'
  BY <1>5, <1>8 DEF TransitionPayrollRunState
<1>9. ASSUME NEW d \in DraftHash, CommitDraft(d) PROVE NonceIndex' /\ NonceRecords'
  BY <1>5, <1>9 DEF CommitDraft, runVars, recordVars
<1>10. CASE FundNext \/ RoleNext \/ ConfigNext \/ ReviewNext \/ EnvNext \/ UNCHANGED vars
  BY <1>5, <1>10, RecordFrame DEF recordVars
<1>11. CASE RunNext
  BY <1>1, <1>2, <1>3, <1>4, <1>6, <1>7, <1>8, <1>9, <1>11 DEF RunNext
<1> QED
  BY <1>10, <1>11 DEF Next

\* No nonce is consumed before the first run.
LEMMA NonceInit == Init => NonceIndex /\ NonceRecords
<1> SUFFICES ASSUME Init PROVE NonceIndex /\ NonceRecords
  OBVIOUS
<1>1. /\ \A n \in Nonce : runNonce[n] = None
      /\ \A r \in RunId : pendingRun[r] = None /\ payrollRun[r] = None
  BY DEF Init
<1>2. NonceIndex
  BY <1>1 DEF NonceIndex, NonceOrder, LastNonce
<1>3. NonceRecords
  BY <1>1 DEF NonceRecords, Pending, Executed
<1> QED
  BY <1>2, <1>3

\* The index and the records agree in every reachable state.
LEMMA NonceInvariant == Spec => [](NonceIndex /\ NonceRecords)
  BY NonceInit, NonceStep, RunPartitionHolds, TypeCorrect, PTL DEF Spec

\* A consumed nonce names one run for ever and the record of a run carries the
\* nonce that names it, however prepare_payroll_run, batch_process_payroll and
\* the resolutions of runs follow one another (DataKey::RunNonce).
THEOREM NonceOnceHolds == Spec => []NonceOnce
<1>1. NonceIndex /\ NonceRecords => NonceOnce
  BY DEF NonceIndex, NonceRecords, NonceOnce
<1> QED
  BY <1>1, NonceInvariant, PTL

\* The runs one admin starts have increasing nonces in the order of their
\* identifiers, for any number of admins taking turns
\* (validate_nonce_monotonicity).
THEOREM NonceOrderHolds == Spec => []NonceOrder
<1>1. NonceIndex => NonceOrder
  BY DEF NonceIndex
<1> QED
  BY <1>1, NonceInvariant, PTL

----------------------------------------------------------------------------
(***************************************************************************)
(* Records and states of runs.                                             *)
(***************************************************************************)
\* What one operation owes the records of runs: their terms stay, a settled
\* run stays settled, and the canonical state keeps agreeing with them.
RecordsRespected ==
    TermsKept /\ SettledStays /\ (StateAgreesWithRecords => StateAgreesWithRecords')

\* Writing the record and the state of an identifier that had none respects
\* the other records, unless it claims a settlement.
LEMMA NewRunRespects ==
  ASSUME RunTypeOK, NEW id \in RunId, NEW s \in RunState,
         pendingRun[id] = None, payrollRun[id] = None, cancelledBatch[id] = None,
         payrollState' = [payrollState EXCEPT ![id] = s],
         cancelledBatch' = cancelledBatch,
         \A r \in RunId \ {id} : pendingRun'[r] = pendingRun[r] /\ payrollRun'[r] = payrollRun[r],
         payrollRun'[id] = None \/ payrollRun'[id].recon = "Unreconciled"
  PROVE  RecordsRespected
<1> USE DEF Pending, Executed, Cancelled
<1>1. \A r \in RunId : payrollState'[r] = IF r = id THEN s ELSE payrollState[r]
  BY DEF RunTypeOK
<1>2. TermsKept
  BY DEF TermsKept
<1>3. SettledStays
  BY <1>1 DEF SettledStays
<1>4. StateAgreesWithRecords => StateAgreesWithRecords'
  BY <1>1, SMT DEF StateAgreesWithRecords
<1> QED
  BY <1>2, <1>3, <1>4 DEF RecordsRespected

\* Every operation respects the records of runs.
LEMMA RecordStep == TypeOK /\ RunPartition /\ [Next]_vars => RecordsRespected
<1> SUFFICES ASSUME TypeOK, RunPartition, [Next]_vars PROVE RecordsRespected
  OBVIOUS
<1> USE DEF Pending, Executed, Cancelled
<1>t. RunTypeOK /\ RoleTypeOK
  BY DEF TypeOK
<1>p. \A r \in RunId :
        /\ pendingRun[r] # None => payrollRun[r] = None /\ cancelledBatch[r] = None
        /\ payrollRun[r] # None => cancelledBatch[r] = None
        /\ payrollRun[r] # None => PayrollRunState(r) = payrollState[r]
        /\ cancelledBatch[r] # None => PayrollRunState(r) = payrollState[r]
  <2>1. \A r \in RunId :
          /\ pendingRun[r] # None => payrollRun[r] = None /\ cancelledBatch[r] = None
          /\ payrollRun[r] # None => cancelledBatch[r] = None
    BY DEF RunPartition
  <2>2. \A r \in RunId : payrollRun[r] # None \/ cancelledBatch[r] # None => payrollState[r] # None
    BY DEF RunPartition
  <2> QED
    BY <2>1, <2>2 DEF PayrollRunState
<1>f. ASSUME runCounter + 1 \in RunId
      PROVE  /\ pendingRun[runCounter + 1] = None
             /\ payrollRun[runCounter + 1] = None
             /\ cancelledBatch[runCounter + 1] = None
  <2>1. runCounter \in Nat
    BY <1>t, SMT DEF RunTypeOK
  <2>2. ~(runCounter + 1 <= runCounter)
    BY <2>1, SMT
  <2> QED
    BY <1>f, <2>2 DEF RunPartition
<1>1. ASSUME NEW total \in Total, NEW n \in Nonce, NEW d \in DraftHash \cup {None},
             PreparePayrollRun(total, n, d)
      PROVE  RecordsRespected
  <2> DEFINE id == runCounter + 1
  <2>1. PICK run :
          /\ id \in RunId
          /\ pendingRun' = [pendingRun EXCEPT ![id] = run]
          /\ payrollState' = [payrollState EXCEPT ![id] = "Submitted"]
          /\ UNCHANGED <<payrollRun, cancelledBatch>>
    BY <1>1 DEF PreparePayrollRun, RecordRunState
  <2>2. pendingRun[id] = None /\ payrollRun[id] = None /\ cancelledBatch[id] = None
    BY <1>f, <2>1
  <2>3. "Submitted" \in RunState
    BY DEF RunState
  <2> HIDE DEF id
  <2>4. /\ \A r \in RunId \ {id} : pendingRun'[r] = pendingRun[r] /\ payrollRun'[r] = payrollRun[r]
        /\ payrollRun'[id] = None
    BY <1>t, <2>1, <2>2 DEF RunTypeOK
  <2> QED
    BY <1>t, <2>1, <2>2, <2>3, <2>4, NewRunRespects
<1>2. ASSUME NEW total \in Total, NEW n \in Nonce, NEW d \in DraftHash \cup {None},
             NEW payees \in SUBSET Employee, NEW pay \in [payees -> Total],
             BatchProcessPayroll(pay, total, n, d)
      PROVE  RecordsRespected
  <2> DEFINE id == runCounter + 1
             run == NewRunRecord(total, n, d)
  <2>1. /\ id \in RunId
        /\ payrollRun' = [payrollRun EXCEPT ![id] = run]
        /\ payrollState' = [payrollState EXCEPT ![id] = "ReconciliationRequired"]
        /\ UNCHANGED <<pendingRun, cancelledBatch>>
    BY <1>2 DEF BatchProcessPayroll, RecordRunState
  <2>r. run.recon = "Unreconciled"
    BY DEF NewRunRecord
  <2>2. pendingRun[id] = None /\ payrollRun[id] = None /\ cancelledBatch[id] = None
    BY <1>f, <2>1
  <2>3. "ReconciliationRequired" \in RunState
    BY DEF RunState
  <2> HIDE DEF id, run
  <2>4. /\ \A r \in RunId \ {id} : pendingRun'[r] = pendingRun[r] /\ payrollRun'[r] = payrollRun[r]
        /\ payrollRun'[id].recon = "Unreconciled"
    BY <1>t, <2>1, <2>2, <2>r DEF RunTypeOK
  <2> QED
    BY <1>t, <2>1, <2>2, <2>3, <2>4, NewRunRespects
<1>3. ASSUME NEW r \in RunId, FinalizePayrollRun(r) PROVE RecordsRespected
  <2> DEFINE run == NewRunRecord(pendingRun[r].total, pendingRun[r].nonce, pendingRun[r].draft)
  <2>1. /\ pendingRun[r] # None
        /\ payrollRun' = [payrollRun EXCEPT ![r] = run]
        /\ pendingRun' = [pendingRun EXCEPT ![r] = None]
        /\ payrollState' = [payrollState EXCEPT ![r] = "ReconciliationRequired"]
        /\ cancelledBatch' = cancelledBatch
    BY <1>3 DEF FinalizePayrollRun, RemovePending, RecordRunState
  <2>2. /\ run.total = pendingRun[r].total /\ run.nonce = pendingRun[r].nonce
        /\ run.draft = pendingRun[r].draft /\ run.recon = "Unreconciled"
    BY DEF NewRunRecord
  <2>3. run # None
    BY <1>t, <2>1, PendingFields, NewRecord
  <2> HIDE DEF run
  <2>4. \A q \in RunId :
          /\ payrollRun'[q] = IF q = r THEN run ELSE payrollRun[q]
          /\ pendingRun'[q] = IF q = r THEN None ELSE pendingRun[q]
          /\ payrollState'[q] = IF q = r THEN "ReconciliationRequired" ELSE payrollState[q]
    BY <1>t, <2>1 DEF RunTypeOK
  <2>5. payrollRun[r] = None /\ cancelledBatch[r] = None
    BY <1>p, <2>1
  <2>6. TermsKept
    BY <2>1, <2>2, <2>3, <2>4, <2>5, SMT DEF TermsKept
  <2>7. SettledStays
    BY <2>4, <2>5 DEF SettledStays
  <2>8. StateAgreesWithRecords => StateAgreesWithRecords'
    BY <2>1, <2>2, <2>4, <2>5, SMT DEF StateAgreesWithRecords
  <2> QED
    BY <2>6, <2>7, <2>8 DEF RecordsRespected
<1>4. ASSUME NEW r \in RunId, CancelPayrollRun(r) PROVE RecordsRespected
  <2> DEFINE status == [by |-> admin, total |-> pendingRun[r].total, draft |-> pendingRun[r].draft]
  <2>1. /\ pendingRun[r] # None
        /\ cancelledBatch' = [cancelledBatch EXCEPT ![r] = status]
        /\ pendingRun' = [pendingRun EXCEPT ![r] = None]
        /\ payrollState' = [payrollState EXCEPT ![r] = "Cancelled"]
        /\ payrollRun' = payrollRun
    BY <1>4 DEF CancelPayrollRun, CanCancel, RemovePending, RecordRunState
  <2>2. status # None
    BY <1>t, <2>1, PendingFields, NewCancelled
  <2>3. status.total = pendingRun[r].total /\ status.draft = pendingRun[r].draft
    OBVIOUS
  <2> HIDE DEF status
  <2>4. \A q \in RunId :
          /\ cancelledBatch'[q] = IF q = r THEN status ELSE cancelledBatch[q]
          /\ pendingRun'[q] = IF q = r THEN None ELSE pendingRun[q]
          /\ payrollState'[q] = IF q = r THEN "Cancelled" ELSE payrollState[q]
    BY <1>t, <2>1 DEF RunTypeOK
  <2>5. payrollRun[r] = None /\ cancelledBatch[r] = None
    BY <1>p, <2>1
  <2>6. TermsKept
    BY <2>1, <2>2, <2>3, <2>4, <2>5, SMT DEF TermsKept
  <2>7. SettledStays
    BY <2>1, <2>4, <2>5 DEF SettledStays
  <2>8. StateAgreesWithRecords => StateAgreesWithRecords'
    BY <2>1, <2>4, <2>5, SMT DEF StateAgreesWithRecords
  <2> QED
    BY <2>6, <2>7, <2>8 DEF RecordsRespected
<1>5. ASSUME NEW r \in RunId, NEW status \in ReconciliationInput,
             UpdateReconciliationStatus(r, status)
      PROVE  RecordsRespected
  <2> DEFINE run == [payrollRun[r] EXCEPT !.recon = status]
  <2>1. /\ payrollRun[r] # None
        /\ PayrollRunState(r) # "Completed"
        /\ payrollRun' = [payrollRun EXCEPT ![r] = run]
        /\ payrollState' = [payrollState EXCEPT ![r] = ReconciledState(status)]
        /\ UNCHANGED <<pendingRun, cancelledBatch>>
    BY <1>5 DEF UpdateReconciliationStatus, SettlementFinalized, RecordRunState
  <2>2. payrollRun[r] \in PayrollRunRecord
    BY <1>t, <2>1 DEF RunTypeOK
  <2>3. /\ run.admin = payrollRun[r].admin /\ run.total = payrollRun[r].total
        /\ run.nonce = payrollRun[r].nonce /\ run.draft = payrollRun[r].draft
        /\ run.recon = status
    BY <2>2 DEF PayrollRunRecord
  <2>4. run # None
    <3>1. run \in PayrollRunRecord
      BY <2>2, InputAssumption DEF PayrollRunRecord
    <3> QED
      BY <3>1, NoneAssumption
  <2>5. status = "Reconciled" => ReconciledState(status) = "Completed"
    BY DEF ReconciledState
  <2> HIDE DEF run
  <2>6. \A q \in RunId :
          /\ payrollRun'[q] = IF q = r THEN run ELSE payrollRun[q]
          /\ payrollState'[q] = IF q = r THEN ReconciledState(status) ELSE payrollState[q]
    BY <1>t, <2>1 DEF RunTypeOK
  <2>7. cancelledBatch[r] = None /\ payrollState[r] # "Completed"
    BY <1>p, <2>1
  <2>8. TermsKept
    BY <2>1, <2>3, <2>4, <2>6, SMT DEF TermsKept
  <2>9. SettledStays
    BY <2>6, <2>7 DEF SettledStays
  <2>10. StateAgreesWithRecords => StateAgreesWithRecords'
    <3> SUFFICES ASSUME StateAgreesWithRecords, NEW q \in RunId
                 PROVE  /\ payrollRun'[q] # None =>
                             (payrollRun'[q].recon = "Reconciled" => payrollState'[q] = "Completed")
                        /\ cancelledBatch'[q] # None => payrollState'[q] = "Cancelled"
      BY DEF StateAgreesWithRecords
    <3>1. CASE q = r
      BY <2>1, <2>3, <2>5, <2>6, <2>7, <3>1
    <3>2. CASE q # r
      BY <2>1, <2>6, <3>2, SMT DEF StateAgreesWithRecords
    <3> QED
      BY <3>1, <3>2
  <2> QED
    BY <2>8, <2>9, <2>10 DEF RecordsRespected
<1>6. ASSUME NEW r \in RunId, NEW s \in HookState, TransitionPayrollRunState(r, s)
      PROVE  RecordsRespected
  <2>1. /\ <<PayrollRunState(r), s>> \in AllowedTransitions
        /\ payrollState' = [payrollState EXCEPT ![r] = s]
        /\ UNCHANGED <<pendingRun, payrollRun, cancelledBatch>>
    BY <1>6 DEF TransitionPayrollRunState, RecordRunState
  <2>2. PayrollRunState(r) \notin {"Completed", "Cancelled"}
    BY <2>1 DEF AllowedTransitions
  <2>3. \A q \in RunId : payrollState'[q] = IF q = r THEN s ELSE payrollState[q]
    BY <1>t, <2>1 DEF RunTypeOK
  <2>4. payrollRun[r] # None \/ cancelledBatch[r] # None =>
          payrollState[r] \notin {"Completed", "Cancelled"}
    BY <1>p, <2>2
  <2>5. TermsKept
    BY <2>1 DEF TermsKept
  <2>6. SettledStays
    BY <2>1, <2>3, <2>4 DEF SettledStays
  <2>7. StateAgreesWithRecords => StateAgreesWithRecords'
    BY <2>1, <2>3, <2>4 DEF StateAgreesWithRecords
  <2> QED
    BY <2>5, <2>6, <2>7 DEF RecordsRespected
<1>7. ASSUME NEW r \in RunId, NEW h \in DraftHash, SetRunMetadata(r, h)
      PROVE  RecordsRespected
  <2> DEFINE run == [payrollRun[r] EXCEPT !.metadata = h]
  <2>1. /\ payrollRun[r] # None
        /\ payrollRun' = [payrollRun EXCEPT ![r] = run]
        /\ UNCHANGED <<pendingRun, cancelledBatch, payrollState>>
    BY <1>7 DEF SetRunMetadata
  <2>2. payrollRun[r] \in PayrollRunRecord
    BY <1>t, <2>1 DEF RunTypeOK
  <2>3. /\ run.admin = payrollRun[r].admin /\ run.total = payrollRun[r].total
        /\ run.nonce = payrollRun[r].nonce /\ run.draft = payrollRun[r].draft
        /\ run.recon = payrollRun[r].recon
    BY <2>2 DEF PayrollRunRecord
  <2>4. run # None
    <3>1. run \in PayrollRunRecord
      BY <2>2 DEF PayrollRunRecord
    <3> QED
      BY <3>1, NoneAssumption
  <2> HIDE DEF run
  <2>5. \A q \in RunId : payrollRun'[q] = IF q = r THEN run ELSE payrollRun[q]
    BY <1>t, <2>1 DEF RunTypeOK
  <2>6. TermsKept
    BY <2>1, <2>3, <2>4, <2>5 DEF TermsKept
  <2>7. SettledStays
    BY <2>1, <2>3, <2>5 DEF SettledStays
  <2>8. StateAgreesWithRecords => StateAgreesWithRecords'
    BY <2>1, <2>3, <2>5, SMT DEF StateAgreesWithRecords
  <2> QED
    BY <2>6, <2>7, <2>8 DEF RecordsRespected
<1>8. ASSUME UNCHANGED recordVars PROVE RecordsRespected
  BY <1>8 DEF RecordsRespected, TermsKept, SettledStays, StateAgreesWithRecords, recordVars
<1>9. ASSUME NEW d \in DraftHash, CommitDraft(d) PROVE RecordsRespected
  BY <1>8, <1>9 DEF CommitDraft, runVars
<1>10. CASE FundNext \/ RoleNext \/ ConfigNext \/ ReviewNext \/ EnvNext \/ UNCHANGED vars
  BY <1>8, <1>10, RecordFrame
<1>11. CASE RunNext
  BY <1>1, <1>2, <1>3, <1>4, <1>5, <1>6, <1>7, <1>9, <1>11 DEF RunNext
<1> QED
  BY <1>10, <1>11 DEF Next

\* The total, the nonce and the draft a run was prepared with are those of its
\* execution or cancellation record, and these records are permanent
\* (finalize_payroll_run, cancel_payroll_run, set_run_metadata).
THEOREM RunTermsHold == Spec => RunTermsKept
<1>1. TypeOK /\ RunPartition /\ [Next]_vars => [TermsKept]_vars
  BY RecordStep DEF RecordsRespected
<1> QED
  BY <1>1, RunPartitionHolds, TypeCorrect, PTL DEF Spec, RunTermsKept

\* Once an executed run is Completed, no operation changes its state or its
\* reconciliation status (update_reconciliation_status,
\* transition_payroll_run_state).
THEOREM SettlementFinalHolds == Spec => SettlementFinal
<1>1. TypeOK /\ RunPartition /\ [Next]_vars => [SettledStays]_vars
  BY RecordStep DEF RecordsRespected
<1> QED
  BY <1>1, RunPartitionHolds, TypeCorrect, PTL DEF Spec, SettlementFinal

\* A reconciled run is Completed and a cancelled one Cancelled, whatever the
\* conformance hook was asked to do.
THEOREM StateAgreesHolds == Spec => []StateAgreesWithRecords
<1>1. Init => StateAgreesWithRecords
  BY DEF Init, StateAgreesWithRecords, Executed, Cancelled
<1>2. TypeOK /\ RunPartition /\ StateAgreesWithRecords /\ [Next]_vars => StateAgreesWithRecords'
  BY RecordStep DEF RecordsRespected
<1> QED
  BY <1>1, <1>2, RunPartitionHolds, TypeCorrect, PTL DEF Spec
=============================================================================
