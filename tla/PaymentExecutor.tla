-------------------------- MODULE PaymentExecutor --------------------------
(***************************************************************************)
(* The payment executor (contracts/payment_executor/src/lib.rs) with the   *)
(* registry it asks for companies, the verifier it asks about proofs and   *)
(* the token it moves: payroll periods, single payments and batches.  A    *)
(* call that fails or returns an error has no effect, so only accepted     *)
(* payments are steps.  Ledger sequences of periods are stored and never   *)
(* read, and left out.                                                     *)
(***************************************************************************)
EXTENDS PayrollRegistry, ProofVerifier, FiniteSets, Functions

CONSTANTS
    Nullifier,
    Amount,          \* amounts a caller may pass
    DecimalsInput,   \* decimals the executor admin may configure
    ExecutorInput,   \* accounts that may claim the executor admin role
    InitialBalance,  \* what each treasury account holds at first
    MaxProofAge,     \* MAX_PROOF_AGE_SECONDS
    MaxPeriods       \* bound of the checked instance on the periods of all companies together

PeriodId == 1..MaxPeriods

PayrollPeriod == [created : Nat, closed : BOOLEAN, count : Nat]

PaymentRecord == [company : CompanyId, proof : Nullifier, time : Nat]

\* Employees are no treasuries: a treasury that pays itself is left out.
ASSUME ExecutorAssumption ==
    /\ Amount \subseteq Int
    /\ DecimalsInput \subseteq Nat
    /\ ExecutorInput \subseteq Account
    /\ InitialBalance \in Nat
    /\ MaxProofAge \in Nat
    /\ MaxPeriods \in Nat
    /\ Employee \cap Account = {}
    /\ None \notin PayrollPeriod \cup PaymentRecord
    /\ IsFiniteSet(Employee) /\ IsFiniteSet(Account)

VARIABLES
    executorAdmin,
    executorManagerSet,  \* whether the executor has a pause manager
    tokenAllowed,        \* the allowlist's entry for the token
    tokenDecimals,       \* 0 when not configured
    periodSequence,      \* the next period of a company
    period,
    payment,             \* by employee and period; the key has no company
    nullifiers,
    totalPaid,
    balance,             \* of the token
    committed,           \* employees with a commitment in salary_commitment
    receipt              \* history: the amount of each recorded payment

settingVars == <<executorAdmin, executorManagerSet, tokenAllowed, tokenDecimals>>
periodVars == <<periodSequence, period>>
paymentVars == <<payment, nullifiers, totalPaid, balance, receipt>>
executorVars == <<settingVars, periodVars, paymentVars>>
registryAll == <<registryVars, registryManagerSet, now, pauseVars>>
vars == <<executorVars, committed, registryAll, verifierVars>>

ExecutorNotPaused == executorManagerSet => ~IsPaused

----------------------------------------------------------------------------
(***************************************************************************)
(* Settings of the executor admin, which no pause stops.                   *)
(***************************************************************************)
SetExecutorAdmin(a) ==
    /\ executorAdmin = None
    /\ executorAdmin' = a
    /\ UNCHANGED <<executorManagerSet, tokenAllowed, tokenDecimals>>

SetExecutorPauseManager ==
    /\ executorAdmin # None
    /\ executorManagerSet' = TRUE
    /\ UNCHANGED <<executorAdmin, tokenAllowed, tokenDecimals>>

SetAssetAllowed(allowed) ==
    /\ executorAdmin # None
    /\ tokenAllowed' = allowed
    /\ UNCHANGED <<executorAdmin, executorManagerSet, tokenDecimals>>

SetAssetDecimals(decimals) ==
    /\ executorAdmin # None
    /\ decimals <= 18
    /\ tokenDecimals' = decimals
    /\ UNCHANGED <<executorAdmin, executorManagerSet, tokenAllowed>>

----------------------------------------------------------------------------
(***************************************************************************)
(* Periods.                                                                *)
(***************************************************************************)
\* Mutant: the previous period is not looked at.
PreviousClosed_Any(c, p) == p >= 1

PreviousClosed(c, p) ==
    p > 1 /\ period[c][p - 1] # None => period[c][p - 1].closed

CreatePeriod(c) ==
    LET p == periodSequence[c] IN
    /\ ExecutorNotPaused
    /\ Registered(c)
    /\ Cardinality({x \in CompanyId \X PeriodId : period[x[1]][x[2]] # None}) < MaxPeriods
    /\ p \in PeriodId
    /\ period[c][p] = None
    /\ PreviousClosed(c, p)
    /\ period' = [period EXCEPT ![c][p] = [created |-> now, closed |-> FALSE, count |-> 0]]
    /\ periodSequence' = [periodSequence EXCEPT ![c] = p + 1]
    /\ UNCHANGED <<settingVars, paymentVars>>

PeriodOpen(c, p) == period[c][p] # None /\ ~period[c][p].closed

ClosePeriod(c, p) ==
    /\ ExecutorNotPaused
    /\ Registered(c)
    /\ PeriodOpen(c, p)
    /\ period' = [period EXCEPT ![c][p].closed = TRUE]
    /\ UNCHANGED <<settingVars, periodSequence, paymentVars>>

----------------------------------------------------------------------------
(***************************************************************************)
(* Payments.  A batch is a sequence of single payments in one invocation:  *)
(* it succeeds when they all do, each after the ones before it, so no      *)
(* employee and no nullifier occurs twice and the treasury covers the sum. *)
(***************************************************************************)
\* Mutant: one second more.
ProofFresh_Late(c, p) == now - period[c][p].created <= MaxProofAge + 1

ProofFresh(c, p) == now - period[c][p].created <= MaxProofAge

NullifiersUnused(proof) ==
    /\ \A e \in DOMAIN proof : proof[e] \notin nullifiers
    /\ \A e, f \in DOMAIN proof : proof[e] = proof[f] => e = f

\* Mutant: a payment by another company does not count.
Unpaid_OtherCompany(c, e, p) == payment[e][p] # None => payment[e][p].company # c

Unpaid(c, e, p) == payment[e][p] = None

\* The least amount is 10^decimals / 10^9, rounded down; zero is exempt.
LeastAmount(decimals) == IF decimals < 9 THEN 0 ELSE 10^(decimals - 9)

Normalized(amount) == amount = 0 \/ amount >= LeastAmount(tokenDecimals)

\* Mutant: the treasury that has been proposed pays.
PayingTreasury_Proposed(c) ==
    IF pendingTreasuryRotation[c] # None THEN pendingTreasuryRotation[c].holder
                                         ELSE company[c].treasury

PayingTreasury(c) == company[c].treasury

TokenCovers(a, amount) == amount <= balance[a]

SumOf(pay) == SumFunctionOnSet(pay, DOMAIN pay)

\* Mutant: the payees are credited and the treasury is not debited.
Transferred_CreditOnly(a, pay) ==
    [h \in DOMAIN balance |-> IF h \in DOMAIN pay THEN balance[h] + pay[h] ELSE balance[h]]

Transferred(a, pay) ==
    [h \in DOMAIN balance |-> IF h \in DOMAIN pay THEN balance[h] + pay[h]
                              ELSE IF h = a THEN balance[h] - SumOf(pay)
                              ELSE balance[h]]

NewTotal(c, amount) == totalPaid[c] + amount

\* The commitment and the amount.
PublicInputs == 2

Pay(c, p, pay, proof) ==
    LET payees == DOMAIN pay IN
    /\ ExecutorNotPaused
    /\ PeriodOpen(c, p)
    /\ ProofFresh(c, p)
    /\ NullifiersUnused(proof)
    /\ \A e \in payees : Unpaid(c, e, p)
    /\ payees \subseteq committed
    /\ Registered(c)
    /\ VerifyPaymentProof(PublicInputs)
    /\ \A e \in payees : pay[e] >= 0
    /\ tokenAllowed
    /\ tokenDecimals # 0
    /\ \A e \in payees : Normalized(pay[e])
    /\ TokenCovers(PayingTreasury(c), SumOf(pay))
    /\ balance' = Transferred(PayingTreasury(c), pay)
    /\ payment' = [e \in Employee |->
                     IF e \in payees
                     THEN [payment[e] EXCEPT ![p] = [company |-> c, proof |-> proof[e], time |-> now]]
                     ELSE payment[e]]
    /\ receipt' = [e \in Employee |->
                     IF e \in payees THEN [receipt[e] EXCEPT ![p] = pay[e]] ELSE receipt[e]]
    /\ nullifiers' = nullifiers \cup {proof[e] : e \in payees}
    /\ period' = [period EXCEPT ![c][p].count = @ + Cardinality(payees)]
    /\ totalPaid' = [totalPaid EXCEPT ![c] = NewTotal(c, SumOf(pay))]
    /\ UNCHANGED <<settingVars, periodSequence>>

ExecutePayment(c, e, amount, n, p) == Pay(c, p, [x \in {e} |-> amount], [x \in {e} |-> n])

ExecuteBatchPayroll(c, pay, proof, p) == DOMAIN pay # {} /\ Pay(c, p, pay, proof)

----------------------------------------------------------------------------
Init ==
    /\ RegistryInit
    /\ VerifierInit
    /\ executorAdmin = None
    /\ executorManagerSet = FALSE
    /\ tokenAllowed = TRUE
    /\ tokenDecimals = 0
    /\ periodSequence = [c \in CompanyId |-> 1]
    /\ period = [c \in CompanyId |-> [p \in PeriodId |-> None]]
    /\ payment = [e \in Employee |-> [p \in PeriodId |-> None]]
    /\ nullifiers = {}
    /\ totalPaid = [c \in CompanyId |-> 0]
    /\ balance = [h \in Account \cup Employee |-> IF h \in Account THEN InitialBalance ELSE 0]
    /\ committed = {}
    /\ receipt = [e \in Employee |-> [p \in PeriodId |-> 0]]

SettingNext ==
    /\ \/ \E a \in ExecutorInput : SetExecutorAdmin(a)
       \/ SetExecutorPauseManager
       \/ \E allowed \in BOOLEAN : SetAssetAllowed(allowed)
       \/ \E decimals \in DecimalsInput : SetAssetDecimals(decimals)
    /\ UNCHANGED <<periodVars, paymentVars>>

\* Payments name an open period and employees with a commitment: other calls
\* fail whatever else they pass.
PaymentNext ==
    \E c \in CompanyId :
        \/ CreatePeriod(c)
        \/ \E p \in PeriodId : ClosePeriod(c, p)
        \/ \E p \in {q \in PeriodId : PeriodOpen(c, q)} :
             \/ \E e \in committed, amount \in Amount, n \in Nullifier :
                  ExecutePayment(c, e, amount, n, p)
             \/ \E payees \in SUBSET committed :
                  \E pay \in [payees -> Amount], proof \in [payees -> Nullifier] :
                    ExecuteBatchPayroll(c, pay, proof, p)

\* An employee's commitment is stored in the salary-commitment contract.
StoreCommitment(e) ==
    /\ committed' = committed \cup {e}
    /\ UNCHANGED <<executorVars, registryAll>>

\* The steps of the registry that the executor can observe, apart from changes
\* of a company's admin, whom it only asks for authorisation.
CompanyStep ==
    \/ \E a \in AdminInput, t \in TreasuryInput : RegisterCompany(a, t)
    \/ \E c \in DetailInput :
         \/ \E a \in TreasurySuccessor : ProposeTreasuryRotation(c, a)
         \/ AcceptTreasuryRotation(c)
         \/ CancelTreasuryRotation(c)

ExecutorNext ==
    \/ (SettingNext \/ PaymentNext) /\ UNCHANGED <<committed, registryAll>>
    \/ \E e \in Employee : StoreCommitment(e)
    \/ CompanyStep /\ UNCHANGED <<executorVars, committed, registryManagerSet, now, pauseVars>>
    \/ Tick /\ UNCHANGED <<executorVars, committed, pauseVars>>
    \/ PauseNext /\ UNCHANGED <<executorVars, committed, registryVars, registryManagerSet, now>>

\* The executor refers to no stored proof, so of the verifier's steps only the
\* one that installs the key makes a difference to it.
Next ==
    \/ ExecutorNext /\ UNCHANGED verifierVars
    \/ \E length \in KeyLength :
         InitializeVerifier(length) /\ UNCHANGED <<executorVars, committed, registryAll>>

Spec == Init /\ [][Next]_vars

----------------------------------------------------------------------------
\* The employees company c has paid in period p.
PaidBy(c, p) == {e \in Employee : payment[e][p] # None /\ payment[e][p].company = c}

\* What they were paid.
PaidIn(c, p) == SumFunctionOnSet([e \in Employee |-> receipt[e][p]], PaidBy(c, p))

\* Every entry of the executor and of the registry has the type its DataKey
\* declares; in particular no balance is negative,
\* though a batch spends before its last payment is checked.
ExecutorTypeOK ==
    /\ RegistryTypeOK
    /\ VerifierTypeOK
    /\ executorAdmin \in Account \cup {None}
    /\ executorManagerSet \in BOOLEAN
    /\ tokenAllowed \in BOOLEAN
    /\ tokenDecimals \in 0..18
    /\ periodSequence \in [CompanyId -> 1..MaxPeriods + 1]
    /\ period \in [CompanyId -> [PeriodId -> PayrollPeriod \cup {None}]]
    /\ payment \in [Employee -> [PeriodId -> PaymentRecord \cup {None}]]
    /\ nullifiers \subseteq Nullifier
    /\ totalPaid \in [CompanyId -> Nat]
    /\ balance \in [Account \cup Employee -> Nat]
    /\ committed \subseteq Employee
    /\ receipt \in [Employee -> [PeriodId -> Nat]]

\* The total of a company is the sum of the payments recorded for it, over all
\* periods, singly or in batches, and never includes another company's
\* (invariants I-1, I-6, I-7 and I-10 of the executor's tests).
TotalsExact ==
    \A c \in CompanyId :
        totalPaid[c] = SumFunctionOnSet([p \in PeriodId |-> PaidIn(c, p)], PeriodId)

\* payment_count of a period is the number of payments recorded in it by its
\* company, although the records are kept by employee and period number alone
\* (invariant I-8): no company overwrites a record of another whose period has
\* the same number.
PeriodCountExact ==
    \A c \in CompanyId, p \in PeriodId :
        IF period[c][p] = None THEN PaidBy(c, p) = {}
                               ELSE period[c][p].count = Cardinality(PaidBy(c, p))

Paid == {x \in Employee \X PeriodId : payment[x[1]][x[2]] # None}

\* The used nullifiers are those of the recorded payments, and each belongs to
\* one payment, also when several payments share a batch (invariant I-4).
NullifiersExact ==
    /\ nullifiers = {payment[x[1]][x[2]].proof : x \in Paid}
    /\ \A x, y \in Paid : payment[x[1]][x[2]].proof = payment[y[1]][y[2]].proof => x = y

\* The books agree with the recorded payments in all three respects, also when
\* two companies pay the same employees in periods of the same number.
BooksExact == TotalsExact /\ PeriodCountExact /\ NullifiersExact

\* "Only one period can be open at a time" (create_period), the periods of a
\* company are numbered without gaps, and only the newest can be open.
OnePeriodOpen ==
    \A c \in CompanyId, p \in PeriodId :
        /\ period[c][p] # None <=> p < periodSequence[c]
        /\ p + 1 < periodSequence[c] => period[c][p].closed

\* Each payment was made in a period of its company, no earlier than the
\* period's creation and at most MAX_PROOF_AGE_SECONDS after it.
PaidInWindow ==
    \A x \in Paid :
        LET r == payment[x[1]][x[2]]
            q == period[r.company][x[2]]
        IN /\ q # None
           /\ q.created <= r.time
           /\ r.time <= q.created + MaxProofAge

\* What an employee holds is what the records say the employee was paid, and
\* what the treasuries lack is what the companies paid: execute_payment moves
\* tokens exactly when it writes records, and a batch in full or not at all.
\* No account is overdrawn.
TokensFollowRecords ==
    /\ \A a \in Account : balance[a] >= 0
    /\ \A e \in Employee : balance[e] = SumFunctionOnSet(receipt[e], PeriodId)
    /\ SumFunctionOnSet(balance, Account) + SumFunctionOnSet(totalPaid, CompanyId)
         = Cardinality(Account) * InitialBalance

\* A treasury is debited only by companies it is the treasury of at that time,
\* for exactly what they pay: a holder that has been proposed in the registry
\* pays nothing before it has accepted, and the old one nothing after.
DebitsOwn ==
    \A a \in Account :
        balance'[a] # balance[a] =>
            \E c \in CompanyId : /\ Registered(c)
                                 /\ company[c].treasury = a
                                 /\ totalPaid'[c] - totalPaid[c] = balance[a] - balance'[a]

TreasuryOfCompanyPays == [][DebitsOwn]_vars
=============================================================================
