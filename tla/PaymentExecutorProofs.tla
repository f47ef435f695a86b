----------------------- MODULE PaymentExecutorProofs -----------------------
(***************************************************************************)
(* What the steps of the payment executor keep, and theorems about the two *)
(* contracts it asks: the registry, for every number of companies and      *)
(* accounts, and the verifier, for every set of references, every cap on   *)
(* their lifetime and every clock.                                         *)
(***************************************************************************)
EXTENDS PaymentExecutor, TLAPS

\* Zenon proves the leaves of the proofs that name no prover; those that need
\* arithmetic, records or sequences name the SMT solver.
USE Zenon

----------------------------------------------------------------------------
(***************************************************************************)
(* The executor: periods and payments.                                     *)
(***************************************************************************)
\* Periods have been created by now, and have the types their entries declare.
PeriodsOK ==
    /\ now \in Nat
    /\ committed \subseteq Employee
    /\ period \in [CompanyId -> [PeriodId -> PayrollPeriod \cup {None}]]
    /\ periodSequence \in [CompanyId -> Nat \ {0}]
    /\ \A c \in CompanyId, p \in PeriodId :
         period[c][p] # None => period[c][p].created <= now

Window(r, p) ==
    /\ period[r.company][p] # None
    /\ period[r.company][p].created <= r.time
    /\ r.time <= period[r.company][p].created + MaxProofAge

\* Payments, entry by entry: made in their window, with a nullifier that is
\* used and that no other payment has; and each used nullifier has a payment.
PaymentsOK ==
    /\ payment \in [Employee -> [PeriodId -> PaymentRecord \cup {None}]]
    /\ \A e \in Employee, p \in PeriodId :
         payment[e][p] # None =>
           /\ Window(payment[e][p], p)
           /\ payment[e][p].proof \in nullifiers
    /\ \A e, f \in Employee, p, q \in PeriodId :
         payment[e][p] # None /\ payment[f][q] # None
           /\ payment[e][p].proof = payment[f][q].proof => e = f /\ p = q
    /\ \A n \in nullifiers : \E e \in Employee, p \in PeriodId :
         payment[e][p] # None /\ payment[e][p].proof = n

ExecutorInv == PeriodsOK /\ OnePeriodOpen /\ PaymentsOK

\* No step takes a period back or moves its creation.
PeriodsStay ==
    \A c \in CompanyId, p \in PeriodId :
        period[c][p] # None =>
            /\ period'[c][p] # None
            /\ period'[c][p].created = period[c][p].created

----------------------------------------------------------------------------
(***************************************************************************)
(* Steps that record no payment.                                           *)
(***************************************************************************)
LEMMA PaymentsStay ==
    ASSUME PaymentsOK, PeriodsStay, UNCHANGED <<payment, nullifiers>>
    PROVE  PaymentsOK'
<1>1. ASSUME NEW e \in Employee, NEW p \in PeriodId, payment[e][p] # None
      PROVE  Window(payment[e][p], p)'
  <2>1. Window(payment[e][p], p) /\ payment[e][p].company \in CompanyId
    BY <1>1, SMT DEF PaymentsOK, PaymentRecord
  <2>2. QED
    BY <1>1, <2>1 DEF Window, PeriodsStay
<1>2. QED
  BY <1>1, SMT DEF PaymentsOK

LEMMA PeriodEntry ==
    ASSUME NEW c \in CompanyId, NEW p \in PeriodId, NEW new,
           period \in [CompanyId -> [PeriodId -> PayrollPeriod \cup {None}]],
           new \in PayrollPeriod,
           period' = [period EXCEPT ![c] = [period[c] EXCEPT ![p] = new]]
    PROVE  /\ period' \in [CompanyId -> [PeriodId -> PayrollPeriod \cup {None}]]
           /\ \A d \in CompanyId, q \in PeriodId :
                period'[d][q] = IF d = c /\ q = p THEN new ELSE period[d][q]
OBVIOUS

LEMMA CreateKeeps ==
    ASSUME PeriodsOK, OnePeriodOpen, NEW c \in CompanyId, CreatePeriod(c),
           UNCHANGED <<now, committed>>
    PROVE  PeriodsOK' /\ OnePeriodOpen' /\ PeriodsStay
<1> USE ExecutorAssumption
<1> DEFINE p == periodSequence[c]
           new == [created |-> now, closed |-> FALSE, count |-> 0]
<1>1. /\ p \in PeriodId
      /\ period[c][p] = None
      /\ PreviousClosed(c, p)
      /\ period' = [period EXCEPT ![c][p] = new]
      /\ periodSequence' = [periodSequence EXCEPT ![c] = p + 1]
  BY DEF CreatePeriod
<1>2. new \in PayrollPeriod /\ new.created = now /\ ~new.closed
  <2>1. FALSE \in BOOLEAN
    OBVIOUS
  <2>2. QED
    BY <2>1 DEF PayrollPeriod, PeriodsOK
<1> HIDE DEF new
<1>3. period' = [period EXCEPT ![c] = [period[c] EXCEPT ![p] = new]]
  BY <1>1 DEF PeriodsOK
<1>4. /\ period' \in [CompanyId -> [PeriodId -> PayrollPeriod \cup {None}]]
      /\ \A d \in CompanyId, q \in PeriodId :
           period'[d][q] = IF d = c /\ q = p THEN new ELSE period[d][q]
  BY <1>1, <1>2, <1>3, PeriodEntry, SMT DEF PeriodsOK
<1>5. new # None
  BY <1>2
<1>6. PeriodsStay
  BY <1>1, <1>4, SMT DEF PeriodsStay
<1>7. periodSequence' \in [CompanyId -> Nat \ {0}]
  BY <1>1, SMT DEF PeriodsOK
<1>8. PeriodsOK'
  <2>1. \A d \in CompanyId, q \in PeriodId :
          period'[d][q] # None => period'[d][q].created <= now
    BY <1>2, <1>4, SMT DEF PeriodsOK
  <2>2. QED
    BY <1>4, <1>7, <2>1 DEF PeriodsOK
<1>9. OnePeriodOpen'
  <2> SUFFICES ASSUME NEW d \in CompanyId, NEW q \in PeriodId
               PROVE  /\ period'[d][q] # None <=> q < periodSequence'[d]
                      /\ q + 1 < periodSequence'[d] => period'[d][q].closed
    BY DEF OnePeriodOpen
  <2>1. /\ period[d][q] # None <=> q < periodSequence[d]
        /\ q + 1 < periodSequence[d] => period[d][q].closed
    BY DEF OnePeriodOpen
  <2>2. q \in Nat /\ q >= 1 /\ p \in Nat /\ periodSequence[d] \in Nat
    BY <1>1, SMT DEF PeriodId, PeriodsOK
  <2>3. CASE d # c
    BY <2>1, <2>3, <1>1, <1>4 DEF PeriodsOK
  <2>4. CASE d = c
    <3>1. periodSequence'[d] = p + 1
      BY <2>4, <1>1 DEF PeriodsOK
    <3>2. CASE q = p
      BY <2>2, <2>4, <3>1, <3>2, <1>4, <1>5, SMT
    <3>3. CASE q # p
      <4>1. period'[d][q] = period[d][q]
        BY <2>4, <3>3, <1>4
      <4>2. period[d][q] # None <=> q < p + 1
        BY <2>1, <2>2, <2>4, <3>3, SMT
      <4>3. ASSUME q + 1 < p + 1
            PROVE  period[d][q].closed
        <5>1. CASE q + 1 < p
          BY <2>1, <2>4, <5>1
        <5>2. CASE q + 1 = p
          <6>1. p > 1 /\ p - 1 = q /\ period[c][p - 1] # None
            BY <2>1, <2>2, <2>4, <5>2, SMT
          <6>2. QED
            BY <1>1, <2>4, <6>1 DEF PreviousClosed
        <5>3. QED
          BY <2>2, <4>3, <5>1, <5>2, SMT
      <4>4. QED
        BY <3>1, <4>1, <4>2, <4>3
    <3>4. QED
      BY <3>2, <3>3
  <2>5. QED
    BY <2>3, <2>4
<1>10. QED
  BY <1>6, <1>8, <1>9

\* A step that rewrites one period that exists, without moving its creation.
LEMMA RewriteKeeps ==
    ASSUME PeriodsOK, OnePeriodOpen, NEW c \in CompanyId, NEW p \in PeriodId,
           NEW new \in PayrollPeriod,
           period[c][p] # None,
           new.created = period[c][p].created,
           period[c][p].closed => new.closed,
           period' = [period EXCEPT ![c] = [period[c] EXCEPT ![p] = new]],
           UNCHANGED <<now, committed, periodSequence>>
    PROVE  PeriodsOK' /\ OnePeriodOpen' /\ PeriodsStay
<1>1. /\ period' \in [CompanyId -> [PeriodId -> PayrollPeriod \cup {None}]]
      /\ \A d \in CompanyId, q \in PeriodId :
           period'[d][q] = IF d = c /\ q = p THEN new ELSE period[d][q]
  BY PeriodEntry, SMT DEF PeriodsOK
<1>2. new # None
  BY ExecutorAssumption
<1>3. PeriodsStay
  BY <1>1, <1>2 DEF PeriodsStay
<1>4. PeriodsOK'
  BY <1>1 DEF PeriodsOK
<1>5. OnePeriodOpen'
  BY <1>1, <1>2, SMT DEF OnePeriodOpen
<1>6. QED
  BY <1>3, <1>4, <1>5

LEMMA CloseKeeps ==
    ASSUME PeriodsOK, OnePeriodOpen, NEW c \in CompanyId, NEW p \in PeriodId,
           ClosePeriod(c, p), UNCHANGED <<now, committed>>
    PROVE  PeriodsOK' /\ OnePeriodOpen' /\ PeriodsStay
<1> DEFINE new == [period[c][p] EXCEPT !.closed = TRUE]
<1>1. period[c][p] # None /\ period[c][p] \in PayrollPeriod
  BY DEF ClosePeriod, PeriodOpen, PeriodsOK
<1>2. new \in PayrollPeriod /\ new.created = period[c][p].created /\ new.closed
  <2>1. TRUE \in BOOLEAN
    OBVIOUS
  <2>2. QED
    BY <1>1, <2>1 DEF PayrollPeriod
<1>3. /\ period' = [period EXCEPT ![c] = [period[c] EXCEPT ![p] = new]]
      /\ UNCHANGED periodSequence
  BY DEF ClosePeriod, PeriodsOK
<1> HIDE DEF new
<1>4. QED
  BY <1>1, <1>2, <1>3, RewriteKeeps

----------------------------------------------------------------------------
(***************************************************************************)
(* Payments, single or in a batch.                                         *)
(***************************************************************************)
LEMMA PayKeepsPeriods ==
    ASSUME PeriodsOK, OnePeriodOpen, NEW c \in CompanyId, NEW p \in PeriodId,
           NEW pay, NEW proof, Cardinality(DOMAIN pay) \in Nat,
           Pay(c, p, pay, proof), UNCHANGED <<now, committed>>
    PROVE  PeriodsOK' /\ OnePeriodOpen' /\ PeriodsStay
<1> DEFINE n == period[c][p].count + Cardinality(DOMAIN pay)
           new == [period[c][p] EXCEPT !.count = n]
<1>1. period[c][p] # None /\ period[c][p] \in PayrollPeriod
  BY DEF Pay, PeriodOpen, PeriodsOK
<1>2. n \in Nat
  <2>1. period[c][p].count \in Nat
    BY <1>1 DEF PayrollPeriod
  <2>2. QED
    BY <2>1, SMT
<1>3. /\ period' = [period EXCEPT ![c] = [period[c] EXCEPT ![p] = new]]
      /\ UNCHANGED periodSequence
  BY <1>1 DEF Pay, PeriodsOK, PayrollPeriod
<1> HIDE DEF n
<1>4. /\ new \in PayrollPeriod
      /\ new.created = period[c][p].created
      /\ new.closed = period[c][p].closed
  BY <1>1, <1>2 DEF PayrollPeriod
<1> HIDE DEF new
<1>5. QED
  BY <1>1, <1>3, <1>4, RewriteKeeps

LEMMA PayKeepsPayments ==
    ASSUME PeriodsOK, PaymentsOK, PeriodsStay, NEW c \in CompanyId, NEW p \in PeriodId,
           NEW pay, DOMAIN pay \subseteq Employee, NEW proof \in [DOMAIN pay -> Nullifier],
           Pay(c, p, pay, proof), UNCHANGED now
    PROVE  PaymentsOK'
<1> DEFINE payees == DOMAIN pay
           record(e) == [company |-> c, proof |-> proof[e], time |-> now]
<1>1. /\ \A e \in payees : payment[e][p] = None
      /\ \A e \in payees : proof[e] \notin nullifiers
      /\ \A e, f \in payees : proof[e] = proof[f] => e = f
      /\ nullifiers' = nullifiers \cup {proof[e] : e \in payees}
      /\ payment' = [e \in Employee |->
                       IF e \in payees THEN [payment[e] EXCEPT ![p] = record(e)] ELSE payment[e]]
  BY DEF Pay, NullifiersUnused, Unpaid
<1>u. \A e \in payees : payment[e][p] = None
  BY <1>1
<1>n. /\ \A n \in nullifiers : n \in nullifiers'
      /\ \A e \in payees : proof[e] \in nullifiers'
  BY <1>1
<1>2. \A e \in payees : /\ record(e) \in PaymentRecord
                        /\ record(e).company = c
                        /\ record(e).proof = proof[e]
                        /\ record(e).time = now
  BY DEF PaymentRecord, PeriodsOK
<1> HIDE DEF record
<1>3. \A e \in payees : record(e) # None
  BY <1>2, ExecutorAssumption
<1>4. \A e \in Employee, q \in PeriodId :
        payment'[e][q] = IF e \in payees /\ q = p THEN record(e) ELSE payment[e][q]
  BY <1>1, SMT DEF PaymentsOK
<1>5. payment' \in [Employee -> [PeriodId -> PaymentRecord \cup {None}]]
  BY <1>1, <1>2 DEF PaymentsOK
<1>6. /\ period'[c][p] # None
      /\ period'[c][p].created <= now
      /\ now <= period'[c][p].created + MaxProofAge
  <2>1. /\ period[c][p] # None
        /\ period[c][p].created \in Nat
        /\ period[c][p].created <= now
        /\ now - period[c][p].created <= MaxProofAge
    BY DEF Pay, PeriodOpen, ProofFresh, PeriodsOK, PayrollPeriod
  <2>2. period'[c][p] # None /\ period'[c][p].created = period[c][p].created
    BY <2>1 DEF PeriodsStay
  <2>3. now \in Nat /\ MaxProofAge \in Nat
    BY ExecutorAssumption DEF PeriodsOK
  <2>4. QED
    BY <2>1, <2>2, <2>3, SMT
<1>7. ASSUME NEW e \in Employee, NEW q \in PeriodId, payment'[e][q] # None
      PROVE  Window(payment[e][q], q)' /\ payment'[e][q].proof \in nullifiers'
  <2>1. CASE e \in payees /\ q = p
    <3>1. payment'[e][q] = record(e)
      BY <2>1, <1>4
    <3>2. /\ payment'[e][q].company = c
          /\ payment'[e][q].time = now
          /\ payment'[e][q].proof = proof[e]
      BY <2>1, <3>1, <1>2
    <3>3. Window(payment[e][q], q)'
      BY <2>1, <3>2, <1>6 DEF Window
    <3>4. QED
      BY <2>1, <3>2, <3>3, <1>n
  <2>2. CASE ~(e \in payees /\ q = p)
    <3>1. payment'[e][q] = payment[e][q]
      BY <2>2, <1>4
    <3>2. Window(payment[e][q], q) /\ payment[e][q].proof \in nullifiers
      BY <3>1, <1>7 DEF PaymentsOK
    <3>3. payment[e][q] \in PaymentRecord
      <4>1. payment \in [Employee -> [PeriodId -> PaymentRecord \cup {None}]]
        BY DEF PaymentsOK
      <4>2. QED
        BY <3>1, <4>1, <1>7
    <3>4. payment[e][q].company \in CompanyId
      BY <3>3 DEF PaymentRecord
    <3>5. LET d == payment[e][q].company IN
          period'[d][q] # None /\ period'[d][q].created = period[d][q].created
      BY <3>2, <3>4 DEF Window, PeriodsStay
    <3>6. Window(payment[e][q], q)'
      BY <3>1, <3>2, <3>5 DEF Window
    <3>7. QED
      BY <3>1, <3>2, <3>6, <1>n
  <2>3. QED
    BY <2>1, <2>2
<1>8. ASSUME NEW e \in Employee, NEW q \in PeriodId, payment'[e][q] # None
      PROVE  IF e \in payees /\ q = p
               THEN payment'[e][q].proof = proof[e]
               ELSE /\ payment[e][q] # None
                    /\ payment'[e][q].proof = payment[e][q].proof
                    /\ payment[e][q].proof \in nullifiers
  <2>1. CASE e \in payees /\ q = p
    BY <2>1, <1>2, <1>4
  <2>2. CASE ~(e \in payees /\ q = p)
    <3>1. payment'[e][q] = payment[e][q]
      BY <2>2, <1>4
    <3>2. QED
      BY <2>2, <3>1, <1>8 DEF PaymentsOK
  <2>3. QED
    BY <2>1, <2>2
<1>9. ASSUME NEW e \in Employee, NEW f \in Employee, NEW q \in PeriodId, NEW r \in PeriodId,
             payment'[e][q] # None, payment'[f][r] # None,
             payment'[e][q].proof = payment'[f][r].proof
      PROVE  e = f /\ q = r
  <2>1. CASE (e \in payees /\ q = p) \/ (f \in payees /\ r = p)
    BY <2>1, <1>1, <1>8, <1>9, SMT
  <2>2. CASE ~(e \in payees /\ q = p) /\ ~(f \in payees /\ r = p)
    <3>1. /\ payment[e][q] # None /\ payment[f][r] # None
          /\ payment[e][q].proof = payment[f][r].proof
      BY <2>2, <1>8, <1>9, SMT
    <3>2. QED
      BY <3>1, SMT DEF PaymentsOK
  <2>3. QED
    BY <2>1, <2>2
<1>10. ASSUME NEW n \in nullifiers'
      PROVE  \E e \in Employee, q \in PeriodId :
               payment'[e][q] # None /\ payment'[e][q].proof = n
  <2>1. CASE n \in nullifiers
    <3>1. PICK e \in Employee, q \in PeriodId : payment[e][q] # None /\ payment[e][q].proof = n
      BY <2>1 DEF PaymentsOK
    <3>2. payment'[e][q] = payment[e][q]
      BY <3>1, <1>u, <1>4
    <3>3. QED
      BY <3>1, <3>2
  <2>2. CASE n \notin nullifiers
    <3>1. PICK e \in payees : proof[e] = n
      BY <2>2, <1>1, <1>10
    <3>2. e \in Employee /\ payment'[e][p] = record(e)
      BY <3>1, <1>4
    <3>3. QED
      BY <3>1, <3>2, <1>2, <1>3
  <2>3. QED
    BY <2>1, <2>2
<1>11. \A e \in Employee, q \in PeriodId :
         payment'[e][q] # None =>
           Window(payment[e][q], q)' /\ payment'[e][q].proof \in nullifiers'
  BY <1>7
<1>12. \A e, f \in Employee, q, r \in PeriodId :
         payment'[e][q] # None /\ payment'[f][r] # None
           /\ payment'[e][q].proof = payment'[f][r].proof => e = f /\ q = r
  BY <1>9, SMT
<1>13. \A n \in nullifiers' : \E e \in Employee, q \in PeriodId :
         payment'[e][q] # None /\ payment'[e][q].proof = n
  BY <1>10
<1>14. QED
  BY <1>5, <1>11, <1>12, <1>13 DEF PaymentsOK

----------------------------------------------------------------------------
\* Every step pays, creates or closes a period, or leaves periods and payments
\* alone.
LEMMA StepCases ==
    ASSUME committed \subseteq Employee, [Next]_vars
    PROVE  \/ \E c \in CompanyId, p \in PeriodId, payees \in SUBSET committed :
                \E pay \in [payees -> Amount], proof \in [payees -> Nullifier] :
                  Pay(c, p, pay, proof) /\ UNCHANGED <<committed, registryAll>>
           \/ \E c \in CompanyId : CreatePeriod(c) /\ UNCHANGED <<committed, registryAll>>
           \/ \E c \in CompanyId, p \in PeriodId :
                ClosePeriod(c, p) /\ UNCHANGED <<committed, registryAll>>
           \/ /\ UNCHANGED <<periodVars, paymentVars>> /\ committed' \subseteq Employee
              /\ UNCHANGED now \/ now' = now + 1
<1> DEFINE Pays == \E c \in CompanyId, p \in PeriodId, payees \in SUBSET committed :
                     \E pay \in [payees -> Amount], proof \in [payees -> Nullifier] :
                       Pay(c, p, pay, proof) /\ UNCHANGED <<committed, registryAll>>
           Others == /\ UNCHANGED <<periodVars, paymentVars>> /\ committed' \subseteq Employee
                     /\ UNCHANGED now \/ now' = now + 1
<1>1. CASE PaymentNext /\ UNCHANGED <<committed, registryAll>>
  <2>1. ASSUME NEW c \in CompanyId, NEW p \in PeriodId, NEW e \in committed,
               NEW amount \in Amount, NEW n \in Nullifier, ExecutePayment(c, e, amount, n, p)
        PROVE  Pays
    <3> DEFINE pay == [x \in {e} |-> amount]
               proof == [x \in {e} |-> n]
    <3>1. {e} \in SUBSET committed /\ pay \in [{e} -> Amount] /\ proof \in [{e} -> Nullifier]
      OBVIOUS
    <3>2. Pay(c, p, pay, proof)
      BY <2>1 DEF ExecutePayment
    <3> HIDE DEF pay, proof
    <3>3. QED
      BY <1>1, <3>1, <3>2
  <2>2. ASSUME NEW c \in CompanyId, NEW p \in PeriodId, NEW payees \in SUBSET committed,
               NEW pay \in [payees -> Amount], NEW proof \in [payees -> Nullifier],
               ExecuteBatchPayroll(c, pay, proof, p)
        PROVE  Pays
    BY <1>1, <2>2 DEF ExecuteBatchPayroll
  <2> HIDE DEF Pays
  <2>3. \/ Pays
        \/ \E c \in CompanyId : CreatePeriod(c)
        \/ \E c \in CompanyId, p \in PeriodId : ClosePeriod(c, p)
    BY <1>1, <2>1, <2>2 DEF PaymentNext
  <2>4. QED
    BY <1>1, <2>3 DEF Pays
<1> HIDE DEF Pays
<1>2. CASE SettingNext /\ UNCHANGED <<committed, registryAll>>
  BY <1>2 DEF SettingNext, registryAll
<1>3. ASSUME NEW e \in Employee, StoreCommitment(e)
      PROVE  Others
  BY <1>3 DEF StoreCommitment, executorVars, registryAll
<1>4. CASE UNCHANGED <<executorVars, committed>> /\ (UNCHANGED now \/ now' = now + 1)
  BY <1>4 DEF executorVars
<1>5. CASE ExecutorNext
  BY <1>1, <1>2, <1>3, <1>4, <1>5 DEF ExecutorNext, Tick, registryAll
<1>6. CASE ~ExecutorNext
  BY <1>4, <1>6 DEF Next, vars, registryAll
<1>7. QED
  BY <1>5, <1>6

\* Every step keeps the invariant of the executor (ExecutorInvariant discharges
\* the hypothesis on the sizes of batches).
LEMMA NextKeeps ==
    ASSUME ExecutorInv, [Next]_vars,
           \A payees \in SUBSET Employee : Cardinality(payees) \in Nat
    PROVE  ExecutorInv'
<1> USE ExecutorAssumption DEF ExecutorInv
<1>1. ASSUME NEW c \in CompanyId, CreatePeriod(c), UNCHANGED <<committed, registryAll>>
      PROVE  ExecutorInv'
  <2>1. UNCHANGED <<now, committed, payment, nullifiers>>
    BY <1>1 DEF CreatePeriod, paymentVars, registryAll
  <2>2. QED
    BY <1>1, <2>1, CreateKeeps, PaymentsStay
<1>2. ASSUME NEW c \in CompanyId, NEW p \in PeriodId, ClosePeriod(c, p),
             UNCHANGED <<committed, registryAll>>
      PROVE  ExecutorInv'
  <2>1. UNCHANGED <<now, committed, payment, nullifiers>>
    BY <1>2 DEF ClosePeriod, paymentVars, registryAll
  <2>2. QED
    BY <1>2, <2>1, CloseKeeps, PaymentsStay
<1>3. ASSUME NEW c \in CompanyId, NEW p \in PeriodId, NEW pay,
             DOMAIN pay \subseteq committed, NEW proof \in [DOMAIN pay -> Nullifier],
             Pay(c, p, pay, proof), UNCHANGED <<committed, registryAll>>
      PROVE  ExecutorInv'
  <2>1. /\ DOMAIN pay \subseteq Employee /\ Cardinality(DOMAIN pay) \in Nat
        /\ UNCHANGED <<now, committed>>
    BY <1>3 DEF PeriodsOK, registryAll
  <2>2. QED
    BY <1>3, <2>1, PayKeepsPeriods, PayKeepsPayments
<1>4. CASE UNCHANGED <<periodVars, paymentVars>> /\ committed' \subseteq Employee
           /\ (UNCHANGED now \/ now' = now + 1)
  <2>1. UNCHANGED <<periodSequence, period, payment, nullifiers>>
    BY <1>4 DEF periodVars, paymentVars
  <2>2. now' \in Nat /\ now' >= now
    BY <1>4, SMT DEF PeriodsOK
  <2>3. \A c \in CompanyId, p \in PeriodId :
          period[c][p] # None => period[c][p].created \in Nat
    BY SMT DEF PeriodsOK, PayrollPeriod
  <2>4. PeriodsOK'
    BY <1>4, <2>1, <2>2, <2>3, SMT DEF PeriodsOK
  <2>5. OnePeriodOpen' /\ PeriodsStay
    BY <2>1 DEF OnePeriodOpen, PeriodsStay
  <2>6. QED
    BY <2>1, <2>4, <2>5, PaymentsStay
<1>5. committed \subseteq Employee
  BY DEF PeriodsOK
<1>6. ASSUME NEW c \in CompanyId, NEW p \in PeriodId, NEW payees \in SUBSET committed,
             NEW pay \in [payees -> Amount], NEW proof \in [payees -> Nullifier],
             Pay(c, p, pay, proof), UNCHANGED <<committed, registryAll>>
      PROVE  ExecutorInv'
  <2>1. DOMAIN pay \subseteq committed /\ proof \in [DOMAIN pay -> Nullifier]
    OBVIOUS
  <2>2. QED
    BY <1>3, <1>6, <2>1
<1>7. QED
  BY <1>1, <1>2, <1>4, <1>5, <1>6, StepCases

----------------------------------------------------------------------------
(***************************************************************************)
(* The registry.                                                           *)
(***************************************************************************)
allVars == <<registryVars, registryManagerSet, now, pauseVars>>

\* Identifiers not handed out yet have no company: register_company writes to
\* an entry that nothing refers to.
SequenceFresh == \A c \in CompanyId : c >= companySequence => company[c] = None

RegistryInv ==
    /\ RegistryTypeOK
    /\ SequenceFresh
    /\ AdminIndexSound
    /\ AdminProposalCurrent

\* register_company: the new entry belongs to an account that had none.
LEMMA RegisterKeeps ==
    ASSUME RegistryInv, NEW a \in AdminInput, NEW t \in TreasuryInput,
           RegisterCompany(a, t), UNCHANGED <<registryManagerSet, now>>
    PROVE  RegistryInv'
<1> USE RegistryAssumption
<1> DEFINE n == companySequence
           info == [admin |-> a, treasury |-> t]
<1>1. /\ n \in CompanyId
      /\ company[n] = None
      /\ companyAdmin[a] = None
  BY SMT DEF RegistryInv, RegisterCompany, SequenceFresh, RegistryTypeOK
<1>2. info \in CompanyInfo /\ info.admin = a /\ info # None
  BY SMT DEF CompanyInfo
<1>3. /\ company' = [company EXCEPT ![n] = info]
      /\ companySequence' = n + 1
      /\ companyAdmin' = [companyAdmin EXCEPT ![a] = n]
      /\ UNCHANGED <<employeeVars, rotationVars, thresholdVars>>
  BY DEF RegisterCompany
<1> HIDE DEF info
<1>4. RegistryTypeOK'
  BY <1>1, <1>2, <1>3, SMT DEF RegistryInv, RegistryTypeOK, CompanyId, employeeVars,
         rotationVars, thresholdVars
<1>5. SequenceFresh'
  BY <1>1, <1>3, SMT DEF RegistryInv, RegistryTypeOK, SequenceFresh, CompanyId
<1>6. AdminIndexSound'
  <2> SUFFICES ASSUME NEW b \in Account, NEW c \in CompanyId, companyAdmin'[b] = c
               PROVE  company'[c] # None /\ company'[c].admin = b
    BY DEF AdminIndexSound
  <2>1. CASE b = a
    BY <2>1, <1>1, <1>2, <1>3 DEF RegistryInv, RegistryTypeOK
  <2>2. CASE b # a
    BY <2>2, <1>1, <1>2, <1>3, SMT DEF RegistryInv, RegistryTypeOK, AdminIndexSound
  <2>3. QED
    BY <2>1, <2>2
<1>7. AdminProposalCurrent'
  BY <1>1, <1>3 DEF RegistryInv, RegistryTypeOK, AdminProposalCurrent, rotationVars
<1>8. QED
  BY <1>4, <1>5, <1>6, <1>7 DEF RegistryInv

\* accept_admin_rotation: the old admin's entry goes, the new admin's names the
\* company, and the proposal is gone with them.
LEMMA AcceptKeeps ==
    ASSUME RegistryInv, NEW c \in CompanyId, AcceptAdminRotation(c), UNCHANGED <<registryManagerSet, now>>
    PROVE  RegistryInv'
<1> USE RegistryAssumption
<1> DEFINE old == company[c].admin
           new == pendingAdminRotation[c].holder
           info == [company[c] EXCEPT !.admin = new]
<1>1. /\ company[c] \in CompanyInfo /\ company[c] # None
      /\ pendingAdminRotation[c] \in PendingCompanyRotation
  BY DEF AcceptAdminRotation, Registered, RegistryInv, RegistryTypeOK
<1>2. old \in Account /\ new \in Account
  BY <1>1 DEF CompanyInfo, PendingCompanyRotation
<1>3. info \in CompanyInfo /\ info.admin = new /\ info # None
  BY <1>1, <1>2 DEF CompanyInfo
<1>4. /\ company' = [company EXCEPT ![c] = info]
      /\ companyAdmin' = [companyAdmin EXCEPT ![old] = None, ![new] = c]
      /\ pendingAdminRotation' = [pendingAdminRotation EXCEPT ![c] = None]
      /\ UNCHANGED <<companySequence, employeeVars, pendingTreasuryRotation, thresholdVars>>
  BY DEF AcceptAdminRotation, Reindexed, Accepted
<1> HIDE DEF old, new, info
<1>5. RegistryTypeOK'
  BY <1>2, <1>3, <1>4 DEF RegistryInv, RegistryTypeOK, thresholdVars, employeeVars
<1>6. SequenceFresh'
  BY <1>1, <1>4 DEF RegistryInv, RegistryTypeOK, SequenceFresh
<1>7. AdminIndexSound'
  <2> SUFFICES ASSUME NEW b \in Account, NEW d \in CompanyId, companyAdmin'[b] = d
               PROVE  company'[d] # None /\ company'[d].admin = b
    BY DEF AdminIndexSound
  <2>1. CASE b = new
    BY <2>1, <1>2, <1>3, <1>4 DEF RegistryInv, RegistryTypeOK
  <2>2. CASE b # new
    <3>1. b # old /\ companyAdmin[b] = d
      BY <2>2, <1>2, <1>4, SMT DEF RegistryInv, RegistryTypeOK, CompanyId
    <3>2. company[d] # None /\ company[d].admin = b
      BY <3>1 DEF RegistryInv, AdminIndexSound
    <3>3. d # c
      BY <3>1, <3>2 DEF old
    <3>4. QED
      BY <3>2, <3>3, <1>4 DEF RegistryInv, RegistryTypeOK
  <2>3. QED
    BY <2>1, <2>2
<1>8. AdminProposalCurrent'
  BY <1>4 DEF RegistryInv, RegistryTypeOK, AdminProposalCurrent
<1>9. QED
  BY <1>5, <1>6, <1>7, <1>8 DEF RegistryInv

\* accept_treasury_rotation leaves the admin of the company as it was.
LEMMA TreasuryKeeps ==
    ASSUME RegistryInv, NEW c \in CompanyId, AcceptTreasuryRotation(c), UNCHANGED <<registryManagerSet, now>>
    PROVE  RegistryInv'
<1> USE RegistryAssumption
<1> DEFINE new == pendingTreasuryRotation[c].holder
           info == [company[c] EXCEPT !.treasury = new]
<1>1. /\ company[c] \in CompanyInfo /\ company[c] # None
      /\ pendingTreasuryRotation[c] \in PendingCompanyRotation
  BY DEF AcceptTreasuryRotation, Registered, RegistryInv, RegistryTypeOK
<1>2. new \in Account
  BY <1>1 DEF PendingCompanyRotation
<1>3. info \in CompanyInfo /\ info.admin = company[c].admin /\ info # None
  BY <1>1, <1>2 DEF CompanyInfo
<1>4. /\ company' = [company EXCEPT ![c] = info]
      /\ pendingTreasuryRotation' = [pendingTreasuryRotation EXCEPT ![c] = None]
      /\ UNCHANGED <<companySequence, companyAdmin, employeeVars, pendingAdminRotation,
                     thresholdVars>>
  BY DEF AcceptTreasuryRotation, Accepted
<1> HIDE DEF new, info
<1>5. RegistryTypeOK'
  BY <1>3, <1>4 DEF RegistryInv, RegistryTypeOK, thresholdVars, employeeVars
<1>6. SequenceFresh'
  BY <1>1, <1>4 DEF RegistryInv, RegistryTypeOK, SequenceFresh
<1>7. \A d \in CompanyId : /\ company'[d] = None <=> company[d] = None
                           /\ company'[d].admin = company[d].admin
  BY <1>1, <1>3, <1>4 DEF RegistryInv, RegistryTypeOK
<1>8. AdminIndexSound' /\ AdminProposalCurrent'
  BY <1>4, <1>7, SMT DEF RegistryInv, AdminIndexSound, AdminProposalCurrent
<1>9. QED
  BY <1>5, <1>6, <1>8 DEF RegistryInv

\* propose_admin_rotation stores a proposal of the admin the company has.
LEMMA ProposeKeeps ==
    ASSUME RegistryInv, NEW c \in CompanyId, NEW a \in AdminInput,
           ProposeAdminRotation(c, a), UNCHANGED <<registryManagerSet, now>>
    PROVE  RegistryInv'
<1> USE RegistryAssumption
<1> DEFINE r == [holder |-> a, by |-> company[c].admin]
<1>1. company[c] # None /\ company[c].admin \in Account
  BY DEF ProposeAdminRotation, Registered, RegistryInv, RegistryTypeOK, CompanyInfo
<1>2. r \in PendingCompanyRotation /\ r.by = company[c].admin
  BY <1>1 DEF PendingCompanyRotation
<1>3. /\ pendingAdminRotation' = [pendingAdminRotation EXCEPT ![c] = r]
      /\ UNCHANGED <<companyVars, employeeVars, pendingTreasuryRotation, thresholdVars>>
  BY DEF ProposeAdminRotation, Proposed
<1> HIDE DEF r
<1>4. RegistryTypeOK'
  BY <1>2, <1>3 DEF RegistryInv, RegistryTypeOK, companyVars, thresholdVars, employeeVars
<1>5. SequenceFresh' /\ AdminIndexSound'
  BY <1>3 DEF RegistryInv, SequenceFresh, AdminIndexSound, companyVars
<1>6. AdminProposalCurrent'
  BY <1>1, <1>2, <1>3 DEF RegistryInv, RegistryTypeOK, AdminProposalCurrent, companyVars
<1>7. QED
  BY <1>4, <1>5, <1>6 DEF RegistryInv

\* The other entry points leave companies and pending admin rotations alone,
\* or only remove one of the latter.
LEMMA OthersKeep ==
    ASSUME RegistryInv, UNCHANGED companyVars, RegistryTypeOK',
           \A c \in CompanyId : \/ pendingAdminRotation'[c] = None
                               \/ pendingAdminRotation'[c] = pendingAdminRotation[c]
    PROVE  RegistryInv'
BY DEF RegistryInv, companyVars, SequenceFresh, AdminIndexSound, AdminProposalCurrent

\* An entry of a two-level table is replaced by one of the same type.
LEMMA TableEntry ==
    ASSUME NEW C, NEW E, NEW V, NEW f \in [C -> [E -> V]],
           NEW c \in C, NEW e \in E, NEW v \in V
    PROVE  [f EXCEPT ![c][e] = v] \in [C -> [E -> V]]
OBVIOUS

\* Employees: two-level tables whose entries keep their types.
LEMMA EmployeeStepKeeps ==
    ASSUME RegistryInv, NEW c \in DetailInput, NEW e \in EmployeeInput,
           \/ \E value \in CommitmentValue : AddEmployee(c, e, value)
           \/ RemoveEmployee(c, e)
           \/ \E value \in CommitmentValue : UpdateCommitment(c, e, value)
           \/ \E status \in StatusInput : SetEmployeeStatus(c, e, status),
           UNCHANGED <<registryManagerSet, now>>
    PROVE  RegistryInv'
<1> USE RegistryAssumption
<1>1. c \in CompanyId /\ e \in Employee
  OBVIOUS
<1>2. UNCHANGED <<companyVars, rotationVars, thresholdVars>>
  BY DEF AddEmployee, RemoveEmployee, UpdateCommitment, SetEmployeeStatus
<1>3. /\ employeeCommitment \in [CompanyId -> [Employee -> CommitmentValue \cup {None}]]
      /\ empStatus \in [CompanyId -> [Employee -> EmployeeStatus \cup {None}]]
  BY DEF RegistryInv, RegistryTypeOK
<1>4. /\ employeeCommitment' \in [CompanyId -> [Employee -> CommitmentValue \cup {None}]]
      /\ empStatus' \in [CompanyId -> [Employee -> EmployeeStatus \cup {None}]]
  <2>1. \A v \in CommitmentValue \cup {None} :
          [employeeCommitment EXCEPT ![c][e] = v]
            \in [CompanyId -> [Employee -> CommitmentValue \cup {None}]]
    BY <1>1, <1>3, TableEntry
  <2>2. \A v \in EmployeeStatus \cup {None} :
          [empStatus EXCEPT ![c][e] = v] \in [CompanyId -> [Employee -> EmployeeStatus \cup {None}]]
    BY <1>1, <1>3, TableEntry
  <2>3. "Active" \in EmployeeStatus /\ StatusInput \subseteq EmployeeStatus
    BY DEF EmployeeStatus
  <2>4. ASSUME NEW value \in CommitmentValue, AddEmployee(c, e, value)
        PROVE  <1>4!1 /\ <1>4!2
    BY <2>1, <2>2, <2>3, <2>4 DEF AddEmployee
  <2>5. ASSUME RemoveEmployee(c, e)
        PROVE  <1>4!1 /\ <1>4!2
    BY <1>3, <2>1, <2>5 DEF RemoveEmployee
  <2>6. ASSUME NEW value \in CommitmentValue, UpdateCommitment(c, e, value)
        PROVE  <1>4!1 /\ <1>4!2
    BY <1>3, <2>1, <2>6 DEF UpdateCommitment
  <2>7. ASSUME NEW status \in StatusInput, SetEmployeeStatus(c, e, status)
        PROVE  <1>4!1 /\ <1>4!2
    BY <1>3, <2>2, <2>3, <2>7 DEF SetEmployeeStatus
  <2>8. QED
    BY <2>4, <2>5, <2>6, <2>7
<1>5. RegistryTypeOK'
  BY <1>2, <1>4 DEF RegistryInv, RegistryTypeOK, companyVars, rotationVars, thresholdVars
<1>6. QED
  BY <1>2, <1>5, OthersKeep DEF rotationVars

\* Treasury proposals and thresholds.
LEMMA DetailStepKeeps ==
    ASSUME RegistryInv, NEW c \in DetailInput,
           \/ \E a \in TreasurySuccessor : ProposeTreasuryRotation(c, a)
           \/ CancelTreasuryRotation(c)
           \/ \E n \in ThresholdInput, g \in GraceInput : ProposeThresholdRotation(c, n, g)
           \/ ActivateThresholdRotation(c)
           \/ CancelThresholdRotation(c)
           \/ \E n \in ThresholdInput : SetInitialApprovalThreshold(c, n),
           UNCHANGED <<registryManagerSet, now>>
    PROVE  RegistryInv'
<1> USE RegistryAssumption
<1>1. c \in CompanyId
  OBVIOUS
<1>2. UNCHANGED <<companyVars, employeeVars, pendingAdminRotation>>
  BY DEF ProposeTreasuryRotation, CancelTreasuryRotation, ProposeThresholdRotation,
         ActivateThresholdRotation, CancelThresholdRotation, SetInitialApprovalThreshold,
         rotationVars
<1>3. pendingTreasuryRotation' \in [CompanyId -> PendingCompanyRotation \cup {None}]
  <2>1. Registered(c) => \A a \in TreasurySuccessor : Proposed(c, a) \in PendingCompanyRotation
    BY <1>1 DEF Registered, Proposed, RegistryInv, RegistryTypeOK, CompanyInfo,
                PendingCompanyRotation
  <2>2. pendingTreasuryRotation \in [CompanyId -> PendingCompanyRotation \cup {None}]
    BY DEF RegistryInv, RegistryTypeOK
  <2>3. ASSUME NEW a \in TreasurySuccessor, ProposeTreasuryRotation(c, a)
        PROVE  pendingTreasuryRotation' \in [CompanyId -> PendingCompanyRotation \cup {None}]
    <3>1. /\ Proposed(c, a) \in PendingCompanyRotation
          /\ pendingTreasuryRotation' = [pendingTreasuryRotation EXCEPT ![c] = Proposed(c, a)]
      BY <2>1, <2>3 DEF ProposeTreasuryRotation
    <3>2. QED
      BY <1>1, <2>2, <3>1, SMT
  <2>4. CASE CancelTreasuryRotation(c)
    BY <1>1, <2>2, <2>4 DEF CancelTreasuryRotation
  <2>5. CASE UNCHANGED rotationVars
    BY <2>2, <2>5 DEF rotationVars
  <2>6. \/ \E a \in TreasurySuccessor : ProposeTreasuryRotation(c, a)
        \/ CancelTreasuryRotation(c)
        \/ UNCHANGED rotationVars
    BY DEF ProposeThresholdRotation, ActivateThresholdRotation, CancelThresholdRotation,
           SetInitialApprovalThreshold
  <2>7. QED
    BY <2>3, <2>4, <2>5, <2>6
<1>4. pendingThreshold' \in [CompanyId -> PendingThresholdRotation \cup {None}]
  <2>1. \A n \in ThresholdInput, g \in GraceInput :
          ValidThreshold(n) =>
            [required |-> n, effective |-> now + g] \in PendingThresholdRotation
    <3>1. now \in Nat
      BY SMT DEF RegistryInv, RegistryTypeOK
    <3>2. \A n \in ThresholdInput, g \in GraceInput :
            ValidThreshold(n) => n \in Nat \ {0} /\ now + g \in Nat
      BY <3>1, SMT DEF ValidThreshold
    <3> QED
      BY <3>2 DEF PendingThresholdRotation
  <2>2. ASSUME NEW n \in ThresholdInput, NEW g \in GraceInput,
               ProposeThresholdRotation(c, n, g)
        PROVE  pendingThreshold' \in [CompanyId -> PendingThresholdRotation \cup {None}]
    <3> DEFINE r == [required |-> n, effective |-> now + g]
    <3>1. r \in PendingThresholdRotation /\ pendingThreshold' = [pendingThreshold EXCEPT ![c] = r]
      BY <2>1, <2>2 DEF ProposeThresholdRotation
    <3> HIDE DEF r
    <3>2. QED
      BY <1>1, <3>1 DEF RegistryInv, RegistryTypeOK
  <2>3. CASE \A n \in ThresholdInput, g \in GraceInput : ~ProposeThresholdRotation(c, n, g)
    BY <1>1, <2>3 DEF RegistryInv, RegistryTypeOK, ProposeTreasuryRotation,
         CancelTreasuryRotation, ActivateThresholdRotation, CancelThresholdRotation,
         SetInitialApprovalThreshold, thresholdVars
  <2>4. QED
    BY <2>2, <2>3
<1>5. approvalThreshold' \in [CompanyId -> (Nat \ {0}) \cup {None}]
  <2>1. pendingThreshold[c] # None => pendingThreshold[c].required \in Nat \ {0}
    BY <1>1 DEF RegistryInv, RegistryTypeOK, PendingThresholdRotation
  <2>2. \A n \in ThresholdInput : ValidThreshold(n) => n \in Nat \ {0}
    BY DEF ValidThreshold
  <2>3. approvalThreshold \in [CompanyId -> (Nat \ {0}) \cup {None}]
    BY DEF RegistryInv, RegistryTypeOK
  <2>4. CASE ActivateThresholdRotation(c)
    BY <1>1, <2>1, <2>3, <2>4 DEF ActivateThresholdRotation
  <2>5. ASSUME NEW n \in ThresholdInput, SetInitialApprovalThreshold(c, n)
        PROVE  approvalThreshold' \in [CompanyId -> (Nat \ {0}) \cup {None}]
    <3>1. n \in Nat \ {0} /\ approvalThreshold' = [approvalThreshold EXCEPT ![c] = n]
      BY <2>2, <2>5 DEF SetInitialApprovalThreshold
    <3>2. QED
      BY <1>1, <2>3, <3>1, SMT
  <2>6. CASE UNCHANGED approvalThreshold
    BY <2>3, <2>6
  <2>7. \/ ActivateThresholdRotation(c)
        \/ \E n \in ThresholdInput : SetInitialApprovalThreshold(c, n)
        \/ UNCHANGED approvalThreshold
    BY DEF ProposeTreasuryRotation, CancelTreasuryRotation, ProposeThresholdRotation,
           CancelThresholdRotation, thresholdVars
  <2>8. QED
    BY <2>4, <2>5, <2>6, <2>7
<1>6. RegistryTypeOK'
  BY <1>2, <1>3, <1>4, <1>5 DEF RegistryInv, RegistryTypeOK, companyVars, employeeVars
<1>7. QED
  BY <1>2, <1>6, OthersKeep

\* Every step of the registry keeps the invariant.
LEMMA RegistryNextKeeps ==
    ASSUME RegistryInv, [RegistryNext]_allVars
    PROVE  RegistryInv'
<1> USE RegistryAssumption
<1>1. CASE CompanyNext /\ UNCHANGED <<registryManagerSet, now, pauseVars>>
  <2>1. ASSUME NEW a \in AdminInput, NEW t \in TreasuryInput, RegisterCompany(a, t)
        PROVE  RegistryInv'
    BY <1>1, <2>1, RegisterKeeps
  <2>2. ASSUME NEW c \in CompanyId, NEW a \in AdminInput, ProposeAdminRotation(c, a)
        PROVE  RegistryInv'
    BY <1>1, <2>2, ProposeKeeps
  <2>3. ASSUME NEW c \in CompanyId, AcceptAdminRotation(c)
        PROVE  RegistryInv'
    BY <1>1, <2>3, AcceptKeeps
  <2>4. ASSUME NEW c \in CompanyId, CancelAdminRotation(c)
        PROVE  RegistryInv'
    <3>1. /\ pendingAdminRotation' = [pendingAdminRotation EXCEPT ![c] = None]
          /\ UNCHANGED <<companyVars, employeeVars, pendingTreasuryRotation, thresholdVars>>
      BY <2>4 DEF CancelAdminRotation
    <3>2. RegistryTypeOK'
      BY <1>1, <3>1 DEF RegistryInv, RegistryTypeOK, companyVars, employeeVars, thresholdVars
    <3>3. QED
      BY <3>1, <3>2, OthersKeep DEF RegistryInv, RegistryTypeOK
  <2>5. ASSUME NEW c \in DetailInput, AcceptTreasuryRotation(c)
        PROVE  RegistryInv'
    BY <1>1, <2>5, TreasuryKeeps
  <2>6. QED
    BY <1>1, <2>1, <2>2, <2>3, <2>4, <2>5, EmployeeStepKeeps, DetailStepKeeps DEF CompanyNext
<1>2. CASE UNCHANGED registryVars /\ (SetPauseManager \/ Tick \/ UNCHANGED <<registryManagerSet, now>>)
  <2>1. UNCHANGED <<companyVars, employeeVars, rotationVars, thresholdVars>>
    BY <1>2 DEF registryVars
  <2>2. registryManagerSet' \in BOOLEAN
    <3>1. registryManagerSet' = TRUE \/ UNCHANGED registryManagerSet
      BY <1>2 DEF SetPauseManager, Tick
    <3>2. QED
      BY <3>1 DEF RegistryInv, RegistryTypeOK
  <2>3. now' \in 0..MaxTime
    <3>1. UNCHANGED now \/ (now < MaxTime /\ now' = now + 1)
      BY <1>2 DEF SetPauseManager, Tick
    <3>2. QED
      BY <3>1, SMT DEF RegistryInv, RegistryTypeOK
  <2>4. RegistryTypeOK'
    BY <2>1, <2>2, <2>3 DEF RegistryInv, RegistryTypeOK, companyVars, employeeVars,
                            rotationVars, thresholdVars
  <2>5. QED
    BY <2>1, <2>4, OthersKeep DEF rotationVars
<1>3. QED
  BY <1>1, <1>2 DEF RegistryNext, SetPauseManager, Tick, allVars

\* A registry without companies satisfies it.
LEMMA RegistryInitial == RegistryInit => RegistryInv
<1> SUFFICES ASSUME RegistryInit
             PROVE  RegistryInv
  OBVIOUS
<1>1. registryManagerSet \in BOOLEAN
  BY DEF RegistryInit
<1>2. RegistryTypeOK
  BY <1>1, RegistryAssumption, SMT DEF RegistryInit, RegistryTypeOK
<1>3. SequenceFresh /\ AdminProposalCurrent
  BY DEF RegistryInit, SequenceFresh, AdminProposalCurrent
<1>4. AdminIndexSound
  BY RegistryAssumption, SMT DEF RegistryInit, AdminIndexSound, CompanyId
<1>5. QED
  BY <1>2, <1>3, <1>4 DEF RegistryInv

\* It holds in every reachable state of the registry.
LEMMA RegistryInvariant == RegistrySpec => []RegistryInv
<1>1. RegistryInit => RegistryInv
  BY RegistryInitial
<1>2. RegistryInv /\ [RegistryNext]_allVars => RegistryInv'
  BY RegistryNextKeeps
<1>3. QED
  BY <1>1, <1>2, PTL DEF RegistrySpec, allVars

\* An account that the admin index names as admin of a company is the admin
\* stored with that company, after any sequence of registrations and
\* rotations (register_company, accept_admin_rotation).
THEOREM AdminIndexSoundHolds == RegistrySpec => []AdminIndexSound
<1>1. RegistryInv => AdminIndexSound
  BY DEF RegistryInv
<1>2. QED
  BY <1>1, RegistryInvariant, PTL

\* No admin proposal survives a change of admin: a pending rotation was
\* proposed by the account that is admin now (propose_admin_rotation,
\* accept_admin_rotation).
THEOREM AdminProposalCurrentHolds == RegistrySpec => []AdminProposalCurrent
<1>1. RegistryInv => AdminProposalCurrent
  BY DEF RegistryInv
<1>2. QED
  BY <1>1, RegistryInvariant, PTL

\* The threshold in force changes only when the grace period of a proposal is
\* over (activate_threshold_rotation, set_initial_approval_threshold).
THEOREM ThresholdsWaitHolds == RegistrySpec => ThresholdsWait
<1>1. RegistryInv /\ [RegistryNext]_allVars => [ThresholdStep]_allVars
  <2> SUFFICES ASSUME RegistryInv, RegistryNext
               PROVE  ThresholdStep
    BY DEF allVars
  <2> SUFFICES ASSUME NEW c \in CompanyId, approvalThreshold[c] # None,
                      approvalThreshold'[c] # approvalThreshold[c]
               PROVE  /\ pendingThreshold[c] # None
                      /\ approvalThreshold'[c] = pendingThreshold[c].required
                      /\ now >= pendingThreshold[c].effective
                      /\ pendingThreshold'[c] = None
    BY DEF ThresholdStep
  <2>1. CompanyNext
    BY DEF RegistryNext, SetPauseManager, Tick, registryVars, thresholdVars
  <2>2. PICK d \in DetailInput : \/ ActivateThresholdRotation(d)
                                \/ \E n \in ThresholdInput : SetInitialApprovalThreshold(d, n)
    BY <2>1, SMT DEF CompanyNext, RegisterCompany, AddEmployee, RemoveEmployee, UpdateCommitment,
                SetEmployeeStatus, ProposeAdminRotation, AcceptAdminRotation,
                CancelAdminRotation, ProposeTreasuryRotation, AcceptTreasuryRotation,
                CancelTreasuryRotation, ProposeThresholdRotation, CancelThresholdRotation,
                thresholdVars
  <2>3. d = c
    BY <2>2 DEF ActivateThresholdRotation, SetInitialApprovalThreshold, RegistryInv,
                RegistryTypeOK
  <2>4. ActivateThresholdRotation(c)
    BY <2>2, <2>3 DEF SetInitialApprovalThreshold, Unconfigured
  <2>5. QED
    BY <2>4 DEF ActivateThresholdRotation, RegistryInv, RegistryTypeOK
<1>2. QED
  BY <1>1, RegistryInvariant, PTL DEF RegistrySpec, ThresholdsWait, allVars

----------------------------------------------------------------------------
(***************************************************************************)
(* What the steps that pay nothing leave alone.                            *)
(***************************************************************************)
\* Amounts have their types, and nothing is noted for a payment not made.
MoneyOK ==
    /\ totalPaid \in [CompanyId -> Nat]
    /\ balance \in [Account \cup Employee -> Nat]
    /\ receipt \in [Employee -> [PeriodId -> Nat]]
    /\ \A e \in Employee, p \in PeriodId : payment[e][p] = None => receipt[e][p] = 0

\* Steps that pay nothing leave the books and the tokens alone.
LEMMA QuietKeepsMoney ==
    ASSUME MoneyOK, TotalsExact, TokensFollowRecords, UNCHANGED paymentVars
    PROVE  MoneyOK' /\ TotalsExact' /\ TokensFollowRecords'
<1>1. UNCHANGED <<payment, receipt, totalPaid, balance>>
  BY DEF paymentVars
<1>2. MoneyOK'
  BY <1>1 DEF MoneyOK
<1>3. TotalsExact'
  BY <1>1 DEF TotalsExact, PaidIn, PaidBy
<1>4. TokensFollowRecords'
  BY <1>1 DEF TokensFollowRecords
<1> QED
  BY <1>2, <1>3, <1>4

\* A period that is created starts with no payment, and a period that is
\* closed keeps its count.
LEMMA PeriodStepKeepsCounts ==
    ASSUME PeriodsOK, PeriodCountExact, UNCHANGED paymentVars, Cardinality({}) = 0,
           NEW c \in CompanyId, NEW p \in PeriodId,
           \/ CreatePeriod(c) /\ p = periodSequence[c]
           \/ ClosePeriod(c, p)
    PROVE  PeriodCountExact'
<1>1. \A d \in CompanyId, q \in PeriodId : PaidBy(d, q)' = PaidBy(d, q)
  BY DEF PaidBy, paymentVars
<1>2. Cardinality({}) = 0
  OBVIOUS
<1>3. CASE CreatePeriod(c) /\ p = periodSequence[c]
  <2> DEFINE new == [created |-> now, closed |-> FALSE, count |-> 0]
  <2>1. /\ period[c][p] = None
        /\ period' = [period EXCEPT ![c][p] = new]
    BY <1>3 DEF CreatePeriod
  <2>2. new \in PayrollPeriod /\ new.count = 0
    <3>1. FALSE \in BOOLEAN
      OBVIOUS
    <3> QED
      BY <3>1 DEF PayrollPeriod, PeriodsOK
  <2> HIDE DEF new
  <2>3. period' = [period EXCEPT ![c] = [period[c] EXCEPT ![p] = new]]
    BY <2>1 DEF PeriodsOK
  <2>4. \A d \in CompanyId, q \in PeriodId :
          period'[d][q] = IF d = c /\ q = p THEN new ELSE period[d][q]
    BY <2>2, <2>3, PeriodEntry, SMT DEF PeriodsOK
  <2>5. PaidBy(c, p) = {} /\ new # None
    BY <2>1, <2>2, ExecutorAssumption DEF PeriodCountExact
  <2>6. ASSUME NEW d \in CompanyId, NEW q \in PeriodId
        PROVE  IF period'[d][q] = None THEN PaidBy(d, q)' = {}
               ELSE period'[d][q].count = Cardinality(PaidBy(d, q)')
    <3>1. CASE d = c /\ q = p
      <4>1. period'[d][q] = new /\ PaidBy(d, q)' = {}
        BY <1>1, <2>4, <2>5, <3>1
      <4> QED
        BY <1>2, <2>2, <4>1
    <3>2. CASE ~(d = c /\ q = p)
      BY <1>1, <2>4, <3>2, SMT DEF PeriodCountExact
    <3> QED
      BY <3>1, <3>2
  <2> QED
    BY <2>6 DEF PeriodCountExact
<1>4. CASE ClosePeriod(c, p)
  <2> DEFINE new == [period[c][p] EXCEPT !.closed = TRUE]
  <2>1. period[c][p] # None /\ period[c][p] \in PayrollPeriod
    BY <1>4, SMT DEF ClosePeriod, PeriodOpen, PeriodsOK
  <2>2. new \in PayrollPeriod /\ new.count = period[c][p].count
    <3>1. TRUE \in BOOLEAN
      OBVIOUS
    <3> QED
      BY <2>1, <3>1 DEF PayrollPeriod
  <2>3. period' = [period EXCEPT ![c] = [period[c] EXCEPT ![p] = new]]
    BY <1>4 DEF ClosePeriod, PeriodsOK
  <2> HIDE DEF new
  <2>4. \A d \in CompanyId, q \in PeriodId :
          period'[d][q] = IF d = c /\ q = p THEN new ELSE period[d][q]
    BY <2>2, <2>3, PeriodEntry, SMT DEF PeriodsOK
  <2>5. new # None
    BY <2>2, ExecutorAssumption
  <2> QED
    BY <1>1, <2>1, <2>2, <2>4, <2>5, SMT DEF PeriodCountExact
<1> QED
  BY <1>3, <1>4

\* The steps of the registry among those of the executor keep the registry's
\* invariant, and with it the type of a company's treasury.
LEMMA RegistryStays ==
    ASSUME RegistryInv, [Next]_vars
    PROVE  RegistryInv'
<1>1. CASE UNCHANGED registryAll
  BY <1>1, RegistryNextKeeps DEF registryAll, allVars
<1>2. CASE CompanyStep /\ UNCHANGED <<registryManagerSet, now, pauseVars>>
  <2>1. CompanyNext
    BY <1>2 DEF CompanyStep, CompanyNext
  <2> QED
    BY <1>2, <2>1, RegistryNextKeeps DEF RegistryNext
<1>3. CASE Tick /\ UNCHANGED pauseVars
  BY <1>3, RegistryNextKeeps DEF RegistryNext
<1>4. CASE PauseNext /\ UNCHANGED <<registryVars, registryManagerSet, now>>
  BY <1>4, RegistryNextKeeps DEF RegistryNext
<1> QED
  BY <1>1, <1>2, <1>3, <1>4 DEF Next, ExecutorNext, StoreCommitment, vars

----------------------------------------------------------------------------
(***************************************************************************)
(* The verifier: references to proofs.                                     *)
(***************************************************************************)
\* What registration establishes and nothing later changes: a stored reference
\* was registered in the past and expires within the cap.
ReferencesWithinCap ==
    \A id \in RefId :
        proofReference[id] # None =>
            /\ proofReference[id].registered <= sequence
            /\ proofReference[id].expires <= proofReference[id].registered + MaxTTL

VerifierInv == VerifierTypeOK /\ ReferencesWithinCap

\* Revoking a reference (revoke_proof_reference) changes no other field of it.
LEMMA Revoked ==
    ASSUME VerifierTypeOK, NEW id \in RefId, RevokeProofReference(id)
    PROVE  /\ proofReference' =
                [proofReference EXCEPT ![id] = [proofReference[id] EXCEPT !.revoked = TRUE]]
           /\ proofReference[id] \in ProofReference
           /\ proofReference'[id] \in ProofReference
           /\ proofReference'[id].proof = proofReference[id].proof
           /\ proofReference'[id].registered = proofReference[id].registered
           /\ proofReference'[id].expires = proofReference[id].expires
           /\ proofReference'[id].revoked
<1>1. proofReference[id] \in ProofReference
  BY DEF VerifierTypeOK, RevokeProofReference
<1>2. proofReference' =
        [proofReference EXCEPT ![id] = [proofReference[id] EXCEPT !.revoked = TRUE]]
  BY DEF RevokeProofReference
<1>3. proofReference'[id] = [proofReference[id] EXCEPT !.revoked = TRUE]
  BY <1>2 DEF VerifierTypeOK
<1>4. /\ proofReference'[id] \in ProofReference
      /\ proofReference'[id].proof = proofReference[id].proof
      /\ proofReference'[id].registered = proofReference[id].registered
      /\ proofReference'[id].expires = proofReference[id].expires
      /\ proofReference'[id].revoked
  <2> DEFINE ref == proofReference[id]
             new == proofReference'[id]
  <2>1. ref \in ProofReference /\ new = [ref EXCEPT !.revoked = TRUE]
    BY <1>1, <1>3
  <2> HIDE DEF ref, new
  <2>2. /\ new \in ProofReference
        /\ new.proof = ref.proof
        /\ new.registered = ref.registered
        /\ new.expires = ref.expires
        /\ new.revoked
    BY <2>1 DEF ProofReference
  <2> QED
    BY <2>2 DEF ref, new
<1>5. QED
  BY <1>1, <1>2, <1>4

\* The invariant holds in every reachable state of the verifier.
LEMMA VerifierInvariant == VerifierSpec => []VerifierInv
<1>1. VerifierInit => VerifierInv
  BY VerifierAssumption, SMT DEF VerifierInit, VerifierInv, VerifierTypeOK, ReferencesWithinCap, Sequence
<1>2. VerifierInv /\ [VerifierNext]_verifierVars => VerifierInv'
  <2> SUFFICES ASSUME VerifierInv, [VerifierNext]_verifierVars PROVE VerifierInv'
    OBVIOUS
  <2> USE VerifierAssumption, ReferenceAssumption
  <2>1. ASSUME NEW length \in KeyLength, InitializeVerifier(length) PROVE VerifierInv'
    BY <2>1 DEF InitializeVerifier, VerifierInv, VerifierTypeOK, ReferencesWithinCap
  <2>2. ASSUME NEW id \in RefId, NEW proof \in Proof,
               NEW expires \in 0..MaxSequence + MaxTTL,
               RegisterProofReference(id, proof, expires)
        PROVE  VerifierInv'
    <3> DEFINE ref == [proof |-> proof, registered |-> sequence,
                       expires |-> expires, revoked |-> FALSE]
    <3>1. ref \in ProofReference /\ ref.registered = sequence /\ ref.expires = expires
      BY SMT DEF VerifierInv, VerifierTypeOK, ProofReference, Sequence
    <3>2. proofReference' = [proofReference EXCEPT ![id] = ref]
      BY <2>2 DEF RegisterProofReference
    <3>3. sequence' = sequence /\ verificationKey' = verificationKey
      BY <2>2 DEF RegisterProofReference
    <3>4. expires <= sequence + MaxTTL
      BY <2>2, SMT DEF RegisterProofReference, TTLAllowed, VerifierInv, VerifierTypeOK, Sequence
    <3> HIDE DEF ref
    <3>5. VerifierTypeOK'
      BY <3>1, <3>2, <3>3 DEF VerifierInv, VerifierTypeOK
    <3>6. ReferencesWithinCap'
      BY <3>1, <3>2, <3>3, <3>4, SMT DEF VerifierInv, VerifierTypeOK, ReferencesWithinCap, Sequence
    <3>7. QED
      BY <3>5, <3>6 DEF VerifierInv
  <2>3. ASSUME NEW id \in RefId, RevokeProofReference(id) PROVE VerifierInv'
    <3>1. sequence' = sequence /\ verificationKey' = verificationKey
      BY <2>3 DEF RevokeProofReference
    <3>2. VerifierTypeOK'
      BY <2>3, <3>1, Revoked DEF VerifierInv, VerifierTypeOK
    <3>3. proofReference[id] # None
      BY <2>3 DEF RevokeProofReference
    <3>4. \A x \in RefId : x # id => proofReference'[x] = proofReference[x]
      BY <2>3, Revoked, SMT DEF VerifierInv, VerifierTypeOK
    <3>5. ReferencesWithinCap'
      BY <2>3, <3>1, <3>3, <3>4, Revoked DEF VerifierInv, ReferencesWithinCap
    <3>6. QED
      BY <3>2, <3>5 DEF VerifierInv
  <2>4. CASE CloseLedger
    <3>1. VerifierTypeOK'
      BY <2>4, SMT DEF CloseLedger, VerifierInv, VerifierTypeOK, Sequence
    <3>2. ReferencesWithinCap'
      <4> SUFFICES ASSUME NEW id \in RefId, proofReference[id] # None
                   PROVE  /\ proofReference[id].registered <= sequence'
                          /\ proofReference[id].expires
                               <= proofReference[id].registered + MaxTTL
        BY <2>4 DEF CloseLedger, ReferencesWithinCap
      <4>1. proofReference[id] \in ProofReference
        BY DEF VerifierInv, VerifierTypeOK
      <4>2. proofReference[id].registered \in Nat
        BY <4>1, SMT DEF ProofReference, Sequence
      <4>3. QED
        BY <2>4, <4>2, SMT DEF CloseLedger, VerifierInv, VerifierTypeOK, ReferencesWithinCap, Sequence
    <3>3. QED
      BY <3>1, <3>2 DEF VerifierInv
  <2>5. CASE UNCHANGED verifierVars
    BY <2>5 DEF verifierVars, VerifierInv, VerifierTypeOK, ReferencesWithinCap
  <2>6. QED
    BY <2>1, <2>2, <2>3, <2>4, <2>5 DEF VerifierNext
<1>3. QED
  BY <1>1, <1>2, PTL DEF VerifierSpec

\* A reference that is_proof_reference_valid accepts is no older than the cap,
\* in every reachable state.
THEOREM LifetimeCappedHolds == VerifierSpec => []LifetimeCapped
<1>1. VerifierInv => LifetimeCapped
  <2> SUFFICES ASSUME VerifierInv, NEW id \in RefId, IsProofReferenceValid(id)
               PROVE  sequence <= proofReference[id].registered + MaxTTL
    BY DEF LifetimeCapped
  <2>1. proofReference[id] \in ProofReference
    BY DEF VerifierInv, VerifierTypeOK, IsProofReferenceValid
  <2>2. proofReference[id].registered \in Nat /\ proofReference[id].expires \in Nat
    BY <2>1, SMT DEF ProofReference, Sequence
  <2>3. QED
    BY <2>2, VerifierAssumption, SMT
    DEF VerifierInv, VerifierTypeOK, ReferencesWithinCap, IsProofReferenceValid, IsCurrent, Sequence
<1>2. QED
  BY <1>1, VerifierInvariant, PTL

\* Once unusable, always unusable, and for one proof only: no step of any
\* reachable state registers an identifier again, moves an expiry or takes a
\* revocation back.
THEOREM UnusableForeverHolds == VerifierSpec => UnusableForever
<1>1. VerifierInv /\ [VerifierNext]_verifierVars => [ReferenceStep]_verifierVars
  <2> SUFFICES ASSUME VerifierInv, VerifierNext, NEW id \in RefId, proofReference[id] # None
               PROVE  /\ proofReference'[id] # None
                      /\ proofReference'[id].proof = proofReference[id].proof
                      /\ IsProofReferenceValid(id)' => IsProofReferenceValid(id)
    BY DEF ReferenceStep
  <2> USE VerifierAssumption, ReferenceAssumption
  <2>1. ASSUME NEW length \in KeyLength, InitializeVerifier(length)
        PROVE  proofReference'[id] = proofReference[id] /\ sequence' = sequence
    BY <2>1 DEF InitializeVerifier
  <2>2. ASSUME NEW x \in RefId, NEW proof \in Proof,
               NEW expires \in 0..MaxSequence + MaxTTL,
               RegisterProofReference(x, proof, expires)
        PROVE  proofReference'[id] = proofReference[id] /\ sequence' = sequence
    BY <2>2 DEF RegisterProofReference, Registrable, VerifierInv, VerifierTypeOK
  <2>3. ASSUME NEW x \in RefId, RevokeProofReference(x), x # id
        PROVE  proofReference'[id] = proofReference[id] /\ sequence' = sequence
    BY <2>3 DEF RevokeProofReference, VerifierInv, VerifierTypeOK
  <2>4. ASSUME RevokeProofReference(id)
        PROVE  /\ proofReference'[id] # None
               /\ proofReference'[id].proof = proofReference[id].proof
               /\ ~IsProofReferenceValid(id)'
    BY <2>4, Revoked DEF VerifierInv, IsProofReferenceValid, IsCurrent
  <2>5. ASSUME CloseLedger
        PROVE  /\ proofReference'[id] = proofReference[id]
               /\ sequence \in Nat
               /\ sequence' = sequence + 1
    BY <2>5, SMT DEF CloseLedger, VerifierInv, VerifierTypeOK, Sequence
  <2>6. proofReference[id].expires \in Nat
    BY DEF VerifierInv, VerifierTypeOK, ProofReference
  <2>7. \/ proofReference'[id] = proofReference[id] /\ sequence' = sequence
        \/ RevokeProofReference(id)
        \/ CloseLedger
    BY <2>1, <2>2, <2>3 DEF VerifierNext
  <2>8. CASE proofReference'[id] = proofReference[id] /\ sequence' = sequence
    BY <2>8 DEF IsProofReferenceValid, IsCurrent
  <2>9. CASE CloseLedger
    BY <2>5, <2>6, <2>9, SMT DEF IsProofReferenceValid, IsCurrent
  <2>10. QED
    BY <2>4, <2>7, <2>8, <2>9
<1>2. QED
  BY <1>1, VerifierInvariant, PTL DEF VerifierSpec, UnusableForever
=============================================================================
