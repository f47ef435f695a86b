------------------------- MODULE PaymentBooksProofs -------------------------
(***************************************************************************)
(* Theorems about the payment executor, for every number of companies,     *)
(* accounts, employees and periods: when it pays, what its books say, and  *)
(* where the tokens are.                                                   *)
(***************************************************************************)
EXTENDS PaymentExecutorProofs, SumTheorems

\* Zenon proves the leaves of the proofs that name no prover; those that need
\* arithmetic, records or sequences name the SMT solver.
USE Zenon

\* Both sets of identifiers are finite.
LEMMA FiniteIds == IsFiniteSet(CompanyId) /\ IsFiniteSet(PeriodId)
  BY FS_Interval, RegistryAssumption, ExecutorAssumption, SMT DEF CompanyId, PeriodId

\* What a payment, single or in a batch, adds up to, and who pays it.
LEMMA PayAmounts ==
    ASSUME RegistryInv, MoneyOK, NEW c \in CompanyId, NEW p \in PeriodId,
           NEW pay, DOMAIN pay \subseteq Employee, \A e \in DOMAIN pay : pay[e] \in Int, NEW proof,
           Pay(c, p, pay, proof)
    PROVE  /\ IsFiniteSet(DOMAIN pay)
           /\ \A e \in DOMAIN pay : pay[e] \in Nat
           /\ SumOf(pay) \in Nat
           /\ Registered(c)
           /\ company[c].treasury \in Account
           /\ SumOf(pay) <= balance[company[c].treasury]
<1>1. IsFiniteSet(DOMAIN pay)
  BY FS_Subset, ExecutorAssumption
<1>2. \A e \in DOMAIN pay : pay[e] \in Nat
  BY SMT DEF Pay
<1>3. SumOf(pay) \in Nat
  BY <1>1, <1>2, SumNat, SMT DEF SumOf
<1>4. Registered(c) /\ SumOf(pay) <= balance[company[c].treasury]
  BY DEF Pay, TokenCovers, PayingTreasury
<1>5. company[c].treasury \in Account
  BY <1>4 DEF Registered, RegistryInv, RegistryTypeOK, CompanyInfo
<1> QED
  BY <1>1, <1>2, <1>3, <1>4, <1>5

\* Where the tokens go: from the treasury to the payees.
LEMMA PayTokens ==
    ASSUME RegistryInv, MoneyOK, NEW c \in CompanyId, NEW p \in PeriodId,
           NEW pay, DOMAIN pay \subseteq Employee, \A e \in DOMAIN pay : pay[e] \in Int, NEW proof,
           Pay(c, p, pay, proof)
    PROVE  /\ balance' \in [Account \cup Employee -> Nat]
           /\ \A a \in Account : balance'[a] = IF a = company[c].treasury
                                               THEN balance[a] - SumOf(pay) ELSE balance[a]
           /\ \A e \in Employee : balance'[e] = IF e \in DOMAIN pay
                                                THEN balance[e] + pay[e] ELSE balance[e]
           /\ totalPaid' \in [CompanyId -> Nat]
           /\ \A d \in CompanyId : totalPaid'[d] = IF d = c THEN totalPaid[d] + SumOf(pay)
                                                            ELSE totalPaid[d]
<1> DEFINE t == company[c].treasury
           s == SumOf(pay)
<1>1. /\ \A e \in DOMAIN pay : pay[e] \in Nat
      /\ s \in Nat /\ t \in Account /\ s <= balance[t]
  BY PayAmounts
<1>2. balance' = Transferred(t, pay) /\ totalPaid' = [totalPaid EXCEPT ![c] = totalPaid[c] + s]
  BY DEF Pay, PayingTreasury, NewTotal
<1>3. balance' = [h \in Account \cup Employee |->
                    IF h \in DOMAIN pay THEN balance[h] + pay[h]
                    ELSE IF h = t THEN balance[h] - s ELSE balance[h]]
  BY <1>2 DEF Transferred, MoneyOK
<1> HIDE DEF s, t
<1>4. \A a \in Account : a \notin DOMAIN pay
  BY ExecutorAssumption
<1>5. \A e \in Employee : e # t
  BY <1>1, ExecutorAssumption, SMT
<1>6. \A h \in Account \cup Employee : balance[h] \in Nat
  BY DEF MoneyOK
<1>7. \A a \in Account : balance'[a] = IF a = t THEN balance[a] - s ELSE balance[a]
  BY <1>3, <1>4, SMT
<1>8. \A e \in Employee : balance'[e] = IF e \in DOMAIN pay THEN balance[e] + pay[e] ELSE balance[e]
  BY <1>3, <1>5, SMT
<1>9. \A h \in Account \cup Employee : balance'[h] \in Nat
  BY <1>1, <1>6, <1>7, <1>8, SMT
<1>10. balance' \in [Account \cup Employee -> Nat]
  BY <1>3, <1>9
<1>11. /\ totalPaid' \in [CompanyId -> Nat]
       /\ \A d \in CompanyId : totalPaid'[d] = IF d = c THEN totalPaid[d] + s ELSE totalPaid[d]
  BY <1>1, <1>2, SMT DEF MoneyOK
<1> QED
  BY <1>7, <1>8, <1>10, <1>11 DEF s, t

\* Which records it adds: those of its payees, who had none in the period.
LEMMA PayRecords ==
    ASSUME PaymentsOK, MoneyOK, NEW c \in CompanyId, NEW p \in PeriodId, now \in Nat,
           NEW pay, DOMAIN pay \subseteq Employee, \A e \in DOMAIN pay : pay[e] \in Nat,
           NEW proof \in [DOMAIN pay -> Nullifier], Pay(c, p, pay, proof)
    PROVE  /\ PaidBy(c, p)' = PaidBy(c, p) \cup DOMAIN pay
           /\ PaidBy(c, p) \cap DOMAIN pay = {}
           /\ \A d \in CompanyId, q \in PeriodId :
                d # c \/ q # p => PaidBy(d, q)' = PaidBy(d, q)
           /\ \A e \in Employee, q \in PeriodId :
                receipt'[e][q] = IF e \in DOMAIN pay /\ q = p THEN pay[e] ELSE receipt[e][q]
           /\ \A e \in DOMAIN pay : receipt[e][p] = 0
           /\ receipt' \in [Employee -> [PeriodId -> Nat]]
           /\ \A e \in Employee, q \in PeriodId : payment'[e][q] = None => receipt'[e][q] = 0
<1> DEFINE payees == DOMAIN pay
           record(e) == [company |-> c, proof |-> proof[e], time |-> now]
<1>1. /\ \A e \in payees : payment[e][p] = None
      /\ payment' = [e \in Employee |->
                       IF e \in payees THEN [payment[e] EXCEPT ![p] = record(e)] ELSE payment[e]]
      /\ receipt' = [e \in Employee |->
                       IF e \in payees THEN [receipt[e] EXCEPT ![p] = pay[e]] ELSE receipt[e]]
  BY DEF Pay, Unpaid
<1>2. \A e \in payees : record(e) \in PaymentRecord /\ record(e).company = c
  BY DEF PaymentRecord
<1> HIDE DEF record
<1>3. \A e \in payees : record(e) # None
  BY <1>2, ExecutorAssumption, SMT
<1>4. \A e \in Employee, q \in PeriodId :
        payment'[e][q] = IF e \in payees /\ q = p THEN record(e) ELSE payment[e][q]
  BY <1>1 DEF PaymentsOK
<1>5. \A e \in Employee, q \in PeriodId :
        receipt'[e][q] = IF e \in payees /\ q = p THEN pay[e] ELSE receipt[e][q]
  BY <1>1 DEF MoneyOK
<1>6. receipt' \in [Employee -> [PeriodId -> Nat]]
  BY <1>1 DEF MoneyOK
<1>7. \A e \in Employee, q \in PeriodId : payment'[e][q] = None => receipt'[e][q] = 0
  BY <1>3, <1>4, <1>5, SMT DEF MoneyOK
<1>8. \A e \in payees : receipt[e][p] = 0
  BY <1>1 DEF MoneyOK
<1>9. PaidBy(c, p)' = PaidBy(c, p) \cup payees
  BY <1>1, <1>2, <1>3, <1>4, SMT DEF PaidBy
<1>10. PaidBy(c, p) \cap payees = {}
  BY <1>1 DEF PaidBy
<1>11. ASSUME NEW d \in CompanyId, NEW q \in PeriodId, d # c \/ q # p
       PROVE  PaidBy(d, q)' = PaidBy(d, q)
  BY <1>1, <1>2, <1>3, <1>4, <1>11, SMT DEF PaidBy
<1> QED
  BY <1>5, <1>6, <1>7, <1>8, <1>9, <1>10, <1>11

\* The invariant: what the books say, and where the tokens are.
BooksInv == MoneyOK /\ TotalsExact /\ PeriodCountExact /\ TokensFollowRecords

\* What a company has paid in a period is a natural number.
LEMMA PaidInNat ==
    ASSUME MoneyOK, NEW c \in CompanyId, NEW p \in PeriodId
    PROVE  PaidIn(c, p) \in Nat
<1>1. IsFiniteSet(PaidBy(c, p)) /\ PaidBy(c, p) \subseteq Employee
  BY FS_Subset, ExecutorAssumption DEF PaidBy
<1> DEFINE f == [e \in Employee |-> receipt[e][p]]
<1>2. \A e \in PaidBy(c, p) : f[e] \in Nat
  BY <1>1 DEF MoneyOK
<1> HIDE DEF f
<1>3. SumFunctionOnSet(f, PaidBy(c, p)) \in Nat
  BY <1>1, <1>2, SumNat
<1> QED
  BY <1>3 DEF PaidIn, f

\* A payment adds its sum to what its company has paid in its period.
LEMMA PayPaidIn ==
    ASSUME PaymentsOK, MoneyOK, NEW c \in CompanyId, NEW p \in PeriodId, now \in Nat,
           NEW pay, DOMAIN pay \subseteq Employee, \A e \in DOMAIN pay : pay[e] \in Nat,
           NEW proof \in [DOMAIN pay -> Nullifier], Pay(c, p, pay, proof)
    PROVE  /\ PaidIn(c, p)' = PaidIn(c, p) + SumOf(pay)
           /\ \A d \in CompanyId, q \in PeriodId :
                d # c \/ q # p => PaidIn(d, q)' = PaidIn(d, q)
<1> DEFINE f(q) == [e \in Employee |-> receipt[e][q]]
           g(q) == [e \in Employee |-> receipt'[e][q]]
<1>1. /\ PaidBy(c, p)' = PaidBy(c, p) \cup DOMAIN pay
      /\ PaidBy(c, p) \cap DOMAIN pay = {}
      /\ \A d \in CompanyId, q \in PeriodId : d # c \/ q # p => PaidBy(d, q)' = PaidBy(d, q)
      /\ \A e \in Employee, q \in PeriodId :
           receipt'[e][q] = IF e \in DOMAIN pay /\ q = p THEN pay[e] ELSE receipt[e][q]
      /\ receipt' \in [Employee -> [PeriodId -> Nat]]
  BY PayRecords, SMT
<1>2. \A d \in CompanyId, q \in PeriodId : PaidIn(d, q) = SumFunctionOnSet(f(q), PaidBy(d, q))
  BY DEF PaidIn
<1>3. \A d \in CompanyId, q \in PeriodId : PaidIn(d, q)' = SumFunctionOnSet(g(q), PaidBy(d, q)')
  BY DEF PaidIn
<1>4. \A d \in CompanyId, q \in PeriodId :
        PaidBy(d, q) \subseteq Employee /\ IsFiniteSet(PaidBy(d, q))
  BY FS_Subset, ExecutorAssumption DEF PaidBy
<1>5. /\ \A q \in PeriodId, e \in Employee : f(q)[e] = receipt[e][q]
      /\ \A q \in PeriodId, e \in Employee : g(q)[e] = receipt'[e][q]
  OBVIOUS
<1>6. \A q \in PeriodId, e \in Employee : receipt[e][q] \in Nat /\ receipt'[e][q] \in Nat
  BY <1>1, SMT DEF MoneyOK
<1> HIDE DEF f, g
<1>7. ASSUME NEW d \in CompanyId, NEW q \in PeriodId
      PROVE  SumFunctionOnSet(g(q), PaidBy(d, q)) = SumFunctionOnSet(f(q), PaidBy(d, q))
  <2>1. \A e \in PaidBy(d, q) : ~(e \in DOMAIN pay /\ q = p)
    BY DEF PaidBy, Pay, Unpaid
  <2>2. \A e \in PaidBy(d, q) : g(q)[e] = f(q)[e]
    BY <1>1, <1>4, <1>5, <2>1, SMT
  <2> QED
    BY <1>4, <2>2, SumEqual
<1>8. PaidIn(c, p)' = PaidIn(c, p) + SumOf(pay)
  <2>1. IsFiniteSet(DOMAIN pay)
    BY FS_Subset, ExecutorAssumption, SMT
  <2>2. \A e \in DOMAIN pay : g(p)[e] = pay[e]
    BY <1>1, <1>5, SMT
  <2>3. SumFunctionOnSet(g(p), DOMAIN pay) = SumOf(pay)
    BY <2>1, <2>2, SumEqual, SMT DEF SumOf
  <2>4. \A e \in PaidBy(c, p) \cup DOMAIN pay : g(p)[e] \in Int
    BY <1>4, <1>5, <1>6, SMT
  <2>5. SumFunctionOnSet(g(p), PaidBy(c, p) \cup DOMAIN pay)
          = SumFunctionOnSet(g(p), PaidBy(c, p)) + SumFunctionOnSet(g(p), DOMAIN pay)
    BY <1>1, <1>4, <2>1, <2>4, SumUnion, SMT
  <2>6. PaidIn(c, p)' = SumFunctionOnSet(g(p), PaidBy(c, p) \cup DOMAIN pay)
    BY <1>1, <1>3
  <2>7. PaidIn(c, p) = SumFunctionOnSet(g(p), PaidBy(c, p))
    BY <1>2, <1>7
  <2> QED
    BY <2>3, <2>5, <2>6, <2>7
<1>9. ASSUME NEW d \in CompanyId, NEW q \in PeriodId, d # c \/ q # p
      PROVE  PaidIn(d, q)' = PaidIn(d, q)
  BY <1>1, <1>2, <1>3, <1>7, <1>9, SMT
<1> QED
  BY <1>8, <1>9

\* So its company's total stays the sum of what it paid in its periods.
LEMMA PayKeepsTotals ==
    ASSUME RegistryInv, PaymentsOK, MoneyOK, TotalsExact,
           NEW c \in CompanyId, NEW p \in PeriodId, now \in Nat,
           NEW pay, DOMAIN pay \subseteq Employee, \A e \in DOMAIN pay : pay[e] \in Int,
           NEW proof \in [DOMAIN pay -> Nullifier], Pay(c, p, pay, proof)
    PROVE  TotalsExact'
<1>1. /\ \A e \in DOMAIN pay : pay[e] \in Nat
      /\ SumOf(pay) \in Nat
  BY PayAmounts
<1>2. /\ PaidIn(c, p)' = PaidIn(c, p) + SumOf(pay)
      /\ \A d \in CompanyId, q \in PeriodId :
           d # c \/ q # p => PaidIn(d, q)' = PaidIn(d, q)
  BY <1>1, PayPaidIn
<1>3. \A d \in CompanyId : totalPaid'[d] = IF d = c THEN totalPaid[d] + SumOf(pay)
                                                    ELSE totalPaid[d]
  BY PayTokens, SMT
<1> SUFFICES ASSUME NEW d \in CompanyId
             PROVE  totalPaid'[d] = SumFunctionOnSet([q \in PeriodId |-> PaidIn(d, q)'], PeriodId)
  BY DEF TotalsExact
<1> DEFINE f == [q \in PeriodId |-> PaidIn(d, q)]
           g == [q \in PeriodId |-> PaidIn(d, q)']
<1>4. totalPaid[d] = SumFunctionOnSet(f, PeriodId)
  BY DEF TotalsExact
<1>5. \A q \in PeriodId : f[q] = PaidIn(d, q) /\ g[q] = PaidIn(d, q)'
  OBVIOUS
<1>6. \A q \in PeriodId : f[q] \in Nat
  BY <1>5, PaidInNat
<1>7. totalPaid[d] \in Nat
  BY DEF MoneyOK
<1> HIDE DEF f, g
<1>8. totalPaid'[d] = SumFunctionOnSet(g, PeriodId)
  <2>1. CASE d = c
    <3>1. \A q \in PeriodId \ {p} : g[q] = f[q]
      BY <1>2, <1>5, <2>1
    <3>2. g[p] = f[p] + SumOf(pay)
      BY <1>2, <1>5, <2>1
    <3>3. g[p] \in Int /\ \A q \in PeriodId : f[q] \in Int
      BY <1>1, <1>6, <3>2, SMT
    <3>4. SumFunctionOnSet(g, PeriodId) = SumFunctionOnSet(f, PeriodId) - f[p] + g[p]
      BY <3>1, <3>3, FiniteIds, SumChange, SMT
    <3>5. totalPaid'[d] = totalPaid[d] + SumOf(pay)
      BY <1>3, <2>1
    <3> QED
      BY <1>1, <1>4, <1>6, <1>7, <3>2, <3>4, <3>5, SMT
  <2>2. CASE d # c
    <3>1. \A q \in PeriodId : g[q] = f[q]
      BY <1>2, <1>5, <2>2
    <3>2. SumFunctionOnSet(g, PeriodId) = SumFunctionOnSet(f, PeriodId)
      BY <3>1, FiniteIds, SumEqual, SMT
    <3> QED
      BY <1>3, <1>4, <2>2, <3>2
  <2> QED
    BY <2>1, <2>2
<1> QED
  BY <1>8 DEF g

\* And the count of its period stays the number of its records.
LEMMA PayKeepsCounts ==
    ASSUME PeriodsOK, PaymentsOK, MoneyOK, PeriodCountExact,
           NEW c \in CompanyId, NEW p \in PeriodId, now \in Nat,
           NEW pay, DOMAIN pay \subseteq Employee, \A e \in DOMAIN pay : pay[e] \in Nat,
           NEW proof \in [DOMAIN pay -> Nullifier], Pay(c, p, pay, proof)
    PROVE  PeriodCountExact'
<1> DEFINE new == [period[c][p] EXCEPT !.count = @ + Cardinality(DOMAIN pay)]
<1>1. /\ PaidBy(c, p)' = PaidBy(c, p) \cup DOMAIN pay
      /\ PaidBy(c, p) \cap DOMAIN pay = {}
      /\ \A d \in CompanyId, q \in PeriodId : d # c \/ q # p => PaidBy(d, q)' = PaidBy(d, q)
  BY PayRecords, SMT
<1>2. period[c][p] # None /\ period[c][p] \in PayrollPeriod
  BY DEF Pay, PeriodOpen, PeriodsOK
<1>3. /\ IsFiniteSet(DOMAIN pay) /\ IsFiniteSet(PaidBy(c, p))
      /\ Cardinality(DOMAIN pay) \in Nat /\ Cardinality(PaidBy(c, p)) \in Nat
  BY FS_Subset, FS_CardinalityType, ExecutorAssumption DEF PaidBy
<1>4. /\ period' = [period EXCEPT ![c] = [period[c] EXCEPT ![p] = new]]
  BY <1>2 DEF Pay, PeriodsOK, PayrollPeriod
<1>5. /\ new \in PayrollPeriod
      /\ new.count = period[c][p].count + Cardinality(DOMAIN pay)
  BY <1>2, <1>3, SMT DEF PayrollPeriod
<1> HIDE DEF new
<1>6. \A d \in CompanyId, q \in PeriodId :
        period'[d][q] = IF d = c /\ q = p THEN new ELSE period[d][q]
  BY <1>4, <1>5, PeriodEntry, SMT DEF PeriodsOK
<1>7. new # None
  BY <1>5, ExecutorAssumption
<1>8. Cardinality(PaidBy(c, p) \cup DOMAIN pay)
        = Cardinality(PaidBy(c, p)) + Cardinality(DOMAIN pay)
  <2>1. Cardinality(PaidBy(c, p) \cap DOMAIN pay) = 0
    BY <1>1, FS_EmptySet
  <2>2. Cardinality(PaidBy(c, p) \cup DOMAIN pay)
          = Cardinality(PaidBy(c, p)) + Cardinality(DOMAIN pay)
              - Cardinality(PaidBy(c, p) \cap DOMAIN pay)
    BY <1>3, FS_Union
  <2> QED
    BY <1>3, <2>1, <2>2, SMT
<1>9. period[c][p].count = Cardinality(PaidBy(c, p))
  BY <1>2 DEF PeriodCountExact
<1>10. new.count = Cardinality(PaidBy(c, p)')
  BY <1>1, <1>5, <1>8, <1>9, SMT
<1> SUFFICES ASSUME NEW d \in CompanyId, NEW q \in PeriodId
             PROVE  IF period'[d][q] = None THEN PaidBy(d, q)' = {}
                    ELSE period'[d][q].count = Cardinality(PaidBy(d, q)')
  BY DEF PeriodCountExact
<1>11. CASE d = c /\ q = p
  BY <1>6, <1>7, <1>10, <1>11, SMT
<1>12. CASE ~(d = c /\ q = p)
  <2>1. period'[d][q] = period[d][q] /\ PaidBy(d, q)' = PaidBy(d, q)
    BY <1>1, <1>6, <1>12
  <2> QED
    BY <2>1 DEF PeriodCountExact
<1> QED
  BY <1>11, <1>12

\* And the tokens stay where the records say.
LEMMA PayKeepsTokens ==
    ASSUME RegistryInv, PaymentsOK, MoneyOK, TokensFollowRecords,
           NEW c \in CompanyId, NEW p \in PeriodId, now \in Nat,
           NEW pay, DOMAIN pay \subseteq Employee, \A e \in DOMAIN pay : pay[e] \in Int,
           NEW proof \in [DOMAIN pay -> Nullifier], Pay(c, p, pay, proof)
    PROVE  TokensFollowRecords' /\ MoneyOK'
<1> DEFINE t == company[c].treasury
           s == SumOf(pay)
<1>1. /\ \A e \in DOMAIN pay : pay[e] \in Nat
      /\ s \in Nat /\ t \in Account /\ s <= balance[t]
  BY PayAmounts
<1>2. /\ balance' \in [Account \cup Employee -> Nat]
      /\ \A a \in Account : balance'[a] = IF a = t THEN balance[a] - s ELSE balance[a]
      /\ \A e \in Employee : balance'[e] = IF e \in DOMAIN pay
                                           THEN balance[e] + pay[e] ELSE balance[e]
      /\ totalPaid' \in [CompanyId -> Nat]
      /\ \A d \in CompanyId : totalPaid'[d] = IF d = c THEN totalPaid[d] + s ELSE totalPaid[d]
  <2>1. \A e \in DOMAIN pay : pay[e] \in Int
    OBVIOUS
  <2> QED
    BY <2>1, PayTokens, ZenonT(30)
<1>3. /\ \A e \in Employee, q \in PeriodId :
           receipt'[e][q] = IF e \in DOMAIN pay /\ q = p THEN pay[e] ELSE receipt[e][q]
      /\ \A e \in DOMAIN pay : receipt[e][p] = 0
      /\ receipt' \in [Employee -> [PeriodId -> Nat]]
      /\ \A e \in Employee, q \in PeriodId : payment'[e][q] = None => receipt'[e][q] = 0
  BY <1>1, PayRecords, SMT
<1> HIDE DEF s, t
<1>4. /\ \A h \in Account \cup Employee : balance[h] \in Nat /\ balance'[h] \in Nat
      /\ \A d \in CompanyId : totalPaid[d] \in Nat /\ totalPaid'[d] \in Nat
      /\ \A e \in Employee, q \in PeriodId : receipt[e][q] \in Nat /\ receipt'[e][q] \in Nat
  BY <1>2, <1>3, SMT DEF MoneyOK
<1>5. MoneyOK'
  BY <1>2, <1>3 DEF MoneyOK
<1>6. \A a \in Account : balance'[a] >= 0
  BY <1>4, SMT
<1>7. ASSUME NEW e \in Employee
      PROVE  balance'[e] = SumFunctionOnSet(receipt'[e], PeriodId)
  <2>1. balance[e] = SumFunctionOnSet(receipt[e], PeriodId)
    BY DEF TokensFollowRecords
  <2>2. CASE e \in DOMAIN pay
    <3>1. SumFunctionOnSet(receipt'[e], PeriodId)
            = SumFunctionOnSet(receipt[e], PeriodId) - receipt[e][p] + receipt'[e][p]
      <4>1. \A q \in PeriodId \ {p} : receipt'[e][q] = receipt[e][q]
        BY <1>3
      <4>2. /\ \A q \in PeriodId : receipt[e][q] \in Int
            /\ receipt'[e][p] \in Int
        BY <1>4, SMT
      <4> QED
        BY <4>1, <4>2, FiniteIds, SumChange, SMT
    <3>2. receipt[e][p] = 0 /\ receipt'[e][p] = pay[e] /\ balance'[e] = balance[e] + pay[e]
      BY <1>2, <1>3, <2>2
    <3>3. balance[e] \in Nat /\ pay[e] \in Nat
      BY <1>1, <1>4, <2>2
    <3> QED
      BY <2>1, <3>1, <3>2, <3>3, SMT
  <2>3. CASE e \notin DOMAIN pay
    <3>1. \A q \in PeriodId : receipt'[e][q] = receipt[e][q]
      BY <1>3, <2>3
    <3>2. SumFunctionOnSet(receipt'[e], PeriodId) = SumFunctionOnSet(receipt[e], PeriodId)
      BY <3>1, FiniteIds, SumEqual, SMT
    <3> QED
      BY <1>2, <2>1, <2>3, <3>2
  <2> QED
    BY <2>2, <2>3
<1>8. SumFunctionOnSet(balance', Account) = SumFunctionOnSet(balance, Account) - s
  <2>1. \A a \in Account \ {t} : balance'[a] = balance[a]
    BY <1>2
  <2>2. balance'[t] = balance[t] - s
    BY <1>1, <1>2
  <2>3. /\ \A a \in Account : balance[a] \in Int
        /\ balance'[t] \in Int
    BY <1>1, <1>4, SMT
  <2>4. SumFunctionOnSet(balance', Account)
          = SumFunctionOnSet(balance, Account) - balance[t] + balance'[t]
    BY <1>1, <2>1, <2>3, ExecutorAssumption, SumChange, SMT
  <2>5. SumFunctionOnSet(balance, Account) \in Int
    BY <2>3, ExecutorAssumption, SumInt
  <2> QED
    BY <1>1, <2>2, <2>3, <2>4, <2>5, SMT
<1>9. SumFunctionOnSet(totalPaid', CompanyId) = SumFunctionOnSet(totalPaid, CompanyId) + s
  <2>1. \A d \in CompanyId \ {c} : totalPaid'[d] = totalPaid[d]
    BY <1>2
  <2>2. totalPaid'[c] = totalPaid[c] + s
    BY <1>2
  <2>3. /\ \A d \in CompanyId : totalPaid[d] \in Int
        /\ totalPaid'[c] \in Int
    BY <1>4, SMT
  <2>4. SumFunctionOnSet(totalPaid', CompanyId)
          = SumFunctionOnSet(totalPaid, CompanyId) - totalPaid[c] + totalPaid'[c]
    BY <2>1, <2>3, FiniteIds, SumChange, SMT
  <2>5. SumFunctionOnSet(totalPaid, CompanyId) \in Int
    BY <2>3, FiniteIds, SumInt
  <2> QED
    BY <1>1, <2>2, <2>3, <2>4, <2>5, SMT
<1>10. /\ SumFunctionOnSet(balance, Account) \in Int
       /\ SumFunctionOnSet(totalPaid, CompanyId) \in Int
  BY <1>4, FiniteIds, ExecutorAssumption, SumInt, SMT
<1>11. SumFunctionOnSet(balance', Account) + SumFunctionOnSet(totalPaid', CompanyId)
         = SumFunctionOnSet(balance, Account) + SumFunctionOnSet(totalPaid, CompanyId)
  BY <1>1, <1>8, <1>9, <1>10, SMT
<1>12. TokensFollowRecords'
  BY <1>6, <1>7, <1>11 DEF TokensFollowRecords
<1> QED
  BY <1>5, <1>12

\* Every step keeps the books.
LEMMA BooksStep ==
    ASSUME RegistryInv, ExecutorInv, BooksInv, [Next]_vars
    PROVE  BooksInv'
<1>1. PeriodsOK /\ PaymentsOK /\ committed \subseteq Employee /\ now \in Nat
  BY DEF ExecutorInv, PeriodsOK
<1>2. MoneyOK /\ TotalsExact /\ PeriodCountExact /\ TokensFollowRecords
  BY DEF BooksInv
<1>3. ASSUME NEW c \in CompanyId, NEW p \in PeriodId, NEW payees \in SUBSET committed,
             NEW pay \in [payees -> Amount], NEW proof \in [payees -> Nullifier],
             Pay(c, p, pay, proof)
      PROVE  BooksInv'
  <2>1. /\ DOMAIN pay \subseteq Employee
        /\ \A e \in DOMAIN pay : pay[e] \in Int
        /\ proof \in [DOMAIN pay -> Nullifier]
    BY <1>1, ExecutorAssumption
  <2>2. \A e \in DOMAIN pay : pay[e] \in Nat
    BY <1>2, <1>3, <2>1, PayAmounts
  <2>3. TotalsExact'
    BY <1>1, <1>2, <1>3, <2>1, PayKeepsTotals, SMT
  <2>4. PeriodCountExact'
    BY <1>1, <1>2, <1>3, <2>1, <2>2, PayKeepsCounts, SMT
  <2>5. TokensFollowRecords' /\ MoneyOK'
    BY <1>1, <1>2, <1>3, <2>1, PayKeepsTokens, SMT
  <2> QED
    BY <2>3, <2>4, <2>5 DEF BooksInv
<1>4. ASSUME NEW c \in CompanyId, CreatePeriod(c)
      PROVE  BooksInv'
  <2>1. UNCHANGED paymentVars /\ periodSequence[c] \in PeriodId
    BY <1>4 DEF CreatePeriod
  <2>2. PeriodCountExact'
    BY <1>1, <1>2, <1>4, <2>1, FS_EmptySet, PeriodStepKeepsCounts, SMT
  <2> QED
    BY <1>2, <2>1, <2>2, QuietKeepsMoney DEF BooksInv
<1>5. ASSUME NEW c \in CompanyId, NEW p \in PeriodId, ClosePeriod(c, p)
      PROVE  BooksInv'
  <2>1. UNCHANGED paymentVars
    BY <1>5 DEF ClosePeriod
  <2>2. PeriodCountExact'
    BY <1>1, <1>2, <1>5, <2>1, FS_EmptySet, PeriodStepKeepsCounts, SMT
  <2> QED
    BY <1>2, <2>1, <2>2, QuietKeepsMoney DEF BooksInv
<1>6. CASE UNCHANGED <<periodVars, paymentVars>>
  <2>1. PeriodCountExact'
    BY <1>2, <1>6 DEF periodVars, paymentVars, PeriodCountExact, PaidBy
  <2> QED
    BY <1>2, <1>6, <2>1, QuietKeepsMoney, SMT DEF BooksInv
<1> QED
  BY <1>1, <1>3, <1>4, <1>5, <1>6, StepCases, SMT

\* All three invariants hold in every reachable state.
LEMMA ExecutorInvariant == Spec => []ExecutorInv
<1>1. Init => ExecutorInv
  <2> SUFFICES ASSUME Init
               PROVE  ExecutorInv
    OBVIOUS
  <2>1. PeriodsOK
    BY SMT DEF Init, RegistryInit, PeriodsOK
  <2>2. OnePeriodOpen
    BY ExecutorAssumption, SMT DEF Init, OnePeriodOpen, PeriodId
  <2>3. PaymentsOK
    BY DEF Init, PaymentsOK
  <2>4. QED
    BY <2>1, <2>2, <2>3 DEF ExecutorInv
<1>2. \A payees \in SUBSET Employee : Cardinality(payees) \in Nat
  BY ExecutorAssumption, FS_Subset, FS_CardinalityType
<1>3. ExecutorInv /\ [Next]_vars => ExecutorInv'
  BY <1>2, NextKeeps
<1>4. QED
  BY <1>1, <1>3, PTL DEF Spec

\* The periods of a company are numbered without gaps and only the newest can
\* be open (create_period, close_period).
THEOREM OnePeriodOpenHolds == Spec => []OnePeriodOpen
<1>1. ExecutorInv => OnePeriodOpen
  BY DEF ExecutorInv
<1>2. QED
  BY <1>1, ExecutorInvariant, PTL

\* Every payment, single or in a batch, lies between the creation of its
\* company's period and the end of the proof's age (execute_payment,
\* execute_batch_payroll, MAX_PROOF_AGE_SECONDS).
THEOREM PaidInWindowHolds == Spec => []PaidInWindow
<1>1. ExecutorInv => PaidInWindow
  <2> SUFFICES ASSUME ExecutorInv, NEW x \in Paid
               PROVE  Window(payment[x[1]][x[2]], x[2])
    BY DEF PaidInWindow, Window
  <2>1. x[1] \in Employee /\ x[2] \in PeriodId /\ payment[x[1]][x[2]] # None
    BY DEF Paid
  <2>2. QED
    BY <2>1 DEF ExecutorInv, PaymentsOK
<1>2. QED
  BY <1>1, ExecutorInvariant, PTL

\* A nullifier is used by exactly one recorded payment, and by no other ever,
\* in whatever company, period or batch (execute_payment,
\* execute_batch_payroll).
THEOREM NullifiersExactHolds == Spec => []NullifiersExact
<1>1. ExecutorInv => NullifiersExact
  <2> SUFFICES ASSUME ExecutorInv
               PROVE  NullifiersExact
    OBVIOUS
  <2>1. ASSUME NEW x \in Paid, NEW y \in Paid,
               payment[x[1]][x[2]].proof = payment[y[1]][y[2]].proof
        PROVE  x = y
    BY <2>1, SMT DEF ExecutorInv, PaymentsOK, Paid
  <2>2. \A n : n \in nullifiers <=> \E x \in Paid : payment[x[1]][x[2]].proof = n
    <3>1. ASSUME NEW n \in nullifiers
          PROVE  \E x \in Paid : payment[x[1]][x[2]].proof = n
      <4>1. PICK e \in Employee, p \in PeriodId : payment[e][p] # None /\ payment[e][p].proof = n
        BY DEF ExecutorInv, PaymentsOK
      <4>2. <<e, p>> \in Paid
        BY <4>1 DEF Paid
      <4>3. QED
        BY <4>1, <4>2
    <3>2. ASSUME NEW x \in Paid
          PROVE  payment[x[1]][x[2]].proof \in nullifiers
      BY DEF ExecutorInv, PaymentsOK, Paid
    <3>3. QED
      BY <3>1, <3>2
  <2>3. nullifiers = {payment[x[1]][x[2]].proof : x \in Paid}
    BY <2>2
  <2>4. QED
    BY <2>1, <2>3 DEF NullifiersExact
<1>2. QED
  BY <1>1, ExecutorInvariant, PTL

LEMMA BooksInvariant == Spec => [](RegistryInv /\ ExecutorInv /\ BooksInv)
<1>1. Init => RegistryInv
  BY RegistryInitial DEF Init
<1>2. Init => BooksInv
  <2> SUFFICES ASSUME Init PROVE BooksInv
    OBVIOUS
  <2> USE ExecutorAssumption
  <2>1. /\ payment = [e \in Employee |-> [p \in PeriodId |-> None]]
        /\ receipt = [e \in Employee |-> [p \in PeriodId |-> 0]]
        /\ period = [c \in CompanyId |-> [p \in PeriodId |-> None]]
        /\ totalPaid = [c \in CompanyId |-> 0]
        /\ balance = [h \in Account \cup Employee |-> IF h \in Account THEN InitialBalance ELSE 0]
    BY DEF Init
  <2>2. MoneyOK
    BY <2>1 DEF MoneyOK
  <2>3. \A c \in CompanyId, p \in PeriodId : PaidBy(c, p) = {}
    BY <2>1 DEF PaidBy
  <2>4. PeriodCountExact
    BY <2>1, <2>3 DEF PeriodCountExact
  <2>5. TotalsExact
    <3> SUFFICES ASSUME NEW c \in CompanyId
                 PROVE  totalPaid[c] = SumFunctionOnSet([p \in PeriodId |-> PaidIn(c, p)], PeriodId)
      BY DEF TotalsExact
    <3> DEFINE f == [p \in PeriodId |-> PaidIn(c, p)]
    <3>1. \A p \in PeriodId : PaidIn(c, p) = 0
      BY <2>3, SumEmpty DEF PaidIn
    <3>2. \A p \in PeriodId : f[p] = 0
      BY <3>1
    <3> HIDE DEF f
    <3>3. SumFunctionOnSet(f, PeriodId) = Cardinality(PeriodId) * 0
      BY <3>2, FiniteIds, SumConstant, SMT
    <3>4. Cardinality(PeriodId) \in Nat
      BY FiniteIds, FS_CardinalityType
    <3>5. totalPaid[c] = 0
      BY <2>1
    <3> QED
      BY <3>3, <3>4, <3>5, SMT DEF f
  <2>6. TokensFollowRecords
    <3>1. \A a \in Account : balance[a] = InitialBalance
      BY <2>1
    <3>2. SumFunctionOnSet(balance, Account) = Cardinality(Account) * InitialBalance
      BY <3>1, SumConstant, SMT
    <3>3. SumFunctionOnSet(totalPaid, CompanyId) = Cardinality(CompanyId) * 0
      BY <2>1, FiniteIds, SumConstant, SMT
    <3>4. /\ Cardinality(CompanyId) \in Nat /\ Cardinality(PeriodId) \in Nat
          /\ Cardinality(Account) \in Nat
      BY FiniteIds, FS_CardinalityType
    <3>5. ASSUME NEW e \in Employee
          PROVE  balance[e] = SumFunctionOnSet(receipt[e], PeriodId)
      <4>1. \A p \in PeriodId : receipt[e][p] = 0
        BY <2>1
      <4>2. SumFunctionOnSet(receipt[e], PeriodId) = Cardinality(PeriodId) * 0
        BY <4>1, FiniteIds, SumConstant, SMT
      <4>3. balance[e] = 0
        BY <2>1
      <4> QED
        BY <3>4, <4>2, <4>3, SMT
    <3>6. SumFunctionOnSet(balance, Account) + SumFunctionOnSet(totalPaid, CompanyId)
            = Cardinality(Account) * InitialBalance
      <4>1. Cardinality(Account) * InitialBalance \in Int /\ Cardinality(CompanyId) * 0 = 0
        BY <3>4, SMT
      <4> QED
        BY <3>2, <3>3, <4>1, SMT
    <3> QED
      BY <3>1, <3>5, <3>6, SMT DEF TokensFollowRecords
  <2> QED
    BY <2>2, <2>4, <2>5, <2>6 DEF BooksInv
<1>3. RegistryInv /\ ExecutorInv /\ BooksInv /\ [Next]_vars => RegistryInv' /\ BooksInv'
  BY RegistryStays, BooksStep
<1> QED
  BY <1>1, <1>2, <1>3, ExecutorInvariant, PTL DEF Spec

\* The total of every company, the count of every period and the used
\* nullifiers agree with the recorded payments, for any number of companies
\* that pay any employees in periods of the same number, singly or in batches
\* (execute_payment, execute_batch_payroll).
THEOREM BooksExactHolds == Spec => []BooksExact
<1>1. BooksInv /\ NullifiersExact => BooksExact
  BY DEF BooksInv, BooksExact
<1> QED
  BY <1>1, BooksInvariant, NullifiersExactHolds, PTL

\* Tokens move exactly with the records, for any number of treasuries and
\* employees, and no treasury is overdrawn by a batch of any size
\* (execute_payment, execute_batch_payroll).
THEOREM TokensFollowRecordsHolds == Spec => []TokensFollowRecords
<1>1. BooksInv => TokensFollowRecords
  BY DEF BooksInv
<1> QED
  BY <1>1, BooksInvariant, PTL

\* In every reachable state a step debits only the treasury its company has in
\* the registry at that time, by what the company pays (execute_payment,
\* accept_treasury_rotation).
THEOREM TreasuryOfCompanyPaysHolds == Spec => TreasuryOfCompanyPays
<1>1. RegistryInv /\ ExecutorInv /\ BooksInv /\ [Next]_vars => [DebitsOwn]_vars
  <2> SUFFICES ASSUME RegistryInv, ExecutorInv, BooksInv, [Next]_vars,
                      NEW a \in Account, balance'[a] # balance[a]
               PROVE  \E c \in CompanyId :
                        /\ Registered(c)
                        /\ company[c].treasury = a
                        /\ totalPaid'[c] - totalPaid[c] = balance[a] - balance'[a]
    BY DEF DebitsOwn
  <2>1. MoneyOK /\ committed \subseteq Employee
    BY DEF ExecutorInv, PeriodsOK, BooksInv
  <2>2. ASSUME NEW c \in CompanyId, NEW p \in PeriodId, NEW payees \in SUBSET committed,
               NEW pay \in [payees -> Amount], NEW proof \in [payees -> Nullifier],
               Pay(c, p, pay, proof)
        PROVE  /\ Registered(c)
               /\ company[c].treasury = a
               /\ totalPaid'[c] - totalPaid[c] = balance[a] - balance'[a]
    <3>1. /\ DOMAIN pay \subseteq Employee
          /\ \A e \in DOMAIN pay : pay[e] \in Int
      BY <2>1, ExecutorAssumption
    <3>2. Registered(c) /\ SumOf(pay) \in Nat
      BY <2>1, <2>2, <3>1, PayAmounts
    <3>3. /\ balance'[a] = IF a = company[c].treasury THEN balance[a] - SumOf(pay) ELSE balance[a]
          /\ totalPaid'[c] = totalPaid[c] + SumOf(pay)
      BY <2>1, <2>2, <3>1, PayTokens, SMT
    <3>4. balance[a] \in Nat /\ totalPaid[c] \in Nat
      BY <2>1 DEF MoneyOK
    <3>5. company[c].treasury = a
      BY <3>3
    <3> QED
      BY <3>2, <3>3, <3>4, <3>5, SMT
  <2>3. ~UNCHANGED paymentVars
    BY DEF paymentVars
  <2>4. \E c \in CompanyId, p \in PeriodId, payees \in SUBSET committed :
          \E pay \in [payees -> Amount], proof \in [payees -> Nullifier] : Pay(c, p, pay, proof)
    BY <2>1, <2>3, StepCases DEF CreatePeriod, ClosePeriod
  <2> QED
    BY <2>2, <2>4
<1> QED
  BY <1>1, BooksInvariant, PTL DEF Spec, TreasuryOfCompanyPays
=============================================================================
