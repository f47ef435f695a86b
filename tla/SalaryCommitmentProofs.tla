----------------------- MODULE SalaryCommitmentProofs -----------------------
(***************************************************************************)
(* Theorems about salary commitments: about the client that makes them and *)
(* reconciles payments with its records, for any number of processes,      *)
(* employees and events; and about the contract that stores them, for      *)
(* every number of employees, commitment values and reference identifiers. *)
(***************************************************************************)
EXTENDS SalaryCommitment, PayrollCli, SequenceTheorems, TLAPS

\* Zenon proves the leaves of the proofs that name no prover; those that need
\* arithmetic, records or sequences name the SMT solver.
USE Zenon

(***************************************************************************)
(* The client.  Rows are only added, so what a process has seen of the     *)
(* database stays true; HeldOK says what a process relies on at the step   *)
(* it has reached.                                                         *)
(***************************************************************************)
IsReport(r) ==
    /\ r = [events |-> r.events, conn |-> r.conn, next |-> r.next,
            known |-> r.known, mismatched |-> r.mismatched]
    /\ r.next \in Nat \ {0}

\* The first pass has marked payments before the next one.
FirstPass(r) ==
    /\ r.known \subseteq 1..(r.next - 1)
    /\ r.mismatched = {}
    /\ \A i \in r.known : HasRow(r.events[i].employee)

\* The second pass has compared every payment before the next one.
SecondPass(r) ==
    /\ Len(r.events) \in Nat
    /\ r.known \subseteq 1..Len(r.events)
    /\ \A i \in r.known \cup r.mismatched : HasRow(r.events[i].employee)
    /\ \A i \in r.mismatched : SalaryDiffers(r.events[i])
    /\ \A i \in r.known :
         i < r.next /\ SalaryDiffers(r.events[i]) => i \in r.mismatched

HeldOK(p) ==
    /\ pc[p] \in {"exists", "insert"} => local[p].salary \in 0..(Word - 1)
    /\ pc[p] = "print" => Opens(local[p])
    /\ pc[p] = "lookup" => IsReport(local[p]) /\ FirstPass(local[p])
    /\ pc[p] = "compare" => IsReport(local[p]) /\ SecondPass(local[p])
    /\ pc[p] = "warn" => ReportHolds(local[p])

CliInv ==
    /\ DOMAIN pc = Proc /\ DOMAIN local = Proc
    /\ \A p \in Proc : HeldOK(p)
    /\ PrintedOpensRow

RowsKept == \A e \in DOMAIN rows : e \in DOMAIN rows' /\ rows'[e] = rows[e]

\* Casting a salary to the column and back gives the salary.
LEMMA ColumnRoundTrip ==
    ASSUME NEW s \in 0..(Word - 1)
    PROVE  ToColumn(s) % Word = s
<1>1. Word \in Nat /\ Word > 0 /\ s \in Int
  BY CliAssumption, SMT
<1>2. s % Word = s
  BY <1>1, SMT
<1>3. (s - Word) % Word = s
  BY <1>1, SMT
<1>4. QED
  BY <1>2, <1>3 DEF ToColumn

\* While rows are only added, an opening stays one.
LEMMA OpeningStays ==
    ASSUME RowsKept, NEW o, Opens(o)
    PROVE  Opens(o)'
BY DEF RowsKept, Opens, HasRow

\* A process that takes no step keeps what it relies on.
LEMMA ProcessKept ==
    ASSUME RowsKept, NEW q \in Proc, HeldOK(q), pc'[q] = pc[q], local'[q] = local[q]
    PROVE  HeldOK(q)'
<1>1. IsReport(local[q]) => IsReport(local[q])'
  BY DEF IsReport
<1>2. Opens(local[q]) => Opens(local[q])'
  BY DEF RowsKept, Opens, HasRow
<1>3. \A e : HasRow(e) => HasRow(e)'
  BY DEF RowsKept, HasRow
<1>4. ASSUME NEW ev, HasRow(ev.employee)
      PROVE  SalaryDiffers(ev)' <=> SalaryDiffers(ev)
  <2>1. rows'[ev.employee] = rows[ev.employee]
    BY <1>4 DEF RowsKept, HasRow
  <2> QED
    BY <2>1 DEF SalaryDiffers
<1>5. PICK r : local[q] = r /\ local'[q] = r
  OBVIOUS
<1>6. FirstPass(r) => FirstPass(local[q])'
  BY <1>3, <1>5 DEF FirstPass
<1>7. SecondPass(r) => SecondPass(local[q])'
  <2> SUFFICES ASSUME SecondPass(r) PROVE SecondPass(local[q])'
    OBVIOUS
  <2>1. \A i \in r.known \cup r.mismatched :
          /\ HasRow(r.events[i].employee)'
          /\ SalaryDiffers(r.events[i])' <=> SalaryDiffers(r.events[i])
    BY <1>3, <1>4 DEF SecondPass
  <2> QED
    BY <1>5, <2>1 DEF SecondPass
<1>8. ReportHolds(r) => ReportHolds(local[q])'
  <2> SUFFICES ASSUME ReportHolds(r) PROVE ReportHolds(local[q])'
    OBVIOUS
  <2>1. \A i \in r.known \cup r.mismatched :
          /\ HasRow(r.events[i].employee)'
          /\ SalaryDiffers(r.events[i])' <=> SalaryDiffers(r.events[i])
    BY <1>3, <1>4 DEF ReportHolds
  <2> QED
    BY <1>5, <2>1 DEF ReportHolds
<1>9. QED
  BY <1>1, <1>2, <1>5, <1>6, <1>7, <1>8 DEF HeldOK

\* A step of p that adds rows at most leaves the other processes, and the
\* commitments printed, in order.
LEMMA OthersKeep ==
    ASSUME CliInv, NEW p \in Proc, RowsKept, HeldOK(p)',
           DOMAIN pc' = Proc, DOMAIN local' = Proc,
           \A q \in Proc \ {p} : pc'[q] = pc[q] /\ local'[q] = local[q],
           \A o \in printed' : o \in printed \/ Opens(o)
    PROVE  CliInv'
<1>1. ASSUME NEW q \in Proc \ {p}
      PROVE  HeldOK(q)'
  BY ProcessKept DEF CliInv
<1>2. PrintedOpensRow'
  BY OpeningStays DEF PrintedOpensRow, CliInv
<1>3. QED
  BY <1>1, <1>2 DEF CliInv

\* A command that returns, or has not read anything yet, relies on nothing.
LEMMA QuietStep ==
    ASSUME CliInv, NEW p \in Proc, RowsKept, NEW step \in {"idle", "table", "fetch", "open"},
           pc' = [pc EXCEPT ![p] = step], DOMAIN local' = Proc,
           \A q \in Proc \ {p} : local'[q] = local[q],
           \A o \in printed' : o \in printed \/ Opens(o)
    PROVE  CliInv'
<1>1. pc'[p] = step /\ DOMAIN pc' = Proc /\ \A q \in Proc \ {p} : pc'[q] = pc[q]
  BY DEF CliInv
<1>2. HeldOK(p)'
  BY <1>1 DEF HeldOK
<1>3. QED
  BY <1>1, <1>2, OthersKeep

\* insert_employee stores what the commitment was computed from, or nothing.
LEMMA InsertKeeps ==
    ASSUME CliInv, NEW p \in Proc, InsertEmployee(p)
    PROVE  CliInv'
<1> DEFINE a == local[p]
<1>1. RowsKept
  BY DEF InsertEmployee, Insertable, HasRow, RowsKept
<1>2. pc[p] = "insert" /\ a.salary \in 0..(Word - 1) /\ printed' = printed
  BY DEF InsertEmployee, CliInv, HeldOK
<1>3. CASE Insertable(a.employee)
  <2>1. /\ pc' = [pc EXCEPT ![p] = "print"]
        /\ local' = [local EXCEPT ![p] = a]
        /\ rows' = [e \in DOMAIN rows \cup {a.employee} |->
                     IF e = a.employee
                       THEN [blinding |-> a.blinding, column |-> ToColumn(a.salary)]
                       ELSE rows[e]]
    BY <1>3 DEF InsertEmployee, Goto
  <2>2. /\ pc'[p] = "print" /\ local'[p] = a
        /\ DOMAIN pc' = Proc /\ DOMAIN local' = Proc
        /\ \A q \in Proc \ {p} : pc'[q] = pc[q] /\ local'[q] = local[q]
    BY <2>1 DEF CliInv
  <2>3. /\ a.employee \in DOMAIN rows'
        /\ rows'[a.employee].blinding = a.blinding
        /\ rows'[a.employee].column = ToColumn(a.salary)
    BY <2>1
  <2>4. ToColumn(a.salary) % Word = a.salary
    BY <1>2, ColumnRoundTrip
  <2>5. HeldOK(p)'
    BY <2>2, <2>3, <2>4 DEF HeldOK, Opens, HasRow
  <2>6. QED
    BY <1>1, <1>2, <2>2, <2>5, OthersKeep
<1>4. CASE ~Insertable(a.employee)
  <2>1. pc' = [pc EXCEPT ![p] = "idle"] /\ local' = [local EXCEPT ![p] = None]
    BY <1>4 DEF InsertEmployee, Finish
  <2>2. DOMAIN local' = Proc /\ \A q \in Proc \ {p} : local'[q] = local[q]
    BY <2>1 DEF CliInv
  <2>3. QED
    BY <1>1, <1>2, <2>1, <2>2, QuietStep
<1>5. QED
  BY <1>3, <1>4

\* A row of the report marks the payment only if the employee has a row.
LEMMA LookupKeeps ==
    ASSUME CliInv, NEW p \in Proc, LookupEmployee(p)
    PROVE  CliInv'
<1> DEFINE r == local[p]
           last == r.next = Len(r.events)
           known == IF r.conn /\ HasRow(r.events[r.next].employee)
                      THEN r.known \cup {r.next} ELSE r.known
<1>1. RowsKept /\ printed' = printed /\ rows' = rows
  BY DEF LookupEmployee, RowsKept, db
<1>2. pc[p] = "lookup" /\ IsReport(r) /\ FirstPass(r)
  BY DEF LookupEmployee, CliInv, HeldOK
<1>3. \/ pc' = [pc EXCEPT ![p] = "idle"] /\ local' = [local EXCEPT ![p] = None]
      \/ /\ pc' = [pc EXCEPT ![p] = IF last THEN "compare" ELSE "lookup"]
         /\ local' = [local EXCEPT ![p] =
                        [[r EXCEPT !.known = known] EXCEPT
                           !.next = IF last THEN 1 ELSE r.next + 1]]
  BY <1>2 DEF LookupEmployee, Finish, Goto, IsReport
<1>4. DOMAIN local' = Proc /\ \A q \in Proc \ {p} : local'[q] = local[q]
  BY <1>3 DEF CliInv
<1>5. CASE pc' = [pc EXCEPT ![p] = "idle"]
  BY <1>1, <1>4, <1>5, QuietStep
<1>6. CASE /\ pc' = [pc EXCEPT ![p] = IF last THEN "compare" ELSE "lookup"]
           /\ local' = [local EXCEPT ![p] =
                          [[r EXCEPT !.known = known] EXCEPT
                             !.next = IF last THEN 1 ELSE r.next + 1]]
  <2>1. /\ pc'[p] = IF last THEN "compare" ELSE "lookup"
        /\ local'[p] = [events |-> r.events, conn |-> r.conn,
                        next |-> IF last THEN 1 ELSE r.next + 1,
                        known |-> known, mismatched |-> r.mismatched]
        /\ DOMAIN pc' = Proc
        /\ \A q \in Proc \ {p} : pc'[q] = pc[q]
    BY <1>2, <1>6 DEF CliInv, IsReport
  <2>2. IsReport(local[p])'
    BY <1>2, <2>1, SMT DEF IsReport
  <2>3. known \subseteq 1..r.next /\ \A i \in known : HasRow(r.events[i].employee)
    BY <1>2, SMT DEF FirstPass, IsReport
  <2>4. r.mismatched = {}
    BY <1>2 DEF FirstPass
  <2>5. CASE last
    <3>1. SecondPass(local[p])'
      BY <1>1, <1>2, <2>1, <2>3, <2>4, <2>5, SMT DEF SecondPass, IsReport, HasRow
    <3>2. QED
      BY <1>1, <1>4, <2>1, <2>2, <2>5, <3>1, OthersKeep DEF HeldOK
  <2>6. CASE ~last
    <3>1. FirstPass(local[p])'
      BY <1>1, <1>2, <2>1, <2>3, <2>4, <2>6, SMT DEF FirstPass, IsReport, HasRow
    <3>2. QED
      BY <1>1, <1>4, <2>1, <2>2, <2>6, <3>1, OthersKeep DEF HeldOK
  <2>7. QED
    BY <2>5, <2>6
<1>7. QED
  BY <1>3, <1>5, <1>6

\* check_salary_mismatches counts the next payment if its salary differs.
LEMMA CompareKeeps ==
    ASSUME CliInv, NEW p \in Proc, CompareSalary(p)
    PROVE  CliInv'
<1> DEFINE r == local[p]
           ev == r.events[r.next]
           last == r.next = Len(r.events)
           differs == HasRow(ev.employee) /\ SalaryDiffers(ev)
           mismatched == IF differs THEN r.mismatched \cup {r.next} ELSE r.mismatched
<1>1. RowsKept /\ printed' = printed /\ rows' = rows
  BY DEF CompareSalary, RowsKept, db
<1>2. pc[p] = "compare" /\ IsReport(r) /\ SecondPass(r)
  BY DEF CompareSalary, CliInv, HeldOK
<1>3. /\ pc' = [pc EXCEPT ![p] = IF last THEN "warn" ELSE "compare"]
      /\ local' = [local EXCEPT ![p] =
                     IF last THEN [r EXCEPT !.mismatched = mismatched]
                     ELSE [[r EXCEPT !.mismatched = mismatched] EXCEPT !.next = @ + 1]]
  <2>1. CASE last
    <3>1. Goto(p, "warn", [r EXCEPT !.mismatched = mismatched])
      BY <2>1 DEF CompareSalary, FromColumn, SalaryDiffers
    <3>2. QED
      BY <2>1, <3>1 DEF Goto
  <2>2. CASE ~last
    <3>1. Goto(p, "compare", [[r EXCEPT !.mismatched = mismatched] EXCEPT !.next = @ + 1])
      BY <2>2 DEF CompareSalary, FromColumn, SalaryDiffers
    <3>2. QED
      BY <2>2, <3>1 DEF Goto
  <2>3. QED
    BY <2>1, <2>2
<1>4. /\ pc'[p] = IF last THEN "warn" ELSE "compare"
      /\ local'[p] = [events |-> r.events, conn |-> r.conn,
                      next |-> IF last THEN r.next ELSE r.next + 1,
                      known |-> r.known, mismatched |-> mismatched]
      /\ DOMAIN pc' = Proc /\ DOMAIN local' = Proc
      /\ \A q \in Proc \ {p} : pc'[q] = pc[q] /\ local'[q] = local[q]
  BY <1>2, <1>3 DEF CliInv, IsReport
<1>5. /\ \A i \in r.known \cup mismatched : HasRow(r.events[i].employee)
      /\ \A i \in mismatched : SalaryDiffers(r.events[i])
  BY <1>2 DEF SecondPass
<1>6. \A i \in r.known :
        i <= r.next /\ SalaryDiffers(r.events[i]) => i \in mismatched
  BY <1>2, SMT DEF SecondPass, IsReport
<1>7. CASE last
  <2>1. \A i \in r.known : SalaryDiffers(r.events[i]) => i \in mismatched
    BY <1>2, <1>6, <1>7, SMT DEF SecondPass
  <2>2. ReportHolds(local[p])'
    <3> HIDE DEF mismatched, r
    <3>1. QED
      BY <1>1, <1>4, <1>5, <2>1, SMT DEF ReportHolds, HasRow, SalaryDiffers
  <2>3. QED
    BY <1>1, <1>4, <1>7, <2>2, OthersKeep DEF HeldOK
<1>8. CASE ~last
  <2>1. \A i \in r.known :
          i < r.next + 1 /\ SalaryDiffers(r.events[i]) => i \in mismatched
    BY <1>2, <1>6, SMT DEF SecondPass, IsReport
  <2>2. SecondPass(local[p])'
    <3>1. Len(r.events) \in Nat /\ r.known \subseteq 1..Len(r.events)
      BY <1>2 DEF SecondPass
    <3> HIDE DEF mismatched, r
    <3>2. /\ local'[p].events = r.events /\ local'[p].known = r.known
          /\ local'[p].mismatched = mismatched /\ local'[p].next = r.next + 1
      BY <1>4, <1>8, SMT
    <3>3. /\ \A x : HasRow(x)' = HasRow(x)
          /\ \A x : SalaryDiffers(x)' = SalaryDiffers(x)
      BY <1>1 DEF HasRow, SalaryDiffers
    <3>4. QED
      BY <1>5, <2>1, <3>1, <3>2, <3>3 DEF SecondPass
  <2>3. IsReport(local[p])'
    BY <1>2, <1>4, <1>8, SMT DEF IsReport
  <2>4. QED
    BY <1>1, <1>4, <1>8, <2>2, <2>3, OthersKeep DEF HeldOK
<1>9. QED
  BY <1>7, <1>8

\* What every process relies on holds in every state.
LEMMA CliInvariant == CliSpec => []CliInv
<1>1. CliInit => CliInv
  BY DEF CliInit, CliInv, HeldOK, PrintedOpensRow
<1>2. CliInv /\ [CliNext]_cliVars => CliInv'
  <2> SUFFICES ASSUME CliInv, [CliNext]_cliVars
               PROVE  CliInv'
    OBVIOUS
  <2>1. CASE UNCHANGED cliVars
    <3>1. RowsKept /\ pc' = pc /\ local' = local /\ printed' = printed
      BY <2>1 DEF cliVars, db, RowsKept
    <3>2. \A q \in Proc : HeldOK(q)'
      BY <3>1, ProcessKept DEF CliInv
    <3>3. PrintedOpensRow'
      BY <3>1, OpeningStays DEF CliInv, PrintedOpensRow
    <3>4. QED
      BY <3>1, <3>2, <3>3 DEF CliInv
  <2>2. ASSUME NEW p \in Proc, Start(p)
        PROVE  CliInv'
    <3>1. RowsKept /\ printed' = printed
      BY <2>2 DEF Start, InitCompany, AddEmployee, Reconcile, RowsKept, db
    <3>2. ASSUME NEW key \in Pubkey, NEW amount \in SalaryInput, AddEmployee(p, key, amount)
          PROVE  CliInv'
      <4>1. /\ pc'[p] = "exists" /\ local'[p] = [employee |-> key, salary |-> amount]
            /\ DOMAIN pc' = Proc /\ DOMAIN local' = Proc
            /\ \A q \in Proc \ {p} : pc'[q] = pc[q] /\ local'[q] = local[q]
        BY <3>2 DEF AddEmployee, Goto, CliInv
      <4>2. HeldOK(p)'
        BY <4>1, CliAssumption, SMT DEF HeldOK
      <4>3. QED
        BY <3>1, <4>1, <4>2, OthersKeep
    <3>3. ASSUME InitCompany(p) \/ \E company \in CompanyInput : Reconcile(p, company)
          PROVE  CliInv'
      <4>1. PICK step \in {"table", "fetch"} : pc' = [pc EXCEPT ![p] = step]
        BY <3>3 DEF InitCompany, Reconcile, Goto
      <4>2. DOMAIN local' = Proc /\ \A q \in Proc \ {p} : local'[q] = local[q]
        BY <3>3 DEF InitCompany, Reconcile, Goto, CliInv
      <4>3. QED
        BY <3>1, <4>1, <4>2, QuietStep
    <3>4. QED
      BY <2>2, <3>2, <3>3 DEF Start
  <2>3. ASSUME NEW p \in Proc, EmployeeExists(p)
        PROVE  CliInv'
    <3>1. /\ RowsKept /\ printed' = printed
          /\ DOMAIN pc' = Proc /\ DOMAIN local' = Proc
          /\ \A q \in Proc \ {p} : pc'[q] = pc[q] /\ local'[q] = local[q]
      BY <2>3 DEF EmployeeExists, Goto, Finish, RowsKept, db, CliInv
    <3>2. \/ pc'[p] = "idle"
          \/ pc'[p] = "insert" /\ local'[p].salary = local[p].salary
      BY <2>3, SMT DEF EmployeeExists, Goto, Finish, CliInv
    <3>3. local[p].salary \in 0..(Word - 1)
      BY <2>3 DEF EmployeeExists, CliInv, HeldOK
    <3>4. HeldOK(p)'
      BY <3>2, <3>3 DEF HeldOK
    <3>5. QED
      BY <3>1, <3>4, OthersKeep
  <2>4. ASSUME NEW p \in Proc, PrintCommitment(p)
        PROVE  CliInv'
    <3>1. /\ RowsKept /\ pc' = [pc EXCEPT ![p] = "idle"]
          /\ DOMAIN local' = Proc /\ \A q \in Proc \ {p} : local'[q] = local[q]
      BY <2>4 DEF PrintCommitment, Finish, RowsKept, db, CliInv
    <3>2. Opens(local[p]) /\ printed' = printed \cup {local[p]}
      BY <2>4 DEF PrintCommitment, CliInv, HeldOK
    <3>3. QED
      BY <3>1, <3>2, QuietStep
  <2>5. ASSUME NEW p \in Proc, OpenDatabase(p)
        PROVE  CliInv'
    <3>1. /\ RowsKept /\ printed' = printed
          /\ DOMAIN pc' = Proc /\ DOMAIN local' = Proc
          /\ \A q \in Proc \ {p} : pc'[q] = pc[q] /\ local'[q] = local[q]
          /\ pc'[p] = "lookup"
          /\ local'[p] = [events |-> local[p].events, conn |-> file, next |-> 1,
                          known |-> {}, mismatched |-> {}]
      BY <2>5 DEF OpenDatabase, Goto, RowsKept, db, CliInv
    <3>2. IsReport(local[p])' /\ FirstPass(local[p])'
      BY <3>1, SMT DEF IsReport, FirstPass
    <3>3. QED
      BY <3>1, <3>2, OthersKeep DEF HeldOK
  <2>6. ASSUME NEW p \in Proc,
               \/ Initialise(p) \/ FetchTimeout(p) \/ WarnMismatches(p) \/ Stop(p)
               \/ \E page \in Page : FetchPayrollEvents(p, page)
        PROVE  CliInv'
    <3>1. RowsKept /\ printed' = printed
      BY <2>6 DEF Initialise, FetchTimeout, WarnMismatches, Stop, FetchPayrollEvents, RowsKept, db
    <3>2. PICK step \in {"idle", "open"} : pc' = [pc EXCEPT ![p] = step]
      BY <2>6 DEF Initialise, FetchTimeout, WarnMismatches, Stop, FetchPayrollEvents, Goto, Finish
    <3>3. DOMAIN local' = Proc /\ \A q \in Proc \ {p} : local'[q] = local[q]
      BY <2>6 DEF Initialise, FetchTimeout, WarnMismatches, Stop, FetchPayrollEvents, Goto,
                  Finish, CliInv
    <3>4. QED
      BY <3>1, <3>2, <3>3, QuietStep
  <2>7. QED
    BY <2>1, <2>2, <2>3, <2>4, <2>5, <2>6, InsertKeeps, LookupKeeps, CompareKeeps DEF CliNext, Step
<1>3. QED
  BY <1>1, <1>2, PTL DEF CliSpec

\* A printed commitment can always be opened from the database, however many
\* add-employee commands race and wherever they are killed (cmd_add_employee).
THEOREM PrintedOpensRowHolds == CliSpec => []PrintedOpensRow
<1>1. CliInv => PrintedOpensRow
  BY DEF CliInv
<1>2. QED
  BY <1>1, CliInvariant, PTL

\* A report that ends is right about the rows it names, for any number of
\* payments and whatever is inserted between its two passes (reconcile::run).
THEOREM ReportSoundHolds == CliSpec => []ReportSound
<1>1. CliInv => ReportSound
  BY DEF CliInv, ReportSound, HeldOK
<1>2. QED
  BY <1>1, CliInvariant, PTL

----------------------------------------------------------------------------
(***************************************************************************)
(* The contract.                                                           *)
(***************************************************************************)
USE PauseAssumption, CommitmentAssumption

\* The types of the commitments, their archive and their index, and of the
\* two reference maps: what the theorems below need of TypeOK.
ValueTypeOK ==
    /\ commitment \in [Employee -> Commitment \cup {None}]
    /\ commitmentHistory \in [Employee -> Seq(Commitment)]
    /\ commitmentIndex \subseteq Value

ReferenceTypeOK ==
    /\ referenceId \in [Employee -> RefId \cup {None}]
    /\ referenceIdIndex \in [RefId -> Employee \cup {None}]

----------------------------------------------------------------------------
\* Only store_commitment, update_commitment and rotate_commitment write
\* commitments.
LEMMA ValueFrame ==
    ASSUME [Next]_vars, ~ValueNext
    PROVE  UNCHANGED valueVars
BY DEF Next, vars, contractVars, RoleNext, LockCommitmentUpdates, UnlockCommitmentUpdates,
       RecordNullifier, SetEmployeeReferenceId, SetPayrollOperator, RemovePayrollOperator,
       ProposeAdminRotation, AcceptAdminRotation, CancelAdminRotation, SetPauseManager

\* Only set_employee_reference_id writes the reference maps.
LEMMA ReferenceFrame ==
    ASSUME [Next]_vars,
           ~\E e \in Employee, r \in RefId : SetEmployeeReferenceId(e, r)
    PROVE  UNCHANGED referenceVars
BY DEF Next, vars, contractVars, ValueNext, StoreCommitment, UpdateCommitment,
       RotateCommitment, RoleNext, LockCommitmentUpdates, UnlockCommitmentUpdates,
       RecordNullifier, SetPayrollOperator, RemovePayrollOperator,
       ProposeAdminRotation, AcceptAdminRotation, CancelAdminRotation, SetPauseManager

----------------------------------------------------------------------------
(***************************************************************************)
(* Reference identifiers.                                                  *)
(***************************************************************************)
\* set_employee_reference_id keeps the two maps inverse: the employee's former
\* identifier loses its entry, and the new one had none or the employee's own.
LEMMA ReferenceStepInverse ==
    ASSUME ReferenceTypeOK, ReferencesInverse, NEW e \in Employee, NEW r \in RefId,
           SetEmployeeReferenceId(e, r)
    PROVE  ReferenceTypeOK' /\ ReferencesInverse'
<1>1. /\ referenceId' = [referenceId EXCEPT ![e] = r]
      /\ referenceIdIndex[r] \in {None, e}
      /\ referenceIdIndex' = [x \in RefId |->
             CASE x = r -> e
               [] x = referenceId[e] /\ x # r -> None
               [] OTHER -> referenceIdIndex[x]]
  BY DEF SetEmployeeReferenceId, ReindexReference
<1>2. referenceId'[e] = r /\ \A f \in Employee : f # e => referenceId'[f] = referenceId[f]
  BY <1>1 DEF ReferenceTypeOK
<1>3. /\ referenceIdIndex'[r] = e
      /\ \A x \in RefId : x # r /\ x = referenceId[e] => referenceIdIndex'[x] = None
      /\ \A x \in RefId : x # r /\ x # referenceId[e] =>
             referenceIdIndex'[x] = referenceIdIndex[x]
  BY <1>1
<1>4. ReferenceTypeOK'
  <2>1. referenceId' \in [Employee -> RefId \cup {None}]
    BY <1>1 DEF ReferenceTypeOK
  <2>2. \A x \in RefId : referenceIdIndex'[x] \in Employee \cup {None}
    BY <1>3 DEF ReferenceTypeOK
  <2>3. referenceIdIndex' \in [RefId -> Employee \cup {None}]
    BY <1>1, <2>2
  <2>4. QED
    BY <2>1, <2>3 DEF ReferenceTypeOK
<1>5. ReferencesInverse'
  <2> SUFFICES ASSUME NEW f \in Employee, NEW x \in RefId
               PROVE  referenceId'[f] = x <=> referenceIdIndex'[x] = f
    BY DEF ReferencesInverse
  <2>1. CASE f = e
    BY <1>2, <1>3, <2>1, SMT DEF ReferencesInverse
  <2>2. CASE f # e
    BY <1>1, <1>2, <1>3, <2>2, SMT DEF ReferencesInverse
  <2>3. QED
    BY <2>1, <2>2
<1>6. QED
  BY <1>4, <1>5

\* An employee has a reference identifier exactly if the identifier leads back
\* to the employee, in every reachable state (set_employee_reference_id,
\* get_employee_by_reference_id).
THEOREM ReferencesInverseHolds == Spec => []ReferencesInverse
<1> DEFINE Inv == ReferenceTypeOK /\ ReferencesInverse
<1>1. Init => Inv
  BY DEF Init, ReferenceTypeOK, ReferencesInverse
<1>2. Inv /\ [Next]_vars => Inv'
  <2> SUFFICES ASSUME Inv, [Next]_vars PROVE Inv'
    OBVIOUS
  <2>1. CASE \E e \in Employee, r \in RefId : SetEmployeeReferenceId(e, r)
    BY <2>1, ReferenceStepInverse
  <2>2. CASE ~\E e \in Employee, r \in RefId : SetEmployeeReferenceId(e, r)
    <3>1. referenceId' = referenceId /\ referenceIdIndex' = referenceIdIndex
      BY <2>2, ReferenceFrame DEF referenceVars
    <3>2. QED
      BY <3>1 DEF ReferenceTypeOK, ReferencesInverse
  <2>3. QED
    BY <2>1, <2>2
<1>3. QED
  BY <1>1, <1>2, PTL DEF Spec
----------------------------------------------------------------------------
(***************************************************************************)
(* Commitment values.                                                      *)
(***************************************************************************)
\* Binding a fresh value (register_commitment_uniqueness) gives the employee
\* a record of the type and leaves those of the others.
LEMMA BindEffect ==
    ASSUME ValueTypeOK, NEW e \in Employee, NEW v \in Value, NEW n \in Nat \ {0},
           Bind(e, v, n)
    PROVE  /\ v \notin commitmentIndex
           /\ commitmentIndex' = commitmentIndex \cup {v}
           /\ commitment' \in [Employee -> Commitment \cup {None}]
           /\ commitment'[e] \in Commitment
           /\ commitment'[e].value = v
           /\ \A f \in Employee : f # e => commitment'[f] = commitment[f]
<1> DEFINE c == [value |-> v, version |-> n]
<1>1. c \in Commitment /\ c.value = v
  BY DEF Commitment
<1>2. commitment' = [commitment EXCEPT ![e] = c]
  BY DEF Bind
<1> HIDE DEF c
<1>3. commitment'[e] = c
  BY <1>2 DEF ValueTypeOK
<1>4. QED
  BY <1>1, <1>2, <1>3 DEF Bind, UnusedValue, ValueTypeOK

\* archive_commitment puts the active record of the employee after the older
\* snapshots and leaves the other histories.
LEMMA ArchiveEffect ==
    ASSUME ValueTypeOK, NEW e \in Employee, commitment[e] # None, Archive(e)
    PROVE  /\ commitmentHistory' \in [Employee -> Seq(Commitment)]
           /\ Len(commitmentHistory'[e]) = Len(commitmentHistory[e]) + 1
           /\ \A i \in 1..Len(commitmentHistory[e]) :
                commitmentHistory'[e][i] = commitmentHistory[e][i]
           /\ commitmentHistory'[e][Len(commitmentHistory[e]) + 1] = commitment[e]
           /\ \A f \in Employee : f # e => commitmentHistory'[f] = commitmentHistory[f]
<1>1. commitmentHistory' =
        [commitmentHistory EXCEPT ![e] = Append(commitmentHistory[e], commitment[e])]
  BY DEF Archive
<1>2. commitment[e] \in Commitment /\ commitmentHistory[e] \in Seq(Commitment)
  BY DEF ValueTypeOK
<1>3. Append(commitmentHistory[e], commitment[e]) \in Seq(Commitment)
  BY <1>2, SMT
<1>4. commitmentHistory'[e] = Append(commitmentHistory[e], commitment[e])
  BY <1>1 DEF ValueTypeOK
<1>5. \A f \in Employee : f # e => commitmentHistory'[f] = commitmentHistory[f]
  BY <1>1 DEF ValueTypeOK
<1>6. commitmentHistory' \in [Employee -> Seq(Commitment)]
  BY <1>1, <1>3 DEF ValueTypeOK
<1>7. QED
  BY <1>2, <1>4, <1>5, <1>6, SMT

\* store_commitment replaces the value at position 0 of one employee by a new
\* one and leaves every other position.
LEMMA StoreUnique ==
    ASSUME ValueTypeOK, ValuesUnique, NEW e \in Employee, NEW v \in Value,
           StoreCommitment(e, v)
    PROVE  ValueTypeOK' /\ ValuesUnique'
<1>1. Bind(e, v, 1) /\ commitmentHistory' = commitmentHistory
  BY DEF StoreCommitment
<1>2. /\ v \notin commitmentIndex
      /\ commitmentIndex' = commitmentIndex \cup {v}
      /\ commitment' \in [Employee -> Commitment \cup {None}]
      /\ commitment'[e] \in Commitment
      /\ commitment'[e].value = v
      /\ \A f \in Employee : f # e => commitment'[f] = commitment[f]
  BY <1>1, BindEffect, SMT
<1>3. ValueTypeOK'
  BY <1>1, <1>2 DEF ValueTypeOK
<1>4. \A f \in Employee : \A i \in 0..Len(commitmentHistory[f]) :
        ~(f = e /\ i = 0) =>
            /\ HasValue(f, i)' = HasValue(f, i)
            /\ ValueAt(f, i)' = ValueAt(f, i)
  BY <1>1, <1>2 DEF HasValue, ValueAt
<1>5. HasValue(e, 0)' /\ ValueAt(e, 0)' = v
  BY <1>2 DEF HasValue, ValueAt
<1>6. ValuesUnique'
  BY <1>1, <1>2, <1>4, <1>5, SMT DEF ValuesUnique
<1>7. QED
  BY <1>3, <1>6

\* update_commitment and rotate_commitment move the value at position 0 of one
\* employee to the end of the history and put a new one in its place.
LEMMA ReplaceUnique ==
    ASSUME ValueTypeOK, ValuesUnique, NEW e \in Employee, NEW v \in Value,
           NEW n \in Nat \ {0}, commitment[e] # None, Archive(e), Bind(e, v, n)
    PROVE  ValueTypeOK' /\ ValuesUnique'
<1> DEFINE last == Len(commitmentHistory[e]) + 1
           Old(f, i) == IF f = e /\ i = last THEN 0 ELSE i
<1>1. /\ v \notin commitmentIndex
      /\ commitmentIndex' = commitmentIndex \cup {v}
      /\ commitment' \in [Employee -> Commitment \cup {None}]
      /\ commitment'[e] \in Commitment
      /\ commitment'[e].value = v
      /\ \A f \in Employee : f # e => commitment'[f] = commitment[f]
  BY BindEffect
<1>2. /\ commitmentHistory' \in [Employee -> Seq(Commitment)]
      /\ Len(commitmentHistory'[e]) = last
      /\ \A i \in 1..Len(commitmentHistory[e]) :
           commitmentHistory'[e][i] = commitmentHistory[e][i]
      /\ commitmentHistory'[e][last] = commitment[e]
      /\ \A f \in Employee : f # e => commitmentHistory'[f] = commitmentHistory[f]
  BY ArchiveEffect
<1>3. ValueTypeOK'
  BY <1>1, <1>2 DEF ValueTypeOK
<1>4. \A f \in Employee : /\ Len(commitmentHistory[f]) \in Nat
                          /\ DOMAIN commitmentHistory[f] = 1..Len(commitmentHistory[f])
                          /\ DOMAIN commitmentHistory'[f] = 1..Len(commitmentHistory'[f])
  BY <1>3, SMT DEF ValueTypeOK
<1>5. ASSUME NEW f \in Employee, NEW i \in 0..Len(commitmentHistory'[f]),
             ~(f = e /\ i = 0), HasValue(f, i)'
      PROVE  /\ Old(f, i) \in 0..Len(commitmentHistory[f])
             /\ HasValue(f, Old(f, i))
             /\ ValueAt(f, i)' = ValueAt(f, Old(f, i))
  <2>1. CASE f # e
    <3>1. commitment'[f] = commitment[f] /\ commitmentHistory'[f] = commitmentHistory[f]
      BY <1>1, <1>2, <2>1
    <3>2. Old(f, i) = i
      BY <2>1
    <3> HIDE DEF Old
    <3>3. QED
      BY <1>5, <3>1, <3>2 DEF HasValue, ValueAt
  <2>2. CASE f = e /\ i = last
    <3>1. /\ last \in Nat \ {0} /\ Old(f, i) = 0 /\ 0 \in 0..Len(commitmentHistory[f])
          /\ commitmentHistory'[f][i] = commitment[f]
      BY <1>2, <1>4, <2>2, SMT
    <3> HIDE DEF Old, last
    <3>2. HasValue(f, 0) /\ ValueAt(f, i)' = ValueAt(f, 0)
      BY <2>2, <3>1 DEF HasValue, ValueAt
    <3>3. QED
      BY <3>1, <3>2
  <2>3. CASE f = e /\ i # last
    <3>1. i \in 1..Len(commitmentHistory[e])
      BY <1>2, <1>4, <1>5, <2>3, SMT
    <3>2. QED
      BY <1>2, <1>4, <1>5, <2>3, <3>1, SMT DEF HasValue, ValueAt
  <2>4. QED
    BY <2>1, <2>2, <2>3
<1>o. ASSUME NEW f \in Employee, NEW i \in 0..Len(commitmentHistory'[f]),
             ~(f = e /\ i = 0), HasValue(f, i)'
      PROVE  ValueAt(f, i)' \in commitmentIndex
  <2>1. /\ Old(f, i) \in 0..Len(commitmentHistory[f])
        /\ HasValue(f, Old(f, i))
        /\ ValueAt(f, i)' = ValueAt(f, Old(f, i))
    BY <1>5, <1>o
  <2> HIDE DEF Old
  <2>2. QED
    BY <2>1, SMT DEF ValuesUnique
<1>6. HasValue(e, 0)' /\ ValueAt(e, 0)' = v
  BY <1>1 DEF HasValue, ValueAt
<1>7. ASSUME NEW f \in Employee, NEW g \in Employee,
             NEW i \in 0..Len(commitmentHistory'[f]), NEW j \in 0..Len(commitmentHistory'[g]),
             HasValue(f, i)'
      PROVE  /\ ValueAt(f, i)' \in commitmentIndex'
             /\ HasValue(g, j)' /\ ValueAt(f, i)' = ValueAt(g, j)' => f = g /\ i = j
  <2>1. CASE f = e /\ i = 0
    BY <1>1, <1>6, <1>o, <2>1
  <2>2. CASE ~(f = e /\ i = 0) /\ g = e /\ j = 0
    BY <1>1, <1>6, <1>7, <1>o, <2>2, SMT
  <2>3. CASE ~(f = e /\ i = 0) /\ ~(g = e /\ j = 0)
    <3>1. /\ Old(f, i) \in 0..Len(commitmentHistory[f])
          /\ HasValue(f, Old(f, i))
          /\ ValueAt(f, i)' = ValueAt(f, Old(f, i))
      BY <1>5, <1>7, <2>3
    <3>2. ValueAt(f, i)' \in commitmentIndex'
      BY <1>1, <3>1, SMT DEF ValuesUnique
    <3>3. ASSUME HasValue(g, j)', ValueAt(f, i)' = ValueAt(g, j)'
          PROVE  f = g /\ i = j
      <4>1. /\ Old(g, j) \in 0..Len(commitmentHistory[g])
            /\ HasValue(g, Old(g, j))
            /\ ValueAt(g, j)' = ValueAt(g, Old(g, j))
        BY <1>5, <3>3, <2>3
      <4> HIDE DEF Old
      <4>2. f = g /\ Old(f, i) = Old(g, j)
        <5>1. \A p \in 0..Len(commitmentHistory[f]), q \in 0..Len(commitmentHistory[g]) :
                HasValue(f, p) /\ HasValue(g, q) /\ ValueAt(f, p) = ValueAt(g, q)
                => f = g /\ p = q
          BY SMT DEF ValuesUnique
        <5>2. ValueAt(f, Old(f, i)) = ValueAt(g, Old(g, j))
          BY <3>1, <3>3, <4>1
        <5>3. QED
          BY <3>1, <4>1, <5>1, <5>2
      <4>3. ASSUME f = e PROVE i = j
        <5>1. /\ Old(e, i) = IF i = last THEN 0 ELSE i
              /\ Old(e, j) = IF j = last THEN 0 ELSE j
          BY DEF Old
        <5>2. i # 0 /\ j # 0
          BY <2>3, <4>2, <4>3
        <5>3. QED
          BY <4>2, <4>3, <5>1, <5>2
      <4>4. ASSUME f # e PROVE i = j
        <5>1. Old(f, i) = i /\ Old(g, j) = j
          BY <4>2, <4>4 DEF Old
        <5>2. QED
          BY <4>2, <5>1
      <4>5. QED
        BY <4>2, <4>3, <4>4
    <3>4. QED
      BY <3>2, <3>3
  <2>4. QED
    BY <2>1, <2>2, <2>3
<1>8. ValuesUnique'
  BY <1>7 DEF ValuesUnique
<1>9. QED
  BY <1>3, <1>8

\* No commitment value is ever bound twice (issue #242), whatever the number
\* of employees and of calls.
THEOREM ValuesUniqueHolds == Spec => []ValuesUnique
<1> DEFINE Inv == ValueTypeOK /\ ValuesUnique
<1>1. Init => Inv
  BY SMT DEF Init, ValueTypeOK, ValuesUnique, HasValue
<1>2. Inv /\ [Next]_vars => Inv'
  <2> SUFFICES ASSUME Inv, [Next]_vars PROVE Inv'
    OBVIOUS
  <2>1. CASE \E e \in Employee, v \in Value : StoreCommitment(e, v)
    BY <2>1, StoreUnique
  <2>2. ASSUME NEW e \in Employee, NEW v \in Value, UpdateCommitment(e, v)
        PROVE  Inv'
    <3>1. commitment[e] # None /\ Archive(e) /\ Bind(e, v, commitment[e].version + 1)
      BY <2>2 DEF UpdateCommitment, Updatable
    <3>2. commitment[e].version + 1 \in Nat \ {0}
      BY <3>1, SMT DEF ValueTypeOK, Commitment
    <3>3. QED
      BY <3>1, <3>2, ReplaceUnique
  <2>3. ASSUME NEW e \in Employee, NEW v \in Value, RotateCommitment(e, v)
        PROVE  Inv'
    <3>1. commitment[e] # None /\ Archive(e) /\ Bind(e, v, 1)
      BY <2>3 DEF RotateCommitment, Updatable
    <3>2. QED
      BY <3>1, ReplaceUnique, SMT
  <2>4. CASE ~ValueNext
    <3>1. /\ commitment' = commitment
          /\ commitmentHistory' = commitmentHistory
          /\ commitmentIndex' = commitmentIndex
      BY <2>4, ValueFrame DEF valueVars
    <3>2. \A f, i : HasValue(f, i)' = HasValue(f, i) /\ ValueAt(f, i)' = ValueAt(f, i)
      BY <3>1 DEF HasValue, ValueAt
    <3>3. QED
      BY <3>1, <3>2, SMT DEF ValueTypeOK, ValuesUnique
  <2>5. QED
    BY <2>1, <2>2, <2>3, <2>4 DEF ValueNext
<1>3. QED
  BY <1>1, <1>2, PTL DEF Spec

----------------------------------------------------------------------------
(***************************************************************************)
(* Histories.                                                              *)
(***************************************************************************)
\* A snapshot taken of the active record, followed by a record of version 1 or
\* of the next one, continues the chain of versions.
LEMMA ReplaceChain ==
    ASSUME ValueTypeOK, VersionChain, NEW e \in Employee, NEW v \in Value,
           NEW n \in {1, commitment[e].version + 1},
           commitment[e] # None, Archive(e), Bind(e, v, n)
    PROVE  VersionChain'
<1> DEFINE h == commitmentHistory[e]
           last == Len(h) + 1
<1>1. commitment[e] \in Commitment /\ h \in Seq(Commitment) /\ Len(h) \in Nat
  BY SMT DEF ValueTypeOK
<1>2. /\ commitmentHistory' \in [Employee -> Seq(Commitment)]
      /\ Len(commitmentHistory'[e]) = last
      /\ \A i \in 1..Len(h) : commitmentHistory'[e][i] = h[i]
      /\ commitmentHistory'[e][last] = commitment[e]
      /\ \A f \in Employee : f # e => commitmentHistory'[f] = commitmentHistory[f]
  BY ArchiveEffect
<1>3. /\ commitment'[e].version = n
      /\ \A f \in Employee : f # e => commitment'[f] = commitment[f]
  BY DEF Bind, ValueTypeOK
<1>4. /\ \A i \in 1..Len(h) - 1 : h[i + 1].version \in {1, h[i].version + 1}
      /\ h # <<>> => commitment[e].version \in {1, h[Len(h)].version + 1}
  BY DEF VersionChain
<1> HIDE DEF h
<1>5. \A i \in 1..Len(commitmentHistory'[e]) - 1 :
        commitmentHistory'[e][i + 1].version \in {1, commitmentHistory'[e][i].version + 1}
  <2> SUFFICES ASSUME NEW i \in 1..Len(h)
               PROVE  commitmentHistory'[e][i + 1].version
                        \in {1, commitmentHistory'[e][i].version + 1}
    BY <1>1, <1>2, SMT
  <2>1. commitmentHistory'[e][i] = h[i]
    BY <1>2
  <2>2. CASE i = Len(h)
    <3>1. h # <<>> /\ i + 1 = last
      BY <1>1, <2>2, SMT
    <3>2. commitmentHistory'[e][i + 1] = commitment[e]
      BY <1>2, <3>1
    <3> QED
      BY <1>4, <2>1, <2>2, <3>1, <3>2
  <2>3. CASE i # Len(h)
    <3>1. i \in 1..Len(h) - 1 /\ i + 1 \in 1..Len(h)
      BY <1>1, <2>3, SMT
    <3> QED
      BY <1>2, <1>4, <2>1, <3>1
  <2> QED
    BY <2>2, <2>3
<1>6. commitment'[e].version \in {1, commitmentHistory'[e][Len(commitmentHistory'[e])].version + 1}
  BY <1>2, <1>3
<1>7. ASSUME NEW f \in Employee
      PROVE  LET g == commitmentHistory'[f] IN
             /\ \A i \in 1..Len(g) - 1 : g[i + 1].version \in {1, g[i].version + 1}
             /\ g # <<>> => commitment'[f].version \in {1, g[Len(g)].version + 1}
  <2>1. CASE f = e
    BY <1>5, <1>6, <2>1
  <2>2. CASE f # e
    <3>1. commitmentHistory'[f] = commitmentHistory[f] /\ commitment'[f] = commitment[f]
      BY <1>2, <1>3, <2>2
    <3> QED
      BY <3>1 DEF VersionChain
  <2> QED
    BY <2>1, <2>2
<1> QED
  BY <1>7 DEF VersionChain

\* The commitments, their archive and their index keep their types.
LEMMA ValueTypes == Spec => []ValueTypeOK
<1>1. Init => ValueTypeOK
  BY SMT DEF Init, ValueTypeOK
<1>2. ValueTypeOK /\ ValuesUnique /\ [Next]_vars => ValueTypeOK'
  <2> SUFFICES ASSUME ValueTypeOK, ValuesUnique, [Next]_vars PROVE ValueTypeOK'
    OBVIOUS
  <2>1. ASSUME NEW e \in Employee, NEW v \in Value, StoreCommitment(e, v) PROVE ValueTypeOK'
    BY <2>1, StoreUnique
  <2>2. ASSUME NEW e \in Employee, NEW v \in Value, UpdateCommitment(e, v) PROVE ValueTypeOK'
    <3>1. commitment[e] # None /\ Archive(e) /\ Bind(e, v, commitment[e].version + 1)
      BY <2>2 DEF UpdateCommitment, Updatable
    <3>2. commitment[e].version + 1 \in Nat \ {0}
      BY <3>1, SMT DEF ValueTypeOK, Commitment
    <3> QED
      BY <3>1, <3>2, ReplaceUnique
  <2>3. ASSUME NEW e \in Employee, NEW v \in Value, RotateCommitment(e, v) PROVE ValueTypeOK'
    <3>1. commitment[e] # None /\ Archive(e) /\ Bind(e, v, 1)
      BY <2>3 DEF RotateCommitment, Updatable
    <3> QED
      BY <3>1, ReplaceUnique, SMT
  <2>4. CASE ~ValueNext
    BY <2>4, ValueFrame DEF valueVars, ValueTypeOK
  <2> QED
    BY <2>1, <2>2, <2>3, <2>4 DEF ValueNext
<1> QED
  BY <1>1, <1>2, ValuesUniqueHolds, PTL DEF Spec

\* Each version in a history, and the active one, follows on the version
\* archived before it or starts again at 1, for any number of updates and
\* rotations (update_commitment, rotate_commitment).
THEOREM VersionChainHolds == Spec => []VersionChain
<1>1. Init => VersionChain
  BY SMT DEF Init, VersionChain
<1>2. ValueTypeOK /\ VersionChain /\ [Next]_vars => VersionChain'
  <2> SUFFICES ASSUME ValueTypeOK, VersionChain, [Next]_vars PROVE VersionChain'
    OBVIOUS
  <2>1. ASSUME NEW e \in Employee, NEW v \in Value, StoreCommitment(e, v) PROVE VersionChain'
    <3>1. commitmentHistory' = commitmentHistory /\ Bind(e, v, 1)
      BY <2>1 DEF StoreCommitment
    <3>2. commitment'[e].version = 1 /\ \A f \in Employee : f # e => commitment'[f] = commitment[f]
      BY <3>1 DEF Bind, ValueTypeOK
    <3> QED
      BY <3>1, <3>2 DEF VersionChain
  <2>2. ASSUME NEW e \in Employee, NEW v \in Value, UpdateCommitment(e, v) PROVE VersionChain'
    BY <2>2, ReplaceChain DEF UpdateCommitment, Updatable
  <2>3. ASSUME NEW e \in Employee, NEW v \in Value, RotateCommitment(e, v) PROVE VersionChain'
    BY <2>3, ReplaceChain DEF RotateCommitment, Updatable
  <2>4. CASE ~ValueNext
    BY <2>4, ValueFrame DEF valueVars, VersionChain
  <2> QED
    BY <2>1, <2>2, <2>3, <2>4 DEF ValueNext
<1> QED
  BY <1>1, <1>2, ValueTypes, PTL DEF Spec

\* Only the pause manager's categories can be paused.
CategoriesOK == paused \subseteq PauseCategory

\* Every operation keeps the set of paused categories one of its categories.
LEMMA CategoriesHold == Spec => []CategoriesOK
<1>1. Init => CategoriesOK
  BY DEF Init, PauseInit, CategoriesOK
<1>2. CategoriesOK /\ [Next]_vars => CategoriesOK'
  <2> SUFFICES ASSUME CategoriesOK, [Next]_vars PROVE CategoriesOK'
    OBVIOUS
  <2>1. CASE PauseNext
    BY <2>1 DEF PauseNext, PauseAll, UnpauseAll, SetCategory, ClearCategory,
       ProposeOperatorRotation, AcceptOperatorRotation, CancelOperatorRotation, CategoriesOK
  <2>2. CASE ~PauseNext
    BY <2>2 DEF Next, vars, pauseVars, ValueNext, StoreCommitment, UpdateCommitment,
       RotateCommitment, LockCommitmentUpdates, UnlockCommitmentUpdates, RecordNullifier,
       SetEmployeeReferenceId, RoleNext, SetPayrollOperator, RemovePayrollOperator,
       ProposeAdminRotation, AcceptAdminRotation, CancelAdminRotation, SetPauseManager,
       CategoriesOK
  <2> QED
    BY <2>1, <2>2
<1> QED
  BY <1>1, <1>2, PTL DEF Spec

\* A history only grows, at its end, by the record that was active, and
\* nothing of it changes while a category is paused (archive_commitment,
\* require_not_paused).
THEOREM HistoryAppendOnlyHolds == Spec => HistoryAppendOnly
<1>1. ValueTypeOK /\ CategoriesOK /\ [Next]_vars => [HistoryStep]_vars
  <2> SUFFICES ASSUME ValueTypeOK, CategoriesOK, [Next]_vars PROVE HistoryStep
    OBVIOUS
  <2>1. ASSUME NEW e \in Employee, Archive(e) \/ commitmentHistory' = commitmentHistory, NotPaused
        PROVE  HistoryStep
    <3>1. \A f \in Employee :
            commitmentHistory'[f] \in {commitmentHistory[f],
                                       Append(commitmentHistory[f], commitment[f])}
      BY <2>1 DEF Archive, ValueTypeOK
    <3>2. ~(pauseManagerSet /\ paused # {})
      BY <2>1 DEF NotPaused, IsPaused, CategoriesOK
    <3> QED
      BY <3>1, <3>2 DEF HistoryStep
  <2>2. ASSUME NEW e \in Employee, NEW v \in Value,
               \/ StoreCommitment(e, v) \/ UpdateCommitment(e, v) \/ RotateCommitment(e, v)
        PROVE  HistoryStep
    BY <2>1, <2>2 DEF StoreCommitment, UpdateCommitment, RotateCommitment
  <2>3. CASE ~ValueNext
    BY <2>3, ValueFrame DEF valueVars, HistoryStep
  <2> QED
    BY <2>2, <2>3 DEF ValueNext
<1> QED
  BY <1>1, ValueTypes, CategoriesHold, PTL DEF Spec, HistoryAppendOnly
=============================================================================
