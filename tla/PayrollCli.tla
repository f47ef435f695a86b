----------------------------- MODULE PayrollCli -----------------------------
(***************************************************************************)
(* The command-line client (cli/src): init-company, add-employee and       *)
(* reconcile.  Every command is a process of its own; several may run at a *)
(* time over one SQLite file, each statement of which is atomic, and any   *)
(* of them may be killed, or fail on the file or on the network, between   *)
(* two steps.  The file, the table and its rows outlive the processes.     *)
(***************************************************************************)
EXTENDS Integers, Sequences, Storage

CONSTANTS
    Proc,         \* processes
    Pubkey,       \* keys given to add-employee or named by events
    StellarKey,   \* those of them that are well-formed G addresses
    SalaryInput,  \* amounts given to add-employee
    CompanyInput, \* values of --company-id
    EventInput,   \* events a page of getEvents may hold
    PageLimit,    \* the largest number of events in a page
    Blinding,     \* blinding factors
    Word          \* 2^64

RawEvent ==
    [success : BOOLEAN,       \* inSuccessfulContractCall
     topics : [name : {"PayrollProcessed", "Other"},
               company : CompanyInput \cup {None}] \cup {None},
     data : [employee : Pubkey, amount : Int] \cup {None}]

ASSUME CliAssumption ==
    /\ StellarKey \subseteq Pubkey
    /\ Word \in Nat \ {0}
    /\ SalaryInput \subseteq 0..(Word - 1)
    /\ EventInput \subseteq RawEvent
    /\ PageLimit \in Nat
    /\ None \notin CompanyInput

VARIABLES
    file, table,  \* the database file and its table exist
    rows,         \* the row of each employee that has one
    printed,      \* history: the openings of the commitments printed
    pc, local     \* where each process stands, and what it holds

db == <<file, table, rows>>
cliVars == <<db, printed, pc, local>>

\* get_employee finds a row.
HasRow(key) == key \in DOMAIN rows

\* The command returns, with or without an error.
Finish(p) ==
    /\ pc' = [pc EXCEPT ![p] = "idle"]
    /\ local' = [local EXCEPT ![p] = None]

Goto(p, step, record) ==
    /\ pc' = [pc EXCEPT ![p] = step]
    /\ local' = [local EXCEPT ![p] = record]

----------------------------------------------------------------------------
(***************************************************************************)
(* init-company.  Opening the database creates the file.                   *)
(***************************************************************************)
InitCompany(p) ==
    /\ pc[p] = "idle"
    /\ file' = TRUE
    /\ Goto(p, "table", None)
    /\ UNCHANGED <<table, rows, printed>>

\* CREATE TABLE IF NOT EXISTS.
Initialise(p) ==
    /\ pc[p] = "table"
    /\ table' = TRUE
    /\ Finish(p)
    /\ UNCHANGED <<file, rows, printed>>

----------------------------------------------------------------------------
(***************************************************************************)
(* add-employee.  Hashing binds, so a commitment is its opening.           *)
(***************************************************************************)
ValidateStellarPubkey(key) == key \in StellarKey

\* "salary as i64" of a u64, and back.
ToColumn(salary) == IF 2 * salary >= Word THEN salary - Word ELSE salary

\* Mutant: the column is not cast back.
FromColumn_Signed(column) == column

FromColumn(column) == column % Word

\* A factor no row, no printed commitment and no other process holds.
GenBlindingFactor ==
    CHOOSE b \in Blinding :
        /\ \A e \in DOMAIN rows : rows[e].blinding # b
        /\ \A o \in printed : o.blinding # b
        /\ \A p \in Proc : pc[p] \in {"insert", "print"} => local[p].blinding # b

AddEmployee(p, key, amount) ==
    /\ pc[p] = "idle"
    /\ ValidateStellarPubkey(key)
    /\ file
    /\ Goto(p, "exists", [employee |-> key, salary |-> amount])
    /\ UNCHANGED <<db, printed>>

\* Without the table the query is an error.
EmployeeExists(p) ==
    LET a == local[p] IN
    /\ pc[p] = "exists"
    /\ IF table /\ ~HasRow(a.employee)
         THEN Goto(p, "insert", [employee |-> a.employee, salary |-> a.salary,
                                 blinding |-> GenBlindingFactor])
         ELSE Finish(p)
    /\ UNCHANGED <<db, printed>>

\* Mutant: INSERT OR REPLACE.
Insertable_Replace(key) == key \in StellarKey

\* The primary key.
Insertable(key) == ~HasRow(key)

InsertEmployee(p) ==
    LET a == local[p] IN
    /\ pc[p] = "insert"
    /\ IF Insertable(a.employee)
         THEN /\ rows' = [e \in DOMAIN rows \cup {a.employee} |->
                           IF e = a.employee
                             THEN [blinding |-> a.blinding, column |-> ToColumn(a.salary)]
                             ELSE rows[e]]
              /\ Goto(p, "print", a)
         ELSE Finish(p) /\ UNCHANGED rows
    /\ UNCHANGED <<file, table, printed>>

PrintCommitment(p) ==
    /\ pc[p] = "print"
    /\ printed' = printed \cup {local[p]}
    /\ Finish(p)
    /\ UNCHANGED db

----------------------------------------------------------------------------
(***************************************************************************)
(* reconcile.                                                              *)
(***************************************************************************)
Reconcile(p, company) ==
    /\ pc[p] = "idle"
    /\ Goto(p, "fetch", [company |-> company])
    /\ UNCHANGED <<db, printed>>

IsPayrollEvent(ev, company) ==
    /\ ev.success
    /\ ev.topics # None
    /\ ev.topics.name = "PayrollProcessed"
    /\ ev.topics.company = company

\* One call of getEvents; an event of the company that does not decode fails
\* the command.
FetchPayrollEvents(p, page) ==
    LET Ours(ev) == IsPayrollEvent(ev, local[p].company)
        events == SelectSeq(page, Ours)
    IN
    /\ pc[p] = "fetch"
    /\ IF events # <<>> /\ \A i \in DOMAIN events : events[i].data # None
         THEN Goto(p, "open", [events |-> [i \in DOMAIN events |-> events[i].data]])
         ELSE Finish(p)
    /\ UNCHANGED <<db, printed>>

\* Mutant: the HTTP client waits for ever.
FetchTimeout_Never(p) == pc[p] = "fetch" /\ FALSE /\ UNCHANGED cliVars

\* The HTTP client gives up after thirty seconds.
FetchTimeout(p) ==
    /\ pc[p] = "fetch"
    /\ Finish(p)
    /\ UNCHANGED <<db, printed>>

OpenDatabase(p) ==
    /\ pc[p] = "open"
    /\ Goto(p, "lookup", [events |-> local[p].events, conn |-> file, next |-> 1,
                          known |-> {}, mismatched |-> {}])
    /\ UNCHANGED <<db, printed>>

\* One row of the report.  Without a file nobody is known, and the salaries are
\* not compared; a file without the table is an error.
LookupEmployee(p) ==
    LET r == local[p]
        found == r.conn /\ HasRow(r.events[r.next].employee)
        looked == [r EXCEPT !.known = IF found THEN @ \cup {r.next} ELSE @]
        last == r.next = Len(r.events)
    IN
    /\ pc[p] = "lookup"
    /\ IF (r.conn /\ ~table) \/ (last /\ ~r.conn)
         THEN Finish(p)
         ELSE Goto(p, IF last THEN "compare" ELSE "lookup",
                   [looked EXCEPT !.next = IF last THEN 1 ELSE @ + 1])
    /\ UNCHANGED <<db, printed>>

\* One payment of check_salary_mismatches.
CompareSalary(p) ==
    LET r == local[p]
        ev == r.events[r.next]
        differs == /\ HasRow(ev.employee)
                   /\ FromColumn(rows[ev.employee].column) # ev.amount
        compared == [r EXCEPT !.mismatched = IF differs THEN @ \cup {r.next} ELSE @]
    IN
    /\ pc[p] = "compare"
    /\ IF r.next = Len(r.events)
         THEN Goto(p, "warn", compared)
         ELSE Goto(p, "compare", [compared EXCEPT !.next = @ + 1])
    /\ UNCHANGED <<db, printed>>

WarnMismatches(p) ==
    /\ pc[p] = "warn"
    /\ Finish(p)
    /\ UNCHANGED <<db, printed>>

----------------------------------------------------------------------------
\* The process is killed, or a statement or the RPC returns an error.
Stop(p) ==
    /\ pc[p] # "idle"
    /\ Finish(p)
    /\ UNCHANGED <<db, printed>>

Page == UNION {[1..n -> EventInput] : n \in 0..PageLimit}

CliInit ==
    /\ file = FALSE
    /\ table = FALSE
    /\ rows = [e \in {} |-> None]
    /\ printed = {}
    /\ pc = [p \in Proc |-> "idle"]
    /\ local = [p \in Proc |-> None]

Start(p) ==
    \/ InitCompany(p)
    \/ \E key \in Pubkey, amount \in SalaryInput : AddEmployee(p, key, amount)
    \/ \E company \in CompanyInput : Reconcile(p, company)

\* The steps a process takes by itself.
Step(p) ==
    \/ Initialise(p)
    \/ EmployeeExists(p)
    \/ InsertEmployee(p)
    \/ PrintCommitment(p)
    \/ FetchTimeout(p)
    \/ OpenDatabase(p)
    \/ LookupEmployee(p)
    \/ CompareSalary(p)
    \/ WarnMismatches(p)

CliNext ==
    \E p \in Proc :
        \/ Start(p)
        \/ Step(p)
        \/ \E page \in Page : FetchPayrollEvents(p, page)
        \/ Stop(p)

\* A process that has started goes on: the operating system schedules it, and
\* SQLite's busy timeout and the HTTP timeout return.  Neither the answer of
\* the RPC nor the start of a command is promised.
Fairness == \A p \in Proc : WF_cliVars(Step(p))

CliSpec == CliInit /\ [][CliNext]_cliVars /\ Fairness

----------------------------------------------------------------------------
\* The database holds what the commitment was computed from.
Opens(o) ==
    /\ HasRow(o.employee)
    /\ rows[o.employee].blinding = o.blinding
    /\ rows[o.employee].column % Word = o.salary

\* A commitment that was printed can be opened: the database holds the blinding
\* factor and the salary it was computed from, whatever other add-employee
\* commands raced with it and wherever commands were killed (cmd_add_employee
\* checks, inserts and prints in three steps; the blinding factor is nowhere
\* else).
PrintedOpensRow == \A o \in printed : Opens(o)

SalaryDiffers(ev) == rows[ev.employee].column % Word # ev.amount

ReportHolds(r) ==
    /\ \A i \in r.known \cup r.mismatched : HasRow(r.events[i].employee)
    /\ \A i \in r.mismatched : SalaryDiffers(r.events[i])
    /\ \A i \in r.known : SalaryDiffers(r.events[i]) => i \in r.mismatched

\* What reconcile reports still holds when it ends, although it reads the
\* database in two passes while employees are added: a payment marked as known
\* has its row, a payment is warned about only if the salary differs, and
\* among the known payments every one that differs is warned about (run and
\* check_salary_mismatches).
ReportSound == \A p \in Proc : pc[p] = "warn" => ReportHolds(local[p])

\* Every command that is started ends, also when the RPC never answers
\* (fetch_payroll_events sets a timeout) and when other commands run beside it.
CommandsEnd == \A p \in Proc : pc[p] # "idle" ~> pc[p] = "idle"
=============================================================================
