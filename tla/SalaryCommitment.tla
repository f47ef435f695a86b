-------------------------- MODULE SalaryCommitment --------------------------
(***************************************************************************)
(* The salary-commitment contract (contracts/salary_commitment/src/lib.rs) *)
(* beside the pause manager it asks: one active commitment per employee,   *)
(* the archive of former ones, update locks, payment nullifiers and        *)
(* external reference identifiers.                                         *)
(*                                                                         *)
(* The revoked flag is not a part of the state: rotate_commitment sets it  *)
(* and, in the same invocation, overwrites the record it set it in.        *)
(***************************************************************************)
EXTENDS PauseManager, Sequences

CONSTANTS
    Employee, Value, RefId, Nullifier,
    FirstAdmin, AdminInput,  \* the admin, and accounts a rotation may name
    PayrollOperatorInput     \* accounts set_payroll_operator may name

VARIABLES
    commitment,        \* the active commitment of an employee
    commitmentHistory, \* the snapshots of an employee, oldest first
    commitmentIndex,   \* the values ever bound to an employee
    commitmentLock,    \* the employees whose commitment is locked
    nullifiers,
    referenceId, referenceIdIndex,
    admin, payrollOperator, pendingAdmin,
    pauseManagerSet    \* whether the pause manager is installed

Commitment == [value : Value, version : Nat \ {0}]

ASSUME CommitmentAssumption ==
    /\ FirstAdmin \in Account
    /\ AdminInput \subseteq Account
    /\ PayrollOperatorInput \subseteq Account
    /\ None \notin Commitment
    /\ None \notin Employee
    /\ None \notin RefId

valueVars == <<commitment, commitmentHistory, commitmentIndex>>
referenceVars == <<referenceId, referenceIdIndex>>
roleVars == <<admin, payrollOperator, pendingAdmin>>
contractVars == <<valueVars, commitmentLock, nullifiers, referenceVars, roleVars>>
vars == <<contractVars, pauseManagerSet, pauseVars>>

----------------------------------------------------------------------------
NotPaused == pauseManagerSet => ~IsPaused

\* Mutant: the value may be in use by another employee.
UnusedValue_OwnOnly(e, v) == commitment[e] # None => commitment[e].value # v

\* register_commitment_uniqueness.
UnusedValue(e, v) == v \notin commitmentIndex

Bind(e, v, version) ==
    /\ UnusedValue(e, v)
    /\ commitmentIndex' = commitmentIndex \cup {v}
    /\ commitment' = [commitment EXCEPT ![e] = [value |-> v, version |-> version]]

\* Mutant: the history starts again with every snapshot.
Archive_Overwrite(e) == commitmentHistory' = [commitmentHistory EXCEPT ![e] = <<commitment[e]>>]

\* Mutant: the snapshot carries the version of the successor.
Archive_NextVersion(e) ==
    commitmentHistory' = [commitmentHistory EXCEPT
                            ![e] = Append(@, [commitment[e] EXCEPT !.version = @ + 1])]

Archive(e) == commitmentHistory' = [commitmentHistory EXCEPT ![e] = Append(@, commitment[e])]

\* Replaces a commitment, if there is one, without archiving it and without
\* looking at the lock.
StoreCommitment(e, v) ==
    /\ NotPaused
    /\ Bind(e, v, 1)
    /\ UNCHANGED <<commitmentHistory, commitmentLock, nullifiers, referenceVars,
                   roleVars, pauseManagerSet, pauseVars>>

Updatable(e) == e \notin commitmentLock /\ commitment[e] # None

UpdateCommitment(e, v) ==
    /\ NotPaused
    /\ Updatable(e)
    /\ Archive(e)
    /\ Bind(e, v, commitment[e].version + 1)
    /\ UNCHANGED <<commitmentLock, nullifiers, referenceVars, roleVars,
                   pauseManagerSet, pauseVars>>

\* Archives, then stores: the version starts again at 1.
RotateCommitment(e, v) ==
    /\ NotPaused
    /\ Updatable(e)
    /\ Archive(e)
    /\ Bind(e, v, 1)
    /\ UNCHANGED <<commitmentLock, nullifiers, referenceVars, roleVars,
                   pauseManagerSet, pauseVars>>

----------------------------------------------------------------------------
LockCommitmentUpdates(e) ==
    /\ NotPaused
    /\ e \notin commitmentLock
    /\ commitmentLock' = commitmentLock \cup {e}
    /\ UNCHANGED <<valueVars, nullifiers, referenceVars, roleVars, pauseManagerSet,
                   pauseVars>>

UnlockCommitmentUpdates(e) ==
    /\ NotPaused
    /\ e \in commitmentLock
    /\ commitmentLock' = commitmentLock \ {e}
    /\ UNCHANGED <<valueVars, nullifiers, referenceVars, roleVars, pauseManagerSet,
                   pauseVars>>

RecordNullifier(n) ==
    /\ NotPaused
    /\ n \notin nullifiers
    /\ nullifiers' = nullifiers \cup {n}
    /\ UNCHANGED <<valueVars, commitmentLock, referenceVars, roleVars, pauseManagerSet,
                   pauseVars>>

\* Mutant: the old identifier keeps pointing to the employee.
ReindexReference_KeepOld(e, r) ==
    referenceIdIndex' = [referenceIdIndex EXCEPT ![r] = e]

\* The reverse entry of the employee's former identifier is removed first.
ReindexReference(e, r) ==
    referenceIdIndex' = [x \in RefId |-> CASE x = r -> e
                                           [] x = referenceId[e] /\ x # r -> None
                                           [] OTHER -> referenceIdIndex[x]]

SetEmployeeReferenceId(e, r) ==
    /\ NotPaused
    /\ referenceIdIndex[r] \in {None, e}
    /\ ReindexReference(e, r)
    /\ referenceId' = [referenceId EXCEPT ![e] = r]
    /\ UNCHANGED <<valueVars, commitmentLock, nullifiers, roleVars, pauseManagerSet,
                   pauseVars>>

----------------------------------------------------------------------------
SetPayrollOperator(a) ==
    /\ NotPaused
    /\ payrollOperator' = a
    /\ UNCHANGED <<valueVars, commitmentLock, nullifiers, referenceVars, admin,
                   pendingAdmin, pauseManagerSet, pauseVars>>

RemovePayrollOperator ==
    /\ NotPaused
    /\ payrollOperator # None
    /\ payrollOperator' = None
    /\ UNCHANGED <<valueVars, commitmentLock, nullifiers, referenceVars, admin,
                   pendingAdmin, pauseManagerSet, pauseVars>>

ProposeAdminRotation(a) ==
    /\ NotPaused
    /\ pendingAdmin = None
    /\ pendingAdmin' = a
    /\ UNCHANGED <<valueVars, commitmentLock, nullifiers, referenceVars, admin,
                   payrollOperator, pauseManagerSet, pauseVars>>

AcceptAdminRotation ==
    /\ NotPaused
    /\ pendingAdmin # None
    /\ admin' = pendingAdmin
    /\ pendingAdmin' = None
    /\ UNCHANGED <<valueVars, commitmentLock, nullifiers, referenceVars,
                   payrollOperator, pauseManagerSet, pauseVars>>

CancelAdminRotation ==
    /\ NotPaused
    /\ pendingAdmin # None
    /\ pendingAdmin' = None
    /\ UNCHANGED <<valueVars, commitmentLock, nullifiers, referenceVars, admin,
                   payrollOperator, pauseManagerSet, pauseVars>>

\* The one entry point of the admin that is not refused while paused.
SetPauseManager ==
    /\ pauseManagerSet' = TRUE
    /\ UNCHANGED <<contractVars, pauseVars>>

----------------------------------------------------------------------------
Init ==
    /\ PauseInit
    /\ commitment = [e \in Employee |-> None]
    /\ commitmentHistory = [e \in Employee |-> <<>>]
    /\ commitmentIndex = {}
    /\ commitmentLock = {}
    /\ nullifiers = {}
    /\ referenceId = [e \in Employee |-> None]
    /\ referenceIdIndex = [r \in RefId |-> None]
    /\ admin = FirstAdmin
    /\ payrollOperator = None
    /\ pendingAdmin = None
    /\ pauseManagerSet = FALSE

ValueNext ==
    \/ \E e \in Employee, v \in Value : StoreCommitment(e, v)
    \/ \E e \in Employee, v \in Value : UpdateCommitment(e, v)
    \/ \E e \in Employee, v \in Value : RotateCommitment(e, v)

RoleNext ==
    \/ \E a \in PayrollOperatorInput : SetPayrollOperator(a)
    \/ RemovePayrollOperator
    \/ \E a \in AdminInput : ProposeAdminRotation(a)
    \/ AcceptAdminRotation
    \/ CancelAdminRotation
    \/ SetPauseManager

Next ==
    \/ ValueNext
    \/ \E e \in Employee : LockCommitmentUpdates(e)
    \/ \E e \in Employee : UnlockCommitmentUpdates(e)
    \/ \E n \in Nullifier : RecordNullifier(n)
    \/ \E e \in Employee, r \in RefId : SetEmployeeReferenceId(e, r)
    \/ RoleNext
    \/ PauseNext /\ UNCHANGED <<contractVars, pauseManagerSet>>

Spec == Init /\ [][Next]_vars

----------------------------------------------------------------------------
TypeOK ==
    /\ PauseTypeOK
    /\ commitment \in [Employee -> Commitment \cup {None}]
    /\ commitmentHistory \in [Employee -> Seq(Commitment)]
    /\ commitmentIndex \subseteq Value
    /\ commitmentLock \subseteq Employee
    /\ nullifiers \subseteq Nullifier
    /\ referenceId \in [Employee -> RefId \cup {None}]
    /\ referenceIdIndex \in [RefId -> Employee \cup {None}]
    /\ admin \in Account
    /\ payrollOperator \in Account \cup {None}
    /\ pendingAdmin \in Account \cup {None}
    /\ pauseManagerSet \in BOOLEAN

\* The places a commitment value can be in: the active record of an employee
\* (position 0) or a snapshot of the employee's history.
ValueAt(e, i) == IF i = 0 THEN commitment[e].value ELSE commitmentHistory[e][i].value

HasValue(e, i) ==
    IF i = 0 THEN commitment[e] # None ELSE i \in DOMAIN commitmentHistory[e]

\* No value is bound twice (issue #242): the active and the archived
\* commitments of all employees are different from each other and registered
\* as used, in whatever order store, update and rotate were called.
ValuesUnique ==
    \A e, f \in Employee :
        \A i \in 0..Len(commitmentHistory[e]), j \in 0..Len(commitmentHistory[f]) :
            HasValue(e, i) =>
                /\ ValueAt(e, i) \in commitmentIndex
                /\ HasValue(f, j) /\ ValueAt(e, i) = ValueAt(f, j) => e = f /\ i = j

\* A snapshot follows on the one before it: each version in the history, and
\* the active one, is one more than the version archived before it, or 1 when
\* rotate_commitment or store_commitment came between.
VersionChain ==
    \A e \in Employee :
        LET h == commitmentHistory[e] IN
        /\ \A i \in 1..Len(h) - 1 : h[i + 1].version \in {1, h[i].version + 1}
        /\ h # <<>> => commitment[e].version \in {1, h[Len(h)].version + 1}

\* The two reference maps are inverse to each other, also after an employee's
\* identifier was replaced and the former one given to somebody else
\* (set_employee_reference_id).
ReferencesInverse ==
    \A e \in Employee, r \in RefId : referenceId[e] = r <=> referenceIdIndex[r] = e

\* The history of an employee only grows, at its end, and by the record that
\* was active (archive_commitment looks for the first free index); while the
\* installed pause manager has any category paused, no commitment and no
\* history changes at all (require_not_paused asks for every category).
HistoryStep ==
    /\ \A e \in Employee :
         commitmentHistory'[e] \in {commitmentHistory[e],
                                    Append(commitmentHistory[e], commitment[e])}
    /\ pauseManagerSet /\ paused # {} => UNCHANGED valueVars

HistoryAppendOnly == [][HistoryStep]_vars
=============================================================================
