-------------------------- MODULE PayrollRegistry --------------------------
(***************************************************************************)
(* The payroll registry (contracts/payroll_registry/src/lib.rs): companies *)
(* with an admin and a treasury, the index from admins to companies,       *)
(* employees, two-step rotations of both roles, and approval thresholds    *)
(* that change after a grace period.  The authorisation each entry point   *)
(* asks of the company's admin is the caller's business and not a          *)
(* parameter.  Times that are stored and never read are left out.          *)
(***************************************************************************)
EXTENDS PauseManager

CONSTANTS
    AdminInput,       \* accounts that register companies or are proposed as admin
    TreasuryInput,    \* accounts a company is registered with as treasury
    TreasurySuccessor,  \* accounts proposed as treasury
    Employee,
    EmployeeInput,    \* employees the registry is called about
    DetailInput,      \* companies whose employees, treasury and thresholds are called about
    CommitmentValue,
    StatusInput,      \* statuses passed to set_employee_status
    ThresholdInput,   \* thresholds proposed or set initially
    GraceInput,       \* grace periods of a threshold rotation, in seconds
    MaxCompanies,     \* bound of the checked instance on the number of companies
    MaxTime           \* bound of the checked instance on the ledger's timestamp

CompanyId == 0..MaxCompanies - 1

EmployeeStatus == {"Active", "Inactive", "Incomplete"}

CompanyInfo == [admin : Account, treasury : Account]

PendingCompanyRotation == [holder : Account, by : Account]

PendingThresholdRotation == [required : Nat \ {0}, effective : Nat]

ASSUME RegistryAssumption ==
    /\ AdminInput \subseteq Account
    /\ TreasuryInput \subseteq Account
    /\ TreasurySuccessor \subseteq Account
    /\ EmployeeInput \subseteq Employee
    /\ DetailInput \subseteq CompanyId
    /\ StatusInput \subseteq EmployeeStatus
    /\ ThresholdInput \subseteq Nat
    /\ GraceInput \subseteq Nat
    /\ MaxCompanies \in Nat
    /\ MaxTime \in Nat
    /\ None \notin CompanyInfo \cup PendingCompanyRotation \cup PendingThresholdRotation
    /\ None \notin CommitmentValue \cup EmployeeStatus \cup Nat

VARIABLES
    company,
    companySequence,
    companyAdmin,             \* the company an account is registered as admin of
    employeeCommitment,
    empStatus,
    pendingAdminRotation,
    pendingTreasuryRotation,
    approvalThreshold,        \* the required approvals of the active threshold
    pendingThreshold,
    registryManagerSet,       \* whether the registry has a pause manager
    now                       \* the ledger's timestamp

companyVars == <<company, companySequence, companyAdmin>>
employeeVars == <<employeeCommitment, empStatus>>
rotationVars == <<pendingAdminRotation, pendingTreasuryRotation>>
thresholdVars == <<approvalThreshold, pendingThreshold>>
registryVars == <<companyVars, employeeVars, rotationVars, thresholdVars>>

RegistryNotPaused == registryManagerSet => ~IsPaused

Registered(c) == company[c] # None

----------------------------------------------------------------------------
(***************************************************************************)
(* Companies and employees.                                                *)
(***************************************************************************)
RegisterCompany(admin, treasury) ==
    /\ RegistryNotPaused
    /\ companyAdmin[admin] = None
    /\ companySequence \in CompanyId
    /\ companySequence' = companySequence + 1
    /\ company' = [company EXCEPT ![companySequence] = [admin |-> admin, treasury |-> treasury]]
    /\ companyAdmin' = [companyAdmin EXCEPT ![admin] = companySequence]
    /\ UNCHANGED <<employeeVars, rotationVars, thresholdVars>>

\* add_employee and add_employee_by_wallet: an employee added again is Active
\* again, with the new commitment.
AddEmployee(c, e, value) ==
    /\ RegistryNotPaused
    /\ Registered(c)
    /\ employeeCommitment' = [employeeCommitment EXCEPT ![c][e] = value]
    /\ empStatus' = [empStatus EXCEPT ![c][e] = "Active"]
    /\ UNCHANGED <<companyVars, rotationVars, thresholdVars>>

\* The status of a removed employee stays in storage.
RemoveEmployee(c, e) ==
    /\ RegistryNotPaused
    /\ Registered(c)
    /\ employeeCommitment' = [employeeCommitment EXCEPT ![c][e] = None]
    /\ UNCHANGED <<companyVars, empStatus, rotationVars, thresholdVars>>

UpdateCommitment(c, e, value) ==
    /\ RegistryNotPaused
    /\ Registered(c)
    /\ employeeCommitment[c][e] # None
    /\ employeeCommitment' = [employeeCommitment EXCEPT ![c][e] = value]
    /\ UNCHANGED <<companyVars, empStatus, rotationVars, thresholdVars>>

SetEmployeeStatus(c, e, status) ==
    /\ RegistryNotPaused
    /\ Registered(c)
    /\ employeeCommitment[c][e] # None
    /\ empStatus' = [empStatus EXCEPT ![c][e] = status]
    /\ UNCHANGED <<companyVars, employeeCommitment, rotationVars, thresholdVars>>

----------------------------------------------------------------------------
(***************************************************************************)
(* Rotations.  Both kinds are proposed and cancelled by the admin and      *)
(* accepted by the proposed holder.                                        *)
(***************************************************************************)
Proposed(c, a) == [holder |-> a, by |-> company[c].admin]

ProposeAdminRotation(c, a) ==
    /\ RegistryNotPaused
    /\ Registered(c)
    /\ pendingAdminRotation[c] = None
    /\ pendingAdminRotation' = [pendingAdminRotation EXCEPT ![c] = Proposed(c, a)]
    /\ UNCHANGED <<companyVars, employeeVars, pendingTreasuryRotation, thresholdVars>>

\* Mutant: the entry of the old admin is kept.
Reindexed_KeepOld(c, old, new) == [companyAdmin EXCEPT ![new] = c]

\* The entry of the old admin is removed before that of the new one is set.
Reindexed(c, old, new) == [companyAdmin EXCEPT ![old] = None, ![new] = c]

\* Mutant: an accepted proposal stays pending.
Accepted_Kept(pending, c) == pending

Accepted(pending, c) == [pending EXCEPT ![c] = None]

AcceptAdminRotation(c) ==
    /\ RegistryNotPaused
    /\ pendingAdminRotation[c] # None
    /\ Registered(c)
    /\ company' = [company EXCEPT ![c].admin = pendingAdminRotation[c].holder]
    /\ companyAdmin' = Reindexed(c, company[c].admin, pendingAdminRotation[c].holder)
    /\ pendingAdminRotation' = Accepted(pendingAdminRotation, c)
    /\ UNCHANGED <<companySequence, employeeVars, pendingTreasuryRotation, thresholdVars>>

CancelAdminRotation(c) ==
    /\ RegistryNotPaused
    /\ Registered(c)
    /\ pendingAdminRotation[c] # None
    /\ pendingAdminRotation' = [pendingAdminRotation EXCEPT ![c] = None]
    /\ UNCHANGED <<companyVars, employeeVars, pendingTreasuryRotation, thresholdVars>>

ProposeTreasuryRotation(c, a) ==
    /\ RegistryNotPaused
    /\ Registered(c)
    /\ pendingTreasuryRotation[c] = None
    /\ pendingTreasuryRotation' = [pendingTreasuryRotation EXCEPT ![c] = Proposed(c, a)]
    /\ UNCHANGED <<companyVars, employeeVars, pendingAdminRotation, thresholdVars>>

AcceptTreasuryRotation(c) ==
    /\ RegistryNotPaused
    /\ pendingTreasuryRotation[c] # None
    /\ Registered(c)
    /\ company' = [company EXCEPT ![c].treasury = pendingTreasuryRotation[c].holder]
    /\ pendingTreasuryRotation' = Accepted(pendingTreasuryRotation, c)
    /\ UNCHANGED <<companySequence, companyAdmin, employeeVars, pendingAdminRotation,
                   thresholdVars>>

CancelTreasuryRotation(c) ==
    /\ RegistryNotPaused
    /\ Registered(c)
    /\ pendingTreasuryRotation[c] # None
    /\ pendingTreasuryRotation' = [pendingTreasuryRotation EXCEPT ![c] = None]
    /\ UNCHANGED <<companyVars, employeeVars, pendingAdminRotation, thresholdVars>>

----------------------------------------------------------------------------
(***************************************************************************)
(* Approval thresholds.                                                    *)
(***************************************************************************)
ValidThreshold(required) == required # 0

\* A second proposal replaces the first and starts its grace period anew.
ProposeThresholdRotation(c, required, grace) ==
    /\ RegistryNotPaused
    /\ Registered(c)
    /\ ValidThreshold(required)
    /\ pendingThreshold' = [pendingThreshold EXCEPT
                              ![c] = [required |-> required, effective |-> now + grace]]
    /\ UNCHANGED <<companyVars, employeeVars, rotationVars, approvalThreshold>>

ActivateThresholdRotation(c) ==
    /\ RegistryNotPaused
    /\ Registered(c)
    /\ pendingThreshold[c] # None
    /\ now >= pendingThreshold[c].effective
    /\ approvalThreshold' = [approvalThreshold EXCEPT ![c] = pendingThreshold[c].required]
    /\ pendingThreshold' = [pendingThreshold EXCEPT ![c] = None]
    /\ UNCHANGED <<companyVars, employeeVars, rotationVars>>

CancelThresholdRotation(c) ==
    /\ RegistryNotPaused
    /\ Registered(c)
    /\ pendingThreshold[c] # None
    /\ pendingThreshold' = [pendingThreshold EXCEPT ![c] = None]
    /\ UNCHANGED <<companyVars, employeeVars, rotationVars, approvalThreshold>>

\* Mutant: an initial threshold may be set while a rotation is pending.
Unconfigured_WhilePending(c) == approvalThreshold[c] = None \/ pendingThreshold[c] # None

Unconfigured(c) == approvalThreshold[c] = None

\* The company need not be registered.
SetInitialApprovalThreshold(c, required) ==
    /\ RegistryNotPaused
    /\ ValidThreshold(required)
    /\ Unconfigured(c)
    /\ approvalThreshold' = [approvalThreshold EXCEPT ![c] = required]
    /\ UNCHANGED <<companyVars, employeeVars, rotationVars, pendingThreshold>>

----------------------------------------------------------------------------
RegistryInit ==
    /\ PauseInit
    /\ company = [c \in CompanyId |-> None]
    /\ companySequence = 0
    /\ companyAdmin = [a \in Account |-> None]
    /\ employeeCommitment = [c \in CompanyId |-> [e \in Employee |-> None]]
    /\ empStatus = [c \in CompanyId |-> [e \in Employee |-> None]]
    /\ pendingAdminRotation = [c \in CompanyId |-> None]
    /\ pendingTreasuryRotation = [c \in CompanyId |-> None]
    /\ approvalThreshold = [c \in CompanyId |-> None]
    /\ pendingThreshold = [c \in CompanyId |-> None]
    /\ registryManagerSet = FALSE
    /\ now = 0

\* The entry points that require_not_paused guards.
CompanyNext ==
    \/ \E a \in AdminInput, t \in TreasuryInput : RegisterCompany(a, t)
    \/ \E c \in DetailInput, e \in EmployeeInput :
         \/ \E value \in CommitmentValue : AddEmployee(c, e, value)
         \/ RemoveEmployee(c, e)
         \/ \E value \in CommitmentValue : UpdateCommitment(c, e, value)
         \/ \E status \in StatusInput : SetEmployeeStatus(c, e, status)
    \/ \E c \in CompanyId :
         \/ \E a \in AdminInput : ProposeAdminRotation(c, a)
         \/ AcceptAdminRotation(c)
         \/ CancelAdminRotation(c)
    \/ \E c \in DetailInput :
         \/ \E a \in TreasurySuccessor : ProposeTreasuryRotation(c, a)
         \/ AcceptTreasuryRotation(c)
         \/ CancelTreasuryRotation(c)
         \/ \E n \in ThresholdInput, g \in GraceInput : ProposeThresholdRotation(c, n, g)
         \/ ActivateThresholdRotation(c)
         \/ CancelThresholdRotation(c)
         \/ \E n \in ThresholdInput : SetInitialApprovalThreshold(c, n)

SetPauseManager ==
    /\ registryManagerSet' = TRUE
    /\ UNCHANGED <<registryVars, now>>

\* Time passes between ledgers.
Tick ==
    /\ now < MaxTime
    /\ now' = now + 1
    /\ UNCHANGED <<registryVars, registryManagerSet>>

\* Every step of the registry, its pause manager and its clock.
RegistryNext ==
    \/ CompanyNext /\ UNCHANGED <<registryManagerSet, now, pauseVars>>
    \/ SetPauseManager /\ UNCHANGED pauseVars
    \/ Tick /\ UNCHANGED pauseVars
    \/ PauseNext /\ UNCHANGED <<registryVars, registryManagerSet, now>>

----------------------------------------------------------------------------
\* Every entry has the type its DataKey declares; a threshold, pending or in
\* force, asks for at least one approval.
RegistryTypeOK ==
    /\ company \in [CompanyId -> CompanyInfo \cup {None}]
    /\ companySequence \in 0..MaxCompanies
    /\ companyAdmin \in [Account -> CompanyId \cup {None}]
    /\ employeeCommitment \in [CompanyId -> [Employee -> CommitmentValue \cup {None}]]
    /\ empStatus \in [CompanyId -> [Employee -> EmployeeStatus \cup {None}]]
    /\ pendingAdminRotation \in [CompanyId -> PendingCompanyRotation \cup {None}]
    /\ pendingTreasuryRotation \in [CompanyId -> PendingCompanyRotation \cup {None}]
    /\ approvalThreshold \in [CompanyId -> (Nat \ {0}) \cup {None}]
    /\ pendingThreshold \in [CompanyId -> PendingThresholdRotation \cup {None}]
    /\ registryManagerSet \in BOOLEAN
    /\ now \in 0..MaxTime

RegistrySpec ==
    /\ RegistryInit
    /\ [][RegistryNext]_<<registryVars, registryManagerSet, now, pauseVars>>

\* An account the index names as admin of a company is the admin of that
\* company, however the admins of several companies are rotated into each
\* other (accept_admin_rotation).  The converse does not hold: an account that
\* administers two companies has one entry, and loses it with either.
AdminIndexSound ==
    \A a \in Account : \A c \in CompanyId :
        companyAdmin[a] = c => company[c] # None /\ company[c].admin = a

\* A pending admin rotation was proposed by the account that is admin now, so
\* whoever may cancel it is who made it: no proposal survives a change of
\* admin.
AdminProposalCurrent ==
    \A c \in CompanyId :
        pendingAdminRotation[c] # None =>
            company[c] # None /\ pendingAdminRotation[c].by = company[c].admin

\* A threshold in force is replaced only by one that was proposed and whose
\* grace period is over (activate_threshold_rotation); it is never removed,
\* and set_initial_approval_threshold is no way around the grace period.
ThresholdStep ==
    \A c \in CompanyId :
        approvalThreshold[c] # None /\ approvalThreshold'[c] # approvalThreshold[c] =>
            /\ pendingThreshold[c] # None
            /\ approvalThreshold'[c] = pendingThreshold[c].required
            /\ now >= pendingThreshold[c].effective
            /\ pendingThreshold'[c] = None

ThresholdsWait == [][ThresholdStep]_<<registryVars, registryManagerSet, now, pauseVars>>
=============================================================================
