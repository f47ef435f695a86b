---------------------------- MODULE AuditModule ----------------------------
(***************************************************************************)
(* The audit module (contracts/audit_module/src/lib.rs): view keys that    *)
(* auditors hold, delegate and lose, and the log of what they did.         *)
(*                                                                         *)
(* Every generated key names the module's own address as its granter, and  *)
(* refresh, revocation and delegation policy ask for the granter's         *)
(* authorization.  The model lets that address authorize, as the tests do; *)
(* every behaviour without it is one of the behaviours here.  Ledger       *)
(* sequence and timestamp advance together, so one clock stands for both.  *)
(* A wrong view key or commitment opening only refuses the call, so key    *)
(* bytes and openings are left out.                                        *)
(***************************************************************************)
EXTENDS PauseManager, Sequences, FiniteSets

CONSTANTS
    Auditor,         \* addresses that may hold a view key
    Module,          \* the audit module's own address
    GrantInput,      \* auditors for whom keys are generated
    AuditInput,      \* auditors that verify and report
    ExpirationInput, \* ledgers passed as expirations
    ScopeInput,      \* scopes passed by callers
    PolicyInput,     \* delegation policies: allow, maxScope and maxExpiration
    MaxDelegations,  \* bound of the checked instance on the entries of the lists
    MaxSequence,     \* bound of the checked instance on the ledger sequence
    MaxLog           \* bound of the checked instance on the audit log

AuditScope == {"FullCompany", "TimeRange", "EmployeeList", "AggregateOnly"}

ViewKeyRecord ==
    [expiration : Nat, grantedBy : Auditor \cup {Module}, scope : AuditScope,
     allowDelegation : BOOLEAN, maxScope : AuditScope, maxExpiration : Nat,
     parent : Auditor \cup {None}]

AuditLogEntry ==
    [auditor : Auditor, scope : AuditScope, timestamp : Nat, matched : BOOLEAN]

ASSUME AuditAssumption ==
    /\ GrantInput \subseteq Auditor
    /\ AuditInput \subseteq Auditor
    /\ ExpirationInput \subseteq Nat
    /\ ScopeInput \subseteq AuditScope
    /\ PolicyInput \subseteq
         [allow : BOOLEAN, maxScope : AuditScope, maxExpiration : Nat]
    /\ MaxDelegations \in Nat
    /\ MaxSequence \in Nat
    /\ MaxLog \in Nat
    /\ Module \notin Auditor
    /\ None \notin Auditor \cup ViewKeyRecord

VARIABLES
    auditorKey,        \* DataKey::AuditorKey
    delegatedAuditors, \* DataKey::DelegatedAuditors, whose order and duplicates
                       \* make no difference: the set of those ever appended
    auditLog,          \* DataKey::AuditLog and its counter, company "default"
    sequence,
    auditPauseManagerSet

keyVars == <<auditorKey, delegatedAuditors>>
auditVars == <<keyVars, auditLog, sequence, auditPauseManagerSet, pauseVars>>

Delegations == UNION {{a} \X delegatedAuditors[a] : a \in Auditor}

AuditNotPaused == auditPauseManagerSet => ~IsPaused

HasKey(a) == auditorKey[a] # None

ScopeRank ==
    [FullCompany |-> 4, TimeRange |-> 3, EmployeeList |-> 2, AggregateOnly |-> 1]

ScopeIsWithin(parentScope, childScope) == ScopeRank[childScope] <= ScopeRank[parentScope]

\* A delegated key is compared with its parent's record, and no further up.
WithinParent(r) ==
    LET p == auditorKey[r.parent] IN
    /\ p # None
    /\ sequence <= p.expiration
    /\ ScopeIsWithin(p.maxScope, r.scope)
    /\ r.expiration <= p.maxExpiration
    /\ r.expiration <= p.expiration

AuthorizeAuditor(a) ==
    LET r == auditorKey[a] IN
    /\ r # None
    /\ sequence <= r.expiration
    /\ r.parent # None => WithinParent(r)

VerifyAccess(a) == AuthorizeAuditor(a)
----------------------------------------------------------------------------
(***************************************************************************)
(* View keys.                                                              *)
(***************************************************************************)
keyFrame == <<auditLog, sequence, auditPauseManagerSet, pauseVars>>

\* A key the auditor holds is replaced, whoever granted it; the auditors it
\* delegated to stay listed.
GenerateViewKey(a, e) ==
    /\ AuditNotPaused
    /\ auditorKey' = [auditorKey EXCEPT
                        ![a] = [expiration |-> e, grantedBy |-> Module,
                                scope |-> "FullCompany", allowDelegation |-> FALSE,
                                maxScope |-> "FullCompany", maxExpiration |-> e,
                                parent |-> None]]
    /\ UNCHANGED <<delegatedAuditors, keyFrame>>

\* max_expiration_ledger stays what it was.
RefreshViewKey(a, e) ==
    /\ AuditNotPaused
    /\ HasKey(a)
    /\ e > auditorKey[a].expiration
    /\ auditorKey' = [auditorKey EXCEPT ![a].expiration = e]
    /\ UNCHANGED <<delegatedAuditors, keyFrame>>

SetDelegationPolicy(a, policy) ==
    /\ AuditNotPaused
    /\ HasKey(a)
    /\ auditorKey' = [auditorKey EXCEPT ![a].allowDelegation = policy.allow,
                                        ![a].maxScope = policy.maxScope,
                                        ![a].maxExpiration = policy.maxExpiration]
    /\ UNCHANGED <<delegatedAuditors, keyFrame>>

\* Mutant: the delegate is not appended to the delegating auditor's list.
Delegated_Unlisted(a, d) == delegatedAuditors[a]

Delegated(a, d) == delegatedAuditors[a] \cup {d}

\* The pause manager is not asked.
DelegateViewKey(a, d, scope, e) ==
    LET p == auditorKey[a] IN
    /\ AuthorizeAuditor(a)
    /\ p.allowDelegation
    /\ ScopeIsWithin(p.maxScope, scope)
    /\ e <= p.maxExpiration
    /\ e <= p.expiration
    /\ Cardinality(Delegations) < MaxDelegations
    /\ auditorKey' = [auditorKey EXCEPT
                        ![d] = [expiration |-> e, grantedBy |-> a, scope |-> scope,
                                allowDelegation |-> p.allowDelegation,
                                maxScope |-> scope, maxExpiration |-> e, parent |-> a]]
    /\ delegatedAuditors' = [delegatedAuditors EXCEPT ![a] = Delegated(a, d)]
    /\ UNCHANGED keyFrame

\* Neither the pause manager nor the parent's own validity is asked.
ExtendDelegatedAccess(d, e) ==
    LET r == auditorKey[d]
        p == auditorKey[r.parent] IN
    /\ r # None
    /\ r.parent # None
    /\ sequence <= r.expiration
    /\ p # None
    /\ p.allowDelegation
    /\ e > r.expiration
    /\ e <= p.maxExpiration
    /\ e <= p.expiration
    /\ ScopeIsWithin(p.maxScope, r.scope)
    /\ auditorKey' = [auditorKey EXCEPT ![d].expiration = e]
    /\ UNCHANGED <<delegatedAuditors, keyFrame>>

\* Everyone reached from a through the lists of delegates: the smallest set
\* that holds a's delegates and the delegates of its members.
Descendants(a) ==
    {x \in Auditor :
        \A S \in SUBSET Auditor :
            /\ delegatedAuditors[a] \subseteq S
            /\ \A y \in S : delegatedAuditors[y] \subseteq S
            => x \in S}

\* Mutant: the list is removed before its members are visited.
Terminates_ListRemovedFirst(a) == a \in Auditor

\* A list is removed only after all its members were visited, so the recursion
\* of revoke_descendants comes back to a list still being visited, and never
\* ends, exactly when it reaches a cycle.  The call then fails.
Terminates(a) == \A x \in Descendants(a) \cup {a} : x \notin Descendants(x)

Revoked(a) == Descendants(a) \cup {a}

\* Whoever is listed loses its key, even one granted anew by someone else.
RevokeViewKey(a) ==
    LET gone == Revoked(a) IN
    /\ AuditNotPaused
    /\ HasKey(a)
    /\ Terminates(a)
    /\ auditorKey' = [x \in Auditor |-> IF x \in gone THEN None ELSE auditorKey[x]]
    /\ delegatedAuditors' =
         [x \in Auditor |-> IF x \in gone THEN {} ELSE delegatedAuditors[x]]
    /\ UNCHANGED keyFrame

----------------------------------------------------------------------------
(***************************************************************************)
(* Audit operations.                                                       *)
(***************************************************************************)
RecordAuditLog(a, scope, matched) ==
    /\ Len(auditLog) < MaxLog
    /\ auditLog' = Append(auditLog, [auditor |-> a, scope |-> scope,
                                     timestamp |-> sequence, matched |-> matched])
    /\ UNCHANGED <<keyVars, sequence, auditPauseManagerSet, pauseVars>>

\* verify_scope_for_commitment: the scope the caller passes, not the key's.
VerifyScopeForCommitment(scope) == scope # "AggregateOnly"

\* Both verify_commitment entry points.  A mismatch is logged and then returned
\* as an error, which takes the log entry back.
VerifyCommitment(a, scope) ==
    /\ AuthorizeAuditor(a)
    /\ VerifyScopeForCommitment(scope)
    /\ RecordAuditLog(a, scope, TRUE)

GenerateAggregateReport(a) ==
    /\ AuthorizeAuditor(a)
    /\ RecordAuditLog(a, "AggregateOnly", TRUE)

VerifyPayrollMetadata(a, scope, matched) ==
    /\ AuthorizeAuditor(a)
    /\ VerifyScopeForCommitment(scope)
    /\ RecordAuditLog(a, scope, matched)

\* A query returns the entries at the positions given here, in the log's order.
Log(company) == IF company = "default" THEN auditLog ELSE <<>>

QueryByCompany(company) == DOMAIN Log(company)

QueryByEmployee(company, employee) ==
    {i \in QueryByCompany(company) : Log(company)[i].auditor = employee}

\* Mutant: the last instant of the period is left out.
InPeriod_EndExcluded(entry, start, end) == start <= entry.timestamp /\ entry.timestamp < end

InPeriod(entry, start, end) == start <= entry.timestamp /\ entry.timestamp <= end

QueryByPeriod(company, start, end) ==
    {i \in QueryByCompany(company) : InPeriod(Log(company)[i], start, end)}

ExportAuditSummary(company, start, end) ==
    LET entries == QueryByPeriod(company, start, end)
    IN  [total |-> Cardinality(entries),
         pass  |-> Cardinality({i \in entries : Log(company)[i].matched}),
         fail  |-> Cardinality({i \in entries : ~Log(company)[i].matched})]

SetAuditPauseManager ==
    /\ auditPauseManagerSet' = TRUE
    /\ UNCHANGED <<keyVars, auditLog, sequence, pauseVars>>

CloseLedger ==
    /\ sequence < MaxSequence
    /\ sequence' = sequence + 1
    /\ UNCHANGED <<keyVars, auditLog, auditPauseManagerSet, pauseVars>>
----------------------------------------------------------------------------
AuditInit ==
    /\ PauseInit
    /\ auditorKey = [a \in Auditor |-> None]
    /\ delegatedAuditors = [a \in Auditor |-> {}]
    /\ auditLog = <<>>
    /\ sequence = 0
    /\ auditPauseManagerSet = FALSE

KeyNext ==
    \/ \E a \in GrantInput, e \in ExpirationInput : GenerateViewKey(a, e)
    \/ \E a \in Auditor, e \in ExpirationInput : RefreshViewKey(a, e)
    \/ \E a \in Auditor, policy \in PolicyInput : SetDelegationPolicy(a, policy)
    \/ \E a, d \in Auditor, s \in ScopeInput, e \in ExpirationInput :
         DelegateViewKey(a, d, s, e)
    \/ \E d \in Auditor, e \in ExpirationInput : ExtendDelegatedAccess(d, e)
    \/ \E a \in Auditor : RevokeViewKey(a)

CheckNext ==
    \/ \E a \in AuditInput, s \in ScopeInput : VerifyCommitment(a, s)
    \/ \E a \in AuditInput : GenerateAggregateReport(a)
    \/ \E a \in AuditInput, s \in ScopeInput, matched \in BOOLEAN :
         VerifyPayrollMetadata(a, s, matched)

AuditNext ==
    \/ KeyNext
    \/ CheckNext
    \/ SetAuditPauseManager
    \/ CloseLedger
    \/ PauseNext /\ UNCHANGED <<keyVars, auditLog, sequence, auditPauseManagerSet>>

AuditSpec == AuditInit /\ [][AuditNext]_auditVars

----------------------------------------------------------------------------
AuditTypeOK ==
    /\ auditorKey \in [Auditor -> ViewKeyRecord \cup {None}]
    /\ delegatedAuditors \in [Auditor -> SUBSET Auditor]
    /\ auditLog \in Seq(AuditLogEntry)
    /\ sequence \in Nat

\* The parent of a delegated key always holds a key itself: revoke_view_key
\* takes a key and everything delegated from it, at any depth, in one call, so
\* no delegated key is left behind whose parent record is missing.
NoOrphans ==
    \A a \in Auditor :
        HasKey(a) /\ auditorKey[a].parent # None => HasKey(auditorKey[a].parent)

\* Whoever delegated a key lists its holder.  This is what lets
\* revoke_descendants find every delegated key.
ChildrenListed ==
    \A a \in Auditor :
        HasKey(a) /\ auditorKey[a].parent # None =>
            a \in delegatedAuditors[auditorKey[a].parent]

\* Two auditors that delegated to each other, or one that delegated to itself,
\* stay on that cycle for good: revoke_descendants (line 885) never returns for
\* a key from which the cycle is reached, so no revocation takes it apart.
CyclesPermanent ==
    [][\A a \in Auditor : a \in Descendants(a) => (a \in Descendants(a))']_delegatedAuditors

\* Cut time in two at any instant: every log entry is in exactly one of the two
\* periods, and the two exported summaries add up to that of the whole
\* (query_by_period and export_audit_summary include both ends).
PeriodsPartition ==
    \A t \in 0..MaxSequence :
        LET early == ExportAuditSummary("default", 0, t)
            late  == ExportAuditSummary("default", t + 1, MaxSequence)
        IN  /\ early.total + late.total = Len(auditLog)
            /\ early.pass + late.pass + early.fail + late.fail = Len(auditLog)
=============================================================================
