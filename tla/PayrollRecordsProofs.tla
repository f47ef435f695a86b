------------------------ MODULE PayrollRecordsProofs ------------------------
(***************************************************************************)
(* Theorems about the audit log and view keys, for every number of         *)
(* auditors and every sequence of grants, delegations, revocations and     *)
(* audits; and about drafts, checkpoints and the records kept beside the   *)
(* runs, for every set of periods, batches, digests and accounts, and      *)
(* every width of the checkpoint counter.  The two contracts share nothing *)
(* but the pause manager they ask.                                         *)
(***************************************************************************)
EXTENDS PayrollRecords, AuditModule, FiniteSetTheorems, TLAPS

\* Zenon proves the leaves of the proofs that name no prover; those that need
\* arithmetic, records or sequences name the SMT solver.
USE Zenon

----------------------------------------------------------------------------
(***************************************************************************)
(* The audit log.                                                          *)
(***************************************************************************)
\* Entries are stamped with the clock, which never runs backwards.
LogInv ==
    /\ auditLog \in Seq(AuditLogEntry)
    /\ sequence \in 0..MaxSequence
    /\ \A i \in DOMAIN auditLog : auditLog[i].timestamp <= sequence

\* The timestamps of the log are numbers.
LEMMA LogEntries ==
    ASSUME LogInv, NEW i \in DOMAIN auditLog
    PROVE  auditLog[i].timestamp \in Nat
<1>1. auditLog \in Seq(AuditLogEntry) /\ DOMAIN auditLog = 1..Len(auditLog)
  BY SMT DEF LogInv
<1>2. auditLog[i] \in AuditLogEntry
  BY <1>1, SMT
<1>3. QED
  BY <1>2 DEF AuditLogEntry

\* Recording an entry (record_audit_log) stamps it with the current time.
LEMMA RecordKeeps ==
    ASSUME LogInv, NEW a \in Auditor, NEW scope \in AuditScope, NEW matched \in BOOLEAN,
           RecordAuditLog(a, scope, matched)
    PROVE  LogInv'
<1> DEFINE entry == [auditor |-> a, scope |-> scope, timestamp |-> sequence, matched |-> matched]
<1>1. entry \in AuditLogEntry /\ entry.timestamp = sequence
  BY SMT DEF LogInv, AuditLogEntry
<1>2. auditLog' = Append(auditLog, entry) /\ sequence' = sequence
  BY DEF RecordAuditLog
<1> HIDE DEF entry
<1>3. /\ auditLog' \in Seq(AuditLogEntry)
      /\ DOMAIN auditLog = 1..Len(auditLog) /\ DOMAIN auditLog' = 1..Len(auditLog) + 1
      /\ \A i \in 1..Len(auditLog) : auditLog'[i] = auditLog[i]
      /\ auditLog'[Len(auditLog) + 1] = entry
      /\ Len(auditLog) \in Nat
  BY <1>1, <1>2, SMT DEF LogInv
<1>4. \A i \in DOMAIN auditLog' : i \in DOMAIN auditLog \/ i = Len(auditLog) + 1
  BY <1>3, SMT
<1>5. sequence <= sequence
  BY SMT DEF LogInv
<1>6. \A i \in DOMAIN auditLog' : auditLog'[i].timestamp <= sequence'
  BY <1>1, <1>2, <1>3, <1>4, <1>5 DEF LogInv
<1>7. QED
  BY <1>2, <1>3, <1>6 DEF LogInv

\* Every step keeps the log in that form.
LEMMA LogInvariant == AuditSpec => []LogInv
<1>1. AuditInit => LogInv
  BY AuditAssumption, SMT DEF AuditInit, LogInv
<1>2. LogInv /\ [AuditNext]_auditVars => LogInv'
  <2> SUFFICES ASSUME LogInv, [AuditNext]_auditVars PROVE LogInv'
    OBVIOUS
  <2>1. CASE UNCHANGED <<auditLog, sequence>>
    BY <2>1 DEF LogInv
  <2>2. CASE CheckNext
    <3>1. TRUE \in BOOLEAN
      OBVIOUS
    <3>2. AuditInput \subseteq Auditor /\ ScopeInput \subseteq AuditScope /\ "AggregateOnly" \in AuditScope
      BY AuditAssumption DEF AuditScope
    <3>3. ASSUME NEW a \in AuditInput, NEW s \in ScopeInput, VerifyCommitment(a, s)
          PROVE  LogInv'
      BY <3>1, <3>2, <3>3, RecordKeeps DEF VerifyCommitment
    <3>4. ASSUME NEW a \in AuditInput, GenerateAggregateReport(a)
          PROVE  LogInv'
      BY <3>1, <3>2, <3>4, RecordKeeps DEF GenerateAggregateReport
    <3>5. ASSUME NEW a \in AuditInput, NEW s \in ScopeInput, NEW matched \in BOOLEAN,
                 VerifyPayrollMetadata(a, s, matched)
          PROVE  LogInv'
      BY <3>2, <3>5, RecordKeeps DEF VerifyPayrollMetadata
    <3>6. QED
      BY <2>2, <3>3, <3>4, <3>5 DEF CheckNext
  <2>3. CASE CloseLedger
    <3>1. /\ sequence < MaxSequence /\ sequence' = sequence + 1 /\ auditLog' = auditLog
          /\ sequence \in Nat /\ MaxSequence \in Nat
      BY <2>3, AuditAssumption, SMT DEF CloseLedger, LogInv
    <3>2. \A i \in DOMAIN auditLog :
            auditLog[i].timestamp \in Nat /\ auditLog[i].timestamp <= sequence
      BY LogEntries DEF LogInv
    <3>3. \A i \in DOMAIN auditLog' : auditLog'[i].timestamp <= sequence'
      BY <3>1, <3>2, SMT
    <3>4. sequence' \in 0..MaxSequence
      BY <3>1, SMT
    <3>5. QED
      BY <3>1, <3>3, <3>4 DEF LogInv
  <2>4. CASE KeyNext
    <3>1. UNCHANGED keyFrame
      <4>1. /\ \A a, d, s, e : DelegateViewKey(a, d, s, e) => UNCHANGED keyFrame
            /\ \A d, e : ExtendDelegatedAccess(d, e) => UNCHANGED keyFrame
            /\ \A a : RevokeViewKey(a) => UNCHANGED keyFrame
        BY DEF DelegateViewKey, ExtendDelegatedAccess, RevokeViewKey
      <4>2. /\ \A a, e : GenerateViewKey(a, e) \/ RefreshViewKey(a, e) => UNCHANGED keyFrame
            /\ \A a, policy : SetDelegationPolicy(a, policy) => UNCHANGED keyFrame
        BY DEF GenerateViewKey, RefreshViewKey, SetDelegationPolicy
      <4>3. QED
        BY <2>4, <4>1, <4>2 DEF KeyNext
    <3>2. QED
      BY <2>1, <3>1 DEF keyFrame
  <2>5. QED
    BY <2>1, <2>2, <2>3, <2>4 DEF AuditNext, SetAuditPauseManager, auditVars
<1>3. QED
  BY <1>1, <1>2, PTL DEF AuditSpec

\* Two disjoint sets of positions that cover the log together count it.
LEMMA HalvesCount ==
    ASSUME NEW n \in Nat, NEW A, NEW B, A \cup B = 1..n, A \cap B = {}
    PROVE  /\ IsFiniteSet(A) /\ IsFiniteSet(B)
           /\ Cardinality(A) \in Nat /\ Cardinality(B) \in Nat
           /\ Cardinality(A) + Cardinality(B) = n
<1>1. IsFiniteSet(1..n) /\ Cardinality(1..n) = n
  BY FS_Interval, SMT
<1>2. IsFiniteSet(A) /\ IsFiniteSet(B)
  <2>1. A \in SUBSET (1..n) /\ B \in SUBSET (1..n)
    OBVIOUS
  <2>2. QED
    BY <1>1, <2>1, FS_Subset
<1>3. /\ Cardinality(A) \in Nat /\ Cardinality(B) \in Nat
      /\ Cardinality(A \cup B) = Cardinality(A) + Cardinality(B) - Cardinality(A \cap B)
  BY <1>2, FS_CardinalityType, FS_Union
<1>4. Cardinality(A \cap B) = 0
  BY FS_EmptySet
<1>5. Cardinality(A \cup B) = n
  BY <1>1
<1>6. QED
  BY <1>2, <1>3, <1>4, <1>5, SMT

\* The entries of a set that passed and those that failed count the set.
LEMMA VerdictsCount ==
    ASSUME NEW A, IsFiniteSet(A)
    PROVE  LET pass == {i \in A : auditLog[i].matched}
               fail == {i \in A : ~auditLog[i].matched}
           IN  /\ Cardinality(pass) \in Nat /\ Cardinality(fail) \in Nat
               /\ Cardinality(pass) + Cardinality(fail) = Cardinality(A)
<1> DEFINE pass == {i \in A : auditLog[i].matched}
           fail == {i \in A : ~auditLog[i].matched}
<1>1. /\ pass \in SUBSET A /\ fail \in SUBSET A
      /\ pass \cup fail = A /\ pass \cap fail = {}
  OBVIOUS
<1> HIDE DEF pass, fail
<1>2. IsFiniteSet(pass) /\ IsFiniteSet(fail)
  BY <1>1, FS_Subset
<1>3. /\ Cardinality(pass) \in Nat /\ Cardinality(fail) \in Nat
      /\ Cardinality(pass \cup fail) =
           Cardinality(pass) + Cardinality(fail) - Cardinality(pass \cap fail)
  BY <1>2, FS_CardinalityType, FS_Union
<1>4. Cardinality(pass \cap fail) = 0
  BY <1>1, FS_EmptySet
<1>5. Cardinality(pass \cup fail) = Cardinality(A)
  BY <1>1
<1>6. Cardinality(pass) + Cardinality(fail) = Cardinality(A)
  BY <1>3, <1>4, <1>5, SMT
<1>7. QED
  BY <1>3, <1>6 DEF pass, fail

\* PeriodsPartition, for a log of any length and any instant: the summaries of
\* the two periods count every entry once (query_by_period,
\* export_audit_summary).
THEOREM PeriodsPartitionHolds == AuditSpec => []PeriodsPartition
<1>1. LogInv => PeriodsPartition
  <2> SUFFICES ASSUME LogInv, NEW t \in 0..MaxSequence
               PROVE  LET early == ExportAuditSummary("default", 0, t)
                          late  == ExportAuditSummary("default", t + 1, MaxSequence)
                      IN  /\ early.total + late.total = Len(auditLog)
                          /\ early.pass + late.pass + early.fail + late.fail = Len(auditLog)
    BY DEF PeriodsPartition
  <2> DEFINE A == QueryByPeriod("default", 0, t)
             B == QueryByPeriod("default", t + 1, MaxSequence)
             Pass(S) == {i \in S : auditLog[i].matched}
             Fail(S) == {i \in S : ~auditLog[i].matched}
  <2>1. /\ DOMAIN auditLog = 1..Len(auditLog) /\ Len(auditLog) \in Nat
        /\ sequence \in Nat /\ sequence <= MaxSequence /\ t \in Nat /\ MaxSequence \in Nat
    BY AuditAssumption, SMT DEF LogInv
  <2>2. \A i \in DOMAIN auditLog :
          auditLog[i].timestamp \in Nat /\ auditLog[i].timestamp <= sequence
    BY LogEntries DEF LogInv
  <2>3. \A i \in DOMAIN auditLog :
          InPeriod(auditLog[i], 0, t) <=> ~InPeriod(auditLog[i], t + 1, MaxSequence)
    BY <2>1, <2>2, SMT DEF InPeriod
  <2>4. /\ A = {i \in DOMAIN auditLog : InPeriod(auditLog[i], 0, t)}
        /\ B = {i \in DOMAIN auditLog : InPeriod(auditLog[i], t + 1, MaxSequence)}
    BY DEF QueryByPeriod, QueryByCompany, Log
  <2>5. /\ ExportAuditSummary("default", 0, t) =
             [total |-> Cardinality(A), pass |-> Cardinality(Pass(A)), fail |-> Cardinality(Fail(A))]
        /\ ExportAuditSummary("default", t + 1, MaxSequence) =
             [total |-> Cardinality(B), pass |-> Cardinality(Pass(B)), fail |-> Cardinality(Fail(B))]
    BY DEF ExportAuditSummary, Log
  <2> HIDE DEF A, B
  <2>6. A \cup B = 1..Len(auditLog) /\ A \cap B = {}
    BY <2>1, <2>3, <2>4
  <2>7. /\ IsFiniteSet(A) /\ IsFiniteSet(B)
        /\ Cardinality(A) \in Nat /\ Cardinality(B) \in Nat
        /\ Cardinality(A) + Cardinality(B) = Len(auditLog)
    BY <2>1, <2>6, HalvesCount
  <2>8. /\ Cardinality(Pass(A)) \in Nat /\ Cardinality(Fail(A)) \in Nat
        /\ Cardinality(Pass(A)) + Cardinality(Fail(A)) = Cardinality(A)
    BY <2>7, VerdictsCount
  <2>9. /\ Cardinality(Pass(B)) \in Nat /\ Cardinality(Fail(B)) \in Nat
        /\ Cardinality(Pass(B)) + Cardinality(Fail(B)) = Cardinality(B)
    BY <2>7, VerdictsCount
  <2> HIDE DEF Pass, Fail
  <2>10. /\ Cardinality(A) + Cardinality(B) = Len(auditLog)
         /\ Cardinality(Pass(A)) + Cardinality(Pass(B))
              + Cardinality(Fail(A)) + Cardinality(Fail(B)) = Len(auditLog)
    <3>1. Cardinality(A) + Cardinality(B) = Len(auditLog)
      BY <2>7
    <3>2. Cardinality(Pass(A)) + Cardinality(Fail(A)) = Cardinality(A)
      BY <2>8
    <3>3. Cardinality(Pass(B)) + Cardinality(Fail(B)) = Cardinality(B)
      BY <2>9
    <3>4. Cardinality(Pass(A)) + Cardinality(Pass(B))
            + Cardinality(Fail(A)) + Cardinality(Fail(B))
          = Cardinality(A) + Cardinality(B)
      BY <2>7, <2>8, <2>9, <3>2, <3>3, SMT
    <3>5. QED
      BY <3>1, <3>4
  <2>11. /\ ExportAuditSummary("default", 0, t).total = Cardinality(A)
         /\ ExportAuditSummary("default", 0, t).pass = Cardinality(Pass(A))
         /\ ExportAuditSummary("default", 0, t).fail = Cardinality(Fail(A))
    BY <2>5, SMT
  <2>12. /\ ExportAuditSummary("default", t + 1, MaxSequence).total = Cardinality(B)
         /\ ExportAuditSummary("default", t + 1, MaxSequence).pass = Cardinality(Pass(B))
         /\ ExportAuditSummary("default", t + 1, MaxSequence).fail = Cardinality(Fail(B))
    BY <2>5, SMT
  <2>13. QED
    BY <2>10, <2>11, <2>12
<1>2. QED
  BY <1>1, LogInvariant, PTL

----------------------------------------------------------------------------
(***************************************************************************)
(* View keys.                                                              *)
(***************************************************************************)
KeyTypeOK ==
    /\ auditorKey \in [Auditor -> ViewKeyRecord \cup {None}]
    /\ delegatedAuditors \in [Auditor -> SUBSET Auditor]

\* NoOrphans alone is not inductive: a revocation finds a delegated key only
\* because its holder is listed.
AuditInv == KeyTypeOK /\ NoOrphans /\ ChildrenListed

\* The descendants of an auditor are auditors, contain its delegates, and
\* contain the delegates of every descendant (revoke_descendants visits them).
LEMMA DescendantsClosed ==
    ASSUME KeyTypeOK, NEW a \in Auditor
    PROVE  /\ Descendants(a) \subseteq Auditor
           /\ delegatedAuditors[a] \subseteq Descendants(a)
           /\ \A y \in Descendants(a) : delegatedAuditors[y] \subseteq Descendants(a)
<1>1. Descendants(a) \subseteq Auditor
  BY DEF Descendants
<1>2. delegatedAuditors[a] \subseteq Descendants(a)
  BY DEF Descendants, KeyTypeOK
<1>3. ASSUME NEW y \in Descendants(a), NEW z \in delegatedAuditors[y]
      PROVE  z \in Descendants(a)
  <2>1. z \in Auditor
    BY <1>1, <1>3 DEF KeyTypeOK
  <2>2. ASSUME NEW S \in SUBSET Auditor, delegatedAuditors[a] \subseteq S,
               \A u \in S : delegatedAuditors[u] \subseteq S
        PROVE  z \in S
    <3>1. y \in S
      BY <1>3, <2>2 DEF Descendants
    <3>2. QED
      BY <1>3, <2>2, <3>1
  <2>3. QED
    BY <2>1, <2>2 DEF Descendants
<1>4. QED
  BY <1>1, <1>2, <1>3

\* A step that replaces one key by another with the same parent, and leaves the
\* lists alone, keeps the invariant: refresh_view_key, set_delegation_policy
\* and extend_delegated_access are such steps.
LEMMA KeyUpdated ==
    ASSUME AuditInv, NEW a \in Auditor, NEW r \in ViewKeyRecord, HasKey(a),
           r.parent = auditorKey[a].parent,
           auditorKey' = [auditorKey EXCEPT ![a] = r],
           delegatedAuditors' = delegatedAuditors
    PROVE  AuditInv'
<1>1. KeyTypeOK'
  BY DEF AuditInv, KeyTypeOK
<1>2. /\ \A b \in Auditor : auditorKey'[b] = IF b = a THEN r ELSE auditorKey[b]
      /\ r # None
  BY AuditAssumption DEF AuditInv, KeyTypeOK
<1>3. \A b \in Auditor : HasKey(b)' <=> HasKey(b)
  BY <1>2 DEF HasKey
<1>4. \A b \in Auditor : HasKey(b) => auditorKey'[b].parent = auditorKey[b].parent
  BY <1>2
<1>5. \A b \in Auditor :
        HasKey(b) /\ auditorKey[b].parent # None => auditorKey[b].parent \in Auditor
  BY DEF AuditInv, KeyTypeOK, HasKey, ViewKeyRecord
<1>6. NoOrphans'
  BY <1>3, <1>4, <1>5 DEF AuditInv, NoOrphans
<1>7. ChildrenListed'
  BY <1>3, <1>4 DEF AuditInv, ChildrenListed
<1>8. QED
  BY <1>1, <1>6, <1>7 DEF AuditInv

\* A key that is granted or delegated, with its holder listed under the parent
\* it names, keeps the invariant (generate_view_key, delegate_view_key).
LEMMA KeyGranted ==
    ASSUME AuditInv, NEW a \in Auditor, NEW r \in ViewKeyRecord,
           auditorKey' = [auditorKey EXCEPT ![a] = r],
           delegatedAuditors' \in [Auditor -> SUBSET Auditor],
           \A b \in Auditor : delegatedAuditors[b] \subseteq delegatedAuditors'[b],
           r.parent # None => HasKey(r.parent) /\ a \in delegatedAuditors'[r.parent]
    PROVE  AuditInv'
<1>1. KeyTypeOK'
  BY DEF AuditInv, KeyTypeOK
<1>2. /\ \A b \in Auditor : auditorKey'[b] = IF b = a THEN r ELSE auditorKey[b]
      /\ r # None
  BY AuditAssumption DEF AuditInv, KeyTypeOK
<1>3. \A b \in Auditor : HasKey(b) => HasKey(b)'
  BY <1>2 DEF HasKey
<1>4. r.parent \in Auditor \cup {None}
  BY DEF ViewKeyRecord
<1>5. \A b \in Auditor :
        HasKey(b) /\ auditorKey[b].parent # None => auditorKey[b].parent \in Auditor
  BY DEF AuditInv, KeyTypeOK, HasKey, ViewKeyRecord
<1>6. ASSUME NEW b \in Auditor, HasKey(b)', auditorKey'[b].parent # None
      PROVE  /\ auditorKey'[auditorKey'[b].parent] # None
             /\ b \in delegatedAuditors'[auditorKey'[b].parent]
  <2>1. CASE b = a
    BY <1>2, <1>3, <1>4, <1>6, <2>1 DEF HasKey
  <2>2. CASE b # a
    <3>1. HasKey(b) /\ auditorKey'[b].parent = auditorKey[b].parent
      BY <1>2, <1>6, <2>2 DEF HasKey
    <3>2. auditorKey[b].parent \in Auditor
      BY <1>5, <1>6, <3>1
    <3>3. HasKey(auditorKey[b].parent)
      BY <1>6, <3>1 DEF AuditInv, NoOrphans
    <3>4. b \in delegatedAuditors[auditorKey[b].parent]
      BY <1>6, <3>1 DEF AuditInv, ChildrenListed
    <3>5. QED
      BY <1>3, <3>1, <3>2, <3>3, <3>4 DEF HasKey
  <2>3. QED
    BY <2>1, <2>2
<1>7. NoOrphans'
  BY <1>6 DEF NoOrphans, HasKey
<1>8. ChildrenListed'
  BY <1>6 DEF ChildrenListed
<1>9. QED
  BY <1>1, <1>7, <1>8 DEF AuditInv

\* What a revocation leaves: an auditor keeps its key and its list exactly when
\* it is not revoked, and nobody revoked delegated to somebody who is not.
LEMMA RevocationEffect ==
    ASSUME KeyTypeOK, NEW a \in Auditor, RevokeViewKey(a)
    PROVE  /\ Revoked(a) \subseteq Auditor
           /\ \A b \in Auditor :
                auditorKey'[b] = IF b \in Revoked(a) THEN None ELSE auditorKey[b]
           /\ \A b \in Auditor :
                delegatedAuditors'[b] =
                    IF b \in Revoked(a) THEN {} ELSE delegatedAuditors[b]
           /\ \A b \in Revoked(a) : delegatedAuditors[b] \subseteq Revoked(a)
           /\ KeyTypeOK'
<1>1. Descendants(a) \subseteq Auditor
  BY DescendantsClosed
<1>2. Revoked(a) \subseteq Auditor
  BY <1>1 DEF Revoked
<1>3. \A b \in Revoked(a) : delegatedAuditors[b] \subseteq Revoked(a)
  BY DescendantsClosed DEF Revoked
<1> DEFINE gone == Revoked(a)
<1>4. /\ auditorKey' = [x \in Auditor |-> IF x \in gone THEN None ELSE auditorKey[x]]
      /\ delegatedAuditors' =
           [x \in Auditor |-> IF x \in gone THEN {} ELSE delegatedAuditors[x]]
  BY DEF RevokeViewKey
<1>5. gone \subseteq Auditor
  BY <1>2
<1> HIDE DEF gone
<1>6. /\ \A b \in Auditor : auditorKey'[b] = IF b \in gone THEN None ELSE auditorKey[b]
      /\ \A b \in Auditor :
           delegatedAuditors'[b] = IF b \in gone THEN {} ELSE delegatedAuditors[b]
      /\ KeyTypeOK'
  BY <1>4, <1>5 DEF KeyTypeOK
<1>7. QED
  BY <1>2, <1>3, <1>6 DEF gone

\* revoke_view_key takes every key delegated, at any depth, from the one it
\* revokes, so it leaves no delegated key without its parent.
LEMMA KeyRevoked ==
    ASSUME AuditInv, NEW a \in Auditor, RevokeViewKey(a)
    PROVE  AuditInv'
<1>1. KeyTypeOK
  BY DEF AuditInv
<1>2. KeyTypeOK'
  BY <1>1, RevocationEffect
<1>3. ASSUME NEW b \in Auditor, HasKey(b)', auditorKey'[b].parent # None
      PROVE  /\ auditorKey'[auditorKey'[b].parent] # None
             /\ b \in delegatedAuditors'[auditorKey'[b].parent]
  <2>1. b \notin Revoked(a) /\ auditorKey'[b] = auditorKey[b]
    BY <1>1, <1>3, RevocationEffect DEF HasKey
  <2>2. HasKey(b) /\ auditorKey[b].parent # None
    BY <1>3, <2>1 DEF HasKey
  <2> DEFINE p == auditorKey[b].parent
  <2>3. p \in Auditor
    BY <1>1, <2>2 DEF KeyTypeOK, HasKey, ViewKeyRecord
  <2>4. HasKey(p) /\ b \in delegatedAuditors[p]
    BY <2>2 DEF AuditInv, NoOrphans, ChildrenListed
  <2>5. p \notin Revoked(a)
    BY <1>1, <2>1, <2>4, RevocationEffect, SMT
  <2>6. auditorKey'[p] = auditorKey[p] /\ delegatedAuditors'[p] = delegatedAuditors[p]
    BY <1>1, <2>3, <2>5, RevocationEffect
  <2>7. QED
    BY <2>1, <2>4, <2>6 DEF HasKey
<1>4. NoOrphans'
  BY <1>3 DEF NoOrphans, HasKey
<1>5. ChildrenListed'
  BY <1>3 DEF ChildrenListed
<1>6. QED
  BY <1>2, <1>4, <1>5 DEF AuditInv

\* A generated key has no parent (generate_view_key).
LEMMA GenerateKeeps ==
    ASSUME AuditInv, NEW a \in GrantInput, NEW e \in ExpirationInput, GenerateViewKey(a, e)
    PROVE  AuditInv'
<1> DEFINE r == [expiration |-> e, grantedBy |-> Module, scope |-> "FullCompany",
                 allowDelegation |-> FALSE, maxScope |-> "FullCompany",
                 maxExpiration |-> e, parent |-> None]
<1>1. a \in Auditor /\ r \in ViewKeyRecord /\ r.parent = None
  BY AuditAssumption DEF ViewKeyRecord, AuditScope
<1>2. auditorKey' = [auditorKey EXCEPT ![a] = r] /\ delegatedAuditors' = delegatedAuditors
  BY DEF GenerateViewKey
<1> HIDE DEF r
<1>3. /\ delegatedAuditors' \in [Auditor -> SUBSET Auditor]
      /\ \A b \in Auditor : delegatedAuditors[b] \subseteq delegatedAuditors'[b]
  BY <1>2 DEF AuditInv, KeyTypeOK
<1>4. QED
  BY <1>1, <1>2, <1>3, KeyGranted

\* A delegated key names a parent that holds a key and lists the delegate.
LEMMA DelegateKeeps ==
    ASSUME AuditInv, NEW a \in Auditor, NEW d \in Auditor, NEW s \in ScopeInput,
           NEW e \in ExpirationInput, DelegateViewKey(a, d, s, e)
    PROVE  AuditInv'
<1> DEFINE r == [expiration |-> e, grantedBy |-> a, scope |-> s,
                 allowDelegation |-> auditorKey[a].allowDelegation,
                 maxScope |-> s, maxExpiration |-> e, parent |-> a]
<1>1. HasKey(a)
  BY DEF DelegateViewKey, AuthorizeAuditor, HasKey
<1>2. auditorKey[a].allowDelegation \in BOOLEAN
  BY <1>1 DEF AuditInv, KeyTypeOK, HasKey, ViewKeyRecord
<1>3. r \in ViewKeyRecord /\ r.parent = a
  BY <1>2, AuditAssumption DEF ViewKeyRecord
<1>4. auditorKey' = [auditorKey EXCEPT ![d] = r]
  BY DEF DelegateViewKey
<1>5. delegatedAuditors' =
        [delegatedAuditors EXCEPT ![a] = delegatedAuditors[a] \cup {d}]
  BY DEF DelegateViewKey, Delegated
<1> HIDE DEF r
<1>6. /\ delegatedAuditors' \in [Auditor -> SUBSET Auditor]
      /\ \A b \in Auditor : delegatedAuditors[b] \subseteq delegatedAuditors'[b]
      /\ d \in delegatedAuditors'[a]
  BY <1>5 DEF AuditInv, KeyTypeOK
<1>7. QED
  BY <1>1, <1>3, <1>4, <1>6, KeyGranted

\* A new expiration for a key that is held changes nothing else of it
\* (refresh_view_key, extend_delegated_access).
LEMMA ExpirationKeeps ==
    ASSUME AuditInv, NEW a \in Auditor, NEW e \in ExpirationInput, HasKey(a),
           auditorKey' = [auditorKey EXCEPT ![a].expiration = e],
           delegatedAuditors' = delegatedAuditors
    PROVE  AuditInv'
<1> DEFINE old == auditorKey[a]
           r == [old EXCEPT !.expiration = e]
<1>1. old \in ViewKeyRecord
  BY DEF AuditInv, KeyTypeOK, HasKey
<1>2. auditorKey' = [auditorKey EXCEPT ![a] = r]
  OBVIOUS
<1>3. e \in Nat
  BY AuditAssumption
<1> HIDE DEF old
<1>4. r \in ViewKeyRecord /\ r.parent = old.parent
  BY <1>1, <1>3 DEF ViewKeyRecord
<1>5. r.parent = auditorKey[a].parent
  BY <1>4 DEF old
<1> HIDE DEF r
<1>6. QED
  BY <1>2, <1>4, <1>5, KeyUpdated

\* A delegation policy (set_delegation_policy) leaves the parent of a key alone.
LEMMA PolicyKeeps ==
    ASSUME AuditInv, NEW a \in Auditor, NEW policy \in PolicyInput,
           SetDelegationPolicy(a, policy)
    PROVE  AuditInv'
<1> DEFINE old == auditorKey[a]
           r == [old EXCEPT !.allowDelegation = policy.allow,
                            !.maxScope = policy.maxScope,
                            !.maxExpiration = policy.maxExpiration]
<1>1. old \in ViewKeyRecord /\ HasKey(a)
  BY DEF AuditInv, KeyTypeOK, HasKey, SetDelegationPolicy
<1>2. /\ auditorKey' = [auditorKey EXCEPT ![a].allowDelegation = policy.allow,
                                          ![a].maxScope = policy.maxScope,
                                          ![a].maxExpiration = policy.maxExpiration]
      /\ delegatedAuditors' = delegatedAuditors
  BY DEF SetDelegationPolicy
<1>3. auditorKey' = [auditorKey EXCEPT ![a] = r]
  BY <1>2 DEF AuditInv, KeyTypeOK
<1>4. policy.allow \in BOOLEAN /\ policy.maxScope \in AuditScope /\ policy.maxExpiration \in Nat
  BY AuditAssumption
<1> HIDE DEF old
<1>5. r \in ViewKeyRecord /\ r.parent = old.parent
  BY <1>1, <1>4 DEF ViewKeyRecord
<1>6. r.parent = auditorKey[a].parent
  BY <1>5 DEF old
<1> HIDE DEF r
<1>7. QED
  BY <1>1, <1>2, <1>3, <1>5, <1>6, KeyUpdated

\* Steps that touch neither keys nor lists: audits, the pause manager, the clock.
LEMMA OtherStepsFrame ==
    ASSUME AuditNext, ~KeyNext
    PROVE  UNCHANGED keyVars
  BY DEF AuditNext, CheckNext, VerifyCommitment, GenerateAggregateReport,
         VerifyPayrollMetadata, RecordAuditLog, SetAuditPauseManager, CloseLedger

\* The invariant holds in every reachable state.
LEMMA AuditInvariant == AuditSpec => []AuditInv
<1>1. AuditInit => AuditInv
  BY DEF AuditInit, AuditInv, KeyTypeOK, NoOrphans, ChildrenListed, HasKey
<1>2. AuditInv /\ [AuditNext]_auditVars => AuditInv'
  <2> SUFFICES ASSUME AuditInv, [AuditNext]_auditVars PROVE AuditInv'
    OBVIOUS
  <2>1. ASSUME NEW a \in GrantInput, NEW e \in ExpirationInput, GenerateViewKey(a, e)
        PROVE  AuditInv'
    BY <2>1, GenerateKeeps
  <2>2. ASSUME NEW a \in Auditor, NEW e \in ExpirationInput, RefreshViewKey(a, e)
        PROVE  AuditInv'
    BY <2>2, ExpirationKeeps DEF RefreshViewKey
  <2>3. ASSUME NEW a \in Auditor, NEW policy \in PolicyInput, SetDelegationPolicy(a, policy)
        PROVE  AuditInv'
    BY <2>3, PolicyKeeps
  <2>4. ASSUME NEW a \in Auditor, NEW d \in Auditor, NEW s \in ScopeInput,
               NEW e \in ExpirationInput, DelegateViewKey(a, d, s, e)
        PROVE  AuditInv'
    BY <2>4, DelegateKeeps
  <2>5. ASSUME NEW d \in Auditor, NEW e \in ExpirationInput, ExtendDelegatedAccess(d, e)
        PROVE  AuditInv'
    BY <2>5, ExpirationKeeps DEF ExtendDelegatedAccess, HasKey
  <2>6. ASSUME NEW a \in Auditor, RevokeViewKey(a)
        PROVE  AuditInv'
    BY <2>6, KeyRevoked
  <2>7. CASE UNCHANGED keyVars
    BY <2>7 DEF keyVars, AuditInv, KeyTypeOK, NoOrphans, ChildrenListed, HasKey
  <2>8. CASE KeyNext
    BY <2>8, <2>1, <2>2, <2>3, <2>4, <2>5, <2>6 DEF KeyNext
  <2>9. QED
    BY <2>7, <2>8, OtherStepsFrame DEF auditVars
<1>3. QED
  BY <1>1, <1>2, PTL DEF AuditSpec

\* NoOrphans, for every number of auditors and delegations: revocation never
\* leaves a delegated key whose parent record is missing, so the lookup that
\* answers DelegationRevoked for a missing parent (lines 496 and 623) always
\* finds it.
THEOREM NoOrphansHolds == AuditSpec => []NoOrphans
<1>1. AuditInv => NoOrphans
  BY DEF AuditInv
<1>2. QED
  BY <1>1, AuditInvariant, PTL

\* Delegating adds to one list and takes nothing away, so who was reached from
\* an auditor still is.
LEMMA DelegationKeepsCycles ==
    ASSUME KeyTypeOK, NEW x \in Auditor, x \in Descendants(x),
           delegatedAuditors' \in [Auditor -> SUBSET Auditor],
           \A b \in Auditor : delegatedAuditors[b] \subseteq delegatedAuditors'[b]
    PROVE  (x \in Descendants(x))'
<1>1. ASSUME NEW S \in SUBSET Auditor, delegatedAuditors'[x] \subseteq S,
             \A y \in S : delegatedAuditors'[y] \subseteq S
      PROVE  x \in S
  <2>1. delegatedAuditors[x] \subseteq S /\ \A y \in S : delegatedAuditors[y] \subseteq S
    BY <1>1
  <2>2. QED
    BY <2>1 DEF Descendants
<1>2. QED
  BY <1>1 DEF Descendants

\* A revocation that ends reached no cycle, so it removed no list on one.
LEMMA RevocationKeepsCycles ==
    ASSUME KeyTypeOK, NEW x \in Auditor, x \in Descendants(x),
           NEW a \in Auditor, RevokeViewKey(a)
    PROVE  (x \in Descendants(x))'
<1>1. x \notin Revoked(a)
  BY DEF RevokeViewKey, Terminates, Revoked
<1>2. ASSUME NEW S \in SUBSET Auditor, delegatedAuditors'[x] \subseteq S,
             \A y \in S : delegatedAuditors'[y] \subseteq S
      PROVE  x \in S
  <2> DEFINE T == S \cup Revoked(a)
  <2>1. T \in SUBSET Auditor
    BY RevocationEffect
  <2>2. delegatedAuditors[x] \subseteq T
    BY <1>1, <1>2, RevocationEffect
  <2>3. \A y \in T : delegatedAuditors[y] \subseteq T
    BY <1>2, <2>1, RevocationEffect
  <2>4. x \in T
    <3> HIDE DEF T
    <3> QED
      BY <2>1, <2>2, <2>3 DEF Descendants
  <2>5. QED
    BY <1>1, <2>4
<1>3. QED
  BY <1>2 DEF Descendants

\* CyclesPermanent, for every number of auditors: once auditors delegated to
\* each other in a cycle, no later call takes the cycle apart, because
\* revoke_descendants never returns on it.
THEOREM CyclesPermanentHolds == AuditSpec => CyclesPermanent
<1> DEFINE Kept == \A a \in Auditor : a \in Descendants(a) => (a \in Descendants(a))'
<1>1. AuditInv /\ [AuditNext]_auditVars => [Kept]_delegatedAuditors
  <2> SUFFICES ASSUME AuditInv, [AuditNext]_auditVars, delegatedAuditors' # delegatedAuditors,
                      NEW x \in Auditor, x \in Descendants(x)
               PROVE  (x \in Descendants(x))'
    OBVIOUS
  <2>1. KeyNext
    BY OtherStepsFrame DEF auditVars, keyVars
  <2>2. KeyTypeOK
    BY DEF AuditInv
  <2>3. ASSUME NEW a \in Auditor, NEW d \in Auditor, NEW s \in ScopeInput,
               NEW e \in ExpirationInput, DelegateViewKey(a, d, s, e)
        PROVE  (x \in Descendants(x))'
    <3>1. delegatedAuditors' =
            [delegatedAuditors EXCEPT ![a] = delegatedAuditors[a] \cup {d}]
      BY <2>3 DEF DelegateViewKey, Delegated
    <3>2. /\ delegatedAuditors' \in [Auditor -> SUBSET Auditor]
          /\ \A b \in Auditor : delegatedAuditors[b] \subseteq delegatedAuditors'[b]
      BY <2>2, <3>1 DEF KeyTypeOK
    <3>3. QED
      BY <2>2, <3>2, DelegationKeepsCycles
  <2>4. ASSUME NEW a \in Auditor, RevokeViewKey(a)
        PROVE  (x \in Descendants(x))'
    BY <2>2, <2>4, RevocationKeepsCycles
  <2>5. QED
    BY <2>1, <2>3, <2>4 DEF KeyNext, GenerateViewKey, RefreshViewKey,
       SetDelegationPolicy, ExtendDelegatedAccess
<1>2. QED
  BY <1>1, AuditInvariant, PTL DEF AuditSpec, CyclesPermanent

----------------------------------------------------------------------------
(***************************************************************************)
(* Drafts.                                                                 *)
(***************************************************************************)
DraftInv ==
    /\ runDraftCounter \in Nat
    /\ runDraft \in [DraftId -> PayrollRunDraft]
    /\ activeDraftForPeriod \in [Period -> DraftId \cup {None}]
    /\ OneDraftPerPeriod

LEMMA CreateKeeps ==
    ASSUME DraftInv, NEW amount \in Amount, NEW p \in Period, CreateRunDraft(amount, p)
    PROVE  DraftInv' /\ DraftStep
<1> USE DraftAssumption
<1> DEFINE id == runDraftCounter + 1
           draft == [total |-> amount, period |-> p, state |-> "Pending", amendments |-> 0]
<1>1. draft \in PayrollRunDraft /\ draft.period = p
  BY SMT DEF PayrollRunDraft, RunDraftState
<1>2. /\ activeDraftForPeriod[p] = None
      /\ runDraftCounter' = id
      /\ runDraft' = [i \in DraftId \cup {id} |-> IF i = id THEN draft ELSE runDraft[i]]
      /\ activeDraftForPeriod' = [activeDraftForPeriod EXCEPT ![p] = id]
  BY DEF CreateRunDraft, PeriodFree
<1> HIDE DEF draft
<1>3. /\ runDraftCounter' \in Nat
      /\ DraftId' = DraftId \cup {id}
      /\ id \notin DraftId
  BY <1>2, SMT DEF DraftInv, DraftId
<1>4. \A d \in DraftId : runDraft'[d] = runDraft[d]
  BY <1>2, <1>3
<1>5. runDraft'[id] = draft
  BY <1>2
<1>6. runDraft' \in [DraftId' -> PayrollRunDraft]
  BY <1>1, <1>2, <1>3 DEF DraftInv
<1>7. activeDraftForPeriod' \in [Period -> DraftId' \cup {None}]
  BY <1>2, <1>3 DEF DraftInv
<1>8. OneDraftPerPeriod'
  <2> SUFFICES ASSUME NEW d \in DraftId', NEW q \in Period
               PROVE  runDraft'[d].period = q <=> activeDraftForPeriod'[q] = d
    BY DEF OneDraftPerPeriod
  <2>1. CASE d = id
    <3>1. activeDraftForPeriod[q] # id
      BY <1>3, SMT DEF DraftInv
    <3>2. QED
      BY <2>1, <3>1, <1>1, <1>2, <1>5 DEF DraftInv
  <2>2. CASE d # id
    <3>1. d \in DraftId
      BY <2>2, <1>3
    <3>2. runDraft[d].period = q <=> activeDraftForPeriod[q] = d
      BY <3>1 DEF DraftInv, OneDraftPerPeriod
    <3>3. d # None
      BY <3>1, SMT DEF DraftId, DraftInv
    <3>4. QED
      BY <2>2, <3>1, <3>2, <3>3, <1>2, <1>4 DEF DraftInv
  <2>3. QED
    BY <2>1, <2>2
<1>9. DraftStep
  BY <1>4 DEF DraftStep
<1>10. QED
  BY <1>3, <1>6, <1>7, <1>8, <1>9 DEF DraftInv

\* Every other draft entry point replaces one draft by one of the same period,
\* from a state in which that is allowed.
LEMMA ReplaceKeeps ==
    ASSUME DraftInv, NEW d \in DraftId, NEW new \in PayrollRunDraft,
           new.period = runDraft[d].period,
           runDraft[d].state \in {"Pending", "Finalized"},
           runDraft[d].state = "Finalized" =>
             /\ new.total = runDraft[d].total
             /\ new.amendments = runDraft[d].amendments
             /\ new.state # "Pending",
           runDraft' = [runDraft EXCEPT ![d] = new],
           UNCHANGED <<runDraftCounter, activeDraftForPeriod>>
    PROVE  DraftInv' /\ DraftStep
<1>1. DraftId' = DraftId
  BY DEF DraftId
<1>2. \A i \in DraftId : runDraft'[i] = IF i = d THEN new ELSE runDraft[i]
  BY DEF DraftInv
<1>3. DraftStep
  BY <1>2 DEF DraftStep
<1>4. OneDraftPerPeriod'
  BY <1>1, <1>2, SMT DEF DraftInv, OneDraftPerPeriod
<1>5. QED
  BY <1>1, <1>3, <1>4 DEF DraftInv

LEMMA DraftNextKeeps ==
    ASSUME DraftInv, DraftNext
    PROVE  DraftInv' /\ DraftStep
<1> USE DraftAssumption
<1>1. ASSUME NEW d \in DraftId
      PROVE  runDraft[d] \in PayrollRunDraft
  BY DEF DraftInv
<1>2. ASSUME NEW d \in DraftId, NEW amount \in Amount, AmendRunDraft(d, amount)
      PROVE  DraftInv' /\ DraftStep
  <2> DEFINE n == runDraft[d].amendments + 1
             new == [runDraft[d] EXCEPT !.total = amount, !.amendments = n]
  <2>1. runDraft[d].state = "Pending" /\ n \in 0..MaxAmendments
    BY <1>1, <1>2, SMT DEF AmendRunDraft, Amendable, PayrollRunDraft
  <2>2. /\ runDraft' = [runDraft EXCEPT ![d] = new]
        /\ UNCHANGED <<runDraftCounter, activeDraftForPeriod>>
    BY <1>1, <1>2 DEF AmendRunDraft, DraftInv, PayrollRunDraft
  <2> HIDE DEF n
  <2>3. new \in PayrollRunDraft /\ new.period = runDraft[d].period
    BY <1>1, <2>1 DEF PayrollRunDraft
  <2> HIDE DEF new
  <2>4. QED
    BY <2>1, <2>2, <2>3, ReplaceKeeps
<1>3. ASSUME NEW d \in DraftId, NEW next \in RunDraftState, next # "Pending",
             runDraft[d].state \in {"Pending", "Finalized"},
             runDraft' = [runDraft EXCEPT ![d].state = next],
             UNCHANGED <<runDraftCounter, activeDraftForPeriod>>
      PROVE  DraftInv' /\ DraftStep
  <2> DEFINE new == [runDraft[d] EXCEPT !.state = next]
  <2>1. /\ new \in PayrollRunDraft
        /\ new.period = runDraft[d].period
        /\ new.total = runDraft[d].total
        /\ new.amendments = runDraft[d].amendments
        /\ new.state = next
    BY <1>1, <1>3 DEF PayrollRunDraft
  <2>2. runDraft' = [runDraft EXCEPT ![d] = new]
    BY <1>1, <1>3 DEF DraftInv
  <2> HIDE DEF new
  <2>3. QED
    BY <1>3, <2>1, <2>2, ReplaceKeeps
<1>4. ASSUME NEW d \in DraftId, FinalizeRunDraft(d)
      PROVE  DraftInv' /\ DraftStep
  BY <1>3, <1>4 DEF FinalizeRunDraft, RunDraftState
<1>5. ASSUME NEW d \in DraftId, NEW next \in {"Submitted", "Cancelled", "Expired"},
             MoveRunDraft(d, next)
      PROVE  DraftInv' /\ DraftStep
  <2>1. runDraft[d].state \in {"Pending", "Finalized"}
    BY <1>5 DEF MoveRunDraft, AllowedDraftTransitions
  <2>2. QED
    BY <1>3, <1>5, <2>1 DEF MoveRunDraft, RunDraftState
<1>6. QED
  BY <1>2, <1>4, <1>5, CreateKeeps
     DEF DraftNext, SubmitRunDraft, CancelRunDraft, ExpireRunDraft

LEMMA DraftsKept ==
    ASSUME DraftInv, UNCHANGED draftVars
    PROVE  DraftInv' /\ DraftStep
<1>1. DraftId' = DraftId
  BY DEF DraftId, draftVars
<1>2. QED
  BY <1>1, SMT DEF DraftInv, DraftStep, OneDraftPerPeriod, draftVars

----------------------------------------------------------------------------
(***************************************************************************)
(* Checkpoints.                                                            *)
(***************************************************************************)
\* A batch that was resumed is in state Resumed until progress is recorded,
\* and the flags say what the state says.
CheckpointOK(c, n) ==
    /\ n <= c.total
    /\ n = c.total => c.state = "Resumed"
    /\ c.completed <=> c.state = "Completed"
    /\ c.failed <=> c.state = "Failed"

CheckpointInv ==
    /\ batchCheckpoint \in [BatchKey -> BatchCheckpoint \cup {None}]
    /\ resumes \in [BatchKey -> Nat]
    /\ \A k \in BatchKey : IF batchCheckpoint[k] = None
                             THEN resumes[k] = 0
                             ELSE CheckpointOK(batchCheckpoint[k], resumes[k])

LEMMA CheckpointFields ==
    ASSUME NEW c \in BatchCheckpoint
    PROVE  c.last \in Nat /\ c.total \in Nat /\ c.total <= MaxCheckpoints
<1>1. c.last \in Index /\ c.total \in 1..MaxCheckpoints
  BY DEF BatchCheckpoint
<1>2. MaxCheckpoints \in Nat /\ Index \subseteq Nat
  BY DraftAssumption
<1>3. c.last \in Nat
  BY <1>1, <1>2
<1>4. \A n \in 1..MaxCheckpoints : n \in Nat /\ n <= MaxCheckpoints
  BY <1>2, SMT
<1>5. QED
  BY <1>1, <1>3, <1>4

\* A step that writes one checkpoint, and the resumes of its batch.
LEMMA WriteKeeps ==
    ASSUME CheckpointInv, NEW k \in BatchKey, NEW new \in BatchCheckpoint, NEW n \in Nat,
           CheckpointOK(new, n),
           batchCheckpoint[k] # None =>
             /\ new.last >= batchCheckpoint[k].last
             /\ new.total \in batchCheckpoint[k].total..MaxCheckpoints
             /\ batchCheckpoint[k].state \notin {"Completed", "Failed"},
           batchCheckpoint' = [batchCheckpoint EXCEPT ![k] = new],
           resumes' = [resumes EXCEPT ![k] = n]
    PROVE  CheckpointInv' /\ CheckpointStep
<1> USE DraftAssumption
<1>1. \A j \in BatchKey :
        /\ batchCheckpoint'[j] = IF j = k THEN new ELSE batchCheckpoint[j]
        /\ resumes'[j] = IF j = k THEN n ELSE resumes[j]
  BY DEF CheckpointInv
<1>2. /\ batchCheckpoint' \in [BatchKey -> BatchCheckpoint \cup {None}]
      /\ resumes' \in [BatchKey -> Nat]
  BY DEF CheckpointInv
<1>3. new # None
  OBVIOUS
<1>4. CheckpointInv'
  BY <1>1, <1>2, <1>3 DEF CheckpointInv
<1>5. \A j \in BatchKey : batchCheckpoint[j] # None =>
        /\ batchCheckpoint[j].last \in Nat
        /\ batchCheckpoint[j].total \in Nat
        /\ batchCheckpoint[j].total <= MaxCheckpoints
  BY CheckpointFields DEF CheckpointInv
<1>6. CheckpointStep
  BY <1>1, <1>3, <1>5, SMT DEF CheckpointStep
<1>7. QED
  BY <1>4, <1>6

LEMMA CheckpointNextKeeps ==
    ASSUME CheckpointInv, CheckpointNext
    PROVE  CheckpointInv' /\ CheckpointStep
<1> USE DraftAssumption
<1>1. ASSUME NEW k \in BatchKey, NEW i \in Index, BeginBatchExecutionCheckpoint(k, i)
      PROVE  CheckpointInv' /\ CheckpointStep
  <2> DEFINE new == [state |-> "Started", last |-> i, total |-> 1,
                     completed |-> FALSE, failed |-> FALSE]
  <2>1. /\ batchCheckpoint[k] = None
        /\ batchCheckpoint' = [batchCheckpoint EXCEPT ![k] = new]
        /\ UNCHANGED resumes
    BY <1>1 DEF BeginBatchExecutionCheckpoint
  <2>2. new \in BatchCheckpoint
    <3>1. "Started" \in BatchCheckpointState /\ 1 \in 1..MaxCheckpoints
      BY SMT DEF BatchCheckpointState
    <3>2. FALSE \in BOOLEAN
      OBVIOUS
    <3>3. QED
      BY <3>1, <3>2 DEF BatchCheckpoint
  <2>3. CheckpointOK(new, 0)
    BY SMT DEF CheckpointOK
  <2>4. resumes' = [resumes EXCEPT ![k] = 0]
    BY <2>1 DEF CheckpointInv
  <2> HIDE DEF new
  <2>5. QED
    BY <2>1, <2>2, <2>3, <2>4, WriteKeeps
<1>2. ASSUME NEW k \in BatchKey, NEW i \in Index, NEW s \in BatchCheckpointState,
             RecordBatchCheckpointProgress(k, i, s)
      PROVE  CheckpointInv' /\ CheckpointStep
  <2> DEFINE c == batchCheckpoint[k]
             new == Progressed(c, i, s)
  <2>1. /\ c # None /\ ~c.completed /\ ~c.failed
        /\ i >= c.last
        /\ s # "Resumed"
        /\ c.total < MaxCheckpoints
        /\ batchCheckpoint' = [batchCheckpoint EXCEPT ![k] = new]
        /\ UNCHANGED resumes
    BY <1>2 DEF RecordBatchCheckpointProgress, CanCount
  <2>2. c \in BatchCheckpoint /\ CheckpointOK(c, resumes[k]) /\ resumes[k] \in Nat
    BY <2>1 DEF CheckpointInv
  <2>3. c.total \in 1..MaxCheckpoints /\ c.last \in Index
    BY <2>2 DEF BatchCheckpoint
  <2>4. /\ new \in BatchCheckpoint
        /\ new.total = c.total + 1 /\ new.last = i /\ new.state = s
        /\ new.completed <=> s = "Completed"
        /\ new.failed <=> s = "Failed"
    <3>1. c.total + 1 \in 1..MaxCheckpoints
      BY <2>1, <2>3, SMT
    <3>2. (s = "Completed") \in BOOLEAN /\ (s = "Failed") \in BOOLEAN
      OBVIOUS
    <3>3. QED
      BY <2>2, <3>1, <3>2 DEF BatchCheckpoint, Progressed
  <2>5. c.state \notin {"Completed", "Failed"}
    BY <2>1, <2>2 DEF CheckpointOK
  <2> HIDE DEF c, new
  <2>6. CheckpointOK(new, resumes[k])
    BY <2>1, <2>2, <2>3, <2>4, SMT DEF CheckpointOK
  <2>7. new.total \in c.total..MaxCheckpoints
    BY <2>1, <2>3, <2>4, SMT
  <2>8. resumes' = [resumes EXCEPT ![k] = resumes[k]]
    BY <2>1 DEF CheckpointInv
  <2>9. QED
    BY <2>1, <2>2, <2>4, <2>5, <2>6, <2>7, <2>8, WriteKeeps DEF c
<1>3. ASSUME NEW k \in BatchKey, NEW i \in Index, ResumeBatchExecution(k, i)
      PROVE  CheckpointInv' /\ CheckpointStep
  <2> DEFINE c == batchCheckpoint[k]
             new == [c EXCEPT !.state = "Resumed"]
             n == resumes[k] + 1
  <2>1. /\ c # None /\ ~c.completed /\ ~c.failed
        /\ c.state \notin {"Resumed", "Completed", "Failed"}
    BY <1>3 DEF ResumeBatchExecution, Resumable
  <2>2. c \in BatchCheckpoint /\ CheckpointOK(c, resumes[k]) /\ resumes[k] \in Nat
    BY <2>1 DEF CheckpointInv
  <2>3. c.last \in Nat /\ c.total \in Nat /\ c.total <= MaxCheckpoints
    BY <2>2, CheckpointFields
  <2>4. /\ batchCheckpoint' = [batchCheckpoint EXCEPT ![k] = new]
        /\ resumes' = [resumes EXCEPT ![k] = n]
    BY <1>3, <2>2 DEF ResumeBatchExecution, CheckpointInv
  <2>5. /\ new \in BatchCheckpoint
        /\ new.total = c.total /\ new.last = c.last /\ new.state = "Resumed"
        /\ new.completed = c.completed /\ new.failed = c.failed
    BY <2>2 DEF BatchCheckpoint, BatchCheckpointState
  <2>6. n \in Nat /\ n <= c.total
    BY <2>1, <2>2, <2>3, SMT DEF CheckpointOK
  <2> HIDE DEF c, new, n
  <2>7. CheckpointOK(new, n)
    BY <2>1, <2>5, <2>6 DEF CheckpointOK
  <2>8. new.last >= c.last /\ new.total \in c.total..MaxCheckpoints
    BY <2>3, <2>5, SMT
  <2>9. QED
    BY <2>1, <2>4, <2>5, <2>6, <2>7, <2>8, WriteKeeps DEF c
<1>4. QED
  BY <1>1, <1>2, <1>3 DEF CheckpointNext

LEMMA CheckpointsKept ==
    ASSUME CheckpointInv, UNCHANGED checkpointVars
    PROVE  CheckpointInv' /\ CheckpointStep
<1>1. CheckpointInv'
  BY DEF CheckpointInv, checkpointVars
<1>2. \A j \in BatchKey : batchCheckpoint[j] # None =>
        /\ batchCheckpoint[j].last \in Nat
        /\ batchCheckpoint[j].total \in Nat
        /\ batchCheckpoint[j].total <= MaxCheckpoints
  BY CheckpointFields DEF CheckpointInv
<1>3. CheckpointStep
  BY <1>2, DraftAssumption, SMT DEF CheckpointStep, checkpointVars
<1>4. QED
  BY <1>1, <1>3

----------------------------------------------------------------------------
(***************************************************************************)
(* Drafts and checkpoints under every step of the contract.                *)
(***************************************************************************)
LEMMA WorkingRecordsKeep ==
    ASSUME DraftInv, CheckpointInv, [RecordsNext]_allVars
    PROVE  DraftInv' /\ CheckpointInv' /\ DraftStep /\ CheckpointStep
<1>1. CASE DraftNext
  <2>1. UNCHANGED checkpointVars
    BY <1>1 DEF DraftNext, CreateRunDraft, AmendRunDraft, FinalizeRunDraft, SubmitRunDraft,
                CancelRunDraft, ExpireRunDraft, MoveRunDraft, draftFrame
  <2>2. QED
    BY <1>1, <2>1, DraftNextKeeps, CheckpointsKept
<1>2. CASE CheckpointNext
  <2>1. UNCHANGED draftVars
    BY <1>2 DEF CheckpointNext, BeginBatchExecutionCheckpoint, RecordBatchCheckpointProgress,
                ResumeBatchExecution, checkpointFrame
  <2>2. QED
    BY <1>2, <2>1, CheckpointNextKeeps, DraftsKept
<1>3. CASE UNCHANGED <<draftVars, checkpointVars>>
  BY <1>3, DraftsKept, CheckpointsKept
<1>4. DraftNext \/ CheckpointNext \/ UNCHANGED <<draftVars, checkpointVars>>
  BY DEF RecordsNext, allVars, vars, Next, SetPauseManager, PlaceComplianceHold,
         ReleaseComplianceHold, SetReservationExpiryPolicy, ReleaseExpiredReservation,
         VerifyAndConsumeQuorum, CreateEvidencePointer, RecordBatchSplit, SetStorageVersion,
         ChangeAdmin, Tick
<1>5. QED
  BY <1>1, <1>2, <1>3, <1>4

LEMMA WorkingRecordsInit == RecordsInit => DraftInv /\ CheckpointInv
<1> SUFFICES ASSUME RecordsInit
             PROVE  DraftInv /\ CheckpointInv
  OBVIOUS
<1> USE DraftAssumption
<1>1. DraftId = {}
  BY SMT DEF RecordsInit, Init, DraftId
<1>2. DraftInv
  BY <1>1 DEF RecordsInit, Init, DraftInv, OneDraftPerPeriod
<1>3. CheckpointInv
  BY DEF RecordsInit, Init, CheckpointInv
<1>4. QED
  BY <1>2, <1>3

LEMMA WorkingRecordsInvariant == RecordsSpec => [](DraftInv /\ CheckpointInv)
BY WorkingRecordsInit, WorkingRecordsKeep, PTL DEF RecordsSpec

\* A period has one draft at most, the one its index entry names, whatever
\* becomes of the draft (create_run_draft).
THEOREM OneDraftPerPeriodHolds == RecordsSpec => []OneDraftPerPeriod
<1>1. DraftInv => OneDraftPerPeriod
  BY DEF DraftInv
<1>2. QED
  BY <1>1, WorkingRecordsInvariant, PTL

\* Between two resumptions of a batch there is a recorded checkpoint
\* (resume_batch_execution, record_batch_checkpoint_progress).
THEOREM ResumedOncePerCheckpointHolds == RecordsSpec => []ResumedOncePerCheckpoint
<1>1. CheckpointInv => ResumedOncePerCheckpoint
  BY DEF CheckpointInv, CheckpointOK, ResumedOncePerCheckpoint
<1>2. QED
  BY <1>1, WorkingRecordsInvariant, PTL

\* A batch's checkpoints move forward within the width of their counter, and
\* those of a completed or failed batch do not move at all
\* (record_batch_checkpoint_progress, resume_batch_execution).
THEOREM CheckpointsForwardHolds == RecordsSpec => CheckpointsForward
<1>1. DraftInv /\ CheckpointInv /\ [RecordsNext]_allVars => [CheckpointStep]_vars
  BY WorkingRecordsKeep
<1>2. QED
  BY <1>1, WorkingRecordsInvariant, PTL DEF RecordsSpec, CheckpointsForward

----------------------------------------------------------------------------
(***************************************************************************)
(* The other records.                                                      *)
(***************************************************************************)
\* Hold identifiers are handed out without gaps, so that the next one is free.
HoldsCounted == \E n \in Nat : HoldId = 1..n

LEMMA HoldIdFree ==
    ASSUME HoldsCounted
    PROVE  /\ NextHoldId \notin HoldId
           /\ \E n \in Nat : HoldId \cup {NextHoldId} = 1..n
<1>1. PICK n \in Nat : HoldId = 1..n
  BY DEF HoldsCounted
<1>2. Cardinality(1..n) = n
  BY FS_Interval, SMT
<1>3. NextHoldId = n + 1
  BY <1>1, <1>2 DEF NextHoldId
<1>4. 1..n \cup {n + 1} = 1..(n + 1) /\ n + 1 \notin 1..n
  BY SMT
<1>5. QED
  BY <1>1, <1>3, <1>4, SMT

\* Which step changes holds, approvals or evidence, and which entry it writes.
LEMMA RecordsMoved ==
    ASSUME [RecordsNext]_allVars
    PROVE  /\ \/ UNCHANGED complianceHold
              \/ \E scope \in HoldScope : PlaceComplianceHold(scope)
              \/ \E h \in HoldId : ReleaseComplianceHold(h)
           /\ \/ UNCHANGED evidenceVars
              \/ \E digest \in Digest : CreateEvidencePointer(digest)
           /\ consumedQuorum \subseteq consumedQuorum'
<1>1. CASE \E scope \in HoldScope : PlaceComplianceHold(scope)
  BY <1>1 DEF PlaceComplianceHold, quorumVars
<1>2. CASE \E h \in HoldId : ReleaseComplianceHold(h)
  BY <1>2 DEF ReleaseComplianceHold, quorumVars
<1>3. CASE \E digest \in Digest : CreateEvidencePointer(digest)
  BY <1>3 DEF CreateEvidencePointer, quorumVars, holdVars
<1>4. CASE \E payload \in QuorumApprovalPayload : VerifyAndConsumeQuorum(payload)
  BY <1>4 DEF VerifyAndConsumeQuorum, holdVars
<1>5. CASE UNCHANGED <<holdVars, quorumVars, evidenceVars>>
  BY <1>5 DEF holdVars, quorumVars
<1>6. \/ \E scope \in HoldScope : PlaceComplianceHold(scope)
      \/ \E h \in HoldId : ReleaseComplianceHold(h)
      \/ \E digest \in Digest : CreateEvidencePointer(digest)
      \/ \E payload \in QuorumApprovalPayload : VerifyAndConsumeQuorum(payload)
      \/ UNCHANGED <<holdVars, quorumVars, evidenceVars>>
  BY DEF RecordsNext, allVars, recordVars, SetReservationExpiryPolicy,
         ReleaseExpiredReservation, RecordBatchSplit, SetStorageVersion, ChangeAdmin, Tick
<1>7. QED
  BY <1>1, <1>2, <1>3, <1>4, <1>5, <1>6

HoldStep ==
    \A h \in HoldId :
        /\ h \in DOMAIN complianceHold'
        /\ complianceHold'[h].scope = complianceHold[h].scope
        /\ complianceHold'[h].active => complianceHold[h].active

\* Holds are tables of records.
HoldInv ==
    /\ complianceHold \in [HoldId -> ComplianceHold]
    /\ HoldsCounted

LEMMA HoldsKeep ==
    ASSUME HoldInv, [RecordsNext]_allVars
    PROVE  HoldInv' /\ HoldStep
<1>1. CASE UNCHANGED complianceHold
  BY <1>1 DEF HoldInv, HoldStep, HoldsCounted, HoldId
<1>2. ASSUME NEW scope \in HoldScope, PlaceComplianceHold(scope)
      PROVE  HoldInv' /\ HoldStep
  <2> DEFINE new == [scope |-> scope, active |-> TRUE]
  <2>1. new \in ComplianceHold
    <3>1. TRUE \in BOOLEAN
      OBVIOUS
    <3>2. QED
      BY <3>1 DEF ComplianceHold
  <2>2. complianceHold' = WithEntry(complianceHold, NextHoldId, new)
    BY <1>2 DEF PlaceComplianceHold
  <2> HIDE DEF new
  <2>3. NextHoldId \notin HoldId /\ \E n \in Nat : HoldId \cup {NextHoldId} = 1..n
    BY HoldIdFree DEF HoldInv
  <2>4. /\ HoldId' = HoldId \cup {NextHoldId}
        /\ complianceHold'[NextHoldId] = new
        /\ \A h \in HoldId : complianceHold'[h] = complianceHold[h]
    BY <2>2, <2>3 DEF HoldId, WithEntry
  <2>5. complianceHold' \in [HoldId' -> ComplianceHold]
    BY <2>1, <2>2, <2>4 DEF HoldInv, WithEntry, HoldId
  <2>6. HoldStep
    BY <2>4 DEF HoldStep, HoldId
  <2>7. QED
    BY <2>3, <2>4, <2>5, <2>6 DEF HoldInv, HoldsCounted
<1>3. ASSUME NEW h \in HoldId, ReleaseComplianceHold(h)
      PROVE  HoldInv' /\ HoldStep
  <2> DEFINE new == [complianceHold[h] EXCEPT !.active = FALSE]
  <2>1. complianceHold[h] \in ComplianceHold
    BY DEF HoldInv
  <2>2. /\ new \in ComplianceHold
        /\ new.scope = complianceHold[h].scope
        /\ ~new.active
    <3>1. FALSE \in BOOLEAN
      OBVIOUS
    <3>2. QED
      BY <2>1, <3>1 DEF ComplianceHold
  <2>3. complianceHold' = [complianceHold EXCEPT ![h] = new]
    BY <1>3 DEF ReleaseComplianceHold, HoldInv
  <2> HIDE DEF new
  <2>4. HoldId' = HoldId
    BY <2>3 DEF HoldId
  <2>5. \A i \in HoldId : complianceHold'[i] = IF i = h THEN new ELSE complianceHold[i]
    BY <2>3 DEF HoldId
  <2>6. HoldStep
    BY <2>2, <2>4, <2>5 DEF HoldStep, HoldId
  <2>7. QED
    BY <2>2, <2>3, <2>4, <2>6 DEF HoldInv, HoldsCounted
<1>4. QED
  BY <1>1, <1>2, <1>3, RecordsMoved

EvidenceStep ==
    \A id \in DOMAIN evidencePointer :
        id \in DOMAIN evidencePointer' /\ evidencePointer'[id] = evidencePointer[id]

LEMMA EvidenceKeeps ==
    ASSUME EvidenceIndexed, [RecordsNext]_allVars
    PROVE  EvidenceIndexed' /\ EvidenceStep
<1>1. CASE UNCHANGED evidenceVars
  BY <1>1 DEF evidenceVars, EvidenceIndexed, EvidencePointerExists, EvidenceStep
<1>2. ASSUME NEW digest \in Digest, CreateEvidencePointer(digest)
      PROVE  EvidenceIndexed' /\ EvidenceStep
  <2> DEFINE id == GeneratePointerId(digest)
             pointer == [content |-> digest, at |-> now]
  <2>1. /\ digest \notin DOMAIN evidencePointerIndex
        /\ id \notin DOMAIN evidencePointer
        /\ evidencePointer' = WithEntry(evidencePointer, id, pointer)
        /\ evidencePointerIndex' = WithEntry(evidencePointerIndex, digest, id)
    BY <1>2 DEF CreateEvidencePointer, EvidenceIsNew
  <2>2. pointer.content = digest
    OBVIOUS
  <2> HIDE DEF id, pointer
  <2>3. /\ DOMAIN evidencePointer' = DOMAIN evidencePointer \cup {id}
        /\ evidencePointer'[id] = pointer
        /\ \A i \in DOMAIN evidencePointer : evidencePointer'[i] = evidencePointer[i]
    BY <2>1 DEF WithEntry
  <2>4. /\ DOMAIN evidencePointerIndex' = DOMAIN evidencePointerIndex \cup {digest}
        /\ evidencePointerIndex'[digest] = id
        /\ \A d \in DOMAIN evidencePointerIndex :
             evidencePointerIndex'[d] = evidencePointerIndex[d]
    BY <2>1 DEF WithEntry
  <2>5. EvidenceStep
    BY <2>3 DEF EvidenceStep
  <2>6. EvidenceIndexed'
    BY <2>2, <2>3, <2>4, SMT DEF EvidenceIndexed, EvidencePointerExists
  <2>7. QED
    BY <2>5, <2>6
<1>3. QED
  BY <1>1, <1>2, RecordsMoved

LEMMA OtherRecordsInit == RecordsInit => EvidenceIndexed /\ HoldInv
<1> SUFFICES ASSUME RecordsInit
             PROVE  EvidenceIndexed /\ HoldInv
  OBVIOUS
<1>1. /\ DOMAIN evidencePointer = {}
      /\ DOMAIN evidencePointerIndex = {}
      /\ HoldId = {}
      /\ complianceHold \in [HoldId -> ComplianceHold]
  BY SMT DEF RecordsInit, HoldId
<1>2. EvidenceIndexed
  BY <1>1 DEF EvidenceIndexed
<1>3. HoldsCounted
  <2>1. 1..0 = {}
    BY SMT
  <2>2. QED
    BY <1>1, <2>1 DEF HoldsCounted
<1>4. QED
  BY <1>1, <1>2, <1>3 DEF HoldInv

LEMMA OtherRecordsInvariant == RecordsSpec => [](EvidenceIndexed /\ HoldInv)
BY OtherRecordsInit, EvidenceKeeps, HoldsKeep, PTL DEF RecordsSpec

\* Evidence pointers and their index name each other, so a digest is
\* registered once (create_evidence_pointer).
THEOREM EvidenceIndexedHolds == RecordsSpec => []EvidenceIndexed
BY OtherRecordsInvariant, PTL

\* Evidence, consumed approvals, the identity and release of holds and the
\* terms of finalized drafts are permanent (create_evidence_pointer,
\* verify_and_consume_quorum, place_compliance_hold, release_compliance_hold,
\* finalize_run_draft).
THEOREM TrailPermanentHolds == RecordsSpec => TrailPermanent
<1>1. ASSUME DraftInv, CheckpointInv, EvidenceIndexed, HoldInv, [RecordsNext]_allVars
      PROVE  TrailKept
  <2>1. DraftStep
    BY <1>1, WorkingRecordsKeep
  <2>2. EvidenceStep /\ HoldStep /\ consumedQuorum \subseteq consumedQuorum'
    BY <1>1, EvidenceKeeps, HoldsKeep, RecordsMoved
  <2>3. QED
    BY <2>1, <2>2 DEF TrailKept, EvidenceStep, HoldStep
<1>2. QED
  BY <1>1, WorkingRecordsInvariant, OtherRecordsInvariant, PTL DEF RecordsSpec, TrailPermanent
=============================================================================
