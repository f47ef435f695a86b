--------------------------- MODULE PayrollRecords ---------------------------
(***************************************************************************)
(* The other records the payroll contract keeps beside its runs            *)
(* (contracts/payroll/src/lib.rs): compliance holds, expiring              *)
(* reservations, consumed quorum approvals, evidence pointers, batch       *)
(* splits and the storage version.  Only the storage version is read by    *)
(* an entry point that executes payroll; who may call is compared with     *)
(* the stored admin by set_storage_version and verify_and_consume_quorum   *)
(* alone.  The admin role and the clock change as in module Payroll.       *)
(***************************************************************************)
EXTENDS RunDrafts, FiniteSets

CONSTANTS
    FirstAdmin,    \* the admin initialize names
    HoldScope,     \* scopes passed to place_compliance_hold
    Asset, Token,  \* token contracts; Token is the payout token
    OffsetInput,   \* lifetimes passed to set_reservation_expiry_policy
    ApprovalKey,   \* batch root, period, nonce and policy version of an approval
    Digest,        \* non-zero content hashes
    VersionInput,  \* versions passed to set_storage_version
    Batch,         \* run identifiers passed to record_batch_split
    SplitTotal, SplitCount,  \* totals and employee counts passed to it
    MaxHolds, MaxTime        \* bounds of the checked instance

ComplianceHoldScope == {"Batch", "Employee", "Employer"}

SupportedVersion == 1..1

ASSUME RecordAssumption ==
    /\ FirstAdmin \in Account
    /\ HoldScope \subseteq ComplianceHoldScope
    /\ Token \in Asset
    /\ OffsetInput \subseteq Nat
    /\ VersionInput \subseteq Nat
    /\ SplitTotal \subseteq Int
    /\ SplitCount \subseteq Nat
    /\ MaxHolds \in Nat
    /\ MaxTime \in Nat

VARIABLES
    now, admin,
    complianceHold,      \* the hold of each identifier handed out
    reservationExpiry,
    consumedQuorum,
    evidencePointer,     \* the pointers, under their identifiers
    evidencePointerIndex,\* the identifier under each content hash
    batchSplit,
    storageVersion, migrationReadiness

holdVars == <<complianceHold>>
expiryVars == <<reservationExpiry>>
quorumVars == <<consumedQuorum>>
evidenceVars == <<evidencePointer, evidencePointerIndex>>
splitVars == <<batchSplit>>
versionVars == <<storageVersion, migrationReadiness>>
clockVars == <<now, admin>>
recordVars == <<holdVars, expiryVars, quorumVars, evidenceVars, splitVars, versionVars>>
allVars == <<vars, recordVars, clockVars>>

Time == 0..MaxTime

ComplianceHold == [scope : HoldScope, active : BOOLEAN]

ComplianceEvidencePointer == [content : Digest, at : Time]

QuorumApprovalPayload == [key : ApprovalKey, employer : Account, asset : Asset]

\* A storage entry set, whether or not there was one.
WithEntry(table, key, entry) ==
    [k \in DOMAIN table \cup {key} |-> IF k = key THEN entry ELSE table[k]]

----------------------------------------------------------------------------
(***************************************************************************)
(* Compliance holds.                                                       *)
(***************************************************************************)
HoldId == DOMAIN complianceHold

\* Mutant: the identifier counts the holds that are active.
NextHoldId_Active == Cardinality({h \in HoldId : complianceHold[h].active}) + 1

\* Holds are never removed, so the stored counter is their number.
NextHoldId == Cardinality(HoldId) + 1

PlaceComplianceHold(scope) ==
    /\ NextHoldId <= MaxHolds
    /\ complianceHold' = WithEntry(complianceHold, NextHoldId, [scope |-> scope, active |-> TRUE])
    /\ UNCHANGED <<expiryVars, quorumVars, evidenceVars, splitVars, versionVars,
                   clockVars, vars>>

ReleaseComplianceHold(h) ==
    /\ complianceHold[h].active
    /\ complianceHold' = [complianceHold EXCEPT ![h].active = FALSE]
    /\ UNCHANGED <<expiryVars, quorumVars, evidenceVars, splitVars, versionVars,
                   clockVars, vars>>

----------------------------------------------------------------------------
(***************************************************************************)
(* Expiring reservations.                                                  *)
(***************************************************************************)
\* A policy that is already there is replaced.
SetReservationExpiryPolicy(asset, offset) ==
    /\ reservationExpiry' = [reservationExpiry EXCEPT ![asset] = now + offset]
    /\ UNCHANGED <<holdVars, quorumVars, evidenceVars, splitVars, versionVars,
                   clockVars, vars>>

\* Locked funds are not touched.
ReleaseExpiredReservation(asset) ==
    /\ reservationExpiry[asset] # None
    /\ now > reservationExpiry[asset]
    /\ reservationExpiry' = [reservationExpiry EXCEPT ![asset] = None]
    /\ UNCHANGED <<holdVars, quorumVars, evidenceVars, splitVars, versionVars,
                   clockVars, vars>>

----------------------------------------------------------------------------
(***************************************************************************)
(* Quorum approvals.                                                       *)
(***************************************************************************)
\* hash_quorum_payload binds every field, so the payload stands for its hash.
IsQuorumConsumed(payload) == payload \in consumedQuorum

\* The caller passes the signers and how many of them are required.
VerifyAndConsumeQuorum(payload) ==
    /\ NotPaused
    /\ payload.employer = admin
    /\ payload.asset = Token
    /\ ~IsQuorumConsumed(payload)
    /\ consumedQuorum' = consumedQuorum \cup {payload}
    /\ UNCHANGED <<holdVars, expiryVars, evidenceVars, splitVars, versionVars,
                   clockVars, vars>>

----------------------------------------------------------------------------
(***************************************************************************)
(* Evidence pointers.                                                      *)
(***************************************************************************)
GeneratePointerId(digest) == <<digest, now>>

\* Mutant: only the pointer identifier is looked up.
EvidenceIsNew_ById(digest) == GeneratePointerId(digest) \notin DOMAIN evidencePointer

EvidenceIsNew(digest) ==
    /\ digest \notin DOMAIN evidencePointerIndex
    /\ GeneratePointerId(digest) \notin DOMAIN evidencePointer

CreateEvidencePointer(digest) ==
    LET id == GeneratePointerId(digest) IN
    /\ NotPaused
    /\ EvidenceIsNew(digest)
    /\ evidencePointer' = WithEntry(evidencePointer, id, [content |-> digest, at |-> now])
    /\ evidencePointerIndex' = WithEntry(evidencePointerIndex, digest, id)
    /\ UNCHANGED <<holdVars, expiryVars, quorumVars, splitVars, versionVars,
                   clockVars, vars>>

EvidencePointerExists(digest) == digest \in DOMAIN evidencePointerIndex

----------------------------------------------------------------------------
(***************************************************************************)
(* Batch splits.                                                           *)
(***************************************************************************)
BatchSplitRecord ==
    [parentTotal : SplitTotal, parentCount : SplitCount,
     childTotal : SplitTotal, childCount : SplitCount]

\* The totals are the caller's; a record of the same pair is replaced.
RecordBatchSplit(parent, child, record) ==
    /\ record.childTotal > 0
    /\ record.parentTotal > 0
    /\ record.childTotal <= record.parentTotal
    /\ record.childCount <= record.parentCount
    /\ batchSplit' = WithEntry(batchSplit, <<parent, child>>, record)
    /\ UNCHANGED <<holdVars, expiryVars, quorumVars, evidenceVars, versionVars,
                   clockVars, vars>>

----------------------------------------------------------------------------
(***************************************************************************)
(* The storage version.                                                    *)
(***************************************************************************)
VersionState(version) == [version |-> version, complete |-> TRUE]

Readiness(version) == [ready |-> TRUE, version |-> version]

VersionInRange(version) == version \in SupportedVersion

SetStorageVersion(version) ==
    /\ NotPaused
    /\ VersionInRange(version)
    /\ storageVersion' = VersionState(version)
    /\ migrationReadiness' = Readiness(version)
    /\ UNCHANGED <<holdVars, expiryVars, quorumVars, evidenceVars, splitVars,
                   clockVars, vars>>

IsStorageVersionSupported == storageVersion.version \in SupportedVersion

\* The check prepare_payroll_run and batch_process_payroll make.  It passes in
\* every state, because set_storage_version accepts no other version.
ValidateStorageVersionForOperation ==
    /\ IsStorageVersionSupported
    /\ storageVersion.complete

CheckMigrationReadiness ==
    [ready |-> IsStorageVersionSupported /\ storageVersion.complete,
     version |-> storageVersion.version]

----------------------------------------------------------------------------
\* The admin role moves by rotation or handover (module Payroll).
ChangeAdmin(a) ==
    /\ admin' = a
    /\ UNCHANGED <<now, recordVars, vars>>

Tick ==
    /\ now < MaxTime
    /\ now' = now + 1
    /\ UNCHANGED <<admin, recordVars, vars>>

RecordsInit ==
    /\ Init
    /\ now = 0
    /\ admin = FirstAdmin
    /\ complianceHold = <<>>
    /\ reservationExpiry = [a \in Asset |-> None]
    /\ consumedQuorum = {}
    /\ evidencePointer = <<>>
    /\ evidencePointerIndex = <<>>
    /\ batchSplit = <<>>
    /\ storageVersion = VersionState(1)
    /\ migrationReadiness = Readiness(1)

RecordsNext ==
    \/ \E scope \in HoldScope : PlaceComplianceHold(scope)
    \/ \E h \in HoldId : ReleaseComplianceHold(h)
    \/ \E a \in Asset, offset \in OffsetInput : SetReservationExpiryPolicy(a, offset)
    \/ \E a \in Asset : ReleaseExpiredReservation(a)
    \/ \E payload \in QuorumApprovalPayload : VerifyAndConsumeQuorum(payload)
    \/ \E digest \in Digest : CreateEvidencePointer(digest)
    \/ \E parent, child \in Batch, record \in BatchSplitRecord :
         RecordBatchSplit(parent, child, record)
    \/ \E version \in VersionInput : SetStorageVersion(version)
    \/ \E a \in Account : ChangeAdmin(a)
    \/ Tick
    \/ Next /\ UNCHANGED <<recordVars, clockVars>>

RecordsSpec == RecordsInit /\ [][RecordsNext]_allVars

----------------------------------------------------------------------------
RecordsTypeOK ==
    /\ now \in Time
    /\ admin \in Account
    /\ complianceHold \in [HoldId -> ComplianceHold]
    /\ reservationExpiry \in [Asset -> Nat \cup {None}]
    /\ consumedQuorum \subseteq QuorumApprovalPayload
    /\ evidencePointer \in [DOMAIN evidencePointer -> ComplianceEvidencePointer]
    /\ evidencePointerIndex \in [DOMAIN evidencePointerIndex -> Digest \X Time]
    /\ batchSplit \in [DOMAIN batchSplit -> BatchSplitRecord]
    /\ storageVersion \in [version : SupportedVersion, complete : {TRUE}]

\* The index by content hash and the pointers by identifier name each other:
\* a digest is registered once, whenever that was, and the pointer found
\* through the index is the one that holds the digest (create_evidence_pointer,
\* issue #361).
EvidenceIndexed ==
    /\ \A id \in DOMAIN evidencePointer :
         /\ EvidencePointerExists(evidencePointer[id].content)
         /\ evidencePointerIndex[evidencePointer[id].content] = id
    /\ \A digest \in DOMAIN evidencePointerIndex :
         /\ evidencePointerIndex[digest] \in DOMAIN evidencePointer
         /\ evidencePointer[evidencePointerIndex[digest]].content = digest

\* What was put on record stays: no later call changes an evidence pointer,
\* makes a consumed approval usable again, reuses the identifier of a hold for
\* another one, brings a released hold back or alters the terms of a draft
\* after it was finalized.
TrailKept ==
    /\ DraftStep
    /\ \A id \in DOMAIN evidencePointer :
         id \in DOMAIN evidencePointer' /\ evidencePointer'[id] = evidencePointer[id]
    /\ consumedQuorum \subseteq consumedQuorum'
    /\ \A h \in HoldId :
         /\ h \in DOMAIN complianceHold'
         /\ complianceHold'[h].scope = complianceHold[h].scope
         /\ complianceHold'[h].active => complianceHold[h].active

TrailPermanent == [][TrailKept]_allVars
=============================================================================
