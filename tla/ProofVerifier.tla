--------------------------- MODULE ProofVerifier ---------------------------
(***************************************************************************)
(* The proof verifier (contracts/proof_verifier/src/lib.rs): the           *)
(* verification key and the expiring references to proofs, against the     *)
(* ledger sequence.  The verification itself always answers yes in this    *)
(* repository (simulated_verify_groth16), and what is left of it is the    *)
(* number of public inputs.                                                *)
(***************************************************************************)
EXTENDS Integers, Storage

CONSTANTS
    RefId,        \* reference identifiers
    Proof,        \* proof byte strings; their digests are not told apart from them
    KeyLength,    \* numbers of points a verification key may have
    InputLength,  \* numbers of public inputs a caller may pass
    MaxTTL,       \* MAX_REFERENCE_TTL_LEDGERS
    MaxSequence   \* bound of the checked instance on the ledger sequence

Sequence == 0..MaxSequence

ASSUME VerifierAssumption ==
    /\ KeyLength \subseteq Nat
    /\ InputLength \subseteq Nat
    /\ MaxTTL \in Nat
    /\ MaxSequence \in Nat
    /\ None \notin Nat

VARIABLES
    verificationKey,  \* the number of points of the key
    proofReference,
    sequence          \* the ledger sequence

verifierVars == <<verificationKey, proofReference, sequence>>

ProofReference ==
    [proof : Proof, registered : Sequence, expires : Nat, revoked : BOOLEAN]

ASSUME ReferenceAssumption == None \notin ProofReference

----------------------------------------------------------------------------
(***************************************************************************)
(* What the queries answer.                                                *)
(***************************************************************************)
\* reference_is_current: usable through the ledger of its expiry.
IsCurrent(ref) == ~ref.revoked /\ sequence <= ref.expires

IsProofReferenceValid(id) == proofReference[id] # None /\ IsCurrent(proofReference[id])

VerifyPaymentProof(n) == n + 1 = verificationKey

VerifyWithReference(id, proof, n) ==
    /\ IsProofReferenceValid(id)
    /\ proofReference[id].proof = proof
    /\ VerifyPaymentProof(n)

----------------------------------------------------------------------------
InitializeVerifier(length) ==
    /\ verificationKey = None
    /\ verificationKey' = length
    /\ UNCHANGED <<proofReference, sequence>>

\* Mutant: an identifier is free again when its reference is not usable.
Registrable_Again(id) == ~IsProofReferenceValid(id)

Registrable(id) == proofReference[id] = None

\* Mutant: the cap is compared with the expiry itself.
TTLAllowed_Absolute(expires) == expires > sequence /\ expires <= MaxTTL + MaxSequence

TTLAllowed(expires) == expires > sequence /\ expires - sequence <= MaxTTL

RegisterProofReference(id, proof, expires) ==
    /\ Registrable(id)
    /\ TTLAllowed(expires)
    /\ proofReference' = [proofReference EXCEPT
                            ![id] = [proof |-> proof, registered |-> sequence,
                                     expires |-> expires, revoked |-> FALSE]]
    /\ UNCHANGED <<verificationKey, sequence>>

RevokeProofReference(id) ==
    /\ proofReference[id] # None
    /\ proofReference' = [proofReference EXCEPT ![id].revoked = TRUE]
    /\ UNCHANGED <<verificationKey, sequence>>

\* The ledger closes.
CloseLedger ==
    /\ sequence < MaxSequence
    /\ sequence' = sequence + 1
    /\ UNCHANGED <<verificationKey, proofReference>>

VerifierInit ==
    /\ verificationKey = None
    /\ proofReference = [id \in RefId |-> None]
    /\ sequence = 0

VerifierNext ==
    \/ \E length \in KeyLength : InitializeVerifier(length)
    \/ \E id \in RefId, proof \in Proof, expires \in 0..MaxSequence + MaxTTL :
         RegisterProofReference(id, proof, expires)
    \/ \E id \in RefId : RevokeProofReference(id)
    \/ CloseLedger

VerifierSpec == VerifierInit /\ [][VerifierNext]_verifierVars

----------------------------------------------------------------------------
VerifierTypeOK ==
    /\ verificationKey \in KeyLength \cup {None}
    /\ proofReference \in [RefId -> ProofReference \cup {None}]
    /\ sequence \in Sequence

\* A reference is usable for no longer than the cap after its registration.
LifetimeCapped ==
    \A id \in RefId :
        IsProofReferenceValid(id) => sequence <= proofReference[id].registered + MaxTTL

\* A reference that stopped being usable, by revocation or by expiry, never
\* becomes usable again, under the same or under another proof: its
\* identifier is used up (ReferenceAlreadyExists).
ReferenceStep ==
    \A id \in RefId :
        proofReference[id] # None =>
            /\ proofReference'[id] # None
            /\ proofReference'[id].proof = proofReference[id].proof
            /\ IsProofReferenceValid(id)' => IsProofReferenceValid(id)

UnusableForever == [][ReferenceStep]_verifierVars
=============================================================================
