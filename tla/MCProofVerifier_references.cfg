SPECIFICATION VerifierSpec
CONSTANTS
    None = None
    RefId = {r1, r2}
    Proof = {q1, q2}
    KeyLength = {2, 3}
    InputLength = {1, 2}
    MaxTTL = 2
    MaxSequence = 5
SYMMETRY Symmetry
INVARIANTS
    LifetimeCapped
PROPERTIES
    UnusableForever
