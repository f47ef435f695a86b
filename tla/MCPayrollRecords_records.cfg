SPECIFICATION RecordsSpec
CONSTANTS
    None = None
    Account = {a1, a2}
    FirstOperator = a1
    OperatorInput = {}
    CategoryInput = {}
    Period = {p1, p2}
    Amount = {1, 2}
    BatchKey = {k1, k2}
    Index = {0, 1, 2}
    MaxAmendments = 2
    MaxCheckpoints = 4
    FirstAdmin = a1
    HoldScope = {"Batch", "Employer"}
    Asset = {usdc, eurc}
    Token = usdc
    OffsetInput = {0, 1}
    ApprovalKey = {q1, q2}
    Digest = {d1, d2}
    VersionInput = {0, 1, 2}
    Batch = {1, 2}
    SplitTotal = {0, 1, 2}
    SplitCount = {1}
    MaxHolds = 3
    MaxTime = 2
SYMMETRY Symmetry
CONSTRAINT OneFamily
INVARIANTS
    
    ResumedOncePerCheckpoint
    EvidenceIndexed
PROPERTIES
    CheckpointsForward
    TrailPermanent
