SPECIFICATION Spec
CONSTANTS
    None = None
    Address = {a1}
    FirstAdmin = a1
    FirstOwner = a1
    AdminSuccessor = {}
    OwnerSuccessor = {}
    Reviewer = {}
    Employee = {e1, e2}
    PauseManager = {}
    Asset = {usdc}
    Token = usdc
    AssetInput = {}
    NonceHigh = {1, 2}
    NonceLow = {0}
    DraftHash = {h1}
    DepositId = {d1, d2}
    Total = {1, 2}
    WithdrawalInput = {1, 2}
    AuditInput = {}
    LockInput = {2}
    HookState = {}
    ReconciliationInput = {}
    CompanyInput = {}
    InitialBalance = 3
    ApprovalExpiry = 1
    MaxBatch = 2
    MaxRuns = 2
    MaxTime = 0
    MaxLockCalls = 1
INVARIANTS
    TypeOK
    ReservationsBalance
    TokensConserved
PROPERTIES
    WithdrawalKeepsReservations
    RunTermsKept
SYMMETRY PaymentSymmetry
