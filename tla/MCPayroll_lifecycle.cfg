SPECIFICATION Spec
CONSTANTS
    None = None
    Address = {a1}
    FirstAdmin = a1
    FirstOwner = a1
    AdminSuccessor = {}
    OwnerSuccessor = {}
    Reviewer = {v1}
    Employee = {}
    PauseManager = {p1}
    Asset = {usdc}
    Token = usdc
    AssetInput = {}
    NonceHigh = {1, 2, 3}
    NonceLow = {0}
    DraftHash = {}
    DepositId = {}
    Total = {1, 2}
    WithdrawalInput = {}
    AuditInput = {1}
    LockInput = {}
    HookState = {"Validating", "Confirming", "Completed", "Failed", "Cancelled"}
    ReconciliationInput = {"Unreconciled", "Reconciled", "Failed"}
    CompanyInput = {}
    InitialBalance = 3
    ApprovalExpiry = 1
    MaxBatch = 2
    MaxRuns = 3
    MaxTime = 2
    MaxLockCalls = 0
CONSTRAINT ReviewsOfFirstRun
INVARIANTS
    RunPartition
    PendingCountExact
    StateAgreesWithRecords
    EscapeHatch
PROPERTIES
    
    ImplementsLedger
