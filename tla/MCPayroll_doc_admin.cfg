SPECIFICATION Spec
CONSTANTS
    None = None
    Address = {a1, a2}
    FirstAdmin = a1
    FirstOwner = a1
    AdminSuccessor = {a2}
    OwnerSuccessor = {}
    Reviewer = {}
    Employee = {}
    PauseManager = {}
    Asset = {usdc}
    Token = usdc
    AssetInput = {}
    NonceHigh = {1, 2}
    NonceLow = {0}
    DraftHash = {}
    DepositId = {}
    Total = {1}
    WithdrawalInput = {}
    AuditInput = {}
    LockInput = {}
    HookState = {}
    ReconciliationInput = {}
    CompanyInput = {}
    InitialBalance = 3
    ApprovalExpiry = 1
    MaxBatch = 2
    MaxRuns = 2
    MaxTime = 0
    MaxLockCalls = 0
PROPERTIES
    AdminFixedWhilePending
