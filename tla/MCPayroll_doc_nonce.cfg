SPECIFICATION Spec
CONSTANTS
    None = None
    Address = {a1}
    FirstAdmin = a1
    FirstOwner = a1
    AdminSuccessor = {}
    OwnerSuccessor = {}
    Reviewer = {}
    Employee = {e1, e2}
    PauseManager = {}
    Asset = {usdc}
    Token = usdc
    AssetInput = {}
    NonceHigh = {1, 2}
    NonceLow = {0}
    DraftHash = {}
    DepositId = {}
    Total = {1}
    WithdrawalInput = {}
    AuditInput = {}
    LockInput = {}
    HookState = {}
    ReconciliationInput = {}
    CompanyInput = {}
    InitialBalance = 3
    ApprovalExpiry = 1
    MaxBatch = 2
    MaxRuns = 2
    MaxTime = 0
    MaxLockCalls = 0
INVARIANTS
    NewNonceExecutes
