SPECIFICATION Spec
CONSTANTS
    None = None
    Address = {a1, a2}
    FirstAdmin = a1
    FirstOwner = a2
    AdminSuccessor = {a1, a2}
    OwnerSuccessor = {a1}
    Reviewer = {}
    Employee = {}
    PauseManager = {}
    Asset = {usdc, eurc}
    Token = usdc
    AssetInput = {usdc, eurc}
    NonceHigh = {1, 2}
    NonceLow = {0, 1}
    DraftHash = {}
    DepositId = {}
    Total = {1}
    WithdrawalInput = {}
    AuditInput = {}
    LockInput = {}
    HookState = {}
    ReconciliationInput = {}
    CompanyInput = {"Active", "Paused"}
    InitialBalance = 3
    ApprovalExpiry = 1
    MaxBatch = 2
    MaxRuns = 2
    MaxTime = 0
    MaxLockCalls = 0
INVARIANTS
    NonceOnce
    NonceOrder
    SupportedAssetsAgree
PROPERTIES
    ConfigLocked
