SPECIFICATION AuditSpec
CONSTANTS
    None = None
    Account = {op}
    FirstOperator = op
    OperatorInput = {}
    CategoryInput = {}
    Auditor = {x, y, z}
    Module = module
    GrantInput = {x, y}
    MaxDelegations = 3
    AuditInput = {z}
    ExpirationInput = {0, 1}
    ScopeInput = {"FullCompany"}
    PolicyInput <- OpenPolicy
    MaxSequence = 1
    MaxLog = 1
SYMMETRY Symmetry
INVARIANTS
    NoOrphans
    PeriodsPartition
PROPERTIES
    CyclesPermanent
