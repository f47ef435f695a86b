SPECIFICATION Spec
SYMMETRY PayeeSymmetry
CONSTANTS
    None = None
    Account = {a1, a2}
    FirstOperator = a1
    OperatorInput = {}
    CategoryInput = {}
    AdminInput = {a1, a2}
    TreasuryInput = {a1}
    TreasurySuccessor = {a2}
    Employee = {e1, e2}
    EmployeeInput = {}
    DetailInput = {0}
    CommitmentValue = {v1}
    StatusInput = {}
    ThresholdInput = {}
    GraceInput = {}
    MaxCompanies = 2
    MaxTime = 2
    RefId = {}
    Proof = {}
    KeyLength = {2, 3}
    InputLength = {2}
    MaxTTL = 0
    MaxSequence = 0
    Nullifier = {n1, n2}
    Amount <- CheckedAmount
    DecimalsInput = {10}
    ExecutorInput = {a1}
    InitialBalance = 10
    MaxProofAge = 1
    MaxPeriods = 2
INVARIANTS
    BooksExact
    OnePeriodOpen
    PaidInWindow
    TokensFollowRecords
PROPERTIES
    TreasuryOfCompanyPays
