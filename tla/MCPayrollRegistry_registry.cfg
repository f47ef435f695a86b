SPECIFICATION RegistrySpec
CONSTANTS
    None = None
    Account = {a1, a2, a3}
    FirstOperator = a1
    OperatorInput = {}
    CategoryInput = {"Treasury"}
    AdminInput = {a1, a2}
    TreasuryInput = {a3}
    TreasurySuccessor = {a1}
    Employee = {e1}
    EmployeeInput = {e1}
    DetailInput = {0}
    CommitmentValue = {v1}
    StatusInput = {"Active", "Inactive"}
    ThresholdInput = {0, 1, 2}
    GraceInput = {0, 1}
    MaxCompanies = 2
    MaxTime = 1
INVARIANTS
    AdminIndexSound
    AdminProposalCurrent
PROPERTIES
    ThresholdsWait
