SPECIFICATION Spec
CONSTANTS
    None = None
    Account = {a1}
    FirstOperator = a1
    OperatorInput = {a1}
    CategoryInput = {"Treasury"}
    Employee = {e1, e2}
    Value = {c1, c2, c3, c4}
    RefId = {r1, r2}
    Nullifier = {n1}
    FirstAdmin = a1
    AdminInput = {a1}
    PayrollOperatorInput = {a1}
SYMMETRY Symmetry
INVARIANTS
    ValuesUnique
    
    ReferencesInverse
PROPERTIES
    HistoryAppendOnly
