SPECIFICATION CliSpec
CONSTANTS
    e1 = e1
    e2 = e2
    other = other
    acme = acme
    None = None
    Proc = {p1, p2}
    Pubkey <- SmallPubkey
    StellarKey <- SmallStellarKey
    SalaryInput = {1, 3}
    CompanyInput = {acme}
    EventInput <- SmallEvents
    PageLimit = 2
    Blinding = {1, 2, 3, 4}
    Word = 4
INVARIANTS
    PrintedOpensRow
    ReportSound
PROPERTIES
    CommandsEnd
