SPECIFICATION Spec
CONSTANTS
    Clients = {c1, c2}
    NoClient = NoClient
    Names = {n1, n2}
    NoName = NoName
    NoRecord = NoRecord
    MaxUps = 2
    MaxNotes = 2
    MaxFaults = 1
INVARIANTS
    TypeOK
    IInv
    ReportedStays
    ShownStays
    LineageKept
PROPERTIES ImplementsJournal
SYMMETRY Sym
CHECK_DEADLOCK FALSE
