SPECIFICATION Spec
CONSTANTS
    Names = {i1, i2}
    Svcs = {redis}
    Procs = {app}
    Pids = {1, 2, 3}
    Ports = {q1, q2, q3, q4}
    Dbs = {main}
    Clients = {c1, c2}
    NoName = NoName
    NoRec = NoRec
    NoClient = NoClient
    MaxFaults = 1
    MaxCrashes = 1
SYMMETRY Symmetry
INVARIANTS
    TypeOK
    CopyIsCurrent
    PortTablesAgree
    NoPortCollision
    NothingLost
    RecordsSurvive
    IInv
PROPERTIES
    NoLostUpdate
    ImplementsInstances
