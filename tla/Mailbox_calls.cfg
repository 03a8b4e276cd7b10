SPECIFICATION FairSpec
CONSTANTS
    Clients = {c1, c2}
    NoClient = NoClient
    Nested = FALSE
    MaxSends = 3
    MaxFaults = 1
    MaxCrashes = 1
INVARIANTS
    TypeOK
    AtLeastOnce
    OnceInOrder
    IInv
PROPERTIES
    Served
