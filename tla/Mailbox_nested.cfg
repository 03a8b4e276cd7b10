SPECIFICATION FairSpec
CONSTANTS
    Clients = {c1, c2}
    NoClient = NoClient
    Nested = TRUE
    MaxSends = 1
    MaxFaults = 0
    MaxCrashes = 0
PROPERTIES
    Served
CHECK_DEADLOCK FALSE
