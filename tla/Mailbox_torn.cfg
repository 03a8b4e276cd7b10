SPECIFICATION Spec
CONSTANTS
    Clients = {c1, c2}
    NoClient = NoClient
    Nested = FALSE
    MaxSends = 2
    MaxFaults = 1
    MaxCrashes = 0
PROPERTIES
    WaitingIsReceived
