SPECIFICATION FairSpec
CONSTANTS
    Names = {i1}
    Svcs = {redis}
    Procs = {app, jobs}
    Pids = {1, 2, 3}
    Ports = {q1, q2, q3}
    Dbs = {main}
    Clients = {c1}
    NoName = NoName
    NoRec = NoRec
    NoClient = NoClient
    MaxFaults = 2
    MaxCrashes = 0
INVARIANTS
    SuspendedIsQuiet
    FailedUpLeavesNothing
    WInv
PROPERTIES
    EveryCommandEnds
