SPECIFICATION Spec
CONSTANTS
    Names = {i1}
    Svcs = {redis}
    Procs = {app}
    Pids = {1, 2, 3}
    Ports = {q1, q2, q3, q4}
    Dbs = {main, audit}
    Clients = {c1}
    NoName = NoName
    NoRec = NoRec
    NoClient = NoClient
    MaxFaults = 1
    MaxCrashes = 0
SYMMETRY Symmetry
INVARIANTS
    FailedUpLeavesNothing
