SPECIFICATION Spec
CONSTANTS
    m1 = m1
    m2 = m2
    u = u
    s = s
    Clients = {m1, m2, u}
    Insts = {i1}
    Runs <- TwoRefreshers
    NoDb = NoDb
    Stray = Stray
    Tries = 2
    MaxStarts = 3
    MaxFaults = 0
    MaxCrashes = 0
CHECK_DEADLOCK FALSE
INVARIANTS
    DataSurvives
