SPECIFICATION Spec
CONSTANTS
    m1 = m1
    m2 = m2
    u = u
    s = s
    Clients = {m1, u, s}
    Insts = {i1}
    Runs <- OneMaintainer
    NoDb = NoDb
    Stray = Stray
    Tries = 2
    MaxStarts = 3
    MaxFaults = 1
    MaxCrashes = 1
CHECK_DEADLOCK FALSE
INVARIANTS
    IInv
    DataSurvives
    SmoothClone
    LockedAtRest
    DeferredIsStaged
    DriftIsSeen
