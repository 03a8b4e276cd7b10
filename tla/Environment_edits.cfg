SPECIFICATION Spec
CONSTANTS
    k1 = k1
    k2 = k2
    a = a
    s = s
    Braced = Braced
    Instances = {1, 2}
    Keys = {k1, k2}
    Values = {a, s, Braced}
    Templates <- MCTemplates
    UserEnvs <- MCUserEnvs
    NoInst = NoInst
    NoFile = NoFile
    MaxEdits = 1
    MaxFaults = 1
INVARIANTS
    IInv
    TypeOK
    DeriveIsReference
    FreshIsRight
    HealthIsTrue
PROPERTIES
    RederiveReachesAll
