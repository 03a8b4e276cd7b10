SPECIFICATION Spec
CONSTANTS
    k1 = k1
    k2 = k2
    a = a
    s = s
    Braced = Braced
    Instances = {1}
    Keys = {k1, k2}
    Values = {a, s, Braced}
    Templates <- MCEmpty
    UserEnvs <- MCUserEnvs
    NoInst = NoInst
    NoFile = NoFile
    MaxEdits = 0
    MaxFaults = 0
PROPERTIES
    SecondRunWritesNothing
