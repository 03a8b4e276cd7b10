SPECIFICATION FairSpec
CONSTANTS
    Leader = sh
    Children = {k1, k2}
    MaxCalls = 2
INVARIANTS
    TypeOK
    GoneWhenReported
    LedStrangerSpared
PROPERTIES
    DeadGroupVanishes
\* The world may come to rest.
CHECK_DEADLOCK FALSE
