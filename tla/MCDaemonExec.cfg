SPECIFICATION FairSpec
CONSTANTS
    Daemons = {d1, d2}
    NoPid = NoPid
    SleepTime = 2
    MaxEdits = 2
CHECK_DEADLOCK FALSE
INVARIANTS
    TypeOK
    PidFileTruthful
    NoSpin
PROPERTIES
    HupServed
