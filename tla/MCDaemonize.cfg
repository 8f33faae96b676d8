\* One descriptor besides the standard streams; either program.
SPECIFICATION LaunchSpec
CONSTANTS
    MaxFd = 3
    FlagSets <- AllFlagSets
CHECK_DEADLOCK FALSE
INVARIANTS
    TypeOK
    Detached
    OneCarrier
    CleanDescriptors
    PerformsDetached
    PerformsClean
PROPERTIES
    Settles
