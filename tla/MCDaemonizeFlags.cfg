SPECIFICATION LaunchSpec
CONSTANTS
    MaxFd = 3
    FlagSets <- AllFlagSets
CHECK_DEADLOCK FALSE
PROPERTIES
    SettlesWithAnyFlags
