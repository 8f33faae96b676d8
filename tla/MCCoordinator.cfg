SPECIFICATION FairSpec
CONSTANTS
    Signals = {SIGINT, SIGTERM}
    MaxSignals = 3
CHECK_DEADLOCK FALSE
INVARIANTS
    TypeOK
    OneSignalSafe
    OrderlyShutdown
PROPERTIES
    SignalEnds
