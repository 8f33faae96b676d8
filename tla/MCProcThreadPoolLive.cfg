SPECIFICATION FairSpec
CONSTANTS
    Handlers = {h1, h2}
    Workers = {w1, w2}
    Null = Null
    FragmentLimit = 1
    AllocMayFail = FALSE
CHECK_DEADLOCK FALSE
PROPERTIES
    RequestServed
    StopTerminates
