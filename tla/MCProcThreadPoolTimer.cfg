SPECIFICATION Spec
CONSTANTS
    Handlers = {h1, h2}
    Workers = {w1, w2}
    Null = Null
    FragmentLimit = 1
    AllocMayFail = TRUE
SYMMETRY PoolSymmetry
CHECK_DEADLOCK FALSE
INVARIANT
    TimerSurvives
