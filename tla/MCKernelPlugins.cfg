SPECIFICATION Spec
CONSTANTS
    Configs = {"kafka", "kafka_link", "metrics"}
    Libs = {"kafka", "metrics"}
    LibOf <- MCLibOf
    Addresses = {a1, a2, a3}
    None = None
    MaxLoads = 3
    MaxList = 4
SYMMETRY AddressSymmetry
CHECK_DEADLOCK FALSE
INVARIANTS
    TypeOK
    CodeMapped
    LiveOnlyLoaded
    IntactUntilUnload
