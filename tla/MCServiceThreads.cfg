\* A buffer and a queue of two events, so that a third is read on its own or lost.
SPECIFICATION FairSpec
CONSTANTS
    MaxEvents = 3
    BufferEvents = 2
    MaxQueued = 2
CHECK_DEADLOCK FALSE
INVARIANTS
    TypeOK
    CreationsReported
PROPERTIES
    ShutdownEnds
    StopsOnEvent
