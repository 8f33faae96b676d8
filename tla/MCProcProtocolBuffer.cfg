SPECIFICATION ServerSpec
CONSTANTS
    Lines <- LoginLines
    MaxSends = 1
    BufLen = 12
    IntSize = 2
    CommandBufferLength = 7
    MaxTokenLength = 2
CHECK_DEADLOCK FALSE
INVARIANTS
    TextAsReceived
