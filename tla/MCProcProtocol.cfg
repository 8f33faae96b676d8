SPECIFICATION ServerSpec
CONSTANTS
    Lines <- RequestLines
    MaxSends = 2
    BufLen = 12
    IntSize = 2
    CommandBufferLength = 7
    MaxTokenLength = 2
CHECK_DEADLOCK FALSE
INVARIANTS
    TypeOK
    WholeRequests
    LoginToldOnce
PROPERTIES
    AnswersRequest
    AuthAnswers
