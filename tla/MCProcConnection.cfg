SPECIFICATION FairSpec
CONSTANTS
    Handlers = {h1, h2}
    Null = Null
    FragmentLimit = 2
CHECK_DEADLOCK FALSE
INVARIANTS
    TypeOK
    OpenOutlived
    OneThreadEach
PROPERTIES
    ImplementsService
    InputTaken
