SPECIFICATION Spec
CONSTANTS
    NFields = 3
    BootCheck = {"none"}
    BootFlags = {FALSE}
    BootReady = {FALSE}
    BootB = {0}
    OpenResults = {TRUE}
    PostsMayFail = TRUE
    Answers = {"yes"}
    MaxTags = 2
    MaxForms = 1
    MaxSessions = 2
INVARIANTS TypeOK FileFollowsB TwiceOnlyByRace
PROPERTIES OnlyUploadedFileErased UploadedOnce ImplementsStore TornOnlyByCut
CHECK_DEADLOCK FALSE
