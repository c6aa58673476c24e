SPECIFICATION FairSpec
CONSTANTS
    NFields = 3
    BootCheck = {"none"}
    BootFlags = {FALSE}
    BootReady = {FALSE}
    BootB = {0}
    OpenResults = {TRUE}
    PostsMayFail = FALSE
    Answers = {"yes"}
    MaxTags = 2
    MaxForms = 1
    MaxSessions = 1
PROPERTIES FormsDrain PendingUploadHappens SignsIn
CHECK_DEADLOCK FALSE
