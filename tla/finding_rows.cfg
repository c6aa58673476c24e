SPECIFICATION Spec
CONSTANTS
    NFields = 3
    BootCheck = {"none"}
    BootFlags = {FALSE}
    BootReady = {FALSE}
    BootB = {0}
    OpenResults = {TRUE}
    PostsMayFail = FALSE
    Answers = {"yes"}
    MaxTags = 2
    MaxForms = 2
    MaxSessions = 1
INVARIANT RowsAreTags
CHECK_DEADLOCK FALSE
