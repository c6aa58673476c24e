SPECIFICATION Spec
CONSTANTS
    NFields = 3
    BootCheck = {"none", "yes", "no"}
    BootFlags = {TRUE, FALSE}
    BootReady = {FALSE, TRUE}
    BootB <- AnyB
    OpenResults = {TRUE, FALSE}
    PostsMayFail = FALSE
    Answers = {"yes", "no"}
    MaxTags = 1
    MaxForms = 3
    MaxSessions = 1
INVARIANTS DumpSeesStableFile BackgroundReportedOffline
PROPERTY ReportsOnlineOnce
CHECK_DEADLOCK FALSE
