SPECIFICATION Spec
CONSTANTS
    Ids = {1, 2}
    Tags = {1}
    Statuses <- OnOff
    MaxFriends = 2
    Failing = FALSE
    Empties = {TRUE}
    Garbage = {0}
INVARIANTS StatusIsOwn
