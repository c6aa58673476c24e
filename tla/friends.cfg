SPECIFICATION Spec
CONSTANTS
    Ids = {1, 2}
    Tags = {1, 2}
    Statuses = {1}
    MaxFriends = 2
    Failing = TRUE
    Empties = {TRUE, FALSE}
    Garbage = {0, 2}
INVARIANTS LinesApart AnswerShown
PROPERTIES ImplementsBook
