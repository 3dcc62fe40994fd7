SPECIFICATION RetLiveSpec
CONSTANTS
    Commands = {c1}
    Workers = {w1}
    Life = 1
    Retain = 1
    Never = Never
    MaxClock = 5
PROPERTIES
    ClosedEventuallyDeleted
