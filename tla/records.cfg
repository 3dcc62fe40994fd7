CONSTANTS
    Commands = {c1}
    Workers = {w1, w2}
    Life = 1
    Retain = 1
    Never = Never
    MaxClock = 6
    Licenses = {l1}
    Accounts = {a1, a2}
    Customers = {a1}
    Tokens = {t1, t2}
    Threads = {w1}
    NoOne = NoOne
    Ttl = 1
    Terms = {1, 3}
    MaxTime = 3
SPECIFICATION RecordsSpec
INVARIANTS
    RetTypeOK
    OrphansAreOld
    ClosingReportKept
    SesTypeOK
    SnapshotsAreOwn
PROPERTIES
    DeletedIsFinal
    DatedEventuallyDeleted
    BlockedIssuesNothingNew
    BeatenSessionsStay
    SilentSessionsEnd
    ImplementsTokenLifecycle
