SPECIFICATION LiveSpec
CONSTANTS
    LongTtl = 1
    a1 = a1
    a2 = a2
    e1 = e1
    e2 = e2
    o1 = o1
    o2 = o2
    o3 = o3
    m1 = m1
    f1 = f1
    p1 = p1
    Commands = {p1, m1}
    Accounts = {a1, a2}
    Engines = {e1}
    Workers = {w1}
    NoEngine = NoEngine
    KindOf <- MCKindOf
    AccountOf <- MCAccountOf
    Ttl <- MCTtl
    PollLimit = 1
    RunningEAs = {a2}
    FragileEngines = {}
    Refusals = {}
    MaxClock = 3
    MaxReports = 1
PROPERTIES
    ParkedEventuallyClosed
