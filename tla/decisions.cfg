CONSTANTS
    t1 = t1
    t2 = t2
    c1 = c1
    cpi = cpi
    undated = undated
    talk = talk
    NoValue = NoValue
    Tickets = {t1, t2}
    Plan <- MCPlan
    NoLevel = NoValue
    Fee = 1
    Prices <- MCPrices
    Candidates = {c1}
    Events = {cpi, undated, talk}
    When <- MCWhen
    NoTime = NoValue
    Impact <- MCImpact
    Hour = 2
    Week = 9
    Settings <- MCSettings
    MaxClock = 4
    Timeframes = 2
    Retry = 3
    Attempts = 2
SPECIFICATION MCSpec
INVARIANTS
    GateTypeOK
    OpensReviewed
    SupTypeOK
    ClosesAreContradicted
    MovesStayBehindPrice
    FeedTypeOK
    ErrorIsOfLastAnswer
PROPERTIES
    ReviewsEnd
    ContradictedEnd
    WineRecovers
