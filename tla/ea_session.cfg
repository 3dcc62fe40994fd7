SPECIFICATION EALiveSpec
CONSTANTS
    Signals = {s1, s2}
    Closing = {}
    Actionless = {s2}
    HeaderWidths = {1}
    NoSignal = NoSignal
    MaxMishaps = 1
    MaxRows = 1
    MaxLosses = 1
PROPERTY
    RefusedTokenIsReplaced
