SPECIFICATION EALiveSpec
CONSTANTS
    Signals = {s1, s2}
    Closing = {s2}
    Actionless = {}
    HeaderWidths = {1}
    NoSignal = NoSignal
    MaxMishaps = 2
    MaxRows = 2
    MaxLosses = 1
INVARIANTS
    EATypeOK
    AtMostOncePerLapse
PROPERTIES
    HeadIsProcessed
