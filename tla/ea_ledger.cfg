SPECIFICATION EASpec
CONSTANTS
    Signals = {s1, s2}
    Closing = {s2}
    Actionless = {}
    HeaderWidths = {1, 2, 3, 4}
    NoSignal = NoSignal
    MaxMishaps = 1
    MaxRows = 2
    MaxLosses = 1
INVARIANT LedgerPreventsDuplicates
