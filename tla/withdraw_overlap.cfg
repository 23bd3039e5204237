\* Nothing fails, and two calls read the config row before one writes it.
SPECIFICATION OverlapSpec
CONSTANTS
    s1 = s1
    s2 = s2
    v1 = v1
    v2 = v2
    Senders = {s1, s2}
    Verifiers = {v1}
    LastTxn = 2
    Amount <- OneAndFive
    Resettable = {}
    MaxApiFaults = 0
    MaxDbFaults = 0
    MaxCrashes = 0
INVARIANT PaidAtMostOnce
