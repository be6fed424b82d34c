\* Two alerts with one key and one payload that does not parse.
CONSTANTS
    a1 = a1  a2 = a2  a3 = a3  a4 = a4
    k1 = k1  k2 = k2
    w1 = w1  w2 = w2
    Alerts = {a1, a2, a4}
    Keys = {k1, k2}
    KeyOf <- MCKeyOf
    Malformed = {a4}
    Workers = {w1}
    NoAlert = NoAlert
    Threshold = 1
    ResetTimeout = 0
    Window = 1
    CleanupInterval = 1
    MaxConcurrent = 1
    Events = {"processing_error", "shutdown"}
SPECIFICATION FairSpec
PROPERTIES AlertsSettle ShutdownHonoured
