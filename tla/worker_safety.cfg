\* Two alerts with one key, a third with another one, every event.
CONSTANTS
    a1 = a1  a2 = a2  a3 = a3  a4 = a4
    k1 = k1  k2 = k2
    w1 = w1  w2 = w2
    Alerts = {a1, a2, a3}
    Keys = {k1, k2}
    KeyOf <- MCKeyOf
    Malformed = {}
    Workers = {w1}
    NoAlert = NoAlert
    Threshold = 2
    ResetTimeout = 1
    Window = 2
    CleanupInterval = 1
    MaxConcurrent = 2
    Events = {"processing_error", "redis_error", "shutdown", "crash", "restart"}
SPECIFICATION Spec
INVARIANTS TypeOK AlertConserved SemaphoreConserved BreakerConsistent
PROPERTIES DedupExact BreakerGate DeliverySpec
