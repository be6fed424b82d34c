\* Two replicas, the dashboards of two tenants, one payload that does not parse.
CONSTANTS
    a1 = a1  a2 = a2  a4 = a4
    k1 = k1  k2 = k2
    t1 = t1  t2 = t2
    f1 = f1  f2 = f2
    Alerts = {a1, a2, a4}
    Keys = {k1, k2}
    KeyOf <- MCKeyOf
    Malformed = {a4}
    Workers = {w1, w2}
    NoAlert = NoAlert
    Threshold = 1
    ResetTimeout = 0
    Window = 1
    CleanupInterval = 0
    MaxConcurrent = 1
    Events = {}
    Feeds = {f1, f2}
    Tenants = {t1, t2}
    TenantOf <- MCTenantOf
    SubscribedTo <- MCSubscribedTo
SPECIFICATION FeedSpec
SYMMETRY MCSymmetry
INVARIANTS FeedTypeOK FeedConserved TenantIsolation
PROPERTIES DeliverySpec
