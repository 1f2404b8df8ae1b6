CONSTANTS
    Lifetime = 20
    Backdate = 1
    RefreshMargin = 9
    MaxSkew = 1
    tHeartbeat = 2
    tJob = 1
    tInventory = 2
    tTelemetry = 1
    HandlerLife = 4
    Interval = 6
    MaxBackoff = 6
    InventoryInterval = 18
    InventoryRetry = 12
    Tenth = 6
SPECIFICATION Spec
INVARIANTS
    CertificateHonoured
    StopsForCause
    RetriedSoon
PROPERTIES
    NeverOlder
