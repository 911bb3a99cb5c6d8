\* The same instance, with what recoverable leases promise the homeserver.
CONSTANTS
    DeliveryKeys = {d1}
    ManagementKeys = {m1}
    NoKey = NoKey
    Endpoints = {e1, e2}
    Keys = {k1}
    Challenges = {c1}
    Events = {x1}
    Times = {0, 1, 2, 3}
    ChallengeTtl = 1
    StaleAfter = 2
    SubscriptionTtl = 3
    DeliveryTtl = 3
    CleanupLimit = 1
    MaxSubscriptions = 1
    MaxPending = 1
    MaxRevoked = 1
    Requests = {r1, r2}
    Distrusted = {e2}
    NoEvent = NoEvent
    NoSnapshot = NoSnapshot
    MaxClock = 3
SYMMETRY RequestSymmetry
SPECIFICATION DeliverySpec
INVARIANTS AckedIsDelivered
CHECK_DEADLOCK FALSE
