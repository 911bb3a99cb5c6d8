\* Two enrolments that may share an endpoint, two overlapping calls, room for two
\* devices and one pending registration; one endpoint is no longer acceptable.
CONSTANTS
    d1 = d1
    d2 = d2
    m1 = m1
    m2 = m2
    DeliveryKeys = {d1, d2}
    ManagementKeys = {m1, m2}
    Owner <- Owners
    NoKey = NoKey
    Endpoints = {e1, e2, e3}
    Keys = {k1}
    Challenges = {i1, i2}
    Calls = {i1, i2}
    Events = {}
    Times = {0, 1, 2}
    ChallengeTtl = 1
    StaleAfter = 1
    SubscriptionTtl = 1
    DeliveryTtl = 1
    CleanupLimit = 1
    MaxSubscriptions = 2
    MaxPending = 1
    MaxRevoked = 1
    Distrusted = {e3}
    NoEvent = NoEvent
    NoValue = NoValue
    MaxClock = 1
SYMMETRY Symmetry
SPECIFICATION EnrolmentSpec
INVARIANTS
    RemovedForGood
PROPERTIES
    PendingKept
    RowsLeaveForCause
CHECK_DEADLOCK FALSE
