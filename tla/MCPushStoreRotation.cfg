\* The registry run with the one property the documents state and the code does not keep.
CONSTANTS
    DeliveryKeys = {d1, d2}
    ManagementKeys = {m1, m2}
    NoKey = NoKey
    Endpoints = {e1, e2}
    Keys = {k1}
    Challenges = {c1}
    Events = {}
    NoEvent = NoEvent
    Times = {0, 1}
    ChallengeTtl = 1
    StaleAfter = 1
    SubscriptionTtl = 1
    DeliveryTtl = 1
    CleanupLimit = 1
    MaxSubscriptions = 1
    MaxPending = 1
    MaxRevoked = 1
SPECIFICATION Spec
PROPERTIES EndpointChallenged
