\* Three browsers compete for two places; no deliveries.
CONSTANTS
    DeliveryKeys = {d1, d2, d3}
    ManagementKeys = {m1, m2, m3}
    NoKey = NoKey
    Endpoints = {e1, e2, e3}
    Keys = {k1}
    Challenges = {c1, c2}
    Events = {}
    NoEvent = NoEvent
    Times = {0, 1, 2}
    ChallengeTtl = 1
    StaleAfter = 1
    SubscriptionTtl = 1
    DeliveryTtl = 1
    CleanupLimit = 1
    MaxSubscriptions = 2
    MaxPending = 2
    MaxRevoked = 2
SYMMETRY Symmetries
SPECIFICATION Spec
INVARIANTS RegistryConsistent NoResurrection CountersExact ErrorOnlyOnAdoption
PROPERTIES GrowsWithinCapacity OwnerKept ActivatedByChallenge
