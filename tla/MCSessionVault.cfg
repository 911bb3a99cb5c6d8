\* Two windows, three logins or fewer: a migrated or corrupt vault, then two
\* logins one after the other, each with a token refresh.  No symmetry: one of
\* the properties is liveness, under the fairness of FairSpec.
SPECIFICATION FairSpec
CONSTANTS
    Tab = {t1, t2}
    NoTab = NoTab
    Legacy = Legacy
    Sync = Sync
    MaxMinted = 3
    MaxRevision = 2
INVARIANTS
    ClientOwnsRecord
    NothingLeftBehind
PROPERTIES
    LiveStoreKept
    OneLineage
    PromiseKept
    LockReleased
