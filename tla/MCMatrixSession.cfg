SPECIFICATION FairSpec
CONSTANTS
    Tombstone = Tombstone
    Foreign = Foreign
    MaxIssued = 2
INVARIANTS
    CredentialsAccounted
    LogoutIsHonest
    ClientHoldsVault
    OnlyLastAtRisk
PROPERTIES
    NoResurrection
    LockReleased
