\* One login whose sealing is cancelled: CommitOwned does not hold.
SPECIFICATION Spec
CONSTANTS
    Tab = {t1}
    NoTab = NoTab
    Legacy = Legacy
    Sync = Sync
    MaxMinted = 2
    MaxRevision = 1
PROPERTIES
    CommitOwned
