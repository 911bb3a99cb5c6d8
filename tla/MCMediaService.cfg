\* Two operations that fetch two attachments or their posters and one that
\* uploads.  Reservations of one and two units, so that the byte bound refuses
\* what the queue has places for; room for two entries and one unit of content,
\* so that both limits of the cache evict.  No symmetry: liveness.
SPECIFICATION FairSpec
CONSTANTS
    Op = {o1, o2, o3}
    None = None
    MaxQueue = 2
    Capacity = 3
    MaxQueuedBytes = 2
    Uploads = {o3}
    k1 = k1
    k2 = k2
    a1 = a1
    a2 = a2
    Key = {k1, k2}
    Alias = {a1, a2}
    AliasOf <- AliasOfKeys
    Size = {1}
    DecodedBytes = 2
    MaxCacheBytes = 1
    MaxEntries = 2
INVARIANTS
    GateSound
    CacheSound
    UrlsAccounted
PROPERTIES
    NothingOutdated
    CallsReturn
