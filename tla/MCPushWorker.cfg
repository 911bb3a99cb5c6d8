\* Two accounts, one of them from before there were generations, and the pushes
\* of one handler at a time against two queued operations.  No symmetry:
\* liveness.
SPECIFICATION FairSpec
CONSTANTS
    Capability = {c1, c2}
    Legacy = {c1}
    None = None
    Push = {p1}
    MaxPosted = 2
INVARIANTS
    TypeOK
    NothingStale
PROPERTIES
    ShownForConfigured
    PushSettles
