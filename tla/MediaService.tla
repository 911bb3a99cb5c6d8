---------------------------- MODULE MediaService ----------------------------
(***************************************************************************)
(* Attachments in MatrixClientService (client.ts): downloads, posters of   *)
(* animated images and uploads, which take turns at the gate, and the      *)
(* cache of downloads and posters with its object URLs.                    *)
(*                                                                         *)
(* An operation is one call of getMediaAsset, getGifPoster, sendFile or    *)
(* updateProfile with an avatar.  Each step is what runs between two       *)
(* waits; between them any other operation, an invalidation or a stop may  *)
(* come.  Bytes are small numbers, and which settled entry is the oldest   *)
(* one is left open.                                                       *)
(***************************************************************************)
EXTENDS MediaGate

CONSTANTS
    Uploads,        \* the operations that upload, the others fetch
    Key,            \* cache keys of downloads
    Alias,          \* attachments, as the application names them
    AliasOf,        \* the attachment of each key
    Size,           \* sizes of files, downloads and posters
    DecodedBytes,   \* what drawing a poster reserves
    MaxCacheBytes, MaxEntries

ASSUME UploadsAssumption == Uploads \subseteq Op
ASSUME KeyAssumption == IsFiniteSet(Key) /\ Key # {}
ASSUME AliasAssumption == AliasOf \in [Key -> Alias]
ASSUME SizeAssumption ==
    /\ Size \subseteq 1..MaxCacheBytes /\ DecodedBytes \in Nat
    /\ MaxCacheBytes \in Nat /\ MaxEntries \in Nat \ {0}
(* The gate admits four calls and the cache has 96 places: more calls than *)
(* places never fetch at the same time.                                    *)
ASSUME RoomAssumption == Cardinality(Op \ Uploads) <= MaxEntries

VARIABLES
    ops,            \* ops[o]: where an operation is
    cache,          \* mediaAssets and gifPosters
    cacheBytes,     \* mediaCacheBytes
    aliased,        \* keys that mediaAliases knows
    live            \* object URLs not revoked

vars == <<gate, ops, cache, cacheBytes, aliased, live>>

Slot == {"asset", "poster"} \X Key

(* An entry names the operation that inserted it. *)
Entry == [by : Op, settled : BOOLEAN, bytes : Nat, url : BOOLEAN]
ASSUME EntryAssumption == None \notin Entry

Pending(o) == [by |-> o, settled |-> FALSE, bytes |-> 0, url |-> FALSE]

(* An operation asks for the lease; a download is then loading, loaded or  *)
(* failed and an upload sending.  A call for a poster goes on with the     *)
(* asset and no lease (posing), asks again and draws (drawing), and has a  *)
(* picture (drawn), none (blank) or an error (undrawn).  It is current     *)
(* while no invalidation has come since the call.                          *)
Holding == {"loading", "loaded", "failed", "sending"}

AnyKey == CHOOSE k \in Key : TRUE
Idle == [at |-> "idle", kind |-> "asset", key |-> AnyKey, current |-> FALSE]

Init ==
    /\ GateInit
    /\ ops = [o \in Op |-> Idle]
    /\ cache = [s \in Slot |-> None] /\ cacheBytes = 0
    /\ aliased = {}
    /\ live = {}

Go(o, place) == ops' = [ops EXCEPT ![o].at = place]
Return(o) == ops' = [ops EXCEPT ![o] = Idle]

-----------------------------------------------------------------------------
(* The cache. *)

Present(c) == {s \in Slot : c[s] # None}
SettledIn(c) == {s \in Present(c) : c[s].settled}
BytesOf(c) == Cardinality(UNION {{s} \X (1..c[s].bytes) : s \in SettledIn(c)})
Without(c, slots) == [s \in Slot |-> IF s \in slots THEN None ELSE c[s]]

Url(s, o) == <<s, o>>

(* The entry an operation inserted is still there. *)
SlotOf(o) ==
    <<IF ops[o].at \in {"loading", "loaded", "failed"} THEN "asset" ELSE "poster", ops[o].key>>
Own(o) == cache[SlotOf(o)] # None /\ cache[SlotOf(o)].by = o

UrlsOf(c, slots) == {Url(s, c[s].by) : s \in {t \in slots : c[t].url}}

\* Faulty variant: only what has settled has a value to revoke.
RevokedSettled(c, slots) == UrlsOf(c, {t \in slots : c[t].settled})

(* What is released loses its URL, also one that its loader has not        *)
(* recorded yet: the promise's value is revoked when it comes.             *)
Revoked(c, slots) == UrlsOf(c, slots)

(* Only settled entries were counted. *)
Freed(c, slots) == BytesOf([s \in Slot |-> IF s \in slots THEN c[s] ELSE None])

Keys(slots) == {s[2] : s \in {t \in slots : t[1] = "asset"}}

(* The cache becomes c, with the entries in fresh new, those in gone       *)
(* released and so many bytes more.                                        *)
Rewrite(c, fresh, gone, more) ==
    /\ cache' = Without(c, gone)
    /\ cacheBytes' = Less(cacheBytes + more, Freed(c, gone))
    /\ live' = live \ Revoked(c, gone)
    /\ aliased' = (aliased \union Keys(fresh)) \ Keys(gone)

Fits(c) == BytesOf(c) <= MaxCacheBytes /\ Cardinality(Present(c)) <= MaxEntries

(* What evictMediaCache may remove: one settled entry after the other, not *)
(* the one that has just settled, until the rest fits.                     *)
Evictions(c, keep) ==
    LET candidates == SettledIn(c) \ {keep} IN
    {E \in SUBSET candidates :
        /\ Fits(Without(c, E)) \/ E = candidates
        /\ E # {} => \E last \in E : ~Fits(Without(c, E \ {last}))}

(* What ensureMediaCacheSlot removes to make room for one more. *)
Rooms ==
    IF Cardinality(Present(cache)) < MaxEntries THEN {{}}
    ELSE {{s} : s \in SettledIn(cache)}

Insert(o, s) ==
    \E evicted \in Rooms :
        Rewrite([cache EXCEPT ![s] = Pending(o)], {s}, evicted, 0)

(* The content has arrived, and a URL for it, unless there is none. *)
Record(o, s, url) ==
    /\ cache' = [cache EXCEPT ![s].url = url]
    /\ live' = IF url THEN live \union {Url(s, o)} ELSE live
    /\ UNCHANGED <<cacheBytes, aliased>>

(* An operation settles its entry with what it has loaded or drawn. *)
Keep(o, bytes) ==
    LET s == SlotOf(o)
        settled == [cache EXCEPT ![s].settled = TRUE, ![s].bytes = bytes]
    IN  \E E \in Evictions(settled, s) : Rewrite(settled, {}, E, bytes)

\* Faulty variant: the entry of a failed operation stays.
DropNothing(o) == UNCHANGED <<cache, cacheBytes, aliased, live>>

(* An operation that ends in an error removes the entry that is its own.   *)
Drop(o) == Rewrite(cache, {}, IF Own(o) THEN {SlotOf(o)} ELSE {}, 0)

cached == <<cache, cacheBytes, aliased, live>>

-----------------------------------------------------------------------------
(* Downloads. *)

Ask(o) ==
    /\ ops[o].at = "idle" /\ o \notin Uploads
    /\ \E kind \in {"asset", "poster"}, key \in Key, bytes \in Size :
          /\ Acquire(o, bytes)
          /\ ops' = [ops EXCEPT ![o] =
                [at |-> "asking", kind |-> kind, key |-> key, current |-> TRUE]]
    /\ UNCHANGED cached

AskUpload(o) ==
    /\ ops[o].at = "idle" /\ o \in Uploads
    /\ \E bytes \in Size : Acquire(o, bytes)
    /\ Go(o, "asking")
    /\ UNCHANGED cached

(* The gate dropped the request: the call ends in an error. *)
Rejected(o) ==
    /\ ops[o].at = "asking"
    /\ active # o /\ o \notin Queued
    /\ Return(o)
    /\ UNCHANGED <<gate, cached>>

Granted(o) == ops[o].at = "asking" /\ active = o /\ o \notin Uploads

Alive(o) == ~closed /\ o \notin aborted /\ ops[o].current

Stale(o) ==
    /\ Granted(o)
    /\ ~Alive(o)
    /\ Release(o)
    /\ Return(o)
    /\ UNCHANGED cached

(* After the asset, a poster is still to be drawn. *)
Delivered(o) == IF ops[o].kind = "poster" THEN Go(o, "posing") ELSE Return(o)

Found(o) ==
    /\ Granted(o) /\ Alive(o)
    /\ cache[<<"asset", ops[o].key>>] # None
    /\ cache[<<"asset", ops[o].key>>].settled
    /\ Release(o)
    /\ Delivered(o)
    /\ UNCHANGED cached

BeginLoad(o) ==
    /\ Granted(o) /\ Alive(o)
    /\ cache[<<"asset", ops[o].key>>] = None
    /\ Insert(o, <<"asset", ops[o].key>>)
    /\ Go(o, "loading")
    /\ UNCHANGED gate

(* Fetched within its deadline, decrypted and found safe.  The download's  *)
(* signal is that of the lease and of the entry.                           *)
Load(o) ==
    /\ ops[o].at = "loading"
    /\ Own(o) /\ o \notin aborted
    /\ Record(o, SlotOf(o), TRUE)
    /\ Go(o, "loaded")
    /\ UNCHANGED gate

LoadFails(o) ==
    /\ ops[o].at = "loading"
    /\ Go(o, "failed")
    /\ UNCHANGED <<gate, cached>>

\* Faulty variant: an invalidation during the download is not noticed.
SettleAnyAsset(o) ==
    /\ ops[o].at = "loaded"
    /\ ~closed /\ o \notin aborted
    /\ \E bytes \in Size : IF Own(o) THEN Keep(o, bytes) ELSE UNCHANGED cached
    /\ Release(o)
    /\ Delivered(o)

SettleAsset(o) ==
    /\ ops[o].at = "loaded"
    /\ Alive(o)
    /\ \E bytes \in Size : IF Own(o) THEN Keep(o, bytes) ELSE UNCHANGED cached
    /\ Release(o)
    /\ Delivered(o)

AssetFails(o) ==
    /\ \/ ops[o].at = "failed"
       \/ ops[o].at = "loaded" /\ ~Alive(o)
    /\ Drop(o)
    /\ Release(o)
    /\ Return(o)

(* Uploads learn the homeserver's limit, prepare, encrypt, upload and send *)
(* under the lease; an abort is noticed at the next of these.              *)
Limit(o) ==
    /\ ops[o].at = "asking" /\ o \in Uploads
    /\ active = o /\ ~closed /\ o \notin aborted
    /\ Go(o, "sending")
    /\ UNCHANGED <<gate, cached>>

Send(o) ==
    /\ ops[o].at = "sending"
    /\ ~closed /\ o \notin aborted
    /\ Release(o)
    /\ Return(o)
    /\ UNCHANGED cached

UploadFails(o) ==
    /\ o \in Uploads
    /\ Release(o)
    /\ Return(o)
    /\ UNCHANGED cached

-----------------------------------------------------------------------------
(* Posters: the first frame, drawn after the lease of the download went.   *)

Posing(o) == ops[o].at = "posing" /\ ~closed /\ ops[o].current

(* Another call's poster is there or being drawn: its outcome is this one's. *)
NoPoster(o) ==
    /\ ops[o].at = "posing"
    /\ ~Posing(o) \/ cache[SlotOf(o)] # None
    /\ Return(o)
    /\ UNCHANGED <<gate, cached>>

(* The entry is inserted, and the gate asked, which may refuse at once. *)
BeginDraw(o) ==
    /\ Posing(o)
    /\ cache[SlotOf(o)] = None
    /\ Insert(o, SlotOf(o))
    /\ Go(o, "drawing")
    /\ IF Admitted(DecodedBytes) THEN Acquire(o, DecodedBytes) ELSE UNCHANGED gate

DrawRejected(o) ==
    /\ ops[o].at = "drawing"
    /\ active # o /\ o \notin Queued
    /\ Go(o, "undrawn")
    /\ UNCHANGED <<gate, cached>>

Draw(o) ==
    /\ ops[o].at = "drawing"
    /\ Own(o) /\ ~closed /\ o \notin aborted
    /\ Release(o)
    /\ \/ Go(o, "drawn") /\ Record(o, SlotOf(o), TRUE)
       \/ Go(o, "blank") /\ UNCHANGED cached

DrawFails(o) ==
    /\ ops[o].at = "drawing"
    /\ Release(o)
    /\ Go(o, "undrawn")
    /\ UNCHANGED cached

SettlePoster(o) ==
    /\ ops[o].at \in {"drawn", "blank"}
    /\ ~closed /\ ops[o].current
    /\ IF Own(o) THEN \E bytes \in IF ops[o].at = "blank" THEN {0} ELSE Size : Keep(o, bytes)
       ELSE UNCHANGED cached
    /\ Return(o)
    /\ UNCHANGED gate

PosterFails(o) ==
    /\ \/ ops[o].at = "undrawn"
       \/ ops[o].at \in {"drawn", "blank"} /\ (closed \/ ~ops[o].current)
    /\ Drop(o)
    /\ Return(o)
    /\ UNCHANGED gate

-----------------------------------------------------------------------------
(* The application. *)

(* The user cancels an upload; a poster's thirty seconds are over. *)
Cancel(o) ==
    /\ active = o \/ o \in Queued
    /\ o \notin aborted
    /\ ops[o].at = "drawing" \/ o \in Uploads
    /\ Abort({o})
    /\ UNCHANGED <<ops, cached>>

(* A retry: nothing of this attachment is reused, and no call that is      *)
(* under way succeeds.                                                     *)
Invalidate(a) ==
    LET gone == {s \in Present(cache) : AliasOf[s[2]] = a
                                          /\ (s[1] = "asset" => s[2] \in aliased)}
        drawing == {o \in Op : ops[o].at = "drawing" /\ Own(o) /\ SlotOf(o) \in gone}
    IN  /\ ops' = [o \in Op |-> [ops[o] EXCEPT !.current = FALSE]]
        /\ Rewrite(cache, {}, gone, 0)
        /\ Abort(drawing)

Stop ==
    /\ ~closed
    /\ Close
    /\ cache' = [s \in Slot |-> None]
    /\ cacheBytes' = 0
    /\ live' = live \ Revoked(cache, Present(cache))
    /\ aliased' = {}
    /\ UNCHANGED ops

-----------------------------------------------------------------------------
(* What an operation does next, when what it waits for has come. *)
Step(o) ==
    \/ Rejected(o) \/ Stale(o) \/ Found(o)
    \/ BeginLoad(o) \/ Load(o) \/ LoadFails(o) \/ SettleAsset(o) \/ AssetFails(o)
    \/ Limit(o) \/ Send(o) \/ UploadFails(o)
    \/ NoPoster(o) \/ BeginDraw(o) \/ DrawRejected(o) \/ Draw(o) \/ DrawFails(o)
    \/ SettlePoster(o) \/ PosterFails(o)

Next ==
    \/ \E o \in Op : Ask(o) \/ AskUpload(o) \/ Step(o) \/ Cancel(o)
    \/ \E a \in Alias : Invalidate(a)
    \/ Stop

Spec == Init /\ [][Next]_vars

(* Downloads and drawing have deadlines, and what an upload awaits settles. *)
FairSpec == Spec /\ \A o \in Op : WF_vars(Step(o))

-----------------------------------------------------------------------------
(* The lease is held by whoever does the heavy work, and by nobody who has *)
(* ended: never two downloads, drawings or uploads at a time, and never a  *)
(* gate closed by a lease that was forgotten.  The counts of the gate are  *)
(* right whatever order its operations came in.                            *)
GateSound ==
    /\ GateCounts
    /\ active # None => ops[active].at \in Holding \union {"asking", "drawing"}
    /\ \A o \in Queued : ops[o].at \in {"asking", "drawing"}
    /\ \A o \in Op : ops[o].at \in Holding => active = o

(* A call that is about to insert an entry finds room for it, or something *)
(* it may evict: what fails, is invalidated or gives up never leaves the   *)
(* cache full of entries that nobody will settle.                          *)
RoomFound ==
    \A o \in Op :
        \/ Granted(o) /\ Alive(o) /\ cache[<<"asset", ops[o].key>>] = None
        \/ Posing(o) /\ cache[SlotOf(o)] = None
        => Rooms # {}

(* The byte count is that of the settled entries and within the limit, the *)
(* number of entries too; an attachment's downloads can all be found to be *)
(* invalidated; and an entry that has not settled is some running          *)
(* operation's: no other one could ever be evicted.  There is always room. *)
CacheSound ==
    /\ cacheBytes = BytesOf(cache) /\ Fits(cache)
    /\ aliased = Keys(Present(cache))
    /\ \A s \in Present(cache) \ SettledIn(cache) : SlotOf(cache[s].by) = s
                                  /\ ops[cache[s].by].at \notin {"idle", "asking", "posing"}
    /\ RoomFound

(* An object URL lives exactly as long as its entry: none is left behind   *)
(* by an eviction, an invalidation, a failure or the stop, and none is     *)
(* revoked while the cache would still hand it out.                        *)
UrlsAccounted == live = UrlsOf(cache, Present(cache))

(* After a retry the cache keeps nothing whose call began before it, also  *)
(* when the invalidation came while the content was on its way.            *)
NothingOutdated ==
    [][\A s \in Slot :
          LET e == cache'[s] IN
          e # None /\ e.settled /\ (cache[s] = None \/ ~cache[s].settled)
             => ops[e.by].current]_vars

(* Every call returns: what is queued is granted its turn or rejected, and *)
(* no operation waits for one that waits for it, provided downloads,       *)
(* drawing and uploads end.                                                *)
CallsReturn == \A o \in Op : ops[o].at # "idle" ~> ops[o].at = "idle"
=============================================================================
