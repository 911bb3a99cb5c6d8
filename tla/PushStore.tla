----------------------------- MODULE PushStore -----------------------------
(***************************************************************************)
(* The push gateway's PostgreSQL tables and the stored procedures and      *)
(* statements of lib/push-repository.ts that change them.  Each action is  *)
(* one statement sent by the server: begin, confirm and delete hold the    *)
(* push_gateway_state row for their whole transaction, the others are      *)
(* single statements, so every action here is atomic in the database.      *)
(*                                                                         *)
(* Nothing is assumed of the callers: they pass any capability, endpoint   *)
(* or snapshot and the time of their own clock, in any order.  Modules     *)
(* about the server's handlers extend this one and restrict the calls.     *)
(*                                                                         *)
(* A table is a set of records.  endpoint and keys stand for the columns   *)
(* endpoint and (p256dh, auth).  The rate-limit columns are left out (a    *)
(* limit may refuse at any time); created_at and last_success_at are read  *)
(* by nothing.                                                             *)
(***************************************************************************)
EXTENDS Integers, FiniteSets

CONSTANTS
    DeliveryKeys,       \* hashes of the capability the homeserver holds
    ManagementKeys,     \* hashes of the capability only the browser holds
    NoKey,              \* NULL in management_key_hash: a row from before 0001
    Endpoints,          \* Web Push endpoint URLs
    Keys,               \* (p256dh, auth) pairs
    Challenges,         \* hashes of confirmation challenges
    Events,             \* Matrix event ids
    NoEvent,            \* NULL for p_event_id: a test has no delivery record
    Times,              \* the values of p_now, in epoch seconds
    ChallengeTtl,       \* REGISTRATION_CHALLENGE_SECONDS
    StaleAfter,         \* PENDING_DELIVERY_TIMEOUT_SECONDS
    SubscriptionTtl,    \* STALE_SUBSCRIPTION_SECONDS
    DeliveryTtl,        \* DELIVERY_RETENTION_SECONDS
    CleanupLimit,       \* STALE_CLEANUP_BATCH
    MaxSubscriptions,   \* p_maximum_subscriptions
    MaxPending,         \* p_maximum_pending_subscriptions
    MaxRevoked          \* p_maximum_revoked_management_keys

ASSUME KeyAssumption == NoKey \notin ManagementKeys
ASSUME EventAssumption == NoEvent \notin Events
ASSUME TimeAssumption ==
    /\ Times \subseteq Nat
    /\ ChallengeTtl \in Nat
    /\ StaleAfter \in Nat
    /\ SubscriptionTtl \in Nat
    /\ DeliveryTtl \in Nat
ASSUME LimitAssumption ==
    /\ CleanupLimit \in Nat
    /\ MaxSubscriptions \in Nat
    /\ MaxPending \in Nat
    /\ MaxRevoked \in Nat \ {0}

VARIABLES
    subs,           \* push_subscriptions
    pending,        \* push_pending_subscriptions
    revoked,        \* push_revoked_management_keys, the tombstones
    subCount,       \* push_gateway_state.subscription_count
    revokedCount,   \* push_gateway_state.revoked_management_key_count
    revokedLimit,   \* push_gateway_state.revoked_management_key_limit
    deliveries,     \* push_deliveries
    reply           \* what the last statement returned

registry == <<subs, pending, subCount>>
tombstones == <<revoked, revokedCount, revokedLimit>>
storeVars == <<subs, pending, revoked, subCount, revokedCount, revokedLimit,
               deliveries, reply>>

Null == -1   \* NULL in revoked_management_key_limit

Subscription ==
    [delivery: DeliveryKeys, mgmt: ManagementKeys \union {NoKey},
     endpoint: Endpoints, keys: Keys, updatedAt: Nat]
Pending ==
    [mgmt: ManagementKeys, delivery: DeliveryKeys, challenge: Challenges,
     endpoint: Endpoints, keys: Keys, expiresAt: Nat]
Delivery ==
    [delivery: DeliveryKeys, event: Events, status: {"pending", "sent"},
     updatedAt: Nat]
Reply ==
    [op: {"none", "begin", "confirm", "cancel", "delete", "drop", "cleanup",
          "claim", "reclaim", "mark", "release", "purge"},
     outcome: {"none", "revoked", "management_conflict", "error", "active",
               "capacity_exceeded", "pending_capacity_exceeded",
               "challenge_required", "invalid_challenge", "expired_challenge",
               "created", "reassigned", "removed", "not_found", "true", "false"}]

TypeOK ==
    /\ subs \subseteq Subscription
    /\ pending \subseteq Pending
    /\ revoked \subseteq ManagementKeys
    /\ subCount \in Nat
    /\ revokedCount \in Nat
    /\ revokedLimit \in Nat \union {Null}
    /\ deliveries \subseteq Delivery
    /\ reply \in Reply

Replies(op, outcome) == reply' = [op |-> op, outcome |-> outcome]

RowsOf(d) == {s \in subs : s.delivery = d}
ManagedBy(m) == {s \in subs : s.mgmt = m}

\* The rows another delivery key holds for the endpoint.
HoldersOf(e, d) == {s \in subs : s.endpoint = e /\ s.delivery # d}

\* Faulty variant: a trigger that fires once per statement.
DecrementPerStatement(count, n) == IF count = 0 THEN 0 ELSE count - 1

\* The trigger on push_subscriptions, after n rows were deleted.
Decrement(count, n) == IF n > count THEN 0 ELSE count - n

DeliveriesFor(rows) ==
    {x \in deliveries : \E s \in rows : s.delivery = x.delivery}

\* The unique indexes of push_subscriptions.  NULLs do not collide.
UniqueRows(rows) ==
    \A s, t \in rows :
        \/ s.delivery = t.delivery
        \/ s.endpoint = t.endpoint
        \/ s.mgmt = t.mgmt /\ s.mgmt # NoKey
        => s = t

-----------------------------------------------------------------------------
(* The state the migrations leave: subscriptions registered before they    *)
(* ran have no management key, at most one per endpoint, and the counters  *)
(* are computed from the tables.                                           *)

Init ==
    /\ subs \in SUBSET [delivery: DeliveryKeys, mgmt: {NoKey},
                        endpoint: Endpoints, keys: Keys, updatedAt: {0}]
    /\ UniqueRows(subs)
    /\ IsFiniteSet(subs)
    /\ subCount = Cardinality(subs)
    /\ pending = {}
    /\ revoked = {}
    /\ revokedCount = 0
    /\ revokedLimit \in {Null, MaxRevoked}
    /\ deliveries = {}
    /\ reply = [op |-> "none", outcome |-> "none"]

-----------------------------------------------------------------------------
(* subetha_begin_push_subscription_registration *)

Unexpired(now) == {p \in pending : p.expiresAt > now}

\* Faulty variant: a row that has an owner is not protected.
MismatchUnownedOnly(s, m, e, k) == s.mgmt = NoKey /\ (s.endpoint # e \/ s.keys # k)

\* The caller may not touch the row that holds its delivery key: another
\* capability manages it, or nobody does and the material differs.
Mismatch(s, m, e, k) ==
    \/ s.mgmt # NoKey /\ s.mgmt # m
    \/ s.mgmt = NoKey /\ (s.endpoint # e \/ s.keys # k)

\* Faulty variant: forgets the registration under the same management key.
SupersededByName(d, m, e) == {p \in pending : p.delivery = d \/ p.endpoint = e}

\* The pending rows a registration replaces.
Superseded(d, m, e) ==
    {p \in pending : p.delivery = d \/ p.mgmt = m \/ p.endpoint = e}

BeginRevoked(m, now) ==
    /\ m \in revoked
    /\ pending' = Unexpired(now)
    /\ Replies("begin", "revoked")
    /\ UNCHANGED <<subs, subCount, deliveries, tombstones>>

BeginConflict(d, m, e, k, now) ==
    /\ m \notin revoked
    /\ \/ \E s \in RowsOf(d) : Mismatch(s, m, e, k)
       \/ RowsOf(d) = {} /\ ManagedBy(m) # {}
    /\ pending' = Unexpired(now)
    /\ Replies("begin", "management_conflict")
    /\ UNCHANGED <<subs, subCount, deliveries, tombstones>>

\* Faulty variant: the previous holder of the endpoint stays.
RotatedOver(d, m, e, k, now) ==
    (subs \ RowsOf(d))
        \union {[delivery |-> d, mgmt |-> m, endpoint |-> e, keys |-> k,
                 updatedAt |-> now]}

\* The table after the holder of d moved to endpoint e.
Rotated(d, m, e, k, now) ==
    (subs \ (RowsOf(d) \union HoldersOf(e, d)))
        \union {[delivery |-> d, mgmt |-> m, endpoint |-> e, keys |-> k,
                 updatedAt |-> now]}

BeginActive(d, m, e, k, now) ==
    /\ m \notin revoked
    /\ RowsOf(d) # {}
    /\ \A s \in RowsOf(d) : ~Mismatch(s, m, e, k)
    /\ UniqueRows(Rotated(d, m, e, k, now))
    /\ subs' = Rotated(d, m, e, k, now)
    /\ subCount' = Decrement(subCount, Cardinality(HoldersOf(e, d)))
    /\ deliveries' = deliveries \ DeliveriesFor(HoldersOf(e, d))
    /\ pending' = Unexpired(now) \ Superseded(d, m, e)
    /\ Replies("begin", "active")
    /\ UNCHANGED tombstones

\* A unique index refuses the UPDATE and the transaction rolls back.
BeginCollides(d, m, e, k, now) ==
    /\ m \notin revoked
    /\ RowsOf(d) # {}
    /\ \A s \in RowsOf(d) : ~Mismatch(s, m, e, k)
    /\ ~UniqueRows(Rotated(d, m, e, k, now))
    /\ Replies("begin", "error")
    /\ UNCHANGED <<registry, deliveries, tombstones>>

\* Faulty variant: tombstones are not consulted.
NewCapabilityIgnoringTombstones(d, m) == RowsOf(d) = {} /\ ManagedBy(m) = {}

NewCapability(d, m) ==
    /\ m \notin revoked
    /\ RowsOf(d) = {}
    /\ ManagedBy(m) = {}

BeginFull(d, m, now) ==
    /\ NewCapability(d, m)
    /\ subCount >= MaxSubscriptions
    /\ pending' = Unexpired(now)
    /\ Replies("begin", "capacity_exceeded")
    /\ UNCHANGED <<subs, subCount, deliveries, tombstones>>

BeginPendingFull(d, m, e, now) ==
    /\ NewCapability(d, m)
    /\ subCount < MaxSubscriptions
    /\ LET kept == Unexpired(now) \ Superseded(d, m, e)
       IN  /\ Cardinality(kept) >= MaxPending
           /\ pending' = kept
    /\ Replies("begin", "pending_capacity_exceeded")
    /\ UNCHANGED <<subs, subCount, deliveries, tombstones>>

\* The challenge is 32 random bytes: no live row has its hash.
BeginChallenge(d, m, e, k, c, now) ==
    /\ NewCapability(d, m)
    /\ subCount < MaxSubscriptions
    /\ \A p \in pending : p.challenge # c
    /\ LET kept == Unexpired(now) \ Superseded(d, m, e)
       IN  /\ Cardinality(kept) < MaxPending
           /\ pending' = kept \union
                  {[mgmt |-> m, delivery |-> d, challenge |-> c, endpoint |-> e,
                    keys |-> k, expiresAt |-> now + ChallengeTtl]}
    /\ Replies("begin", "challenge_required")
    /\ UNCHANGED <<subs, subCount, deliveries, tombstones>>

Begin(d, m, e, k, c, now) ==
    \/ BeginRevoked(m, now)
    \/ BeginConflict(d, m, e, k, now)
    \/ BeginActive(d, m, e, k, now)
    \/ BeginCollides(d, m, e, k, now)
    \/ BeginFull(d, m, now)
    \/ BeginPendingFull(d, m, e, now)
    \/ BeginChallenge(d, m, e, k, c, now)

-----------------------------------------------------------------------------
(* subetha_confirm_push_subscription *)

NotPending(c) == \A p \in pending : p.challenge # c

ConfirmInvalid(c) ==
    /\ NotPending(c)
    /\ Replies("confirm", "invalid_challenge")
    /\ UNCHANGED <<registry, deliveries, tombstones>>

\* Faulty variant: a challenge is good for its last second too.
ExpiredAfter(p, now) == p.expiresAt < now

Expired(p, now) == p.expiresAt <= now

\* Too late, or the capability was revoked meanwhile: the pending row goes.
ConfirmDropped(c, now) ==
    \E p \in pending :
        /\ p.challenge = c
        /\ Expired(p, now) \/ p.mgmt \in revoked
        /\ pending' = {q \in pending : q.mgmt # p.mgmt}
        /\ Replies("confirm", IF Expired(p, now) THEN "expired_challenge"
                                                ELSE "revoked")
        /\ UNCHANGED <<subs, subCount, deliveries, tombstones>>

\* Faulty variant: trusts the capacity check made when the registration began.
AdmitsAlways(p) == p.mgmt \notin revoked

\* Evicting the endpoint's previous holder makes room; otherwise the count
\* read under the lock has to be below the limit.
Admits(p) ==
    \/ HoldersOf(p.endpoint, p.delivery) # {}
    \/ subCount < MaxSubscriptions

ConfirmFull(c, now) ==
    \E p \in pending :
        /\ p.challenge = c
        /\ ~Expired(p, now)
        /\ p.mgmt \notin revoked
        /\ ~Admits(p)
        /\ Replies("confirm", "capacity_exceeded")
        /\ UNCHANGED <<registry, deliveries, tombstones>>

\* Faulty variant: the endpoint's previous holder stays.
ActivatedOver(p, now) ==
    (subs \ RowsOf(p.delivery))
        \union {[delivery |-> p.delivery, mgmt |-> p.mgmt, endpoint |-> p.endpoint,
                 keys |-> p.keys, updatedAt |-> now]}

\* INSERT ... ON CONFLICT (push_key_hash) DO UPDATE: a row with the delivery
\* key is replaced and then the insert trigger does not count.
Activated(p, now) ==
    (subs \ (RowsOf(p.delivery) \union HoldersOf(p.endpoint, p.delivery)))
        \union {[delivery |-> p.delivery, mgmt |-> p.mgmt, endpoint |-> p.endpoint,
                 keys |-> p.keys, updatedAt |-> now]}

ConfirmActive(c, now) ==
    \E p \in pending :
        LET evicted == HoldersOf(p.endpoint, p.delivery)
            left    == Decrement(subCount, Cardinality(evicted))
        IN  /\ p.challenge = c
            /\ ~Expired(p, now)
            /\ p.mgmt \notin revoked
            /\ Admits(p)
            /\ subs' = Activated(p, now)
            /\ subCount' = IF RowsOf(p.delivery) = {} THEN left + 1 ELSE left
            /\ deliveries' = deliveries \ DeliveriesFor(evicted)
            /\ pending' = {q \in pending : q.mgmt # p.mgmt}
            /\ Replies("confirm", IF evicted = {} THEN "created" ELSE "reassigned")
            /\ UNCHANGED tombstones

Confirm(c, now) ==
    \/ ConfirmInvalid(c)
    \/ ConfirmDropped(c, now)
    \/ ConfirmFull(c, now)
    \/ ConfirmActive(c, now)

-----------------------------------------------------------------------------
(* cancelPendingRegistration *)

CancelPending(c) ==
    /\ pending' = {p \in pending : p.challenge # c}
    /\ Replies("cancel", "true")
    /\ UNCHANGED <<subs, subCount, deliveries, tombstones>>

-----------------------------------------------------------------------------
(* subetha_delete_push_subscription: the first deletion configures a NULL  *)
(* limit, and the tombstone is written whether or not anything is found.   *)

EffectiveLimit == IF revokedLimit = Null THEN MaxRevoked ELSE revokedLimit

TombstonesFull(m) == m \notin revoked /\ revokedCount >= EffectiveLimit

Entomb(m) ==
    /\ revoked' = revoked \union {m}
    /\ revokedCount' = IF m \in revoked THEN revokedCount ELSE revokedCount + 1
    /\ revokedLimit' = EffectiveLimit

HasPending(m) == \E p \in pending : p.mgmt = m

DeleteFull(m) ==
    /\ TombstonesFull(m)
    /\ revokedLimit' = EffectiveLimit
    /\ Replies("delete", "capacity_exceeded")
    /\ UNCHANGED <<registry, deliveries, revoked, revokedCount>>

\* Faulty variant: nothing was found, so nothing is written.
DeleteNotFoundForgets(m) ==
    /\ ~TombstonesFull(m)
    /\ ManagedBy(m) = {} /\ ~HasPending(m)
    /\ Replies("delete", "not_found")
    /\ UNCHANGED <<registry, deliveries, tombstones>>

DeleteNotFound(m) ==
    /\ ~TombstonesFull(m)
    /\ ManagedBy(m) = {} /\ ~HasPending(m)
    /\ Entomb(m)
    /\ Replies("delete", "not_found")
    /\ UNCHANGED <<registry, deliveries>>

DeleteRemoved(m) ==
    /\ ~TombstonesFull(m)
    /\ ManagedBy(m) # {} \/ HasPending(m)
    /\ Entomb(m)
    /\ pending' = {p \in pending : p.mgmt # m}
    /\ subs' = subs \ ManagedBy(m)
    /\ subCount' = Decrement(subCount, Cardinality(ManagedBy(m)))
    /\ deliveries' = deliveries \ DeliveriesFor(ManagedBy(m))
    /\ Replies("delete", "removed")

Delete(m) ==
    \/ DeleteFull(m)
    \/ DeleteNotFound(m)
    \/ DeleteRemoved(m)

-----------------------------------------------------------------------------
(* Statements of the delivery path.  A snapshot is the (d, e, k) the       *)
(* server read before it contacted the push provider.                      *)

\* Faulty variant: the row of the device, wherever it is by now.
CurrentByName(d, e, k) == RowsOf(d)

Current(d, e, k) == {s \in RowsOf(d) : s.endpoint = e /\ s.keys = k}

\* subetha_delete_push_subscription_if_current
DropIfCurrent(d, e, k) ==
    /\ subs' = subs \ Current(d, e, k)
    /\ subCount' = Decrement(subCount, Cardinality(Current(d, e, k)))
    /\ deliveries' = deliveries \ DeliveriesFor(Current(d, e, k))
    /\ Replies("drop", IF Current(d, e, k) = {} THEN "false" ELSE "true")
    /\ UNCHANGED <<pending, tombstones>>

Entry(d, x) == {y \in deliveries : y.delivery = d /\ y.event = x}

\* claimDelivery is two statements: INSERT ... ON CONFLICT DO NOTHING, and
\* only if that inserted nothing the UPDATE that takes a stale claim over.
ClaimInsert(d, x, now) ==
    /\ deliveries' = IF Entry(d, x) # {} THEN deliveries ELSE deliveries \union
           {[delivery |-> d, event |-> x, status |-> "pending", updatedAt |-> now]}
    /\ Replies("claim", IF Entry(d, x) = {} THEN "true" ELSE "false")
    /\ UNCHANGED <<registry, tombstones>>

\* Faulty variants: any pending claim is taken over, or any old record.
StaleClaimsAnyAge(d, x, now) == {y \in Entry(d, x) : y.status = "pending"}
StaleClaimsAnyStatus(d, x, now) == {y \in Entry(d, x) : y.updatedAt <= now - StaleAfter}

StaleClaims(d, x, now) ==
    {y \in Entry(d, x) : y.status = "pending" /\ y.updatedAt <= now - StaleAfter}

Touched(rows, status, now) ==
    (deliveries \ rows)
        \union {[y EXCEPT !.status = status, !.updatedAt = now] : y \in rows}

ClaimStale(d, x, now) ==
    /\ deliveries' = Touched(StaleClaims(d, x, now), "pending", now)
    /\ Replies("reclaim", IF StaleClaims(d, x, now) = {} THEN "false" ELSE "true")
    /\ UNCHANGED <<registry, tombstones>>

\* subetha_mark_push_delivery_if_current: the delivery row is updated
\* whatever its status, and the reply only says the subscription is current.
MarkIfCurrent(d, e, k, x, now) ==
    LET rows == Current(d, e, k)
    IN  /\ subs' = (subs \ rows) \union {[s EXCEPT !.updatedAt = now] : s \in rows}
        /\ deliveries' = IF rows = {} THEN deliveries
                                      ELSE Touched(Entry(d, x), "sent", now)
        /\ Replies("mark", IF rows = {} THEN "false" ELSE "true")
        /\ UNCHANGED <<pending, subCount, tombstones>>

\* Faulty variant: releases a delivery that was marked sent, too.
ReleaseAny(d, x) ==
    /\ deliveries' = deliveries \ Entry(d, x)
    /\ Replies("release", "true")
    /\ UNCHANGED <<registry, tombstones>>

\* releaseDelivery deletes a pending claim, whoever holds it.
Release(d, x) ==
    /\ deliveries' = deliveries \ {y \in Entry(d, x) : y.status = "pending"}
    /\ Replies("release", "true")
    /\ UNCHANGED <<registry, tombstones>>

-----------------------------------------------------------------------------
(* Traffic-driven cleanup *)

\* subetha_cleanup_push_subscriptions: up to p_limit stale rows; FOR UPDATE
\* SKIP LOCKED leaves out any row another transaction holds.
CleanupSubscriptions(now) ==
    \E rows \in SUBSET {s \in subs : s.updatedAt <= now - SubscriptionTtl} :
        /\ IsFiniteSet(rows) /\ Cardinality(rows) <= CleanupLimit
        /\ subs' = subs \ rows
        /\ subCount' = Decrement(subCount, Cardinality(rows))
        /\ deliveries' = deliveries \ DeliveriesFor(rows)
        /\ Replies("cleanup", "true")
        /\ UNCHANGED <<pending, tombstones>>

CleanupDeliveries(now) ==
    /\ deliveries' = {y \in deliveries : y.updatedAt > now - DeliveryTtl}
    /\ Replies("purge", "true")
    /\ UNCHANGED <<registry, tombstones>>

-----------------------------------------------------------------------------
(* Any caller, at any time *)

Registration ==
    \/ \E d \in DeliveryKeys, m \in ManagementKeys, e \in Endpoints, k \in Keys,
          c \in Challenges, now \in Times : Begin(d, m, e, k, c, now)
    \/ \E c \in Challenges, now \in Times : Confirm(c, now)
    \/ \E c \in Challenges : CancelPending(c)
    \/ \E m \in ManagementKeys : Delete(m)

DeliveryPath ==
    \E d \in DeliveryKeys :
        \/ \E e \in Endpoints, k \in Keys :
            \/ DropIfCurrent(d, e, k)
            \/ \E x \in Events \union {NoEvent}, now \in Times :
                   MarkIfCurrent(d, e, k, x, now)
        \/ \E x \in Events :
            \/ \E now \in Times : ClaimInsert(d, x, now) \/ ClaimStale(d, x, now)
            \/ Release(d, x)

Cleanup == \E now \in Times : CleanupSubscriptions(now) \/ CleanupDeliveries(now)

Next == Registration \/ DeliveryPath \/ Cleanup

Spec == Init /\ [][Next]_storeVars

-----------------------------------------------------------------------------
(* Properties *)

\* The partial unique indexes are never what stops a confirmation: no two rows
\* share a delivery key, an endpoint or a management key, although confirm
\* inserts its row without looking at the last of these (0002:218-236).
RowsUnique == UniqueRows(subs)

\* A pending registration is for a capability that is not active yet, under
\* either of its keys, so that confirming it never takes over a row.
PendingIsNew ==
    \A p \in pending, s \in subs : p.delivery # s.delivery /\ p.mgmt # s.mgmt

\* "A delayed browser request can never resurrect a revoked capability"
\* (0002:33): no row, active or pending, belongs to a tombstoned key.
NoResurrection ==
    /\ \A s \in subs : s.mgmt \notin revoked
    /\ \A p \in pending : p.mgmt \notin revoked

\* The counters the triggers maintain, which every capacity check trusts,
\* are the sizes of the tables; GREATEST(0, ...) never hides a difference.
CountersExact ==
    /\ subCount = Cardinality(subs)
    /\ revokedCount = Cardinality(revoked)

\* The pending table stays within its bound, and replacing a registration
\* never leaves two rows for a delivery key, capability, endpoint or challenge.
PendingDistinct ==
    \A p, q \in pending :
        \/ p.delivery = q.delivery
        \/ p.mgmt = q.mgmt
        \/ p.endpoint = q.endpoint
        \/ p.challenge = q.challenge
        => p = q

PendingBounded == Cardinality(pending) <= MaxPending /\ PendingDistinct

\* The two tables fit each other and their indexes, in every order of calls:
\* the procedures never leave rows that a later one would trip over.
RegistryConsistent == RowsUnique /\ PendingIsNew /\ PendingBounded

\* A registration fails with a database error only when it adopts an
\* unmanaged row for a capability that already manages another: rows written
\* since the migration never run into each other's indexes.
ErrorOnlyOnAdoption ==
    reply.outcome = "error" => \E s \in subs : s.mgmt = NoKey

\* The table grows only up to the limit, however many registrations passed the
\* check at their start and are confirmed later, in any order.
GrowthAdmitted ==
    Cardinality(subs') > Cardinality(subs) => Cardinality(subs') <= MaxSubscriptions

GrowsWithinCapacity == [][GrowthAdmitted]_storeVars

\* While a delivery key stays registered, its management key never changes:
\* only the browser that enrolled a device can test, move or remove it.
SameOwner ==
    \A s \in subs, t \in subs' :
        s.delivery = t.delivery /\ s.mgmt # NoKey => t.mgmt = s.mgmt

OwnerKept == [][SameOwner]_storeVars

\* A delivery key becomes active only by a confirmation, of the capability,
\* endpoint and keys that were challenged, before the challenge expires.
FromLivePending ==
    \A t \in subs' :
        RowsOf(t.delivery) = {} =>
            \E p \in pending :
                /\ p.delivery = t.delivery /\ p.mgmt = t.mgmt
                /\ p.endpoint = t.endpoint /\ p.keys = t.keys
                /\ t.updatedAt < p.expiresAt

ActivatedByChallenge == [][FromLivePending]_storeVars

\* What deduplication rests on: a delivery recorded as sent stays recorded
\* until it outlives the retention or its subscription is removed, whatever
\* claims, takeovers and releases other requests make meanwhile.
SentKept ==
    \A y \in deliveries :
        y.status = "sent" =>
            \/ \E z \in Entry(y.delivery, y.event)' : z.status = "sent"
            \/ reply'.op = "purge"
            \/ \E s \in subs \ subs' : s.delivery = y.delivery

SentIsFinal == [][SentKept]_storeVars

\* ADR-0008: "Endpoint registration is not active until the service worker
\* returns the challenge."  A delivery key is bound to an endpoint it was not
\* bound to before only out of a pending registration for that endpoint.
EndpointChallenged ==
    [][\A t \in subs' :
           \/ \E s \in subs : s.delivery = t.delivery /\ s.endpoint = t.endpoint
           \/ \E p \in pending : p.delivery = t.delivery /\ p.endpoint = t.endpoint
      ]_storeVars

=============================================================================
