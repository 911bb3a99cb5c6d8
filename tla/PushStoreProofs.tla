-------------------------- MODULE PushStoreProofs --------------------------
(***************************************************************************)
(* Theorems about PushStore, for every set of keys, endpoints, events and  *)
(* times and every limit.  The inductive invariant is Typed, Keyed,        *)
(* CountersExact, PendingBounded and ErrorOnlyOnAdoption together: they    *)
(* lean on one another, because the row a confirmation inserts is unique   *)
(* only if the pending registration was for a new capability, and the      *)
(* counters are exact only if rows are unique.                             *)
(***************************************************************************)
EXTENDS PushStore, FiniteSetTheorems, TLAPS

FiniteTables ==
    /\ IsFiniteSet(subs)
    /\ IsFiniteSet(pending)
    /\ IsFiniteSet(revoked)

-----------------------------------------------------------------------------
(* Finite tables and counters *)

\* Reducing a count by the size of a set of rows gives a natural number.
LEMMA DecrementNat ==
    ASSUME NEW count \in Nat, NEW rows, IsFiniteSet(rows)
    PROVE  Decrement(count, Cardinality(rows)) \in Nat
  <1>1. Cardinality(rows) \in Nat
    BY FS_CardinalityType
  <1>2. QED
    BY <1>1 DEF Decrement

\* Row sets taken out of the subscription table are finite.
LEMMA FiniteRows ==
    ASSUME IsFiniteSet(subs)
    PROVE  /\ \A d : IsFiniteSet(RowsOf(d))
           /\ \A m : IsFiniteSet(ManagedBy(m))
           /\ \A d, e : IsFiniteSet(HoldersOf(e, d))
           /\ \A d, e, k : IsFiniteSet(Current(d, e, k))
  <1>1. \A T \in SUBSET subs : IsFiniteSet(T)
    BY FS_Subset
  <1>2. QED
    BY <1>1, Zenon DEF RowsOf, ManagedBy, HoldersOf, Current

-----------------------------------------------------------------------------
(* Types and finiteness *)

Typed == TypeOK /\ FiniteTables

\* The migrations leave typed, finite tables.
LEMMA InitTyped == Init => Typed
  <1>1. SUFFICES ASSUME Init PROVE Typed
    OBVIOUS
  <1>2. IsFiniteSet(subs) /\ subCount = Cardinality(subs)
    BY <1>1, Zenon DEF Init
  <1>3. subCount \in Nat
    BY <1>2, FS_CardinalityType
  <1>4. \A s \in subs : s \in [delivery: DeliveryKeys, mgmt: {NoKey},
                               endpoint: Endpoints, keys: Keys, updatedAt: {0}]
    BY <1>1, Zenon DEF Init
  <1>5. subs \subseteq Subscription
    BY <1>4 DEF Subscription
  <1>6. /\ pending = {} /\ revoked = {} /\ deliveries = {} /\ revokedCount = 0
        /\ revokedLimit \in {Null, MaxRevoked}
        /\ reply = [op |-> "none", outcome |-> "none"]
    BY <1>1, Zenon DEF Init
  <1>7. IsFiniteSet({})
    BY FS_EmptySet
  <1>8. QED
    BY <1>2, <1>3, <1>5, <1>6, <1>7, LimitAssumption
    DEF Typed, TypeOK, FiniteTables, Reply

\* A registration statement keeps the tables typed and finite.
LEMMA BeginTyped ==
    ASSUME Typed,
           NEW d \in DeliveryKeys, NEW m \in ManagementKeys, NEW e \in Endpoints,
           NEW k \in Keys, NEW c \in Challenges, NEW now \in Times,
           Begin(d, m, e, k, c, now)
    PROVE  Typed'
  <1> USE DEF Typed, TypeOK, FiniteTables, Replies, Reply, tombstones, registry
  <1>a. now \in Nat /\ now + ChallengeTtl \in Nat
    BY TimeAssumption
  <1>b. Unexpired(now) \in SUBSET pending
    BY DEF Unexpired
  <1>c. IsFiniteSet(Unexpired(now))
    BY <1>b, FS_Subset
  <1>1. CASE BeginRevoked(m, now)
    BY <1>1, <1>b, <1>c DEF BeginRevoked
  <1>2. CASE BeginConflict(d, m, e, k, now)
    BY <1>2, <1>b, <1>c DEF BeginConflict
  <1>3. CASE BeginActive(d, m, e, k, now)
    <2> DEFINE new == [delivery |-> d, mgmt |-> m, endpoint |-> e, keys |-> k,
                       updatedAt |-> now]
               kept == subs \ (RowsOf(d) \union HoldersOf(e, d))
    <2>1. new \in Subscription
      BY <1>a DEF Subscription
    <2>2. IsFiniteSet(kept) /\ kept \subseteq Subscription
      BY FS_Difference
    <2>3. IsFiniteSet(kept \union {new})
      BY <2>2, FS_AddElement
    <2>4. subs' = kept \union {new}
      BY <1>3 DEF BeginActive, Rotated
    <2>5. subCount' \in Nat
      BY <1>3, FiniteRows, DecrementNat DEF BeginActive
    <2>6. pending' \in SUBSET pending
      BY <1>3, <1>b DEF BeginActive
    <2>7. IsFiniteSet(pending')
      BY <2>6, FS_Subset
    <2>8. deliveries' \subseteq Delivery
      BY <1>3 DEF BeginActive
    <2>9. UNCHANGED tombstones /\ reply' \in Reply
      BY <1>3 DEF BeginActive
    <2>10. QED
      BY <2>1, <2>2, <2>3, <2>4, <2>5, <2>6, <2>7, <2>8, <2>9
  <1>4. CASE BeginCollides(d, m, e, k, now)
    BY <1>4 DEF BeginCollides
  <1>5. CASE BeginFull(d, m, now)
    BY <1>5, <1>b, <1>c DEF BeginFull
  <1>6. CASE BeginPendingFull(d, m, e, now)
    <2>1. pending' \in SUBSET pending
      BY <1>6, <1>b DEF BeginPendingFull
    <2>2. IsFiniteSet(pending')
      BY <2>1, FS_Subset
    <2>3. QED
      BY <1>6, <2>1, <2>2 DEF BeginPendingFull
  <1>7. CASE BeginChallenge(d, m, e, k, c, now)
    <2> DEFINE new == [mgmt |-> m, delivery |-> d, challenge |-> c, endpoint |-> e,
                       keys |-> k, expiresAt |-> now + ChallengeTtl]
               kept == Unexpired(now) \ Superseded(d, m, e)
    <2>1. new \in Pending
      BY <1>a DEF Pending
    <2>2. kept \in SUBSET pending
      BY <1>b
    <2>3. IsFiniteSet(kept)
      BY <2>2, FS_Subset
    <2>4. IsFiniteSet(kept \union {new})
      BY <2>3, FS_AddElement
    <2>5. pending' = kept \union {new}
      BY <1>7 DEF BeginChallenge
    <2>6. UNCHANGED <<subs, subCount, deliveries, tombstones>> /\ reply' \in Reply
      BY <1>7 DEF BeginChallenge
    <2>7. QED
      BY <2>1, <2>2, <2>4, <2>5, <2>6
  <1>8. QED
    BY <1>1, <1>2, <1>3, <1>4, <1>5, <1>6, <1>7 DEF Begin

\* So does a confirmation.
LEMMA ConfirmTyped ==
    ASSUME Typed, NEW c \in Challenges, NEW now \in Times, Confirm(c, now)
    PROVE  Typed'
  <1> USE DEF Typed, TypeOK, FiniteTables, Replies, Reply, tombstones, registry
  <1>a. \A T \in SUBSET pending : IsFiniteSet(T)
    BY FS_Subset
  <1>1. CASE ConfirmInvalid(c)
    BY <1>1 DEF ConfirmInvalid
  <1>2. CASE ConfirmDropped(c, now)
    BY <1>2, <1>a DEF ConfirmDropped
  <1>3. CASE ConfirmFull(c, now)
    BY <1>3 DEF ConfirmFull
  <1>4. ASSUME NEW p \in pending,
               subs' = Activated(p, now),
               subCount' = IF RowsOf(p.delivery) = {}
                           THEN Decrement(subCount,
                                    Cardinality(HoldersOf(p.endpoint, p.delivery))) + 1
                           ELSE Decrement(subCount,
                                    Cardinality(HoldersOf(p.endpoint, p.delivery))),
               deliveries' = deliveries
                                 \ DeliveriesFor(HoldersOf(p.endpoint, p.delivery)),
               pending' = {q \in pending : q.mgmt # p.mgmt},
               reply' \in Reply,
               UNCHANGED tombstones
        PROVE  Typed'
    <2> DEFINE new == [delivery |-> p.delivery, mgmt |-> p.mgmt,
                       endpoint |-> p.endpoint, keys |-> p.keys, updatedAt |-> now]
               kept == subs \ (RowsOf(p.delivery)
                                  \union HoldersOf(p.endpoint, p.delivery))
    <2>1. new \in Subscription
      BY TimeAssumption DEF Subscription, Pending
    <2>2. IsFiniteSet(kept)
      BY FS_Difference
    <2>3. IsFiniteSet(kept \union {new})
      BY <2>2, FS_AddElement
    <2>4. subs' = kept \union {new}
      BY <1>4 DEF Activated
    <2>5. Decrement(subCount, Cardinality(HoldersOf(p.endpoint, p.delivery))) \in Nat
      BY FiniteRows, DecrementNat
    <2>6. subCount' \in Nat
      BY <1>4, <2>5
    <2>7. IsFiniteSet(pending') /\ pending' \subseteq Pending
      BY <1>4, <1>a
    <2>8. QED
      BY <1>4, <2>1, <2>3, <2>4, <2>6, <2>7
  <1>5. CASE ConfirmActive(c, now)
    <2>1. PICK p \in pending :
            /\ subs' = Activated(p, now)
            /\ subCount' = IF RowsOf(p.delivery) = {}
                           THEN Decrement(subCount,
                                    Cardinality(HoldersOf(p.endpoint, p.delivery))) + 1
                           ELSE Decrement(subCount,
                                    Cardinality(HoldersOf(p.endpoint, p.delivery)))
            /\ deliveries' = deliveries
                                 \ DeliveriesFor(HoldersOf(p.endpoint, p.delivery))
            /\ pending' = {q \in pending : q.mgmt # p.mgmt}
            /\ reply' = [op |-> "confirm",
                         outcome |-> IF HoldersOf(p.endpoint, p.delivery) = {}
                                     THEN "created" ELSE "reassigned"]
            /\ UNCHANGED tombstones
      BY <1>5, Zenon DEF ConfirmActive
    <2>2. reply' \in Reply
      BY <2>1
    <2>3. QED
      BY <1>4, <2>1, <2>2
  <1>6. QED
    BY <1>1, <1>2, <1>3, <1>5 DEF Confirm

\* So do a removal and the cancellation of a pending registration.
LEMMA DeleteTyped ==
    ASSUME Typed, NEW m \in ManagementKeys, Delete(m)
    PROVE  Typed'
  <1> USE DEF Typed, TypeOK, FiniteTables, Replies, Reply, tombstones, registry
  <1>a. EffectiveLimit \in Nat
    BY LimitAssumption DEF EffectiveLimit
  <1>b. ASSUME Entomb(m)
        PROVE  /\ revoked' \subseteq ManagementKeys /\ IsFiniteSet(revoked')
               /\ revokedCount' \in Nat /\ revokedLimit' \in Nat
    BY <1>a, <1>b, FS_AddElement DEF Entomb
  <1>c. \A T \in SUBSET pending : IsFiniteSet(T)
    BY FS_Subset
  <1>1. CASE DeleteFull(m)
    BY <1>1, <1>a DEF DeleteFull
  <1>2. CASE DeleteNotFound(m)
    BY <1>2, <1>b DEF DeleteNotFound
  <1>3. CASE DeleteRemoved(m)
    <2>1. Entomb(m)
      BY <1>3 DEF DeleteRemoved
    <2>2. IsFiniteSet(subs') /\ subs' \subseteq Subscription
      BY <1>3, FS_Difference DEF DeleteRemoved
    <2>3. subCount' \in Nat
      BY <1>3, FiniteRows, DecrementNat DEF DeleteRemoved
    <2>4. IsFiniteSet(pending') /\ pending' \subseteq Pending
      BY <1>3, <1>c DEF DeleteRemoved
    <2>5. deliveries' \subseteq Delivery /\ reply' \in Reply
      BY <1>3 DEF DeleteRemoved
    <2>6. QED
      BY <1>b, <2>1, <2>2, <2>3, <2>4, <2>5
  <1>4. QED
    BY <1>1, <1>2, <1>3 DEF Delete

\* So does the cancellation of a pending registration.
LEMMA CancelTyped ==
    ASSUME Typed, NEW c \in Challenges, CancelPending(c)
    PROVE  Typed'
  <1>1. pending' \in SUBSET pending
    BY DEF CancelPending
  <1>2. IsFiniteSet(pending')
    BY <1>1, FS_Subset DEF Typed, FiniteTables
  <1>3. QED
    BY <1>1, <1>2
    DEF Typed, TypeOK, FiniteTables, CancelPending, Replies, Reply, tombstones

\* Marking the rows of a set sent or pending keeps the delivery table typed.
LEMMA TouchedTyped ==
    ASSUME deliveries \subseteq Delivery, NEW rows \in SUBSET deliveries,
           NEW status \in {"pending", "sent"}, NEW now \in Times
    PROVE  Touched(rows, status, now) \subseteq Delivery
  <1>1. ASSUME NEW y \in Delivery
        PROVE  [y EXCEPT !.status = status, !.updatedAt = now] \in Delivery
    BY TimeAssumption DEF Delivery
  <1>2. QED
    BY <1>1 DEF Touched

\* The statements of the delivery path keep the tables typed and finite.
LEMMA DeliveryPathTyped ==
    ASSUME Typed, DeliveryPath
    PROVE  Typed'
  <1> USE DEF Typed, TypeOK, FiniteTables, Replies, Reply, tombstones, registry
  <1>1. ASSUME NEW d \in DeliveryKeys, NEW e \in Endpoints, NEW k \in Keys,
               DropIfCurrent(d, e, k)
        PROVE  Typed'
    <2>1. IsFiniteSet(subs') /\ subs' \subseteq Subscription
      BY <1>1, FS_Difference DEF DropIfCurrent
    <2>2. subCount' \in Nat
      BY <1>1, FiniteRows, DecrementNat DEF DropIfCurrent
    <2>3. QED
      BY <1>1, <2>1, <2>2 DEF DropIfCurrent
  <1>2. ASSUME NEW d \in DeliveryKeys, NEW x \in Events, NEW now \in Times,
               ClaimInsert(d, x, now)
        PROVE  Typed'
    <2>1. [delivery |-> d, event |-> x, status |-> "pending", updatedAt |-> now]
              \in Delivery
      BY TimeAssumption DEF Delivery
    <2>2. deliveries' \subseteq Delivery
      BY <1>2, <2>1 DEF ClaimInsert
    <2>3. QED
      BY <1>2, <2>2 DEF ClaimInsert
  <1>3. ASSUME NEW d \in DeliveryKeys, NEW x \in Events, NEW now \in Times,
               ClaimStale(d, x, now)
        PROVE  Typed'
    <2>1. StaleClaims(d, x, now) \in SUBSET deliveries
      BY DEF StaleClaims, Entry
    <2>2. deliveries' \subseteq Delivery
      BY <1>3, <2>1, TouchedTyped DEF ClaimStale
    <2>3. QED
      BY <1>3, <2>2 DEF ClaimStale
  <1>4. ASSUME NEW d \in DeliveryKeys, NEW x \in Events \union {NoEvent},
               NEW e \in Endpoints, NEW k \in Keys, NEW now \in Times,
               MarkIfCurrent(d, e, k, x, now)
        PROVE  Typed'
    <2> DEFINE rows == Current(d, e, k)
               late == {[s EXCEPT !.updatedAt = now] : s \in rows}
    <2>1. subs' = (subs \ rows) \union late
      BY <1>4 DEF MarkIfCurrent
    <2>2. late \subseteq Subscription
      BY TimeAssumption DEF Current, RowsOf, Subscription
    <2>3. IsFiniteSet(late)
      <3> DEFINE touch == [s \in rows |-> [s EXCEPT !.updatedAt = now]]
      <3>1. touch \in Surjection(rows, late)
        BY DEF Surjection
      <3>2. IsFiniteSet(rows)
        BY FiniteRows
      <3>3. QED
        BY <3>1, <3>2, FS_Surjection
    <2>4. IsFiniteSet((subs \ rows) \union late)
      BY <2>3, FS_Difference, FS_Union
    <2>5. Entry(d, x) \in SUBSET deliveries
      BY DEF Entry
    <2>6. deliveries' \subseteq Delivery
      BY <1>4, <2>5, TouchedTyped DEF MarkIfCurrent
    <2>7. UNCHANGED <<pending, subCount, tombstones>> /\ reply' \in Reply
      BY <1>4 DEF MarkIfCurrent
    <2>8. QED
      BY <2>1, <2>2, <2>4, <2>6, <2>7
  <1>5. ASSUME NEW d \in DeliveryKeys, NEW x \in Events, Release(d, x)
        PROVE  Typed'
    BY <1>5 DEF Release
  <1>6. QED
    BY <1>1, <1>2, <1>3, <1>4, <1>5, Zenon DEF DeliveryPath

\* So do the two cleanups.
LEMMA CleanupTyped ==
    ASSUME Typed, Cleanup
    PROVE  Typed'
  <1> USE DEF Typed, TypeOK, FiniteTables, Replies, Reply, tombstones, registry
  <1>1. ASSUME NEW now \in Times, CleanupSubscriptions(now)
        PROVE  Typed'
    <2>1. PICK rows \in SUBSET subs :
            /\ IsFiniteSet(rows)
            /\ subs' = subs \ rows
            /\ subCount' = Decrement(subCount, Cardinality(rows))
            /\ deliveries' = deliveries \ DeliveriesFor(rows)
            /\ reply' = [op |-> "cleanup", outcome |-> "true"]
            /\ UNCHANGED <<pending, tombstones>>
      BY <1>1 DEF CleanupSubscriptions
    <2>2. IsFiniteSet(subs') /\ subs' \subseteq Subscription
      BY <2>1, FS_Difference
    <2>3. subCount' \in Nat
      BY <2>1, DecrementNat
    <2>4. QED
      BY <2>1, <2>2, <2>3
  <1>2. ASSUME NEW now \in Times, CleanupDeliveries(now)
        PROVE  Typed'
    BY <1>2 DEF CleanupDeliveries
  <1>3. QED
    BY <1>1, <1>2 DEF Cleanup

\* Every statement does.
LEMMA NextTyped == Typed /\ [Next]_storeVars => Typed'
  <1>1. SUFFICES ASSUME Typed, [Next]_storeVars PROVE Typed'
    OBVIOUS
  <1>2. CASE Registration
    BY <1>1, <1>2, BeginTyped, ConfirmTyped, CancelTyped, DeleteTyped, Zenon
    DEF Registration
  <1>3. CASE DeliveryPath
    BY <1>1, <1>3, DeliveryPathTyped
  <1>4. CASE Cleanup
    BY <1>1, <1>4, CleanupTyped
  <1>5. CASE UNCHANGED storeVars
    BY <1>1, <1>5 DEF storeVars, Typed, TypeOK, FiniteTables
  <1>6. QED
    BY <1>1, <1>2, <1>3, <1>4, <1>5 DEF Next

\* Every table and counter keeps its type, whoever calls and in any order.
THEOREM TypeCorrect == Spec => []TypeOK
  <1>1. Typed => TypeOK
    BY DEF Typed
  <1>2. QED
    BY <1>1, InitTyped, NextTyped, PTL DEF Spec

-----------------------------------------------------------------------------
(* Keys: uniqueness, new pending registrations, tombstones *)

Keyed == RowsUnique /\ PendingIsNew /\ NoResurrection /\ PendingDistinct

\* A statement that only removes rows cannot break what is said of keys.
LEMMA ShrinkKeyed ==
    ASSUME Keyed, subs' \subseteq subs, pending' \subseteq pending, revoked' = revoked
    PROVE  Keyed'
  BY DEF Keyed, RowsUnique, UniqueRows, PendingIsNew, NoResurrection, PendingDistinct

\* What the migrations leave satisfies the claims about keys: nothing is
\* pending or revoked, and unmanaged rows differ in their endpoints.
LEMMA InitKeyed == Init => Keyed
  BY KeyAssumption, Zenon
  DEF Init, Keyed, RowsUnique, PendingIsNew, NoResurrection, PendingDistinct

\* A registration keeps them: it becomes pending only for a capability and a
\* delivery key that are nowhere active, and a rotation evicts and supersedes.
LEMMA BeginKeyed ==
    ASSUME Typed, Keyed,
           NEW d \in DeliveryKeys, NEW m \in ManagementKeys, NEW e \in Endpoints,
           NEW k \in Keys, NEW c \in Challenges, NEW now \in Times,
           Begin(d, m, e, k, c, now)
    PROVE  Keyed'
  <1>a. Unexpired(now) \subseteq pending
    BY DEF Unexpired
  <1>1. CASE BeginRevoked(m, now)
    BY <1>1, <1>a, ShrinkKeyed DEF BeginRevoked, tombstones
  <1>2. CASE BeginConflict(d, m, e, k, now)
    BY <1>2, <1>a, ShrinkKeyed DEF BeginConflict, tombstones
  <1>3. CASE BeginActive(d, m, e, k, now)
    <2> DEFINE new == [delivery |-> d, mgmt |-> m, endpoint |-> e, keys |-> k,
                       updatedAt |-> now]
    <2>1. /\ m \notin revoked /\ revoked' = revoked
          /\ UniqueRows(subs')
          /\ subs' \subseteq subs \union {new}
          /\ pending' \subseteq {p \in pending : p.delivery # d /\ p.mgmt # m}
      BY <1>3, <1>a DEF BeginActive, Rotated, Superseded, tombstones
    <2>2. RowsUnique'
      BY <2>1 DEF RowsUnique, UniqueRows
    <2>3. PendingIsNew'
      BY <2>1 DEF Keyed, PendingIsNew
    <2>4. NoResurrection'
      BY <2>1 DEF Keyed, NoResurrection
    <2>5. PendingDistinct'
      BY <2>1 DEF Keyed, PendingDistinct
    <2>6. QED
      BY <2>2, <2>3, <2>4, <2>5 DEF Keyed
  <1>4. CASE BeginCollides(d, m, e, k, now)
    BY <1>4, ShrinkKeyed DEF BeginCollides, tombstones, registry
  <1>5. CASE BeginFull(d, m, now)
    BY <1>5, <1>a, ShrinkKeyed DEF BeginFull, tombstones
  <1>6. CASE BeginPendingFull(d, m, e, now)
    BY <1>6, <1>a, ShrinkKeyed DEF BeginPendingFull, tombstones
  <1>7. CASE BeginChallenge(d, m, e, k, c, now)
    <2> DEFINE new == [mgmt |-> m, delivery |-> d, challenge |-> c, endpoint |-> e,
                       keys |-> k, expiresAt |-> now + ChallengeTtl]
    <2>1. /\ m \notin revoked /\ revoked' = revoked /\ subs' = subs
          /\ \A s \in subs : s.delivery # d /\ s.mgmt # m
          /\ \A p \in pending : p.challenge # c
      BY <1>7 DEF BeginChallenge, NewCapability, RowsOf, ManagedBy, tombstones
    <2>2. pending' = (Unexpired(now) \ Superseded(d, m, e)) \union {new}
      BY <1>7 DEF BeginChallenge
    <2>3. \A p \in pending' :
              \/ p = new
              \/ /\ p \in pending
                 /\ p.delivery # d /\ p.mgmt # m /\ p.endpoint # e
      BY <1>a, <2>2 DEF Superseded
    <2>4. RowsUnique'
      BY <2>1 DEF Keyed, RowsUnique, UniqueRows
    <2>5. PendingIsNew'
      BY <2>1, <2>3 DEF Keyed, PendingIsNew
    <2>6. NoResurrection'
      BY <2>1, <2>3 DEF Keyed, NoResurrection
    <2>7. PendingDistinct'
      BY <2>1, <2>3 DEF Keyed, PendingDistinct
    <2>8. QED
      BY <2>4, <2>5, <2>6, <2>7 DEF Keyed
  <1>8. QED
    BY <1>1, <1>2, <1>3, <1>4, <1>5, <1>6, <1>7 DEF Begin

\* A confirmation keeps them, because what it inserts was new when it began
\* and nothing activated either of its keys since.
LEMMA ConfirmKeyed ==
    ASSUME Typed, Keyed, NEW c \in Challenges, NEW now \in Times, Confirm(c, now)
    PROVE  Keyed'
  <1>1. CASE ConfirmInvalid(c)
    BY <1>1, ShrinkKeyed DEF ConfirmInvalid, tombstones, registry
  <1>2. CASE ConfirmDropped(c, now)
    BY <1>2, ShrinkKeyed DEF ConfirmDropped, tombstones
  <1>3. CASE ConfirmFull(c, now)
    BY <1>3, ShrinkKeyed DEF ConfirmFull, tombstones, registry
  <1>4. CASE ConfirmActive(c, now)
    <2>1. PICK p \in pending :
            /\ p.mgmt \notin revoked
            /\ subs' = Activated(p, now)
            /\ pending' = {q \in pending : q.mgmt # p.mgmt}
            /\ UNCHANGED tombstones
      BY <1>4, Zenon DEF ConfirmActive
    <2> DEFINE new == [delivery |-> p.delivery, mgmt |-> p.mgmt,
                       endpoint |-> p.endpoint, keys |-> p.keys, updatedAt |-> now]
    <2>2. \A s \in subs' :
              \/ s = new
              \/ /\ s \in subs
                 /\ s.delivery # p.delivery /\ s.mgmt # p.mgmt
                 /\ s.endpoint # p.endpoint
      BY <2>1 DEF Activated, RowsOf, HoldersOf, Keyed, PendingIsNew
    <2>3. RowsUnique'
      BY <2>2 DEF Keyed, RowsUnique, UniqueRows
    <2>4. PendingIsNew'
      BY <2>1, <2>2 DEF Keyed, PendingIsNew, PendingDistinct
    <2>5. NoResurrection'
      BY <2>1, <2>2 DEF Keyed, NoResurrection, tombstones
    <2>6. PendingDistinct'
      BY <2>1 DEF Keyed, PendingDistinct
    <2>7. QED
      BY <2>3, <2>4, <2>5, <2>6 DEF Keyed
  <1>5. QED
    BY <1>1, <1>2, <1>3, <1>4 DEF Confirm

\* A removal adds a tombstone only for a capability it leaves without rows.
LEMMA DeleteKeyed ==
    ASSUME Typed, Keyed, NEW m \in ManagementKeys, Delete(m)
    PROVE  Keyed'
  <1>1. CASE DeleteFull(m)
    BY <1>1, ShrinkKeyed DEF DeleteFull, registry
  <1>2. ASSUME subs' = subs \ ManagedBy(m), revoked' = revoked \union {m},
               pending' = {p \in pending : p.mgmt # m}
        PROVE  Keyed'
    BY <1>2 DEF Keyed, RowsUnique, UniqueRows, PendingIsNew, NoResurrection,
                PendingDistinct, ManagedBy
  <1>3. CASE DeleteNotFound(m)
    BY <1>2, <1>3 DEF DeleteNotFound, Entomb, HasPending, registry
  <1>4. CASE DeleteRemoved(m)
    BY <1>2, <1>4 DEF DeleteRemoved, Entomb
  <1>5. QED
    BY <1>1, <1>3, <1>4 DEF Delete

\* The delivery path removes rows, or stamps the row it names.
LEMMA DeliveryPathKeyed ==
    ASSUME Typed, Keyed, DeliveryPath
    PROVE  Keyed'
  <1>1. ASSUME NEW d, NEW e, NEW k, NEW x, NEW now, MarkIfCurrent(d, e, k, x, now)
        PROVE  Keyed'
    <2>1. /\ pending' = pending /\ revoked' = revoked
          /\ subs' = (subs \ Current(d, e, k))
                 \union {[s EXCEPT !.updatedAt = now] : s \in Current(d, e, k)}
      BY <1>1 DEF MarkIfCurrent, tombstones
    <2>2. \A t \in subs' : \E s \in subs :
              /\ t.delivery = s.delivery /\ t.mgmt = s.mgmt /\ t.endpoint = s.endpoint
              /\ t = IF s \in Current(d, e, k) THEN [s EXCEPT !.updatedAt = now] ELSE s
      BY <2>1 DEF Typed, TypeOK, Subscription, Current, RowsOf
    <2>3. RowsUnique'
      BY <2>2 DEF Keyed, RowsUnique, UniqueRows
    <2>4. PendingIsNew' /\ NoResurrection' /\ PendingDistinct'
      BY <2>1, <2>2 DEF Keyed, PendingIsNew, NoResurrection, PendingDistinct
    <2>5. QED
      BY <2>3, <2>4 DEF Keyed
  <1>2. ASSUME NEW d, NEW e, NEW k, DropIfCurrent(d, e, k)
        PROVE  Keyed'
    BY <1>2, ShrinkKeyed DEF DropIfCurrent, tombstones
  <1>3. ASSUME UNCHANGED <<registry, tombstones>>
        PROVE  Keyed'
    BY <1>3, ShrinkKeyed DEF registry, tombstones
  <1>4. ASSUME NEW d, NEW x, NEW now,
               ClaimInsert(d, x, now) \/ ClaimStale(d, x, now) \/ Release(d, x)
        PROVE  Keyed'
    BY <1>3, <1>4 DEF ClaimInsert, ClaimStale, Release
  <1>5. QED
    BY <1>1, <1>2, <1>4, Zenon DEF DeliveryPath

\* Every statement keeps them.
LEMMA NextKeyed == Typed /\ Keyed /\ [Next]_storeVars => Keyed'
  <1>1. SUFFICES ASSUME Typed, Keyed, [Next]_storeVars PROVE Keyed'
    OBVIOUS
  <1>2. ASSUME NEW c \in Challenges, CancelPending(c)
        PROVE  Keyed'
    BY <1>1, <1>2, ShrinkKeyed DEF CancelPending, tombstones
  <1>3. CASE Registration
    BY <1>1, <1>2, <1>3, BeginKeyed, ConfirmKeyed, DeleteKeyed, Zenon
    DEF Registration
  <1>4. CASE DeliveryPath
    BY <1>1, <1>4, DeliveryPathKeyed
  <1>5. ASSUME NEW now \in Times,
               CleanupSubscriptions(now) \/ CleanupDeliveries(now)
        PROVE  Keyed'
    BY <1>1, <1>5, ShrinkKeyed
    DEF CleanupSubscriptions, CleanupDeliveries, registry, tombstones
  <1>6. CASE Cleanup
    BY <1>5, <1>6 DEF Cleanup
  <1>7. CASE UNCHANGED storeVars
    BY <1>1, <1>7, ShrinkKeyed DEF storeVars
  <1>8. QED
    BY <1>1, <1>3, <1>4, <1>6, <1>7 DEF Next

\* No two subscriptions share a delivery key, an endpoint or a capability.
THEOREM RowsStayUnique == Spec => []RowsUnique
  <1>1. Keyed => RowsUnique
    BY DEF Keyed
  <1>2. QED
    BY <1>1, InitTyped, NextTyped, InitKeyed, NextKeyed, PTL DEF Spec

\* A revoked capability is never active or pending again.
THEOREM Revocation == Spec => []NoResurrection
  <1>1. Keyed => NoResurrection
    BY DEF Keyed
  <1>2. QED
    BY <1>1, InitTyped, NextTyped, InitKeyed, NextKeyed, PTL DEF Spec

\* A pending registration is never for a key or capability that is active.
THEOREM PendingStaysNew == Spec => []PendingIsNew
  <1>1. Keyed => PendingIsNew
    BY DEF Keyed
  <1>2. QED
    BY <1>1, InitTyped, NextTyped, InitKeyed, NextKeyed, PTL DEF Spec

-----------------------------------------------------------------------------
(* Counters *)

\* The trigger's arithmetic agrees with the table when rows are deleted.
LEMMA DecrementExact ==
    ASSUME IsFiniteSet(subs), subCount = Cardinality(subs), NEW rows \in SUBSET subs
    PROVE  /\ IsFiniteSet(subs \ rows)
           /\ Decrement(subCount, Cardinality(rows)) = Cardinality(subs \ rows)
  <1>1. IsFiniteSet(rows) /\ Cardinality(rows) <= Cardinality(subs)
    BY FS_Subset
  <1>2. Cardinality(rows) \in Nat /\ Cardinality(subs) \in Nat
    BY <1>1, FS_CardinalityType
  <1>3. subs \cap rows = rows
    OBVIOUS
  <1>4. IsFiniteSet(subs \ rows)
        /\ Cardinality(subs \ rows) = Cardinality(subs) - Cardinality(rows)
    BY <1>3, FS_Difference
  <1>5. QED
    BY <1>1, <1>2, <1>4 DEF Decrement

SubsExact == subCount = Cardinality(subs)
TombstonesExact == revokedCount = Cardinality(revoked)

\* A rotation removes at most the one row that held the endpoint.
LEMMA BeginExact ==
    ASSUME Typed, Keyed, SubsExact,
           NEW d \in DeliveryKeys, NEW m \in ManagementKeys, NEW e \in Endpoints,
           NEW k \in Keys, NEW c \in Challenges, NEW now \in Times,
           Begin(d, m, e, k, c, now)
    PROVE  SubsExact'
  <1>1. CASE UNCHANGED <<subs, subCount>>
    BY <1>1 DEF SubsExact
  <1>2. CASE BeginActive(d, m, e, k, now)
    <2> DEFINE new  == [delivery |-> d, mgmt |-> m, endpoint |-> e, keys |-> k,
                        updatedAt |-> now]
               left == subs \ HoldersOf(e, d)
    <2>1. IsFiniteSet(left) /\ subCount' = Cardinality(left)
      BY <1>2, DecrementExact DEF BeginActive, HoldersOf, Typed, FiniteTables, SubsExact
    <2>2. PICK old \in subs : old.delivery = d /\ RowsOf(d) = {old}
      BY <1>2 DEF BeginActive, RowsOf, Keyed, RowsUnique, UniqueRows
    <2>3. old \in left
      BY <2>2 DEF HoldersOf
    <2>4. subs' = (left \ {old}) \union {new}
      BY <1>2, <2>2 DEF BeginActive, Rotated
    <2>5. new \notin left \ {old}
      BY <2>2 DEF RowsOf
    <2>6. IsFiniteSet(left \ {old}) /\ Cardinality(left \ {old}) = Cardinality(left) - 1
      BY <2>1, <2>3, FS_RemoveElement
    <2>7. Cardinality(subs') = Cardinality(left \ {old}) + 1
      BY <2>4, <2>5, <2>6, FS_AddElement
    <2>8. Cardinality(left) \in Nat
      BY <2>1, FS_CardinalityType
    <2>9. QED
      BY <2>1, <2>6, <2>7, <2>8 DEF SubsExact
  <1>3. QED
    BY <1>1, <1>2
    DEF Begin, BeginRevoked, BeginConflict, BeginCollides, BeginFull,
        BeginPendingFull, BeginChallenge, registry

\* The insert trigger counts the new row: it never takes the DO UPDATE branch.
LEMMA ConfirmExact ==
    ASSUME Typed, Keyed, SubsExact,
           NEW c \in Challenges, NEW now \in Times, Confirm(c, now)
    PROVE  SubsExact'
  <1>1. CASE UNCHANGED <<subs, subCount>>
    BY <1>1 DEF SubsExact
  <1>2. CASE ConfirmActive(c, now)
    <2>1. PICK p \in pending :
            /\ subs' = Activated(p, now)
            /\ subCount' = IF RowsOf(p.delivery) = {}
                           THEN Decrement(subCount,
                                    Cardinality(HoldersOf(p.endpoint, p.delivery))) + 1
                           ELSE Decrement(subCount,
                                    Cardinality(HoldersOf(p.endpoint, p.delivery)))
      BY <1>2, Zenon DEF ConfirmActive
    <2> DEFINE new  == [delivery |-> p.delivery, mgmt |-> p.mgmt,
                        endpoint |-> p.endpoint, keys |-> p.keys, updatedAt |-> now]
               left == subs \ HoldersOf(p.endpoint, p.delivery)
    <2>2. RowsOf(p.delivery) = {}
      BY DEF RowsOf, Keyed, PendingIsNew
    <2>3. IsFiniteSet(left)
          /\ Decrement(subCount, Cardinality(HoldersOf(p.endpoint, p.delivery)))
                 = Cardinality(left)
      BY DecrementExact DEF HoldersOf, Typed, FiniteTables, SubsExact
    <2>4. subs' = left \union {new} /\ new \notin left
      BY <2>1, <2>2 DEF Activated, RowsOf
    <2>5. Cardinality(subs') = Cardinality(left) + 1
      BY <2>3, <2>4, FS_AddElement
    <2>6. QED
      BY <2>1, <2>2, <2>3, <2>5 DEF SubsExact
  <1>3. QED
    BY <1>1, <1>2
    DEF Confirm, ConfirmInvalid, ConfirmDropped, ConfirmFull, registry

\* A removal counts its tombstone once and its rows once.
LEMMA DeleteExact ==
    ASSUME Typed, SubsExact, TombstonesExact, NEW m \in ManagementKeys, Delete(m)
    PROVE  SubsExact' /\ TombstonesExact'
  <1>1. Entomb(m) => TombstonesExact'
    BY FS_AddElement DEF Entomb, TombstonesExact, Typed, FiniteTables
  <1>2. CASE DeleteFull(m)
    BY <1>2 DEF DeleteFull, registry, SubsExact, TombstonesExact
  <1>3. CASE DeleteNotFound(m)
    BY <1>1, <1>3 DEF DeleteNotFound, registry, SubsExact
  <1>4. CASE DeleteRemoved(m)
    BY <1>1, <1>4, DecrementExact
    DEF DeleteRemoved, ManagedBy, SubsExact, Typed, FiniteTables
  <1>5. QED
    BY <1>2, <1>3, <1>4 DEF Delete

\* The delivery path counts the row it drops; stamping a row moves no count.
LEMMA DeliveryPathExact ==
    ASSUME Typed, Keyed, SubsExact, DeliveryPath
    PROVE  SubsExact'
  <1>1. ASSUME NEW d, NEW e, NEW k, NEW x, NEW now \in Times,
               MarkIfCurrent(d, e, k, x, now)
        PROVE  SubsExact'
    <2> DEFINE rows == Current(d, e, k)
    <2>1. /\ subCount' = subCount
          /\ subs' = (subs \ rows) \union {[s EXCEPT !.updatedAt = now] : s \in rows}
      BY <1>1 DEF MarkIfCurrent
    <2>2. CASE rows = {}
      <3>1. subs' = subs
        BY <2>1, <2>2
      <3>2. QED
        BY <2>1, <3>1 DEF SubsExact
    <2>3. CASE rows # {}
      <3>1. PICK old \in subs : rows = {old} /\ RowsOf(d) = {old}
        BY <2>3 DEF Current, RowsOf, Keyed, RowsUnique, UniqueRows
      <3> DEFINE new == [old EXCEPT !.updatedAt = now]
      <3>2. subs' = (subs \ {old}) \union {new}
        BY <2>1, <3>1
      <3>3. new \notin subs \ {old}
        BY <3>1 DEF RowsOf, Typed, TypeOK, Subscription
      <3>4. IsFiniteSet(subs \ {old}) /\ Cardinality(subs \ {old}) = Cardinality(subs) - 1
        BY FS_RemoveElement DEF Typed, FiniteTables
      <3>5. Cardinality(subs') = Cardinality(subs \ {old}) + 1
        BY <3>2, <3>3, <3>4, FS_AddElement
      <3>6. Cardinality(subs) \in Nat
        BY FS_CardinalityType DEF Typed, FiniteTables
      <3>7. QED
        BY <2>1, <3>4, <3>5, <3>6 DEF SubsExact
    <2>4. QED
      BY <2>2, <2>3
  <1>2. ASSUME NEW d, NEW e, NEW k, DropIfCurrent(d, e, k)
        PROVE  SubsExact'
    BY <1>2, DecrementExact
    DEF DropIfCurrent, Current, RowsOf, SubsExact, Typed, FiniteTables
  <1>3. ASSUME NEW d, NEW x, NEW now,
               ClaimInsert(d, x, now) \/ ClaimStale(d, x, now) \/ Release(d, x)
        PROVE  SubsExact'
    BY <1>3 DEF ClaimInsert, ClaimStale, Release, registry, SubsExact
  <1>4. QED
    BY <1>1, <1>2, <1>3, Zenon DEF DeliveryPath

\* Cleanup counts every row it removes, however many at once.
LEMMA CleanupExact ==
    ASSUME Typed, SubsExact, Cleanup
    PROVE  SubsExact'
  <1>1. ASSUME NEW now \in Times, CleanupSubscriptions(now)
        PROVE  SubsExact'
    BY <1>1, DecrementExact DEF CleanupSubscriptions, SubsExact, Typed, FiniteTables
  <1>2. ASSUME NEW now \in Times, CleanupDeliveries(now)
        PROVE  SubsExact'
    BY <1>2 DEF CleanupDeliveries, registry, SubsExact
  <1>3. QED
    BY <1>1, <1>2 DEF Cleanup

\* The migrations compute the counters from the tables.
LEMMA InitExact == Init => CountersExact
  BY FS_EmptySet, Zenon DEF Init, CountersExact

\* Every statement keeps the counters equal to the sizes of the tables.
LEMMA NextExact ==
    Typed /\ Keyed /\ CountersExact /\ [Next]_storeVars => CountersExact'
  <1>1. SUFFICES ASSUME Typed, Keyed, SubsExact, TombstonesExact, [Next]_storeVars
                 PROVE  SubsExact' /\ TombstonesExact'
    BY DEF CountersExact, SubsExact, TombstonesExact
  <1>2. CASE UNCHANGED storeVars
    BY <1>1, <1>2 DEF storeVars, SubsExact, TombstonesExact
  <1>3. ASSUME NEW m \in ManagementKeys, Delete(m)
        PROVE  SubsExact' /\ TombstonesExact'
    BY <1>1, <1>3, DeleteExact
  <1>4. ASSUME UNCHANGED tombstones
        PROVE  TombstonesExact'
    BY <1>1, <1>4 DEF tombstones, TombstonesExact
  <1>5. ASSUME NEW d \in DeliveryKeys, NEW m \in ManagementKeys, NEW e \in Endpoints,
               NEW k \in Keys, NEW c \in Challenges, NEW now \in Times,
               Begin(d, m, e, k, c, now)
        PROVE  SubsExact' /\ TombstonesExact'
    <2>1. UNCHANGED tombstones
      BY <1>5 DEF Begin, BeginRevoked, BeginConflict, BeginActive, BeginCollides,
                  BeginFull, BeginPendingFull, BeginChallenge
    <2>2. QED
      BY <1>1, <1>4, <1>5, <2>1, BeginExact
  <1>6. ASSUME NEW c \in Challenges, NEW now \in Times, Confirm(c, now)
        PROVE  SubsExact' /\ TombstonesExact'
    <2>1. UNCHANGED tombstones
      BY <1>6 DEF Confirm, ConfirmInvalid, ConfirmDropped, ConfirmFull, ConfirmActive
    <2>2. QED
      BY <1>1, <1>4, <1>6, <2>1, ConfirmExact
  <1>7. ASSUME NEW c \in Challenges, CancelPending(c)
        PROVE  SubsExact' /\ TombstonesExact'
    BY <1>1, <1>4, <1>7 DEF CancelPending, SubsExact
  <1>8. CASE Registration
    BY <1>3, <1>5, <1>6, <1>7, <1>8, Zenon DEF Registration
  <1>9. CASE DeliveryPath
    <2>1. UNCHANGED tombstones
      BY <1>9 DEF DeliveryPath, DropIfCurrent, ClaimInsert, ClaimStale,
                  MarkIfCurrent, Release
    <2>2. QED
      BY <1>1, <1>4, <1>9, <2>1, DeliveryPathExact
  <1>10. CASE Cleanup
    <2>1. UNCHANGED tombstones
      BY <1>10 DEF Cleanup, CleanupSubscriptions, CleanupDeliveries
    <2>2. QED
      BY <1>1, <1>4, <1>10, <2>1, CleanupExact
  <1>11. QED
    BY <1>1, <1>2, <1>8, <1>9, <1>10 DEF Next

\* The counters every capacity check reads are the sizes of the tables.
THEOREM CountersStayExact == Spec => []CountersExact
  BY InitTyped, NextTyped, InitKeyed, NextKeyed, InitExact, NextExact, PTL DEF Spec

-----------------------------------------------------------------------------
(* Limits *)

\* Only a challenge adds a pending row, after the count and the replacement.
LEMMA NextPendingBounded ==
    Typed /\ Keyed /\ PendingBounded /\ [Next]_storeVars => PendingBounded'
  <1>1. SUFFICES ASSUME Typed, Keyed, PendingBounded, [Next]_storeVars
                 PROVE  Cardinality(pending') <= MaxPending
    BY NextKeyed DEF Keyed, PendingBounded
  <1>2. ASSUME pending' \subseteq pending
        PROVE  Cardinality(pending') <= MaxPending
    <2>1. Cardinality(pending') <= Cardinality(pending)
      BY <1>1, <1>2, FS_Subset DEF Typed, FiniteTables
    <2>2. Cardinality(pending) \in Nat /\ Cardinality(pending') \in Nat
      BY <1>1, <1>2, FS_Subset, FS_CardinalityType DEF Typed, FiniteTables
    <2>3. QED
      BY <1>1, <2>1, <2>2, LimitAssumption DEF PendingBounded
  <1>3. ASSUME NEW d \in DeliveryKeys, NEW m \in ManagementKeys, NEW e \in Endpoints,
               NEW k \in Keys, NEW c \in Challenges, NEW now \in Times,
               BeginChallenge(d, m, e, k, c, now)
        PROVE  Cardinality(pending') <= MaxPending
    <2> DEFINE kept == Unexpired(now) \ Superseded(d, m, e)
               new  == [mgmt |-> m, delivery |-> d, challenge |-> c, endpoint |-> e,
                        keys |-> k, expiresAt |-> now + ChallengeTtl]
    <2>1. kept \in SUBSET pending
      BY DEF Unexpired
    <2>2. IsFiniteSet(kept)
      BY <1>1, <2>1, FS_Subset DEF Typed, FiniteTables
    <2>3. Cardinality(kept) \in Nat
      BY <2>2, FS_CardinalityType
    <2>4. Cardinality(kept) < MaxPending /\ pending' = kept \union {new}
      BY <1>3 DEF BeginChallenge
    <2>5. Cardinality(kept \union {new}) <= Cardinality(kept) + 1
      <3> HIDE DEF kept, new
      <3>1. Cardinality(kept \union {new})
                = IF new \in kept THEN Cardinality(kept) ELSE Cardinality(kept) + 1
        BY <2>2, FS_AddElement
      <3>2. QED
        BY <2>3, <3>1
    <2>6. Cardinality(kept \union {new}) \in Nat
      BY <2>2, FS_AddElement, FS_CardinalityType
    <2>7. QED
      BY <2>3, <2>4, <2>5, <2>6, LimitAssumption
  <1>4. CASE Registration
    <2>1. ASSUME NEW d \in DeliveryKeys, NEW m \in ManagementKeys, NEW e \in Endpoints,
                 NEW k \in Keys, NEW c \in Challenges, NEW now \in Times,
                 Begin(d, m, e, k, c, now)
          PROVE  Cardinality(pending') <= MaxPending
      BY <1>2, <1>3, <2>1
      DEF Begin, BeginRevoked, BeginConflict, BeginActive, BeginCollides, BeginFull,
          BeginPendingFull, Unexpired, registry
    <2>2. ASSUME NEW c \in Challenges, NEW now \in Times, Confirm(c, now)
          PROVE  Cardinality(pending') <= MaxPending
      BY <1>2, <2>2
      DEF Confirm, ConfirmInvalid, ConfirmDropped, ConfirmFull, ConfirmActive, registry
    <2>3. ASSUME NEW c \in Challenges, CancelPending(c)
          PROVE  Cardinality(pending') <= MaxPending
      BY <1>2, <2>3 DEF CancelPending
    <2>4. ASSUME NEW m \in ManagementKeys, Delete(m)
          PROVE  Cardinality(pending') <= MaxPending
      BY <1>2, <2>4 DEF Delete, DeleteFull, DeleteNotFound, DeleteRemoved, registry
    <2>5. QED
      BY <1>4, <2>1, <2>2, <2>3, <2>4, Zenon DEF Registration
  <1>5. CASE DeliveryPath
    BY <1>2, <1>5
    DEF DeliveryPath, DropIfCurrent, ClaimInsert, ClaimStale, MarkIfCurrent, Release,
        registry
  <1>6. CASE Cleanup
    BY <1>2, <1>6 DEF Cleanup, CleanupSubscriptions, CleanupDeliveries, registry
  <1>7. CASE UNCHANGED storeVars
    BY <1>2, <1>7 DEF storeVars
  <1>8. QED
    BY <1>1, <1>4, <1>5, <1>6, <1>7 DEF Next

\* Nothing is pending after the migrations.
LEMMA InitPendingBounded == Init => PendingBounded
  <1>1. SUFFICES ASSUME Init PROVE PendingBounded
    OBVIOUS
  <1>2. pending = {}
    BY <1>1, Zenon DEF Init
  <1>3. QED
    BY <1>2, FS_EmptySet, LimitAssumption DEF PendingBounded, PendingDistinct

\* Pending registrations never exceed their limit, and never share a name.
THEOREM PendingStaysBounded == Spec => []PendingBounded
  BY InitTyped, NextTyped, InitKeyed, NextKeyed, InitPendingBounded,
     NextPendingBounded, PTL DEF Spec

\* The registry is consistent: unique keys, pending rows that are new, within
\* their bound.
THEOREM RegistryStaysConsistent == Spec => []RegistryConsistent
  BY RowsStayUnique, PendingStaysNew, PendingStaysBounded, PTL DEF RegistryConsistent

\* A step that adds a subscription leaves the table within the limit: the
\* count read under the lock is exact, so the confirmation of a registration
\* begun when there was room cannot overfill the table.
LEMMA StepAdmitted ==
    Typed /\ Keyed /\ CountersExact /\ [Next]_storeVars => [GrowthAdmitted]_storeVars
  <1>1. SUFFICES ASSUME Typed, Keyed, CountersExact, subCount' \in Nat, SubsExact', Next
                 PROVE  GrowthAdmitted
    BY NextTyped, NextExact DEF CountersExact, SubsExact, Typed, TypeOK
  <1>2. /\ Cardinality(subs) \in Nat /\ Cardinality(subs) = subCount
        /\ Cardinality(subs') = subCount' /\ subCount' \in Nat
    BY <1>1, FS_CardinalityType DEF Typed, FiniteTables, CountersExact, SubsExact
  <1>3. \A rows \in SUBSET subs : Decrement(subCount, Cardinality(rows)) <= subCount
    <2>1. SUFFICES ASSUME NEW rows \in SUBSET subs
                   PROVE  Decrement(subCount, Cardinality(rows)) <= subCount
      OBVIOUS
    <2>2. Cardinality(rows) \in Nat
      BY <1>1, FS_Subset, FS_CardinalityType DEF Typed, FiniteTables
    <2>3. QED
      BY <1>2, <2>2 DEF Decrement
  <1>4. ASSUME subCount' <= subCount
        PROVE  GrowthAdmitted
    BY <1>2, <1>4 DEF GrowthAdmitted
  <1>5. ASSUME NEW c \in Challenges, NEW now \in Times, ConfirmActive(c, now)
        PROVE  GrowthAdmitted
    <2>1. PICK p \in pending :
            /\ Admits(p)
            /\ subCount' = IF RowsOf(p.delivery) = {}
                           THEN Decrement(subCount,
                                    Cardinality(HoldersOf(p.endpoint, p.delivery))) + 1
                           ELSE Decrement(subCount,
                                    Cardinality(HoldersOf(p.endpoint, p.delivery)))
      BY <1>5, Zenon DEF ConfirmActive
    <2> DEFINE evicted == HoldersOf(p.endpoint, p.delivery)
    <2>2. evicted \in SUBSET subs
      BY DEF HoldersOf
    <2>3. Cardinality(evicted) \in Nat
      BY <1>1, <2>2, FS_Subset, FS_CardinalityType DEF Typed, FiniteTables
    <2>4. CASE evicted # {}
      <3>1. Cardinality(evicted) # 0 /\ Cardinality(evicted) <= Cardinality(subs)
        BY <1>1, <2>2, <2>4, FS_Subset, FS_EmptySet DEF Typed, FiniteTables
      <3>2. Decrement(subCount, Cardinality(evicted)) <= subCount - 1
        BY <1>2, <2>3, <3>1 DEF Decrement
      <3>3. Decrement(subCount, Cardinality(evicted)) \in Nat
        BY <1>2, <2>3 DEF Decrement
      <3>4. subCount' <= subCount
        BY <1>2, <2>1, <3>2, <3>3
      <3>5. QED
        BY <1>4, <3>4
    <2>5. CASE subCount < MaxSubscriptions
      <3>1. Decrement(subCount, Cardinality(evicted)) <= subCount
        BY <1>3, <2>2
      <3>2. Decrement(subCount, Cardinality(evicted)) \in Nat
        BY <1>2, <2>3 DEF Decrement
      <3>3. subCount' <= MaxSubscriptions
        BY <1>2, <2>1, <2>5, <3>1, <3>2, LimitAssumption
      <3>4. QED
        BY <1>2, <3>3 DEF GrowthAdmitted
    <2>6. QED
      BY <2>1, <2>4, <2>5 DEF Admits
  <1>6. CASE Registration
    <2>1. ASSUME NEW d \in DeliveryKeys, NEW m \in ManagementKeys, NEW e \in Endpoints,
                 NEW k \in Keys, NEW c \in Challenges, NEW now \in Times,
                 Begin(d, m, e, k, c, now)
          PROVE  subCount' <= subCount
      BY <1>2, <1>3, <2>1
      DEF Begin, BeginRevoked, BeginConflict, BeginActive, BeginCollides, BeginFull,
          BeginPendingFull, BeginChallenge, HoldersOf, registry
    <2>2. ASSUME NEW c \in Challenges, NEW now \in Times, Confirm(c, now)
          PROVE  GrowthAdmitted
      BY <1>2, <1>4, <1>5, <2>2
      DEF Confirm, ConfirmInvalid, ConfirmDropped, ConfirmFull, registry
    <2>3. ASSUME NEW c \in Challenges, CancelPending(c)
          PROVE  subCount' <= subCount
      BY <1>2, <2>3 DEF CancelPending
    <2>4. ASSUME NEW m \in ManagementKeys, Delete(m)
          PROVE  subCount' <= subCount
      BY <1>2, <1>3, <2>4
      DEF Delete, DeleteFull, DeleteNotFound, DeleteRemoved, ManagedBy, registry
    <2>5. QED
      BY <1>4, <1>6, <2>1, <2>2, <2>3, <2>4, Zenon DEF Registration
  <1>7. CASE DeliveryPath
    <2>1. ASSUME NEW d, NEW e, NEW k, DropIfCurrent(d, e, k)
          PROVE  subCount' <= subCount
      BY <1>3, <2>1 DEF DropIfCurrent, Current, RowsOf
    <2>2. ASSUME UNCHANGED subCount
          PROVE  subCount' <= subCount
      BY <1>2, <2>2
    <2>3. QED
      BY <1>4, <1>7, <2>1, <2>2
      DEF DeliveryPath, ClaimInsert, ClaimStale, MarkIfCurrent, Release, registry
  <1>8. CASE Cleanup
    <2>1. subCount' <= subCount
      BY <1>2, <1>3, <1>8 DEF Cleanup, CleanupSubscriptions, CleanupDeliveries, registry
    <2>2. QED
      BY <1>4, <2>1
  <1>9. QED
    BY <1>1, <1>6, <1>7, <1>8 DEF Next

\* The table grows only up to its limit, for every limit and every number of
\* registrations pending at once.
THEOREM CapacityKept == Spec => GrowsWithinCapacity
  BY InitTyped, NextTyped, InitKeyed, NextKeyed, InitExact, NextExact, StepAdmitted,
     PTL DEF Spec, GrowsWithinCapacity

-----------------------------------------------------------------------------
(* Owners, challenges and errors *)

\* Every row after a step other than an activation or a rotation was there
\* before under the same keys.
SameRows ==
    \A t \in subs' : \E s \in subs : s.delivery = t.delivery /\ s.mgmt = t.mgmt

\* Rows appear under new keys only by a rotation or a confirmation; any other
\* statement keeps, stamps or removes them.
LEMMA MostStepsKeepRows ==
    ASSUME Typed, Keyed, [Next]_storeVars
    PROVE  \/ SameRows
           \/ \E d \in DeliveryKeys, m \in ManagementKeys, e \in Endpoints,
                 k \in Keys, now \in Times : BeginActive(d, m, e, k, now)
           \/ \E c \in Challenges, now \in Times : ConfirmActive(c, now)
  <1>1. ASSUME subs' \subseteq subs
        PROVE  SameRows
    BY <1>1 DEF SameRows
  <1>2. ASSUME NEW d, NEW e, NEW k, NEW x, NEW now, MarkIfCurrent(d, e, k, x, now)
        PROVE  SameRows
    BY <1>2 DEF SameRows, MarkIfCurrent, Typed, TypeOK, Subscription, Current, RowsOf
  <1>3. CASE Registration
    <2>1. ASSUME NEW d \in DeliveryKeys, NEW m \in ManagementKeys, NEW e \in Endpoints,
                 NEW k \in Keys, NEW c \in Challenges, NEW now \in Times,
                 Begin(d, m, e, k, c, now)
          PROVE  BeginActive(d, m, e, k, now) \/ SameRows
      BY <1>1, <2>1 DEF Begin, BeginRevoked, BeginConflict, BeginCollides, BeginFull,
                        BeginPendingFull, BeginChallenge, registry
    <2>2. ASSUME NEW c \in Challenges, NEW now \in Times, Confirm(c, now)
          PROVE  ConfirmActive(c, now) \/ SameRows
      BY <1>1, <2>2 DEF Confirm, ConfirmInvalid, ConfirmDropped, ConfirmFull, registry
    <2>3. ASSUME NEW c \in Challenges, CancelPending(c)
          PROVE  SameRows
      BY <1>1, <2>3 DEF CancelPending
    <2>4. ASSUME NEW m \in ManagementKeys, Delete(m)
          PROVE  SameRows
      BY <1>1, <2>4 DEF Delete, DeleteFull, DeleteNotFound, DeleteRemoved, registry
    <2>5. CASE \E d \in DeliveryKeys, m \in ManagementKeys, e \in Endpoints, k \in Keys,
                  c \in Challenges, now \in Times : Begin(d, m, e, k, c, now)
      <3>1. PICK d \in DeliveryKeys, m \in ManagementKeys, e \in Endpoints, k \in Keys,
                 c \in Challenges, now \in Times : Begin(d, m, e, k, c, now)
        BY <2>5
      <3>2. BeginActive(d, m, e, k, now) \/ SameRows
        BY <2>1, <3>1
      <3>3. QED
        BY <3>2
    <2>6. CASE \E c \in Challenges, now \in Times : Confirm(c, now)
      BY <2>2, <2>6
    <2>7. CASE \E c \in Challenges : CancelPending(c)
      BY <2>3, <2>7
    <2>8. CASE \E m \in ManagementKeys : Delete(m)
      BY <2>4, <2>8
    <2>9. QED
      BY <1>3, <2>5, <2>6, <2>7, <2>8 DEF Registration
  <1>4. CASE DeliveryPath
    BY <1>1, <1>2, <1>4
    DEF DeliveryPath, DropIfCurrent, ClaimInsert, ClaimStale, Release, registry
  <1>5. CASE Cleanup
    BY <1>1, <1>5 DEF Cleanup, CleanupSubscriptions, CleanupDeliveries, registry
  <1>6. CASE UNCHANGED storeVars
    BY <1>1, <1>6 DEF storeVars
  <1>7. QED
    BY <1>3, <1>4, <1>5, <1>6 DEF Next

\* No statement gives a managed delivery key to another capability.
LEMMA StepKeepsOwner == Typed /\ Keyed /\ [Next]_storeVars => [SameOwner]_storeVars
  <1>1. SUFFICES ASSUME Typed, Keyed, [Next]_storeVars PROVE SameOwner
    OBVIOUS
  <1>2. CASE SameRows
    BY <1>1, <1>2 DEF SameRows, SameOwner, Keyed, RowsUnique, UniqueRows
  <1>3. ASSUME NEW d \in DeliveryKeys, NEW m \in ManagementKeys, NEW e \in Endpoints,
               NEW k \in Keys, NEW now \in Times, BeginActive(d, m, e, k, now)
        PROVE  SameOwner
    <2>1. \A t \in subs' : t \in subs \/ (t.delivery = d /\ t.mgmt = m)
      BY <1>3 DEF BeginActive, Rotated
    <2>2. \A s \in subs : s.delivery = d => s.mgmt \in {NoKey, m}
      BY <1>3 DEF BeginActive, RowsOf, Mismatch
    <2>3. QED
      BY <1>1, <2>1, <2>2 DEF SameOwner, Keyed, RowsUnique, UniqueRows
  <1>4. ASSUME NEW c \in Challenges, NEW now \in Times, ConfirmActive(c, now)
        PROVE  SameOwner
    <2>1. PICK p \in pending : subs' = Activated(p, now)
      BY <1>4, Zenon DEF ConfirmActive
    <2>2. \A t \in subs' : t \in subs \/ t.delivery = p.delivery
      BY <2>1 DEF Activated
    <2>3. \A s \in subs : s.delivery # p.delivery
      BY <1>1 DEF Keyed, PendingIsNew
    <2>4. QED
      BY <1>1, <2>2, <2>3 DEF SameOwner, Keyed, RowsUnique, UniqueRows
  <1>5. QED
    BY <1>1, <1>2, <1>3, <1>4, MostStepsKeepRows

\* A registered delivery key keeps its management key until it is removed.
THEOREM OwnersKept == Spec => OwnerKept
  BY InitTyped, NextTyped, InitKeyed, NextKeyed, StepKeepsOwner, PTL
  DEF Spec, OwnerKept

\* A delivery key that was not registered comes from a live pending row.
LEMMA StepFromLivePending ==
    Typed /\ Keyed /\ [Next]_storeVars => [FromLivePending]_storeVars
  <1>1. SUFFICES ASSUME Typed, Keyed, [Next]_storeVars PROVE FromLivePending
    OBVIOUS
  <1>2. CASE SameRows
    BY <1>2 DEF SameRows, FromLivePending, RowsOf
  <1>3. ASSUME NEW d \in DeliveryKeys, NEW m \in ManagementKeys, NEW e \in Endpoints,
               NEW k \in Keys, NEW now \in Times, BeginActive(d, m, e, k, now)
        PROVE  FromLivePending
    BY <1>3 DEF BeginActive, Rotated, RowsOf, FromLivePending
  <1>4. ASSUME NEW c \in Challenges, NEW now \in Times, ConfirmActive(c, now)
        PROVE  FromLivePending
    <2>1. PICK p \in pending : ~Expired(p, now) /\ subs' = Activated(p, now)
      BY <1>4, Zenon DEF ConfirmActive
    <2>2. now < p.expiresAt
      BY <1>1, <2>1, TimeAssumption DEF Expired, Typed, TypeOK, Pending
    <2>3. \A t \in subs' :
              \/ t \in subs
              \/ /\ t.delivery = p.delivery /\ t.mgmt = p.mgmt
                 /\ t.endpoint = p.endpoint /\ t.keys = p.keys /\ t.updatedAt = now
      BY <2>1 DEF Activated
    <2>4. QED
      BY <2>2, <2>3 DEF FromLivePending, RowsOf
  <1>5. QED
    BY <1>1, <1>2, <1>3, <1>4, MostStepsKeepRows

\* Nothing becomes active except out of a live, challenged registration.
THEOREM Activation == Spec => ActivatedByChallenge
  BY InitTyped, NextTyped, InitKeyed, NextKeyed, StepFromLivePending, PTL
  DEF Spec, ActivatedByChallenge

\* A rotation that an index refuses is the adoption of an unmanaged row: the
\* endpoint's other holder was evicted, so the collision is on the management
\* key, which the caller's own row does not carry.
LEMMA CollisionIsAdoption ==
    ASSUME Typed, Keyed, NEW d, NEW m \in ManagementKeys, NEW e, NEW k, NEW now,
           BeginCollides(d, m, e, k, now)
    PROVE  \E s \in subs : s.mgmt = NoKey
  <1>1. SUFFICES ASSUME \A s \in subs : s.mgmt # NoKey
                 PROVE  UniqueRows(Rotated(d, m, e, k, now))
    BY DEF BeginCollides
  <1>2. PICK own \in subs : own.delivery = d /\ own.mgmt = m
    BY <1>1 DEF BeginCollides, RowsOf, Mismatch
  <1> DEFINE new == [delivery |-> d, mgmt |-> m, endpoint |-> e, keys |-> k,
                     updatedAt |-> now]
  <1>3. \A s \in Rotated(d, m, e, k, now) :
            \/ s = new
            \/ s \in subs /\ s.delivery # d /\ s.endpoint # e
    BY DEF Rotated, RowsOf, HoldersOf
  <1>4. \A s \in subs : s.delivery # d => s.mgmt # m
    BY <1>1, <1>2 DEF Keyed, RowsUnique, UniqueRows
  <1>5. QED
    BY <1>3, <1>4 DEF UniqueRows, Keyed, RowsUnique

\* A statement fails on an index only where an unmanaged row is.
LEMMA NextErrorOnlyOnAdoption ==
    Typed /\ Keyed /\ ErrorOnlyOnAdoption /\ [Next]_storeVars => ErrorOnlyOnAdoption'
  <1>1. SUFFICES ASSUME Typed, Keyed, ErrorOnlyOnAdoption, [Next]_storeVars
                 PROVE  ErrorOnlyOnAdoption'
    OBVIOUS
  <1>2. ASSUME NEW d \in DeliveryKeys, NEW m \in ManagementKeys, NEW e \in Endpoints,
               NEW k \in Keys, NEW now \in Times, BeginCollides(d, m, e, k, now)
        PROVE  ErrorOnlyOnAdoption'
    <2>1. \E s \in subs : s.mgmt = NoKey
      BY <1>1, <1>2, CollisionIsAdoption
    <2>2. subs' = subs
      BY <1>2 DEF BeginCollides, registry
    <2>3. QED
      BY <2>1, <2>2 DEF ErrorOnlyOnAdoption
  <1>3. ASSUME reply'.outcome # "error"
        PROVE  ErrorOnlyOnAdoption'
    BY <1>3 DEF ErrorOnlyOnAdoption
  <1>4. CASE Registration
    <2>1. ASSUME NEW d \in DeliveryKeys, NEW m \in ManagementKeys, NEW e \in Endpoints,
                 NEW k \in Keys, NEW c \in Challenges, NEW now \in Times,
                 Begin(d, m, e, k, c, now)
          PROVE  BeginCollides(d, m, e, k, now) \/ reply'.outcome # "error"
      BY <2>1 DEF Begin, BeginRevoked, BeginConflict, BeginActive, BeginFull,
                  BeginPendingFull, BeginChallenge, Replies
    <2>2. ASSUME NEW c \in Challenges, NEW now \in Times, Confirm(c, now)
          PROVE  reply'.outcome # "error"
      BY <2>2 DEF Confirm, ConfirmInvalid, ConfirmDropped, ConfirmFull, ConfirmActive,
                  Replies
    <2>3. ASSUME NEW c \in Challenges, CancelPending(c)
          PROVE  reply'.outcome # "error"
      BY <2>3 DEF CancelPending, Replies
    <2>4. ASSUME NEW m \in ManagementKeys, Delete(m)
          PROVE  reply'.outcome # "error"
      BY <2>4 DEF Delete, DeleteFull, DeleteNotFound, DeleteRemoved, Replies
    <2>5. CASE \E d \in DeliveryKeys, m \in ManagementKeys, e \in Endpoints, k \in Keys,
                  c \in Challenges, now \in Times : Begin(d, m, e, k, c, now)
      <3>1. PICK d \in DeliveryKeys, m \in ManagementKeys, e \in Endpoints, k \in Keys,
                 c \in Challenges, now \in Times : Begin(d, m, e, k, c, now)
        BY <2>5
      <3>2. BeginCollides(d, m, e, k, now) \/ reply'.outcome # "error"
        BY <2>1, <3>1
      <3>3. QED
        BY <1>2, <1>3, <3>2
    <2>6. CASE \E c \in Challenges, now \in Times : Confirm(c, now)
      BY <1>3, <2>2, <2>6
    <2>7. CASE \E c \in Challenges : CancelPending(c)
      BY <1>3, <2>3, <2>7
    <2>8. CASE \E m \in ManagementKeys : Delete(m)
      BY <1>3, <2>4, <2>8
    <2>9. QED
      BY <1>4, <2>5, <2>6, <2>7, <2>8 DEF Registration
  <1>5. CASE DeliveryPath
    BY <1>3, <1>5
    DEF DeliveryPath, DropIfCurrent, ClaimInsert, ClaimStale, MarkIfCurrent, Release,
        Replies
  <1>6. CASE Cleanup
    BY <1>3, <1>6 DEF Cleanup, CleanupSubscriptions, CleanupDeliveries, Replies
  <1>7. CASE UNCHANGED storeVars
    BY <1>1, <1>7 DEF storeVars, ErrorOnlyOnAdoption
  <1>8. QED
    BY <1>1, <1>4, <1>5, <1>6, <1>7 DEF Next

\* Nothing failed yet.
LEMMA InitNoError == Init => ErrorOnlyOnAdoption
  <1>1. Init => reply = [op |-> "none", outcome |-> "none"]
    BY Zenon DEF Init
  <1>2. QED
    BY <1>1 DEF ErrorOnlyOnAdoption

\* Only the adoption of an unmanaged row can fail on a unique index.
THEOREM ErrorsExplained == Spec => []ErrorOnlyOnAdoption
  BY InitTyped, NextTyped, InitKeyed, NextKeyed, InitNoError, NextErrorOnlyOnAdoption,
     PTL DEF Spec

-----------------------------------------------------------------------------
(* Records of what was sent *)

\* Delivery records that go with their subscriptions leave with a cause.
LEMMA RemovalKeepsSent ==
    ASSUME NEW rows \in SUBSET subs, rows \intersect subs' = {},
           deliveries' = deliveries \ DeliveriesFor(rows)
    PROVE  SentKept
  <1>1. SUFFICES ASSUME NEW y \in deliveries, y.status = "sent",
                        ~ \E s \in subs \ subs' : s.delivery = y.delivery
                 PROVE  \E z \in Entry(y.delivery, y.event)' : z.status = "sent"
    BY DEF SentKept
  <1>2. y \in deliveries'
    BY <1>1 DEF DeliveriesFor
  <1>3. QED
    BY <1>1, <1>2 DEF Entry

\* Nothing else happens to a record of something sent but a second mark.
LEMMA RetentionKeepsSent ==
    ASSUME \A y \in deliveries :
               y.status = "sent" =>
                   \E z \in deliveries' :
                       /\ z.delivery = y.delivery /\ z.event = y.event
                       /\ z.status = "sent"
    PROVE  SentKept
  BY DEF SentKept, Entry

\* No statement forgets what was sent while it matters.
LEMMA StepKeepsSent == Typed /\ [Next]_storeVars => [SentKept]_storeVars
  <1>1. SUFFICES ASSUME Typed, [Next]_storeVars PROVE SentKept
    OBVIOUS
  <1>2. ASSUME deliveries \subseteq deliveries'
        PROVE  SentKept
    BY <1>2, RetentionKeepsSent
  <1>3. CASE Registration
    <2>1. ASSUME NEW d \in DeliveryKeys, NEW m \in ManagementKeys, NEW e \in Endpoints,
                 NEW k \in Keys, NEW c \in Challenges, NEW now \in Times,
                 Begin(d, m, e, k, c, now)
          PROVE  SentKept
      <3>1. CASE BeginActive(d, m, e, k, now)
        <4>1. /\ deliveries' = deliveries \ DeliveriesFor(HoldersOf(e, d))
              /\ subs' = Rotated(d, m, e, k, now)
          BY <3>1 DEF BeginActive
        <4>2. HoldersOf(e, d) \in SUBSET subs /\ HoldersOf(e, d) \intersect subs' = {}
          BY <4>1 DEF Rotated, HoldersOf
        <4>3. QED
          BY <4>1, <4>2, RemovalKeepsSent
      <3>2. CASE UNCHANGED deliveries
        BY <1>2, <3>2
      <3>3. QED
        BY <2>1, <3>1, <3>2 DEF Begin, BeginRevoked, BeginConflict, BeginCollides,
                                BeginFull, BeginPendingFull, BeginChallenge
    <2>2. ASSUME NEW c \in Challenges, NEW now \in Times, Confirm(c, now)
          PROVE  SentKept
      <3>1. CASE ConfirmActive(c, now)
        <4>1. PICK p \in pending :
                /\ subs' = Activated(p, now)
                /\ deliveries' =
                       deliveries \ DeliveriesFor(HoldersOf(p.endpoint, p.delivery))
          BY <3>1, Zenon DEF ConfirmActive
        <4> DEFINE evicted == HoldersOf(p.endpoint, p.delivery)
        <4>2. evicted \in SUBSET subs /\ evicted \intersect subs' = {}
          BY <4>1 DEF Activated, HoldersOf
        <4>3. QED
          BY <4>1, <4>2, RemovalKeepsSent
      <3>2. CASE UNCHANGED deliveries
        BY <1>2, <3>2
      <3>3. QED
        BY <2>2, <3>1, <3>2 DEF Confirm, ConfirmInvalid, ConfirmDropped, ConfirmFull
    <2>3. ASSUME NEW c \in Challenges, CancelPending(c)
          PROVE  SentKept
      BY <1>2, <2>3 DEF CancelPending
    <2>4. ASSUME NEW m \in ManagementKeys, Delete(m)
          PROVE  SentKept
      <3>1. CASE DeleteRemoved(m)
        <4>1. /\ ManagedBy(m) \in SUBSET subs /\ ManagedBy(m) \intersect subs' = {}
              /\ deliveries' = deliveries \ DeliveriesFor(ManagedBy(m))
          BY <3>1 DEF DeleteRemoved, ManagedBy
        <4>2. QED
          BY <4>1, RemovalKeepsSent
      <3>2. CASE UNCHANGED deliveries
        BY <1>2, <3>2
      <3>3. QED
        BY <2>4, <3>1, <3>2 DEF Delete, DeleteFull, DeleteNotFound
    <2>5. QED
      BY <1>3, <2>1, <2>2, <2>3, <2>4, Zenon DEF Registration
  <1>4. CASE DeliveryPath
    <2>1. ASSUME NEW d \in DeliveryKeys, NEW e \in Endpoints, NEW k \in Keys,
                 DropIfCurrent(d, e, k)
          PROVE  SentKept
      <3>1. /\ Current(d, e, k) \in SUBSET subs /\ Current(d, e, k) \intersect subs' = {}
            /\ deliveries' = deliveries \ DeliveriesFor(Current(d, e, k))
        BY <2>1 DEF DropIfCurrent, Current, RowsOf
      <3>2. QED
        BY <3>1, RemovalKeepsSent
    <2>2. ASSUME NEW d \in DeliveryKeys, NEW e \in Endpoints, NEW k \in Keys,
                 NEW x \in Events \union {NoEvent}, NEW now \in Times,
                 MarkIfCurrent(d, e, k, x, now)
          PROVE  SentKept
      <3>1. ASSUME NEW y \in deliveries, y.status = "sent"
            PROVE  \E z \in deliveries' :
                       /\ z.delivery = y.delivery /\ z.event = y.event
                       /\ z.status = "sent"
        <4> DEFINE marked == [y EXCEPT !.status = "sent", !.updatedAt = now]
        <4>1. y \in Delivery
          BY <1>1 DEF Typed, TypeOK
        <4>2. /\ marked.delivery = y.delivery /\ marked.event = y.event
              /\ marked.status = "sent"
          BY <4>1 DEF Delivery
        <4>3. y \in deliveries' \/ marked \in deliveries'
          BY <2>2 DEF MarkIfCurrent, Touched
        <4>4. QED
          BY <3>1, <4>2, <4>3
      <3>2. QED
        BY <3>1, RetentionKeepsSent
    <2>3. ASSUME NEW d \in DeliveryKeys, NEW x \in Events, NEW now \in Times,
                 ClaimInsert(d, x, now)
          PROVE  SentKept
      BY <1>2, <2>3 DEF ClaimInsert
    <2>4. ASSUME NEW d \in DeliveryKeys, NEW x \in Events, NEW now \in Times,
                 ClaimStale(d, x, now)
          PROVE  SentKept
      <3>1. \A y \in deliveries : y.status = "sent" => y \in deliveries'
        BY <2>4 DEF ClaimStale, Touched, StaleClaims, Entry
      <3>2. QED
        BY <3>1, RetentionKeepsSent
    <2>5. ASSUME NEW d \in DeliveryKeys, NEW x \in Events, Release(d, x)
          PROVE  SentKept
      <3>1. \A y \in deliveries : y.status = "sent" => y \in deliveries'
        BY <2>5 DEF Release
      <3>2. QED
        BY <3>1, RetentionKeepsSent
    <2>6. QED
      BY <1>4, <2>1, <2>2, <2>3, <2>4, <2>5, Zenon DEF DeliveryPath
  <1>5. ASSUME NEW now \in Times, CleanupSubscriptions(now)
        PROVE  SentKept
    <2>1. PICK rows \in SUBSET subs :
            subs' = subs \ rows /\ deliveries' = deliveries \ DeliveriesFor(rows)
      BY <1>5 DEF CleanupSubscriptions
    <2>2. QED
      BY <2>1, RemovalKeepsSent
  <1>6. ASSUME NEW now \in Times, CleanupDeliveries(now)
        PROVE  SentKept
    BY <1>6 DEF CleanupDeliveries, Replies, SentKept
  <1>7. CASE UNCHANGED storeVars
    BY <1>2, <1>7 DEF storeVars
  <1>8. QED
    BY <1>1, <1>3, <1>4, <1>5, <1>6, <1>7 DEF Next, Cleanup

\* A delivery recorded as sent stays recorded until the retention ends or its
\* subscription goes.
THEOREM SentStaysFinal == Spec => SentIsFinal
  BY InitTyped, NextTyped, StepKeepsSent, PTL DEF Spec, SentIsFinal

=============================================================================
