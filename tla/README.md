# Sub-Etha: formal models and proofs

Sub-Etha is a Matrix chat client that runs in the browser, with a small push gateway on a
server. This directory holds TLA+ models of the parts of it whose correctness depends on
the order of things: several tabs, IndexedDB transactions, token refreshes, a service worker,
database statements of concurrent server instances, downloads that share a queue and a cache. TLC checks the models on small instances, and
TLAPS proves every safety property of the passing runs for every value of the constants.

Every definition is a translation of the source. `PROJECT.json` names, for each one, the
file, the lines and the symbol it stands for. Paths below are relative to the repository.

    tlc -workers 2 -config MCMatrixSession.cfg MCMatrixSession.tla     # a run
    tlapm MatrixSessionProofs.tla                                      # the proofs

1. [The system](#1-the-system)
2. [The modules](#2-the-modules)
3. [The runs](#3-the-runs)
4. [The proofs](#4-the-proofs)
5. [Where code and documents disagree](#5-where-code-and-documents-disagree)
6. [What is not modelled](#6-what-is-not-modelled)
7. [Plan](#7-plan)

## 1. The system

| Component | State it keeps | Operations | What makes it correct |
|---|---|---|---|
| push persistence (`lib/push-repository.ts`, `drizzle/*.sql`) | five tables and the counters of `push_gateway_state` | begin, confirm, cancel, delete, drop, cleanup; claim, mark, release, purge; rate limits | keys unique, revocation final, counters equal to the tables, capacities kept |
| push service (`lib/push-server.ts`) | nothing between requests | notify and deliver; register, confirm, remove, test | no duplicate and no loss that has no cause; claims returned; a removal is final |
| service worker (`public/sw.js`) | one configuration record, a queue of changes, shown notifications, the badge | configure, migrate, clear, push, subscription change, click | nothing is shown for an account that left; every push is settled visibly |
| push lifecycle (`lib/matrix/notifications.ts`) | credentials, journal, intent, epoch in `localStorage`, a lock | enable, refresh, disable, clean up, forget | a capability that may be registered is known to somebody who can remove it; a sign-out sticks |
| session vault (`lib/matrix/session-store.ts`) | one IndexedDB record, the Matrix databases of the origin | inspect, create, migrate, unlock, reseal, delete, forget, clean up | one sealed session, no plaintext beside it, nothing left when it goes |
| vault cryptography (`lib/security/*`) | none | seal, open, enrol a passkey | outside: values only |
| Matrix adapter (`lib/matrix/client.ts`) | `MatrixService`: lease, locks, tasks, SDK client | start, refresh, stop, log out, page hide; chat operations | one client per vault; no credentials lost silently |
| login (`lib/matrix/auth.ts`) | pending login in `sessionStorage` | redirect, password, token exchange | a grant that is not used is revoked |
| media (`lib/matrix/media.ts`) | the operation gate; in the service the cache, its aliases, object URLs | download, poster, upload, invalidate, stop | one operation at a time, exact counts, no URL lost or revoked early, every call returns |
| application shell (`app/components/*.tsx`) | the screen, the service reference, warnings | inspection, setup, unlock, connect, log out, forget, take over | every operation that was overtaken gives up what it holds |
| timeline, message content, drafts, browser policy, scripts | presentation, or single values | pure functions and one-shot commands | unit tests |

How they interact:

- **Browser and vault.** All tabs of an origin share the record, the databases and two Web
  Locks (vault lock, then account lock), both asked for with `ifAvailable`, so a tab never
  waits. A tab unlocks (`SessionLease`), releases the lock, and the service takes it again in
  `performStart`. Everything in between may have changed.
- **Service and application.** `MatrixService` calls back through `onSessionInvalidated`;
  the application holds it in `pendingServiceRef`, then in `serviceRef`, and drops it on
  takeover, logout and page hide. What has been started (SDK start, refresh, logout) is
  never cancelled, it settles later.
- **Homeserver and gateway.** The homeserver calls `notify` again until it gets 200. Several
  server instances may run `deliver` for the same event; the database is the only thing
  they share.
- **Worker, page and gateway.** The gateway proves an endpoint by a challenge that goes
  through the push provider to the worker and back. The page writes the worker's configuration
  by messages that queue behind the pushes being handled, and gives up on an answer that does not come:
  the message stays queued. A request the page gave up on may still be served.
- **Media.** Downloads, posters and uploads of one service share one lease at the gate. A poster's
  call fetches the asset first, by a call that may be another's.

The hard behaviours: operations that were overtaken between two awaits; an IndexedDB
deletion that is reported as failed and happens later; a refresh whose answer arrives when
the service that asked is gone; a lease of a delivery claim that runs out while the
provider is still thinking; a worker that read its configuration before it was replaced; a setup
that was overtaken by a sign-out in another window; an eviction of an entry whose content is on its
way; tabs, workers and servers that stop anywhere. `PROJECT.json` lists each hazard with
the line where it bites and the properties that cover it.

## 2. The modules

| Module | Models | Composes |
|---|---|---|
| `PushStore` | the tables and every statement on them | - |
| `PushDelivery` | `notify`/`deliver`, homeserver, provider, browsers, clock | EXTENDS `PushStore` |
| `PushEnrolment` | `changeSubscription`/`testNotification`, provider, challenges, callbacks, clock | EXTENDS `PushStore` |
| `PushLifecycle` | the windows' side of notifications, with worker, gateway, homeserver | - |
| `PushWorker` | the service worker's own concurrency | - |
| `SessionVault` | vault, databases, lock, tabs | implements `VaultPromise` |
| `VaultPromise` | the vault as its users see it | - |
| `MatrixSession` | one service from construction to release | - |
| `MediaGate` | the gate's part of each step | - |
| `MediaService` | downloads, posters, uploads, cache | EXTENDS `MediaGate` |
| `PushStoreProofs`, `PushDeliveryProofs`, `PushEnrolmentProofs`, `PushLifecycleProofs`, `PushWorkerProofs`, `SessionVaultProofs`, `MatrixSessionProofs`, `MediaServiceProofs` | theorems | EXTEND theirs (`PushDeliveryProofs` and `PushEnrolmentProofs` also `PushStoreProofs`) and TLAPS |
| `MC*` | instances for TLC | EXTEND theirs |

### PushStore

`subs`, `pending`, `revoked`, `deliveries` are the tables; `subCount`, `revokedCount`,
`revokedLimit` the columns of `push_gateway_state` that triggers and procedures maintain;
`reply` is what the last statement returned. One action is one statement: the procedures
begin, confirm and delete lock the gateway row first, and the others are single statements,
so the database makes each of them atomic. Callers are unrestricted: any capability, any
endpoint, any clock reading, in any order, which covers every server version and every
replay. `Begin` and `Confirm` are split into their outcomes (`BeginActive`, `BeginFull`,
`Expired`...), each with its guard from the procedure's branches. Unique indexes are
modelled by what they do: a statement that would break one ends in the outcome `error`
and changes nothing. The initial states include rows from before migration 0001, which have no management
key, and a tombstone limit that was never set.

### PushDelivery

A request (`request[r]`) carries one event to every registered device, one `job[r][d]` per
device; a job advances one statement or one provider call at a time and keeps what it read:
the subscription's snapshot, and the time read once before its first statement. The homeserver makes
one call at a time but does not wait for ever, so requests overlap. The provider accepts,
refuses, reports the endpoint gone, or accepts while the answer gets lost. `Die` stops an
instance between any two steps. The browser may `Move` (rotate its subscription) or
`Revoke`. `accepted` and `excused` are history: how many messages the provider took, and why
the number may differ from one.

### PushEnrolment

A call carries what its handler holds in local variables: device, endpoint and keys, the clock
reading, or the snapshot a test read. Registration is sweep, begin, budget, challenge, and on a
refusal of the provider cancel; removal is one statement; a test reads, asks its budget, sends and then marks
or drops what it read. A challenge is named by the call that began it; `returning` holds those a
worker has, and each may come back at any time, more than once. The provider may take a challenge and lose
the answer, and forgets endpoints (`gone`); the homeserver's callbacks appear by the statements that
touch the registry, with snapshots as old as they like. `Owner` says that a browser draws delivery and management
keys together. Budgets may refuse at any step, and a removal refused by its budget is no step. The service
may answer 502 ("could not be confirmed") for a registration that does become active; the page treats it as failed
and undoes it, which `PushLifecycle` has.

### PushLifecycle

`creds`, `journal`, `fallback`, `intent` are the `localStorage` entries; the epoch is only compared, so it is
`knows`, the windows whose memory of it is current. `page[t]` is where a window is in its setup or
cleanup, and everything from the subscription to the commit and all of a cleanup holds `lock`. The journal is
what is left to do: sets of capabilities to revoke at the gateway and at the homeserver, two flags for worker
and subscription. `flight` holds requests, `posted` the messages at the worker; a sender that gave up leaves
both behind, which is how a timeout, a closed tab and a late answer look the same here. A failing
storage is an outcome of each write; `undurable` is set when a new capability could be stored nowhere at all, in
which case the code tells the user that cleanup cannot be guaranteed. Probing for work and beginning the
cleanup are one step, as are confirmation and renewal POST at the gateway. The user's
acknowledgement of leftovers in `Settle` is a free choice.

### PushWorker

The queue is the promise chain `pushConfigMutation`: one operation runs at a time, one step per
`await`. `push[p]` is a handler of a push event: it reads on its own and puts into the queue what must
not be overtaken (showing, badge, tidying). `Terminate` ends the worker between any two
steps, `OperationFails` fails any IndexedDB access, `Unregister` is the page deleting registration and database from
outside, the one case the worker's re-reads in its handlers are for. `config` is capability and form of generation: own,
none yet (legacy), or the hash given by migration. The browser displays what it is asked to. `READ_PUSH_CONFIG`
changes nothing, and where a click navigates is left out.

### MediaGate and MediaService

`MediaGate` has the lease (`active`), the queue with its reservations, the running total and `closed`, as
operators the service's steps are built from; `Pumped` is the loop that grants the next lease at each release,
abort or admission. What the queue reserves and what the cache holds are sums, written as the number of the units they
count, each unit named by the operation or the slot it belongs to (`Reserved`, `BytesOf`). `MediaService` has one record per call (`ops`), the cache of downloads and posters (an
entry names the call that inserted it), the byte total, the aliases, and the object URLs that are `live`. A step is
what runs between two awaits. `Invalidate` is the user's retry, `Stop` the end of the service,
`Cancel` a caller that left. Bytes are small numbers, which settled entry is the oldest is left open,
and an image is drawable or not. That room for one more entry is always found, so that the error of `ensureMediaCacheSlot` never occurs, is a part of `CacheSound` (`RoomFound`); it rests on
`RoomAssumption`, since the gate admits four calls and the cache has 96 places. A call that finds another's poster being drawn shares its outcome.

### SessionVault and VaultPromise

`record` is the value under `SESSION_KEY` (absent, legacy, corrupt, locked, erasing, erased)
with identity, revision and the databases it names; `dbs` the databases of the origin;
`doomed` those whose deletion was given up on after five seconds but is still queued in
IndexedDB; `lock` the vault lock. Each tab has a screen or operation (`step`), the
descriptor or lease it carries (`seen`), the databases it still has to delete (`todo`). A
readwrite transaction is one step. Taking the lock and the first read are one step too:
only `completeLocalSessionCleanup` changes the record without the lock. The account lock
is omitted, it is always taken under the vault lock. An identity is a number in minting
order, the two databases of a crypto store are one, and the key is right or wrong.

`VaultPromise` is the contract: one sealed session and one client at most; a session leaves
by being retired; its databases go after that and not before; the vault is empty only when
nothing is left. `PromiseKept` in `SessionVault` states the refinement, with `phase`,
`client` and `left` as functions of the record, the lock and `dbs`.

### MatrixSession

One `MatrixService`, from `new` to the release of its locks, with the application's
reference (`app`: pending, current, leaving, gone, or an error shown), its warnings
(`warned`) and the document (`page`). A credential pair is a number in the order of issue;
`vault` holds the pair that is sealed, a tombstone or another tab's record.

- `start`, `refresh`, `out` are where `performStart`, `performTokenRefresh` and
  `performLogout` stand; `outcome` is how the last refresh settled, which is what
  `performLogout` and `stopWithError` look at.
- `mode` is `shutdownMode`; the field `stopped` is true exactly when it is not "none".
  `afterStop` and `afterHide` are the two release tasks.
- `AnswerLate` is a response after the 30 s deadline: its pair is revoked and nobody learns
  the result.
- `StartFails` is the catch of `performStart`, its `finally` in `start`, and the `stop()` of
  `connect`. It may happen at any time, which over-approximates what the SDK can throw.
- `PageHide` reaches only a service the application still refers to.
- `OtherTab` is everything `SessionVault` allows another tab while the lock is free.

One life is enough: a stopped service is never restarted, and a page that opens again
builds a new one, from the pair it finds in the vault. What it may find after a crash is `OnlyLastAtRisk`: the
document may close, and with it the service, between any two steps. A warning that the user acknowledges and the unmounting of the React tree
are left out.

## 3. The runs

| Run | Instance | States | Question and answer |
|---|---|---|---|
| `store_registry` | three browsers, two places, two pending slots, clock 0..2, no deliveries | 9,990 | In every order of registration, rotation, confirmation, removal: rows are unique and consistent, a pending registration is for a new capability, revocation is final, counters are exact, capacities are kept, owners do not change, activation follows a live challenge, and a database error needs an unmanaged row. |
| `store_rotation` | two browsers | | Disagreement: an endpoint can become active without a challenge. |
| `delivery` | one device, one event, two requests, a lease of two ticks, clock 0..3 | 667,876 | Every duplicate has a cause; within a lease one attempt sends; a claim survives only an attempt that died; every 200 is explained; what was recorded as sent stays so. |
| `delivery_lost` | the same | | Disagreement: an event answered 200 can be lost with its attempt. |
| `enrolment` | two enrolments of a browser, two calls, three endpoints (one distrusted), one pending slot | 942,942 | A removal is final whatever overtook it; a challenge that is out is honoured; a device that moved is not removed for the endpoint it had. |
| `lifecycle` | two windows, two capabilities, one late request, two queued messages | 3.37 million | No live capability is forgotten; a completed cleanup leaves nothing; an enrolment is on everywhere or nowhere; a sign-out is not undone by a setup from before. |
| `worker` | two accounts (one legacy), one push, two queued operations | 581,070 | Nothing of one account shows while another is configured, nothing outlives its account, every push settles visibly. |
| `vault` | two tabs, three identities, two revisions | 105,638 | A running client owns exactly the stored record; nothing is left behind, no plaintext beside a sealed record; no live store is deleted; records follow one lineage; `VaultPromise` is implemented; the lock is always released. |
| `vault_abort` | one tab | | Disagreement: a cancelled commit leaves a record without an owner. |
| `session` | two refreshes | 7,218 | Credentials are accounted for; a logout is honest; a client holds its vault; a document that dies strands one pair at most; nothing is resurrected; the lock is released. |
| `session_hidden` | the same | | Disagreement: a hidden page may leave a refresh without a warning. |
| `media` | two fetching calls and an upload, two attachments, three places of which two queued, two bytes reserved, a cache of two entries and one byte | 108,866 | One holder of the lease and exact reservations; cache totals exact; room for the next entry; URLs live exactly as long as their entries; nothing from before a retry is kept; every call returns. |

Every property of a passing run has a mutant in `PROJECT.json`: a plausible bug, written as
a faulty variant beside the definition it replaces, which makes TLC refute the property on
the same instance. Type invariants are theorems; the one that also relates
queue and handlers (`worker`) is checked by its run too.

**Bounds, and why they are enough.** *Registry*: a place is contested by two browsers and a third one
arrives late; two challenges allow a replaced registration; three clock values put an event
before, at and after an expiry. Collisions involve at most two rows and a caller.
*Delivery*: an overlap needs two requests, a claim taken over needs the clock to pass the
lease once, and devices do not interact except through budgets, which may refuse at any time.
*Enrolment*: a call that overtakes another needs two; two devices that may share an endpoint meet every index; one
pending slot makes the limit refuse; the third endpoint is one the policy stopped accepting.
*Lifecycle*: two windows, so that one can overtake the other at each step; two capabilities, the second one drawn while the first is
still being undone; a request and a message that outlive their senders. Beyond a state in which no storage took
a capability (`undurable`) the run does not go, since nothing is claimed there (CONSTRAINT `Durable`).
*Worker*: a push against two queued changes covers each read that is stale when used; the theorems hold for any number of
pushes at a time.
*Vault*: the interleavings found
interesting involve a tab that owns and one that remembers something obsolete or removes;
three identities allow a login that follows a removal while an older one is
remembered, two revisions allow one refresh. The theorems hold for any number of tabs. *Session*: the first refresh may end well, the
second one badly, and a late answer may come after either. *Media*: the byte bound refuses what the queue has places
for; both limits of the cache evict; an upload competes with downloads. The proofs below remove the
bounds from the safety properties of every component. TLC's symmetry sets are used in safety runs only. Deadlock is
not checked in the delivery and enrolment runs, whose clock and requests end.

**Fairness.** The runs of store, delivery, enrolment and lifecycle are safety only. `vault` assumes weak fairness of
`Progress(t)` for each tab, and of the deletions IndexedDB has queued: IndexedDB answers, a
strict deletion settles after five seconds at the latest, Web Locks are not awaited. `session`
assumes weak fairness of `Progress`: a refresh has a 30 s deadline, a revocation has its own,
transactions answer, and the SDK's start resolves or throws (the one assumption about code outside
the repository). `worker` assumes that the event loop runs what is ready: the running operation (`Operate`) and each
handler; the renewal's fetches settle. `media` assumes it of each call's own step: a download and a drawing have
deadlines in the code, what an upload awaits settles. Nothing is assumed of the user, of other tabs, of the SDK asking for a refresh, of
requests to a server or of the browser keeping a worker alive, and a document that
closes is not required to do anything more.

## 4. The proofs

| Module | Theorems (property they state) | Assumptions on the constants |
|---|---|---|
| `PushStoreProofs` | `TypeCorrect`, `RegistryStaysConsistent` (`RegistryConsistent`), `Revocation` (`NoResurrection`), `CountersStayExact` (`CountersExact`), `CapacityKept` (`GrowsWithinCapacity`), `OwnersKept` (`OwnerKept`), `Activation` (`ActivatedByChallenge`), `ErrorsExplained` (`ErrorOnlyOnAdoption`), `SentStaysFinal` (`SentIsFinal`) | `NoKey` is no key, `NoEvent` no event; times and limits are naturals, the tombstone limit is positive |
| `PushDeliveryProofs` | `DeliveryTypeCorrect`, `OneAttempt` (`LeaseExclusive`), `Deduplicated` (`DuplicateExplained`), `NoClaimLost` (`ClaimsReturned`), `AnswersExplained` (`AckExplained`), `SentStaysFinalInDelivery` (`SentIsFinal`) | those of `PushStore`; a lease lasts some time (`StaleAfter # 0`), there is a challenge to rotate with (`Challenges # {}`), the clock's readings are times |
| `PushEnrolmentProofs` | `EnrolmentTypeCorrect`, `RemovalIsFinal` (`RemovedForGood`), `ChallengesHonoured` (`PendingKept`), `RowsKept` (`RowsLeaveForCause`) | those of `PushStore`; calls name challenges, `Owner` gives each delivery key a management key, the clock's readings are times |
| `PushLifecycleProofs` | `TypeCorrect`, `LiveIsRecorded` (`CapabilityRecorded`), `CleanupIsComplete` (`CleanupLeavesNothing`), `EnrolmentIsWhole` (`EnrolledIsWhole`), `RequestStands` (`SignOutSticks`) | `NoTab` is no window, `None` no capability and no journal, windows are no capabilities |
| `PushWorkerProofs` | `TypeCorrect` (`TypeOK`), `AtRestNothingStale` (`NothingStale`), `ShownForStored` (`ShownForConfigured`) | legacy capabilities are capabilities, `None` is no configuration and no push, the pushes handled at a time are finitely many, the bound is a natural |
| `SessionVaultProofs` | `TypeCorrect`, `OneOwner` (`ClientOwnsRecord`), `CleanWhenEmpty` (`NothingLeftBehind`), `LiveStoresKept` (`LiveStoreKept`), `LineageKept` (`OneLineage`), `VaultImplementsPromise` (`PromiseKept`) | `NoTab` is no tab; `Legacy` and `Sync` are two values that are no numbers |
| `MatrixSessionProofs` | `TypeCorrect`, `CredentialsKept` (`CredentialsAccounted`), `HonestLogout` (`LogoutIsHonest`), `VaultHeld` (`ClientHoldsVault`), `OneAtRisk` (`OnlyLastAtRisk`), `NeverResurrected` (`NoResurrection`) | tombstone and foreign record are two values that are no pairs; the bound is a natural |
| `MediaServiceProofs` | `TurnsSound` (`GateSound`), `CacheAccounted` (`CacheSound`), `NoUrlLost` (`UrlsAccounted`), `RetryIsFresh` (`NothingOutdated`) | operations and keys are finitely many, there is a key; uploads are operations; limits are naturals, no single file is larger than the cache, which has a place for each call that fetches (`RoomAssumption`); `None` is no operation and no entry |

Every safety property of the passing runs is a theorem. The number of
browsers, devices, capabilities, events, overlapping requests and calls, late requests, queued messages, windows and tabs, pushes, logins, revisions and
refreshes, downloads, posters and uploads, attachments and cache entries is arbitrary in all of them. The bounds
`MaxMinted`, `MaxRevision`, `MaxIssued`, `MaxClock` are guards of the modules; since the theorems hold for every
value of them, they hold of every finite behaviour of the code.

**PushStore.** The inductive invariant is types and finiteness (`Typed`), uniqueness and
newness (`Keyed`), `CountersExact`, `PendingBounded` and `ErrorOnlyOnAdoption`. They lean on
each other: the row that a confirmation inserts is unique only because the pending
registration was for a new capability; the counter is exact only because the rows that a
statement removes are distinct; capacity is kept only because the counter is exact.

**PushDelivery.** Types, keys and the final "sent" are inherited: each step is shown to be a statement of
`PushStore` or to leave the tables alone, so `Typed` and `Keyed` are preserved by the lemmas about statements. On top of them
`DeliveryTyped` gives each job the shape of its step (which fields a job at "send" carries). `Claimed` ties each
pending claim to the attempt that will end it, or to one that died. `Exclusive` is the lease argument: an event has at
most one entry per device; a job's reading of the clock is past; and a job between its claim and its end either
has been outlived (`Lapsed`), or holds the claim that is in the table, which nobody can take over before it is stale (`Backed`,
`Fresh`), and then it is the only one (`Sole`). Outliving is noted by the tick at which a claim becomes
stale, not by the one who takes it over, so the invariant must look one tick ahead. `CountedOnce` says that a message that was taken leaves
a record that prevents another one, unless one of four things is noted. `Accounted` follows an answer from the job's result through the request's
status to the homeserver's 200: what a job that suppressed or rejected must have met, and that the table's
"sent" means that the provider took the message.

**PushEnrolment.** Again each step is a statement of `PushStore` or none. `CallsProper` says what a call carries from one
statement to the next: a subscription while it is under way, an endpoint that does not work when it is about to drop a row, and
a tombstone once it has said "removed" or "not found". `RemovedForGood` follows from it and `NoResurrection`; the two action
properties go through the statements that take rows away (`EnrolmentStatements`), and rest on pending registrations being distinct.

**PushLifecycle.** None of the properties is inductive, because each speaks of a moment when the windows are at rest
while most steps belong to a window that is not, and because what a window sent outlives it. The invariant has five
parts. `Shapes` are the types. `Holding` says who has the lock and what it then knows. `Awaited` is the argument about the
worker's queue: a window waits for the answer to one message at a time and sends none meanwhile, and messages are sent by the holder of the lock only, so a
message whose sender still listens is the last of the queue; when the worker has stored the configuration a live window asked for, nothing
is left behind it that could store another. `Drawn`: a capability appears nowhere before it was drawn. `Safe` is what the windows
share (`Shared`) and what a window may rely on at each place of its way (`Phase`). There, `Undone` carries the
cleanup: what a journal no longer lists is off and cannot come back. A capability is revoked, which is final whatever requests are still in
flight; the worker has no configuration and its queue no message that would store one. `Asks` and `Recalls` are the epoch
argument behind `SignOutSticks`: no window that was asked to clean up has a current epoch, and one whose epoch is current and that found credentials found those that are stored.
`Whole` says that, while every capability could be stored, what was drawn is recorded or revoked, and that credentials
without a pending cleanup are enabled everywhere with nothing on its way against them (`Quiet`, `Doomed`). TLC
checked this invariant (3.4 million states) before it was proved, and the proof fails in the one expected step for each of four faulty
variants of the model. The constraint `Durable` of the run is not needed: the theorems cover the states it cuts off.

**PushWorker.** `NothingStale` speaks of a worker at rest, so the invariant says what is owed before that. `Lined` is the queue:
an operation that a handler queued is the one this handler waits for, each waiting handler has exactly one, and so what lies
beyond the places that pages may fill are operations of distinct handlers; the bound in `TypeOK` follows by counting them. `Informs` is what a handler
knows from its own reads. `Relies` is what the running operation has read: the stored configuration is still that
one, because operations run one at a time, unless the page has deleted the database from outside. `Owed` carries the property: whatever is shown, or
counted by the badge, for another configuration than the stored one will be dismissed, by the running set or clear
(which dismisses after it has written) or by the tidying of the handler that showed it (`Dismissing`, `Unbadging`). Where a worker is
ended half-way or the database fails, nobody is left who would (`interrupted`), until the next clearing. TLC checked the
invariant before it was proved, and four faulty variants of the model each make the proof fail in the one step they change.

**SessionVault.** None of the properties is inductive. `Operating` says what the record
looks like to an operation that holds the lock. `Past` says that no tab remembers a record
that is still to come, so an obsolete cleanup descriptor never matches again (this is what
keeps a new login's databases safe from a retry in an old tab). `Recalled` says which
kind of record a step remembers, `Covered` that the record names every database there
is unless its cleanup takes all, and `Removal` that a deleting operation has on its list
whatever is left. The refinement of `VaultPromise` is proved from the same invariant: initial states map to
initial states, and each step to a step of the contract or a stutter.

The revision checks in `commitReseal` and `commitTombstone` are not needed in this argument,
because they happen under the lock. `MatrixSession` shows where they matter: a start that
fails by itself releases the lock while a write of its client may be on its way.

**MatrixSession.** `CredentialsAccounted` speaks of a service at rest, so the invariant must
say who is responsible before that. `Pending`: somebody waits for a refresh in flight after a
stop (the release task, or the logout of a visible page) or a warning has been kept. `Settled`: once none is in flight, the last pair is sealed
or revoked, or its bad end has been, or is about to be, reported. `Running`: what a service that was not
stopped relies on. `Removal`: what a logout under way, or told, knows of its pairs, in particular that the pair it
found in the lease is the last one unless the refresh's outcome says otherwise. `Ends`: how shutdown mode, logout and
the application's reference fit together. `Owned`: under which start the lock is held. TLC checked each of these
parts as an invariant before it was proved. `OnlyLastAtRisk` rests on a second invariant, `Chain`, inductive relative to the first: a pair is
issued only while the last one is sealed, because a refresh is asked for by a service that was not stopped, and a service that could not seal
its pair stops. So the gap behind a dead document never widens.

**MediaService.** The invariant has a part for the gate, `Gated`: the queue's operations are distinct, its total is what they
reserve, who holds the lease is not queued, and nobody waits while the lease is free. The lemmas `Appended`, `Shifted` and `Remains` say what
admission, a grant and an abort do to a queue, the last one by showing that the places of those that stay are filled one by one; since sums of
disjoint sets of units add up, the subtraction that the code cuts off at zero is never cut off. `Turns` ties lease and queue to where the calls are. `Kept`
is the cache's account: `Rewritten` is the one lemma by which insertion, settling, failure, invalidation and eviction keep the byte total, the aliases
and the URLs together. That a cache which evicts everything else fits again rests on no entry being larger than the cache. `Entered` is needed for it: the bytes of an entry are added once only
because a call that is still on its way has an entry that has not settled, and an entry that has not settled has such a call.
`RoomFound` follows by counting: the entries that have not settled belong to distinct calls other than the one that wants to insert.
TLC checked the parts before they were proved; five faulty variants (the gate's abort and release, the failing call's
removal, the revocation of URLs, the check for an invalidation) make the proof fail in the steps they change.

Only model-checked: liveness (`LockReleased`, `PushSettles`, `CallsReturn`), because TLAPS does not handle it under fairness (neither ENABLED). The four runs that refute a document are counterexamples and need no proof. The modules contain
no recursive operators and no induction over data.

## 5. Where code and documents disagree

Each is a run that TLC must refute, and an entry of `PROJECT.json` "findings" with the quotation.

- `store_rotation`: begin rebinds an existing row to another endpoint without a challenge,
  while ADR-0008 and the README say that an endpoint counts only after its challenge came back.
- `delivery_lost`: a callback that meets another attempt's claim is answered 200; if that attempt
  fails or dies, no later call recovers the lease as ADR-0008 says.
- `vault_abort`: a cancellation between commit and completion ends an operation without a
  lease although its record is stored; a comment in `session-store.ts` excludes this.
- `session_hidden`: `scrubForPageHide` promises a durable warning when a refresh is in
  flight, and cannot know of the refresh of a service that was stopped just before.

## 6. What is not modelled

- The content of records, messages, URLs and payloads, and cryptography: the models tell
  apart a valid and a corrupt record, a right and a wrong key, and no more.
- The two rate counters (`consumeRateLimit`, `consumeGlobalRateLimit`): in `PushDelivery` and `PushEnrolment` a budget
  may pass or refuse at any time. The two-argument delete that migration 0003 keeps for
  older instances. Row locks and deadlocks inside PostgreSQL, which aborts one of the statements. There is no foreign
  key between `push_deliveries` and `push_subscriptions`, so a claim for a row that was just removed is possible, and modelled.
- `begin` reads the clock twice in the server; one reading is passed here.
- `PushLifecycle`: credentials from before generations and their migration (the worker's half is in `PushWorker`), damaged
  entries of `localStorage`, a `localStorage` cleared by the user, pushers at a former homeserver, notifications and
  badge (in `PushWorker`), the gateway dropping endpoints that do not work any more (in `PushDelivery` and `PushEnrolment`).
- `PushWorker`: installation, activation and the offline page; where a click leads.
- `MediaService`: encryption and inspection of content, which are verdicts; of an upload's way through the SDK only that
  it ends. The path on which a call joins another's request for the upload limits is unreachable, because the lease
  serialises uploads.
- In `SessionVault` a page that returns from a redirect login goes to setup without looking at the vault (`RedirectLogin`); the grant
  exchange before it is not modelled, and a cancelled enrolment revokes its grant.
- In `MatrixSession`, a response that is lost with its connection issues no pair: the model does not distinguish a refused request from
  a lost answer, and neither does the code, which warns only at the deadline. A document that dies between
  an answer and its reseal loses that pair, and the next start finds the one before (`OnlyLastAtRisk`); that its refresh is then refused and the
  user has to sign in again is the homeserver's part and not modelled.
- After a logout whose vault inspection fails the application shows an error and stores no
  warning; the model counts the error as telling the user.
- Read markers: between the end of `flushReadMarkers` and the moment it is forgotten (`client.ts:2884`) a new target would
  wait, but the window is a microtask and the next sync marks the room again.
- Components with status `not_modelled` in `PROJECT.json`, with their reasons: presentation,
  string conversion and one-shot scripts stay with the unit tests, the others are planned.

Met while modelling, and in no document's contradiction:

- A window that starts while another one refreshes its enrolment sees the setup journal, takes it for one
  left by a crash and cleans the enrolment up, once the lock is free.
- A probe of the worker's database leaves an empty `sub-etha-push` behind; if the registration then
  disappears, the inspection of orphans reports it as malformed from then on.
- A retry of one attachment raises the one generation all media calls share, which aborts every other call under way.
- Avatars beyond the gate's four places get `MediaBusyError`, which the view swallows and does not retry.

## 7. Plan

Done: the registry, delivery and enrolment of pushes; the page's and the worker's side of notifications; the vault and
the session; media; each with the proofs of its safety properties. Left, in this order; each step adds its module, its instance,
its mutants and, where noted, proofs.

1. **PushBudget** (rate counters): how many requests a fixed window admits at its boundary.
2. **PushLocks**: row locks of the procedures and the order in which they are taken.
3. **Login** (`auth.ts`): the revocation of a grant that is not sealed, composed with `SessionVault`'s creation.
