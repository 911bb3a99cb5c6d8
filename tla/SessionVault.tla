---------------------------- MODULE SessionVault ----------------------------
(***************************************************************************)
(* The vault that keeps the one Matrix session of a browser: the record    *)
(* and its operations in lib/matrix/session-store.ts, the part of          *)
(* lib/matrix/client.ts that owns it while a client runs, and the flows of *)
(* SubEthaApp.tsx that call them, in several tabs of one origin.           *)
(*                                                                         *)
(* The record is one IndexedDB value, so every readwrite transaction is    *)
(* one step.  Between transactions a tab keeps what it read: `seen' is the *)
(* descriptor, the candidate, the starting state, the lease or the cleanup *)
(* descriptor, whichever the operation it is in carries along.  The origin *)
(* wide Web Lock is asked for with ifAvailable, so nobody waits for it.    *)
(*                                                                         *)
(* A login is a number, its crypto database as well: both are fresh random *)
(* strings in the code.  A crypto store is one database here, two in       *)
(* IndexedDB.                                                              *)
(***************************************************************************)
EXTENDS Naturals

CONSTANTS
    Tab,            \* the windows of this browser
    NoTab,          \* the owner of a free lock
    Legacy,         \* the crypto store of a session from before the vault
    Sync,           \* the sync database of such a session
    MaxMinted,      \* bound on the fresh identifiers drawn by logins
    MaxRevision     \* bound on the token refreshes written to the record

ASSUME NoTabAssumption == NoTab \notin Tab
ASSUME LegacyAssumption == {Legacy, Sync} \cap Nat = {} /\ Legacy # Sync

VARIABLES
    record,         \* the value under SESSION_KEY
    minted,         \* the fresh identifiers drawn so far
    dbs,            \* the Matrix databases of this origin
    doomed,         \* databases whose deletion was given up on but is queued
    lock,           \* the holder of SESSION_VAULT_LOCK_NAME
    step,           \* step[t]: where the app and its operation are
    seen,           \* seen[t]: the record as the operation of t knows it
    draft,          \* draft[t]: the store of a login that is not sealed yet
    todo,           \* todo[t]: databases t still waits to be deleted
    failed          \* failed[t]: a deletion of this operation failed

tabs == <<step, seen, draft, todo, failed>>
vars == <<record, minted, dbs, doomed, lock, tabs>>

Database == Nat \union {Legacy, Sync}

Absent  == [kind |-> "absent",  id |-> 0, rev |-> 0, names |-> {}, all |-> FALSE]
Corrupt == [Absent EXCEPT !.kind = "corrupt"]
LegacyRecord == [Absent EXCEPT !.kind = "legacy", !.names = {Legacy, Sync}]

Locked(id, names) ==
    [kind |-> "locked", id |-> id, rev |-> 1, names |-> names, all |-> FALSE]

(* A tombstone whose cleanup is pending, and one whose cleanup is done. *)
Tombstone(r) == [r EXCEPT !.kind = "erasing", !.rev = r.rev + 1]
Erased(r) ==
    [r EXCEPT !.kind = "erased", !.rev = r.rev + 1, !.names = {}, !.all = FALSE]

\* Faulty variant: a login does not wait for a pending cleanup.
AvailableWhileErasing == record.kind \in {"absent", "erased", "erasing"}

Available == record.kind \in {"absent", "erased"}

(* The databases a cleanup marker authorises to delete. *)
Targets(r) == IF r.all THEN dbs ELSE r.names

(* The screen SubEthaApp shows for what it finds in the vault. *)
Route ==
    [absent |-> "login", erased |-> "login", locked |-> "locked",
     legacy |-> "legacy", erasing |-> "cleanup", corrupt |-> "corrupt"]

(* The steps of operations that run under the vault lock, and of clients. *)
Sealing  == {"creating", "migrating", "committed", "unlocking", "clearing"}
Removing == {"cleaning", "erasing", "wiping", "wiped"}
Client   == {"opening", "running"}
Owning   == Sealing \union Removing \union Client

Go(t, s) == step' = [step EXCEPT ![t] = s]
Remember(t, r) == seen' = [seen EXCEPT ![t] = r]

(* The operation of t ends and the app looks at the vault again. *)
Back(t) ==
    /\ Go(t, "booting")
    /\ Remember(t, Absent)
    /\ draft' = [draft EXCEPT ![t] = 0]
    /\ failed' = [failed EXCEPT ![t] = FALSE]

\* Faulty variants: the lock is not asked for, a lease or a cleanup marker is
\* not compared with the record, a refused operation keeps the lock.
OwnershipIgnored == TRUE
LeaseUnchecked(t) == TRUE
MarkerUnchecked(t) == TRUE
RefuseKeepingLock(t, s) ==
    /\ Go(t, s)
    /\ failed' = [failed EXCEPT ![t] = FALSE]
    /\ UNCHANGED <<record, minted, dbs, doomed, lock, seen, draft, todo>>

Unowned == lock = NoTab
LeaseCurrent(t) == record = seen[t]
MarkerCurrent(t) == record = seen[t]

Acquire(t) == Unowned /\ lock' = t
Release(t) == lock' = IF lock = t THEN NoTab ELSE lock

Init ==
    /\ \/ record = Absent /\ dbs = {}
       \/ record = LegacyRecord /\ dbs = {Legacy, Sync}
       \/ record = Corrupt /\ dbs \in SUBSET {Legacy, Sync}
    /\ minted = 0
    /\ doomed = {}
    /\ lock = NoTab
    /\ step = [t \in Tab |-> "booting"]
    /\ seen = [t \in Tab |-> Absent]
    /\ draft = [t \in Tab |-> 0]
    /\ todo = [t \in Tab |-> {}]
    /\ failed = [t \in Tab |-> FALSE]

-----------------------------------------------------------------------------
(* Looking at the vault and signing in. *)

Inspect(t) ==
    /\ step[t] = "booting"
    /\ Go(t, Route[record.kind])
    /\ Remember(t, record)
    /\ UNCHANGED <<record, minted, dbs, doomed, lock, draft, todo, failed>>

(* prepareSetup: a session was granted that only this page knows of. *)
Prepare(t) ==
    /\ minted < MaxMinted
    /\ minted' = minted + 1
    /\ draft' = [draft EXCEPT ![t] = minted + 1]
    /\ Go(t, "setup")
    /\ UNCHANGED <<record, dbs, doomed, lock, seen, todo, failed>>

SignIn(t) == step[t] = "login" /\ Prepare(t)

(* The page comes back from a redirect login: the vault was not looked at, *)
(* and another tab may have filled it meanwhile.                           *)
RedirectLogin(t) == step[t] = "booting" /\ Prepare(t)

(* The granted session is revoked instead of sealed. *)
CancelEnrolment(t) ==
    /\ step[t] = "setup"
    /\ Go(t, "login")
    /\ draft' = [draft EXCEPT ![t] = 0]
    /\ UNCHANGED <<record, minted, dbs, doomed, lock, seen, todo, failed>>

-----------------------------------------------------------------------------
(* createLockedSession, and the lease its caller connects with. *)

BeginCreate(t) ==
    /\ step[t] = "setup"
    /\ Available
    /\ Acquire(t)
    /\ Go(t, "creating")
    /\ Remember(t, record)
    /\ UNCHANGED <<record, minted, dbs, doomed, draft, todo, failed>>

(* A conflict: the new login is revoked and the app looks again. *)
CreateConflict(t) ==
    /\ step[t] = "setup"
    /\ ~Available \/ lock # NoTab
    /\ Back(t)
    /\ UNCHANGED <<record, minted, dbs, doomed, lock, todo>>

CommitCreate(t) ==
    /\ step[t] = "creating"
    /\ record = seen[t]
    /\ minted' = minted + 1
    /\ record' = Locked(minted + 1, {draft[t]})
    /\ Go(t, "committed")
    /\ Remember(t, record')
    /\ UNCHANGED <<dbs, doomed, lock, draft, todo, failed>>

Publish(t) ==
    /\ step[t] = "committed"
    /\ Go(t, "unlocked")
    /\ draft' = [draft EXCEPT ![t] = 0]
    /\ Release(t)
    /\ UNCHANGED <<record, minted, dbs, doomed, seen, todo, failed>>

-----------------------------------------------------------------------------
(* deleteDatabaseStrict: a deletion that is blocked or times out is       *)
(* reported as a failure, but its request stays queued.                    *)

DeleteDatabase(t, d) ==
    /\ d \in todo[t]
    /\ todo' = [todo EXCEPT ![t] = @ \ {d}]
    /\ \/ /\ dbs' = dbs \ {d}
          /\ doomed' = doomed \ {d}
          /\ UNCHANGED failed
       \/ /\ d \in dbs
          /\ doomed' = doomed \union {d}
          /\ failed' = [failed EXCEPT ![t] = TRUE]
          /\ UNCHANGED dbs
    /\ UNCHANGED <<record, minted, lock, step, seen, draft>>

LateDelete(d) ==
    /\ d \in doomed
    /\ doomed' = doomed \ {d}
    /\ dbs' = dbs \ {d}
    /\ UNCHANGED <<record, minted, lock, tabs>>

\* Faulty variant: failed deletions are ignored.
SettledSomehow(t) == todo[t] = {}

Settled(t) == todo[t] = {} /\ ~failed[t]
GaveUp(t) == todo[t] = {} /\ failed[t]

(* An operation ends without its result and shows screen s again. *)
Refuse(t, s) ==
    /\ Go(t, s)
    /\ Release(t)
    /\ failed' = [failed EXCEPT ![t] = FALSE]
    /\ UNCHANGED <<record, minted, dbs, doomed, seen, draft, todo>>

-----------------------------------------------------------------------------
(* migrateLegacySession: the sync database goes before the record does. *)

BeginMigrate(t) ==
    /\ step[t] = "legacy"
    /\ record = seen[t]
    /\ Acquire(t)
    /\ todo' = [todo EXCEPT ![t] = {Sync}]
    /\ Go(t, "migrating")
    /\ UNCHANGED <<record, minted, dbs, doomed, seen, draft, failed>>

MigrateConflict(t) ==
    /\ step[t] = "legacy"
    /\ record.kind \in {"locked", "erasing"}
    /\ Back(t)
    /\ UNCHANGED <<record, minted, dbs, doomed, lock, todo>>

CommitMigrate(t) ==
    /\ step[t] = "migrating"
    /\ Settled(t)
    /\ record = seen[t]
    /\ minted' = minted + 1
    /\ record' = Locked(minted + 1, record.names)
    /\ Go(t, "committed")
    /\ Remember(t, record')
    /\ UNCHANGED <<dbs, doomed, lock, draft, todo, failed>>

MigrateFails(t) == step[t] = "migrating" /\ GaveUp(t) /\ Refuse(t, "legacy")

-----------------------------------------------------------------------------
(* unlockSession: the lease is granted once the record was decrypted, is  *)
(* still current, and the sync database it names is gone.  By then it is,  *)
(* as NothingLeftBehind says, so that its deletion has no way to fail.       *)

BeginUnlock(t) ==
    /\ step[t] = "locked"
    /\ record = seen[t]
    /\ Acquire(t)
    /\ Go(t, "unlocking")
    /\ UNCHANGED <<record, minted, dbs, doomed, seen, draft, todo, failed>>

WrongKey(t) == step[t] = "unlocking" /\ Refuse(t, "locked")

AssertCurrent(t) ==
    /\ step[t] = "unlocking"
    /\ LeaseCurrent(t)
    /\ todo' = [todo EXCEPT ![t] = record.names \intersect {Sync}]
    /\ Go(t, "clearing")
    /\ UNCHANGED <<record, minted, dbs, doomed, lock, seen, draft, failed>>

GrantLease(t) ==
    /\ step[t] = "clearing"
    /\ Settled(t)
    /\ Go(t, "unlocked")
    /\ Release(t)
    /\ UNCHANGED <<record, minted, dbs, doomed, seen, draft, todo, failed>>

(* advanceOperation aborts the operation; it ends where it next checks.   *)
(* When its transaction has committed but not yet reported so,            *)
(* transaction.abort() throws and the cancellation is reported anyway.     *)
Abort(t) ==
    /\ step[t] \in Sealing
    /\ todo[t] = {}
    /\ Back(t)
    /\ Release(t)
    /\ UNCHANGED <<record, minted, dbs, doomed, todo>>

-----------------------------------------------------------------------------
(* forgetLocalSession and the cleanup that follows, in runCleanup. *)

(* What a reset replaces the record by: it keeps the identity of a locked *)
(* record and of a tombstone, and the exact targets of the others.         *)
Forgotten ==
    CASE record.kind = "locked"  -> [Tombstone(record) EXCEPT !.names = {}, !.all = TRUE]
      [] record.kind = "erased"  -> [Tombstone(record) EXCEPT !.all = TRUE]
      [] record.kind = "erasing" -> Tombstone(record)
      [] record.kind = "legacy"  -> [Tombstone(record) EXCEPT !.id = minted + 1]
      [] OTHER -> [Tombstone(record) EXCEPT !.id = minted + 1, !.all = TRUE]

Forget(t) ==
    /\ step[t] \in {"locked", "setup", "legacy", "corrupt"}
    /\ Unowned
    /\ record' = Forgotten
    /\ minted' = IF Forgotten.id = record.id THEN minted ELSE minted + 1
    /\ draft' = [draft EXCEPT ![t] = 0]
    /\ Go(t, "cleanup")
    /\ Remember(t, record')
    /\ UNCHANGED <<dbs, doomed, lock, todo, failed>>

BeginCleanup(t) ==
    /\ step[t] = "cleanup"
    /\ MarkerCurrent(t)
    /\ Acquire(t)
    /\ todo' = [todo EXCEPT ![t] = Targets(record)]
    /\ Go(t, "cleaning")
    /\ UNCHANGED <<record, minted, dbs, doomed, seen, draft, failed>>

CleanupConflict(t) ==
    /\ step[t] \in {"cleanup", "cleaned"}
    /\ record # seen[t]
    /\ Back(t)
    /\ UNCHANGED <<record, minted, dbs, doomed, lock, todo>>

CleanupFails(t) == step[t] = "cleaning" /\ GaveUp(t) /\ Refuse(t, "cleanup")

EndCleanup(t) ==
    /\ step[t] = "cleaning"
    /\ Settled(t)
    /\ Go(t, "cleaned")
    /\ Release(t)
    /\ UNCHANGED <<record, minted, dbs, doomed, seen, draft, todo, failed>>

(* The push state could not be forgotten: the user tries it all again. *)
PushCleanupFails(t) ==
    /\ step[t] = "cleaned"
    /\ Go(t, "cleanup")
    /\ UNCHANGED <<record, minted, dbs, doomed, lock, seen, draft, todo, failed>>

(* completeLocalSessionCleanup does not take the lock. *)
CompleteCleanup(t) ==
    /\ step[t] = "cleaned"
    /\ record = seen[t]
    /\ record' = Erased(record)
    /\ Go(t, "login")
    /\ Remember(t, Absent)
    /\ UNCHANGED <<minted, dbs, doomed, lock, draft, todo, failed>>

-----------------------------------------------------------------------------
(* The client: performStart, refreshes, stop and logout. *)

TakeOwnership(t) ==
    /\ step[t] = "unlocked"
    /\ LeaseCurrent(t)
    /\ Acquire(t)
    /\ Go(t, "opening")
    /\ UNCHANGED <<record, minted, dbs, doomed, seen, draft, todo, failed>>

(* Another window owns the vault, or the lease is no longer current. *)
StartRefused(t) ==
    /\ step[t] = "unlocked"
    /\ lock # NoTab \/ record # seen[t]
    /\ Back(t)
    /\ UNCHANGED <<record, minted, dbs, doomed, lock, todo>>

OpenStore(t) ==
    /\ step[t] = "opening"
    /\ seen[t].names \intersect doomed = {}
    /\ dbs' = dbs \union (seen[t].names \ {Sync})
    /\ Go(t, "running")
    /\ UNCHANGED <<record, minted, doomed, lock, seen, draft, todo, failed>>

(* stop, a takeover, a page that hides: the lease is disposed, and the    *)
(* lock is held until a start that is under way has settled.               *)
Stop(t) ==
    /\ \/ step[t] \in {"unlocked", "running"} /\ UNCHANGED dbs
       \/ step[t] = "opening" /\ dbs' \in {dbs, dbs \union (seen[t].names \ {Sync})}
    /\ Back(t)
    /\ Release(t)
    /\ UNCHANGED <<record, minted, doomed, todo>>

Reseal(t) ==
    /\ step[t] \in Client
    /\ record = seen[t]
    /\ record.rev < MaxRevision
    /\ record' = [record EXCEPT !.rev = @ + 1]
    /\ Remember(t, record')
    /\ UNCHANGED <<minted, dbs, doomed, lock, step, draft, todo, failed>>

Logout(t) ==
    /\ step[t] = "running"
    /\ record = seen[t]
    /\ record' = Tombstone(record)
    /\ Remember(t, record')
    /\ Go(t, "erasing")
    /\ UNCHANGED <<minted, dbs, doomed, lock, draft, todo, failed>>

EraseStores(t) ==
    /\ step[t] = "erasing"
    /\ MarkerCurrent(t)
    /\ todo' = [todo EXCEPT ![t] = record.names]
    /\ Go(t, "wiping")
    /\ UNCHANGED <<record, minted, dbs, doomed, lock, seen, draft, failed>>

StoresErased(t) ==
    /\ step[t] = "wiping"
    /\ Settled(t)
    /\ Go(t, "wiped")
    /\ UNCHANGED <<record, minted, dbs, doomed, lock, seen, draft, todo, failed>>

CompleteLogout(t) ==
    /\ step[t] = "wiped"
    /\ record = seen[t]
    /\ record' = Erased(record)
    /\ Back(t)
    /\ Release(t)
    /\ UNCHANGED <<minted, dbs, doomed, todo>>

(* The record changed under the client, or a store was not deleted: the   *)
(* client gives the vault up and the app looks again.                      *)
LogoutFails(t) ==
    /\ \/ step[t] \in {"running", "erasing", "wiped"} /\ record # seen[t]
       \/ step[t] = "wiping" /\ GaveUp(t)
    /\ Back(t)
    /\ Release(t)
    /\ UNCHANGED <<record, minted, dbs, doomed, todo>>

-----------------------------------------------------------------------------
(* The tab goes away at any moment: the browser frees its lock, and the   *)
(* deletions it asked for may still happen.                                *)

Crash(t) ==
    /\ step[t] # "closed"
    /\ Go(t, "closed")
    /\ Remember(t, Absent)
    /\ draft' = [draft EXCEPT ![t] = 0]
    /\ failed' = [failed EXCEPT ![t] = FALSE]
    /\ doomed' = doomed \union (todo[t] \intersect dbs)
    /\ todo' = [todo EXCEPT ![t] = {}]
    /\ Release(t)
    /\ UNCHANGED <<record, minted, dbs>>

Open(t) ==
    /\ step[t] = "closed"
    /\ Go(t, "booting")
    /\ UNCHANGED <<record, minted, dbs, doomed, lock, seen, draft, todo, failed>>

-----------------------------------------------------------------------------
(* What goes on by itself once it began; the rest is up to the user. *)
Progress(t) ==
    \/ CommitCreate(t) \/ Publish(t)
    \/ CommitMigrate(t) \/ MigrateFails(t)
    \/ AssertCurrent(t) \/ WrongKey(t) \/ GrantLease(t)
    \/ CleanupFails(t) \/ EndCleanup(t)
    \/ OpenStore(t)
    \/ EraseStores(t) \/ StoresErased(t) \/ CompleteLogout(t) \/ LogoutFails(t)
    \/ \E d \in todo[t] : DeleteDatabase(t, d)

Choice(t) ==
    \/ Inspect(t) \/ SignIn(t) \/ RedirectLogin(t) \/ CancelEnrolment(t)
    \/ BeginCreate(t) \/ CreateConflict(t)
    \/ BeginMigrate(t) \/ MigrateConflict(t)
    \/ BeginUnlock(t) \/ Abort(t)
    \/ Forget(t) \/ BeginCleanup(t) \/ CleanupConflict(t)
    \/ PushCleanupFails(t) \/ CompleteCleanup(t)
    \/ TakeOwnership(t) \/ StartRefused(t) \/ Stop(t)
    \/ Reseal(t) \/ Logout(t)
    \/ Crash(t) \/ Open(t)

Next ==
    \/ \E t \in Tab : Progress(t) \/ Choice(t)
    \/ \E d \in doomed : LateDelete(d)

(* Every promise an operation awaits settles: a deletion within its five  *)
(* second timeout, the rest because IndexedDB answers, and a queued        *)
(* deletion once nothing has its database open.                            *)
Fairness ==
    /\ \A t \in Tab : WF_vars(Progress(t))
    /\ WF_vars(\E d \in doomed : LateDelete(d))

Spec == Init /\ [][Next]_vars
FairSpec == Spec /\ Fairness

-----------------------------------------------------------------------------
Record ==
    [kind : DOMAIN Route, id : Nat, rev : Nat, names : SUBSET Database, all : BOOLEAN]

Steps == Owning \union {"booting", "login", "setup", "locked", "legacy", "corrupt",
                        "cleanup", "cleaned", "unlocked", "closed"}

(* Only an operation that deletes waits for deletions, and a deletion that *)
(* was given up on is of a database that is still there.                   *)
TypeOK ==
    /\ record \in Record
    /\ minted \in Nat
    /\ dbs \subseteq Database
    /\ doomed \subseteq dbs
    /\ lock \in Tab \union {NoTab}
    /\ step \in [Tab -> Steps]
    /\ seen \in [Tab -> Record]
    /\ draft \in [Tab -> Nat]
    /\ todo \in [Tab -> SUBSET Database]
    /\ failed \in [Tab -> BOOLEAN]
    /\ \A t \in Tab : todo[t] # {} =>
        step[t] \in {"migrating", "clearing", "cleaning", "wiping"}

(* A client that opens or uses the crypto store owns the vault lock and    *)
(* holds the lease of exactly the record that is stored (performStart's    *)
(* assertCurrent under SESSION_VAULT_LOCK_NAME; ADR-0017: one live client  *)
(* per account and origin).  Nothing that another tab does, not even       *)
(* Forget this browser, takes the record away from under it.               *)
ClientOwnsRecord ==
    \A t \in Tab : step[t] \in Client =>
        lock = t /\ record.kind = "locked" /\ record = seen[t]

(* Once the vault reads as empty, no Matrix database of this browser is    *)
(* left: neither the store of a session that was logged out, forgotten or  *)
(* migrated, nor one that a late start recreated (cleanupSessionDatabases  *)
(* deletes before completeLocalSessionCleanup clears the marker); and the  *)
(* plaintext sync database of a migrated session is gone by the time the   *)
(* locked record is in place (migrateLegacySession: "a successful commit   *)
(* is therefore also the cleanup gate").                                   *)
NothingLeftBehind ==
    /\ Available => dbs = {}
    /\ record.kind = "locked" => Sync \notin dbs

(* No cleaner, however late, deletes the crypto store of the session in    *)
(* the vault: not the retry of a tab whose marker is obsolete, and not a   *)
(* deletion that was given up on (cleanupSessionDatabasesWithOwnership     *)
(* validates the marker under the lock).                                   *)
LiveStoreKept ==
    [][\A d \in dbs \ {Sync} :
        record.kind = "locked" /\ d \in record.names => d \in dbs']_vars

(* The record has one lineage: a locked record leaves only as a tombstone  *)
(* of its own identity, a pending tombstone only as a completed one, a     *)
(* revision only goes up by one, and a session that was tombstoned is      *)
(* never locked again (commitNewRecord, commitReseal, commitTombstone,     *)
(* completeLocalSessionCleanup).                                           *)
OneLineage ==
    [][/\ record.kind = "locked" =>
            record'.kind \in {"locked", "erasing"} /\ record'.id = record.id
       /\ record.kind = "erasing" =>
            record'.kind \in {"erasing", "erased"} /\ record'.id = record.id
       /\ record'.id = record.id /\ record.id # 0 => record'.rev = record.rev + 1
       /\ record.kind = "erased" /\ record'.id = record.id => record'.kind = "erasing"
      ]_record

(* How the vault looks from outside. *)
Phase ==
    CASE record.kind \in {"absent", "erased"}   -> "empty"
      [] record.kind \in {"legacy", "corrupt"} -> "unsealed"
      [] record.kind = "locked"  -> "sealed"
      [] record.kind = "erasing" -> "retired"

Holder == IF \E t \in Tab : step[t] \in Client THEN lock ELSE NoTab

Promise == INSTANCE VaultPromise WITH
    phase <- Phase, client <- Holder, left <- dbs # {}

(* The vault implements its contract: one sealed session and one client at *)
(* a time, databases that go with the session, neither before nor after it *)
(* (VaultPromise).                                                         *)
PromiseKept == Promise!Spec

(* createLockedSession says a committed record "is never left without an   *)
(* owner solely because the signal changed afterward": unless its tab      *)
(* closes, a committed operation goes on to publish its lease.             *)
CommitOwned ==
    [][\A t \in Tab : step[t] = "committed" =>
        step'[t] \in {"committed", "unlocked", "closed"}]_vars

(* An operation that owns the vault lets it go: only a running client may  *)
(* keep it (ADR-0004: stale ownership must not permanently lock out the    *)
(* user).                                                                  *)
LockReleased ==
    \A t \in Tab :
        lock = t /\ step[t] \notin Client ~> lock # t
=============================================================================
