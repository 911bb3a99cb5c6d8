---------------------------- MODULE MatrixSession ----------------------------
(*
The life of one MatrixService (src/lib/matrix/client.ts): its start under the vault
lock, the token refreshes the SDK asks for, and the four ways it ends (stop, logout,
page hide, takeover by another tab), each of which may fall between any two steps of a
start or a refresh. With it, the part of SubEthaApp that holds the service and keeps
the warnings, and the SessionLease through which the service writes the vault.

A credential pair (access and refresh token) is a number in the order the homeserver
issued them: 0 is the pair the session was unlocked with, and a refresh that is
answered issues the next one and supersedes the one before. An answer that never
reaches the page issues nothing here. The homeserver confirms a revocation or it does
not; one that missed its deadline counts as not confirmed.

The account lock is left out: it is always taken under the vault lock. What the other
tabs do to the vault, modelled in SessionVault, is one action here: when the lock is
free the record may become theirs.
*)
EXTENDS Integers

CONSTANTS Tombstone,   \* the vault's record while this service's logout removes it
          Foreign,     \* a record another tab wrote, or none
          MaxIssued    \* bound on the pairs issued

ASSUME RecordAssumption == {Tombstone, Foreign} \cap Nat = {} /\ Tombstone # Foreign
ASSUME IssuedAssumption == MaxIssued \in Nat

VARIABLES
    vault,      \* the record: the pair sealed in it, Tombstone or Foreign
    sealed,     \* the pairs the vault ever held
    latest,     \* the last pair the homeserver issued to this page
    revoked,    \* the pairs the homeserver confirmed as revoked
    held,       \* the pair of the lease's record
    live,       \* the lease holds its key: it has not been disposed of
    used,       \* the pair the SDK's client works with
    locked,     \* this service holds the vault lock
    start,      \* where performStart stands
    refresh,    \* where performTokenRefresh stands
    outcome,    \* how the last refresh settled
    late,       \* an answer may still come for a refresh that missed its deadline
    uncertain,  \* refreshSessionEndUncertain
    mode,       \* shutdownMode; the service is stopped when it is not "none"
    invalidated,\* invalidationReported
    out,        \* where performLogout stands, then what it told the application
    final,      \* the revocation of the pair that logout found in the lease
    afterStop,  \* pendingStopReleaseTask
    afterHide,  \* pageHideReleaseTask
    app,        \* the application's reference to the service ("leaving": dropped while
                \* the application's logout goes on; "error": logout showed an error)
    page,       \* the document
    warned      \* the remote-session warnings kept in the browser's storage

store == <<vault, sealed>>
issue == <<latest, revoked>>
lease == <<held, live, used>>
renewal == <<refresh, outcome, late, uncertain>>
shutdown == <<mode, invalidated, afterStop, afterHide>>
removal == <<out, final>>
shell == <<app, page, warned>>
vars == <<vault, sealed, latest, revoked, held, live, used, locked, start, refresh,
          outcome, late, uncertain, mode, invalidated, out, final, afterStop,
          afterHide, app, page, warned>>

Pair == Nat
Alive == page # "closed"
Starting(s) == Alive /\ start = s
Renewing(s) == Alive /\ refresh = s
Leaving(s) == Alive /\ out = s
Stopped == mode # "none"
StartPending == start \in {"locking", "checking", "opening"}
RefreshPending == refresh # "none"

\* performLogout has not settled.
LogoutPending == out \in {"deleting", "failing", "ending"}

\* logoutInProgress of the application, which outlasts the service's logout.
LoggingOut == out # "none" /\ app \in {"current", "leaving"}

Init ==
    /\ vault = 0
    /\ sealed = {0}
    /\ latest = 0
    /\ revoked = {}
    /\ held = 0
    /\ live = TRUE
    /\ used = 0
    /\ locked = FALSE
    /\ start = "locking"
    /\ refresh = "none"
    /\ outcome = "fulfilled"
    /\ late = FALSE
    /\ uncertain = FALSE
    /\ mode = "none"
    /\ invalidated = FALSE
    /\ out = "none"
    /\ final = "none"
    /\ afterStop = FALSE
    /\ afterHide = FALSE
    /\ app = "pending"
    /\ page = "open"
    /\ warned = {}

-----------------------------------------------------------------------------
(* Ending the service. *)

\* A stop that does not wait for what is pending.
StopAtOnce(pending) ==
    \/ /\ mode \in {"logout", "pagehide"}
       /\ UNCHANGED <<mode, afterStop, live, locked>>
    \/ /\ mode \in {"none", "stop"}
       /\ mode' = "stop"
       /\ afterStop' = FALSE
       /\ live' = FALSE
       /\ locked' = FALSE

\* stopWithError: nothing after a logout or a page hide. Otherwise lease and lock go at
\* once, or when the start and the refresh that are pending have settled.
StopWithError(pending) ==
    \/ /\ mode \in {"logout", "pagehide"}
       /\ UNCHANGED <<mode, afterStop, live, locked>>
    \/ /\ mode \in {"none", "stop"}
       /\ mode' = "stop"
       /\ afterStop' = (afterStop \/ pending)
       /\ live' = (live /\ afterStop')
       /\ locked' = (locked /\ afterStop')

\* The application's handleInvalidated: deaf during a logout; keeps the warning when
\* credentials are left whose revocation nobody confirmed; drops a current service.
HandleInvalidated(unconfirmed) ==
    IF LoggingOut
    THEN UNCHANGED <<app, warned>>
    ELSE /\ warned' = IF unconfirmed THEN warned \cup {"refresh"} ELSE warned
         /\ app' = IF app = "current" THEN "gone" ELSE app

\* invalidateSession: acts and reports once.
InvalidateSession(unconfirmed) ==
    IF invalidated
    THEN UNCHANGED <<invalidated, mode, afterStop, live, locked, app, warned>>
    ELSE /\ invalidated' = TRUE
         /\ StopWithError(StartPending \/ RefreshPending)
         /\ HandleInvalidated(unconfirmed)

\* Another tab asks for the account: its storage event reaches a client that listens.
Takeover ==
    /\ Alive
    /\ start \in {"opening", "started"}
    /\ ~Stopped
    /\ InvalidateSession(FALSE)
    /\ UNCHANGED <<store, issue, held, used, start, renewal, afterHide, removal, page>>

\* ... that forgets refreshes whose pair was thrown away.
ReleaseAfterStopQuietly ==
    /\ Alive
    /\ afterStop
    /\ ~StartPending
    /\ ~RefreshPending
    /\ afterStop' = FALSE
    /\ IF outcome = "unconfirmed" \/ uncertain
       THEN HandleInvalidated(TRUE)
       ELSE UNCHANGED <<app, warned>>
    /\ live' = (live /\ mode # "stop")
    /\ locked' = (locked /\ mode # "stop")
    /\ UNCHANGED <<store, issue, held, used, start, renewal, mode, invalidated,
                   afterHide, removal, page>>

\* The task that waits for what was pending at a stop: it reports credentials that are
\* left over, and releases unless the page hid meanwhile.
ReleaseAfterStop ==
    /\ Alive
    /\ afterStop
    /\ ~StartPending
    /\ ~RefreshPending
    /\ afterStop' = FALSE
    /\ IF outcome \in {"unconfirmed", "discarded"} \/ uncertain
       THEN HandleInvalidated(TRUE)
       ELSE UNCHANGED <<app, warned>>
    /\ live' = (live /\ mode # "stop")
    /\ locked' = (locked /\ mode # "stop")
    /\ UNCHANGED <<store, issue, held, used, start, renewal, mode, invalidated,
                   afterHide, removal, page>>

\* scrubForPageHide: the application warns of what it cannot wait for, drops its
\* reference and shuts the service down. The lease goes at once, the lock when the
\* start, refresh or logout that is pending has settled. A service the application no
\* longer refers to does not hear of it.
PageHide ==
    /\ page = "open"
    /\ page' = "hidden"
    /\ app' = CASE app = "error" -> "error"
                 [] LoggingOut -> "leaving"
                 [] OTHER -> "gone"
    /\ IF app \in {"pending", "current"}
       THEN /\ warned' = warned \cup (IF LoggingOut THEN {"logout"} ELSE {})
                                \cup (IF RefreshPending THEN {"refresh"} ELSE {})
            /\ mode' = "pagehide"
            /\ live' = FALSE
            /\ afterHide' = (StartPending \/ RefreshPending \/ LogoutPending)
            /\ locked' = (locked /\ afterHide')
       ELSE UNCHANGED <<warned, mode, live, afterHide, locked>>
    /\ UNCHANGED <<store, issue, held, used, start, renewal, invalidated, afterStop,
                   removal>>

ReleaseAfterHide ==
    /\ Alive
    /\ afterHide
    /\ ~StartPending
    /\ ~RefreshPending
    /\ ~LogoutPending
    /\ afterHide' = FALSE
    /\ locked' = FALSE
    /\ UNCHANGED <<store, issue, lease, start, renewal, mode, invalidated, afterStop,
                   removal, shell>>

\* The document goes away, with everything in memory and the lock.
Close ==
    /\ Alive
    /\ page' = "closed"
    /\ locked' = FALSE
    /\ UNCHANGED <<store, issue, lease, start, renewal, shutdown, removal, app, warned>>

-----------------------------------------------------------------------------
(* performStart, and connect in the application. *)

AcquireLock ==
    /\ Starting("locking")
    /\ ~Stopped
    /\ ~locked
    /\ locked' = TRUE
    /\ start' = "checking"
    /\ UNCHANGED <<store, issue, lease, renewal, shutdown, removal, shell>>

\* lease.assertCurrent under the lock; then the client is created and opens its store.
CheckCurrent ==
    /\ Starting("checking")
    /\ ~Stopped
    /\ vault = held
    /\ start' = "opening"
    /\ UNCHANGED <<store, issue, lease, locked, renewal, shutdown, removal, shell>>

StartDone ==
    /\ Starting("opening")
    /\ ~Stopped
    /\ start' = "started"
    /\ UNCHANGED <<store, issue, lease, locked, renewal, shutdown, removal, shell>>

\* The start fails, by itself or because it finds the service stopped. Its own cleanup
\* releases at once unless a stop is waiting; then the application stops the service.
StartFails ==
    /\ Alive
    /\ StartPending
    /\ start' = "over"
    /\ app' = "gone"
    /\ \/ /\ mode \in {"logout", "pagehide"}
          /\ UNCHANGED <<mode, live, locked, afterStop>>
       \/ /\ mode \in {"none", "stop"}
          /\ mode' = "stop"
          /\ live' = (live /\ afterStop)
          /\ locked' = (locked /\ afterStop)
          /\ afterStop' = (afterStop \/ RefreshPending)
    /\ UNCHANGED <<store, issue, held, used, renewal, invalidated, afterHide, removal,
                   page, warned>>

\* connect publishes the service it started.
Publish ==
    /\ app = "pending"
    /\ Starting("started")
    /\ ~invalidated
    /\ app' = "current"
    /\ UNCHANGED <<store, issue, lease, locked, start, renewal, shutdown, removal, page,
                   warned>>

\* ... or stops it: it was invalidated, the user went elsewhere, or the notifications
\* of an earlier session could not be cleaned up.
Discard ==
    /\ app = "pending"
    /\ Starting("started")
    /\ app' = "gone"
    /\ StopWithError(RefreshPending)
    /\ UNCHANGED <<store, issue, held, used, start, renewal, invalidated, afterHide,
                   removal, page, warned>>

-----------------------------------------------------------------------------
(* performTokenRefresh. *)

Settle(o) == refresh' = "none" /\ outcome' = o

\* The SDK's client asks for new tokens. A stopped service refuses.
AskRefresh ==
    /\ Alive
    /\ start \in {"opening", "started"}
    /\ ~Stopped
    /\ refresh = "none"
    /\ refresh' = "asked"
    /\ UNCHANGED <<store, issue, lease, locked, start, outcome, late, uncertain,
                   shutdown, removal, shell>>

\* The answer in time: to be sealed, or revoked when the service stopped meanwhile.
AnswerRefresh ==
    /\ Renewing("asked")
    /\ latest < MaxIssued
    /\ latest' = latest + 1
    /\ refresh' = IF Stopped THEN "revoking" ELSE "sealing"
    /\ UNCHANGED <<store, revoked, lease, locked, start, outcome, late, uncertain,
                   shutdown, removal, shell>>

RefuseRefresh ==
    /\ Renewing("asked")
    /\ Settle("failed")
    /\ UNCHANGED <<store, issue, lease, locked, start, late, uncertain, shutdown,
                   removal, shell>>

\* The deadline: the homeserver may have issued a pair, so the session is locked and
\* the uncertainty reported.
RefreshTimesOut ==
    /\ Renewing("asked")
    /\ Settle("unconfirmed")
    /\ late' = TRUE
    /\ uncertain' = TRUE
    /\ InvalidateSession(TRUE)
    /\ UNCHANGED <<store, issue, held, used, start, afterHide, removal, page>>

\* An answer after the deadline: its pair is revoked, and nobody waits for the result.
AnswerLate ==
    /\ Alive
    /\ late
    /\ latest < MaxIssued
    /\ late' = FALSE
    /\ latest' = latest + 1
    /\ revoked' \in {revoked, revoked \cup {latest + 1}}
    /\ UNCHANGED <<store, lease, locked, start, refresh, outcome, uncertain, shutdown,
                   removal, shell>>

\* reseal: encrypted, and the lease still has its key when the write is sent.
Encrypted ==
    /\ Renewing("sealing")
    /\ live
    /\ refresh' = "writing"
    /\ UNCHANGED <<store, issue, lease, locked, start, outcome, late, uncertain,
                   shutdown, removal, shell>>

\* A write that does not look at the record.
CurrentIgnored == TRUE

\* commitReseal: the transaction replaces the record the lease knows, and no other. One
\* that was sent may commit after the document is gone.
Current == vault = held

CommitReseal ==
    /\ refresh = "writing"
    /\ Current
    /\ vault' = latest
    /\ sealed' = sealed \cup {latest}
    /\ refresh' = "written"
    /\ UNCHANGED <<issue, lease, locked, start, outcome, late, uncertain, shutdown,
                   removal, shell>>

\* No key any more, a failed transaction, or another record: the pair is revoked.
ResealFails ==
    /\ Renewing("sealing") \/ Renewing("writing")
    /\ refresh' = "revoking"
    /\ UNCHANGED <<store, issue, lease, locked, start, outcome, late, uncertain,
                   shutdown, removal, shell>>

\* The commit is reported. A lease that lives takes the new pair, and a service that
\* runs hands it to the SDK.
Resealed ==
    /\ Renewing("written")
    /\ held' = IF live THEN latest ELSE held
    /\ used' = IF Stopped THEN used ELSE latest
    /\ Settle(IF Stopped THEN "committed" ELSE "fulfilled")
    /\ UNCHANGED <<store, issue, live, locked, start, late, uncertain, shutdown, removal,
                   shell>>

\* Faulty variant: a service that still runs goes on with the pair it had.
RevokeDiscardedQuietly(confirmed) ==
    /\ Renewing("revoking")
    /\ revoked' = IF confirmed THEN revoked \cup {latest} ELSE revoked
    /\ Settle(IF confirmed THEN "failed" ELSE "unconfirmed")
    /\ UNCHANGED <<store, latest, lease, locked, start, late, uncertain, shutdown,
                   removal, shell>>

\* The revocation of a pair that was not sealed settles: confirmed, refused or late. A
\* service that still ran is locked.
RevokeDiscarded(confirmed) ==
    /\ Renewing("revoking")
    /\ revoked' = IF confirmed THEN revoked \cup {latest} ELSE revoked
    /\ IF Stopped
       THEN /\ Settle(IF confirmed THEN "revoked" ELSE "discarded")
            /\ UNCHANGED <<invalidated, mode, afterStop, live, locked, app, warned>>
       ELSE /\ Settle(IF confirmed THEN "failed" ELSE "unconfirmed")
            /\ InvalidateSession(~confirmed)
    /\ UNCHANGED <<store, latest, held, used, start, late, uncertain, afterHide, removal,
                   page>>

-----------------------------------------------------------------------------
(* performLogout, and logout in the application. *)

Logout ==
    /\ Alive
    /\ app = "current"
    /\ Leaving("none")
    /\ live
    /\ mode' = "logout"
    /\ out' = "deleting"
    /\ outcome' = "fulfilled"
    /\ UNCHANGED <<store, issue, lease, locked, start, refresh, late, uncertain,
                   invalidated, afterStop, afterHide, final, shell>>

\* deleteRecord waits its turn behind a reseal, replaces the record by the tombstone and
\* disposes of the lease; the revocation of its pair begins.
CommitTombstone ==
    /\ Leaving("deleting")
    /\ refresh \notin {"sealing", "writing", "written"}
    /\ live
    /\ Current
    /\ vault' = Tombstone
    /\ live' = FALSE
    /\ out' = "ending"
    /\ final' = "asked"
    /\ UNCHANGED <<sealed, issue, held, used, locked, start, renewal, shutdown, shell>>

TombstoneFails ==
    /\ Leaving("deleting")
    /\ refresh \notin {"sealing", "writing", "written"}
    /\ out' = "failing"
    /\ UNCHANGED <<store, issue, lease, locked, start, renewal, shutdown, final, shell>>

\* A failed logout that keeps its lock.
GiveUpKeepingLock ==
    /\ Leaving("failing")
    /\ ~StartPending
    /\ ~RefreshPending
    /\ out' = "unended"
    /\ live' = FALSE
    /\ UNCHANGED <<store, issue, held, used, locked, start, renewal, shutdown, final,
                   shell>>

\* A logout that could not write its tombstone releases once the refresh has settled.
GiveUp ==
    /\ Leaving("failing")
    /\ ~StartPending
    /\ ~RefreshPending
    /\ out' = "unended"
    /\ live' = FALSE
    /\ locked' = FALSE
    /\ UNCHANGED <<store, issue, held, used, start, renewal, shutdown, final, shell>>

EndRemote(confirmed) ==
    /\ Leaving("ending")
    /\ final = "asked"
    /\ final' = IF confirmed THEN "confirmed" ELSE "unconfirmed"
    /\ revoked' = IF confirmed THEN revoked \cup {held} ELSE revoked
    /\ UNCHANGED <<store, latest, lease, locked, start, renewal, shutdown, out, shell>>

\* Any refresh that settled, but for its deadline.
AccountedForUnlessLate == outcome # "unconfirmed"

\* How a refresh may have settled so that no pair of it is left over.
AccountedFor == outcome \in {"fulfilled", "committed", "revoked"}

\* The last steps: the databases go, the marker is completed, the lock is released. The
\* result says whether the remote session ended; a removal that fails throws instead.
CompleteLogout ==
    /\ Leaving("ending")
    /\ final # "asked"
    /\ ~StartPending
    /\ ~RefreshPending
    /\ \/ /\ final = "confirmed"
          /\ AccountedFor
          /\ ~uncertain
          /\ out' = "ended"
       \/ out' = "unended"
    /\ locked' = FALSE
    /\ UNCHANGED <<store, issue, lease, start, renewal, shutdown, final, shell>>

\* The application inspects the vault and then keeps the warning, unless the page hid.
\* When the inspection fails it shows an error instead.
Told ==
    /\ Leaving("ended") \/ Leaving("unended")
    /\ \/ /\ app = "current"
          /\ warned' = IF out = "unended" THEN warned \cup {"logout"} ELSE warned
          /\ app' = "gone"
       \/ /\ app = "current"
          /\ app' = "error"
          /\ UNCHANGED warned
       \/ /\ app = "leaving"
          /\ app' = "gone"
          /\ UNCHANGED warned
    /\ UNCHANGED <<store, issue, lease, locked, start, renewal, shutdown, removal, page>>

-----------------------------------------------------------------------------

\* Another tab takes the lock, changes the record (a refresh, a logout, a new login)
\* and leaves.
OtherTab ==
    /\ ~locked
    /\ vault' = Foreign
    /\ UNCHANGED <<sealed, issue, lease, locked, start, renewal, shutdown, removal,
                   shell>>

\* What settles by itself: an answer or its deadline, a transaction, a task that waited.
Progress ==
    \/ AcquireLock
    \/ CheckCurrent
    \/ StartDone
    \/ StartFails
    \/ AnswerRefresh
    \/ RefuseRefresh
    \/ RefreshTimesOut
    \/ Encrypted
    \/ CommitReseal
    \/ ResealFails
    \/ Resealed
    \/ \E confirmed \in BOOLEAN : RevokeDiscarded(confirmed)
    \/ CommitTombstone
    \/ TombstoneFails
    \/ GiveUp
    \/ \E confirmed \in BOOLEAN : EndRemote(confirmed)
    \/ CompleteLogout
    \/ Told
    \/ ReleaseAfterStop
    \/ ReleaseAfterHide

\* What somebody decides: the SDK, the user, another tab, the browser.
Choice ==
    \/ AskRefresh
    \/ AnswerLate
    \/ Publish
    \/ Discard
    \/ Takeover
    \/ Logout
    \/ PageHide
    \/ Close

Next ==
    \/ Progress
    \/ Choice
    \/ OtherTab

Spec == Init /\ [][Next]_vars

\* Every awaited promise of a document that stays settles: requests and revocations
\* have deadlines, IndexedDB answers, the SDK's start resolves or throws.
FairSpec == Spec /\ WF_vars(Progress)

-----------------------------------------------------------------------------
(* Properties. *)

Flags ==
    /\ live \in BOOLEAN
    /\ locked \in BOOLEAN
    /\ late \in BOOLEAN
    /\ uncertain \in BOOLEAN
    /\ invalidated \in BOOLEAN
    /\ afterStop \in BOOLEAN
    /\ afterHide \in BOOLEAN

Values ==
    /\ vault \in Pair \cup {Tombstone, Foreign}
    /\ sealed \subseteq 0 .. latest
    /\ latest \in 0 .. MaxIssued
    /\ revoked \subseteq 0 .. latest
    /\ held \in sealed
    /\ used \in sealed
    /\ start \in {"locking", "checking", "opening", "started", "over"}
    /\ refresh \in {"none", "asked", "sealing", "writing", "written", "revoking"}
    /\ outcome \in {"fulfilled", "failed", "committed", "revoked", "discarded",
                    "unconfirmed"}
    /\ mode \in {"none", "stop", "logout", "pagehide"}
    /\ out \in {"none", "deleting", "failing", "ending", "ended", "unended"}
    /\ final \in {"none", "asked", "confirmed", "unconfirmed"}
    /\ app \in {"pending", "current", "leaving", "gone", "error"}
    /\ page \in {"open", "hidden", "closed"}
    /\ warned \subseteq {"refresh", "logout"}

TypeOK == Flags /\ Values

\* Once everything has settled, the credentials issued last are in the vault, or their
\* revocation was confirmed, or the user was warned that they may be alive. Stops,
\* logouts, page hides and takeovers at any step of a refresh are covered; a document
\* that dies while something is pending never settles.
CredentialsAccounted ==
    /\ ~RefreshPending
    /\ ~afterStop
    /\ ~LogoutPending
    /\ ~LoggingOut
    => \/ latest \in sealed /\ vault # Tombstone
       \/ latest \in revoked
       \/ warned # {}
       \/ app = "error"

\* A logout says the remote session ended only if the pair it found in the vault and
\* the last pair the homeserver issued are both revoked, and none can still arrive.
LogoutIsHonest ==
    out = "ended" => held \in revoked /\ latest \in revoked /\ ~late

\* While the crypto store is being opened, and while the client runs, the service owns
\* the vault; and what its running client works with is what the vault holds.
ClientHoldsVault ==
    page # "closed" /\ start \in {"opening", "started"} =>
        /\ start = "opening" => locked
        /\ ~Stopped => /\ locked
                       /\ vault = IF refresh = "written" THEN latest ELSE used

\* A document may die and another tab may take the vault at every step, and a dead one
\* warns nobody. Still, each pair but the last was sealed before the next one was asked
\* for, and the vault of this login holds the last pair, or its predecessor while the
\* last one has never been sealed: what a death strands is one pair at most, and the
\* next start finds the pair right before it.
OnlyLastAtRisk ==
    /\ \A pair \in 0 .. latest : pair # latest => pair \in sealed
    /\ vault \in Pair =>
        \/ vault = latest
        \/ vault + 1 = latest /\ latest \notin sealed

\* Neither a logout's tombstone nor another tab's record is ever overwritten by a
\* refresh that was on its way.
NoResurrection == [][vault' \in Pair => vault \in Pair]_vars

\* Whoever ends the service, and in the middle of whatever, the lock is released.
LockReleased == Stopped ~> ~locked

\* A page that hides while a refresh is in flight leaves a warning, because it may
\* freeze before the refresh can report (SubEthaApp.tsx, scrubForPageHide).
HiddenIsWarned == page = "hidden" /\ start = "started" /\ RefreshPending => warned # {}
=============================================================================
