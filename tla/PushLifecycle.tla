--------------------------- MODULE PushLifecycle ---------------------------
(***************************************************************************)
(* How the windows of a browser enrol for notifications and undo it: the   *)
(* page's side in lib/matrix/notifications.ts, over localStorage, the push *)
(* subscription, the service worker, the gateway and the homeserver.       *)
(*                                                                         *)
(* A capability is the trio of delivery key, management key and generation *)
(* drawn for one enrolment.  The journal says what a cleanup has to do:    *)
(* every field is what is left, a set or a flag.  The lifecycle epoch is a *)
(* random string that is only compared with the one a setup remembers, so  *)
(* it is the set `knows' of the windows whose memory of it is current.     *)
(*                                                                         *)
(* A request stays in flight when its sender gives up on it and may be     *)
(* served later.  A message to the worker waits in the worker's queue; its *)
(* sender is NoTab once nobody listens for the answer.                     *)
(***************************************************************************)
EXTENDS Naturals, Sequences, FiniteSets

CONSTANTS
    Tab,            \* the windows of this browser
    NoTab,          \* the holder of a free lock, the sender nobody waits for
    Capability,     \* the capabilities that can be drawn
    None,           \* nothing stored
    MaxLate,        \* bound on requests in flight that nobody waits for
    MaxPosted       \* bound on the messages queued at the worker

ASSUME NoTabAssumption == NoTab \notin Tab
ASSUME NoneAssumption == None \notin Capability
ASSUME TabAssumption == Tab \intersect (Capability \union {None}) = {}
ASSUME BoundAssumption == MaxLate \in Nat /\ MaxPosted \in Nat \ {0}

VARIABLES
    (* localStorage *)
    creds,          \* the committed capability
    journal,        \* the cleanup that is pending
    fallback,       \* capabilities saved when the journal could not be
    intent,         \* a cleanup was asked for and has not ended
    knows,          \* windows that remember the stored lifecycle epoch
    (* the browser *)
    lock,           \* the holder of PUSH_LIFECYCLE_LOCK
    page,           \* page[t]: where the window is in its setup or cleanup
    registered,     \* a service worker is registered
    subscribed,     \* the browser has a push subscription
    (* the service worker *)
    config,         \* the capability in its database
    posted,         \* its queue of configuration messages
    renewal,        \* the subscription change it is handling
    (* the servers *)
    gateway,        \* gateway[c]: the registration of c
    pushers,        \* the capabilities the homeserver pushes to
    flight,         \* the requests on their way
    (* history *)
    used,           \* capabilities drawn so far
    asked,          \* setups and enrolments older than a recorded sign-out
    undurable       \* a capability could be stored nowhere; the user is told

storage == <<creds, journal, fallback, intent, knows>>
worker  == <<registered, subscribed, config, posted, renewal>>
servers == <<gateway, pushers, flight>>
history == <<used, asked, undurable>>
vars == <<storage, lock, page, worker, servers, history>>

Stored == Capability \union {None}

Journal ==
    [primary : Stored, targets : SUBSET Capability,
     gateway : SUBSET Capability, pusher : SUBSET Capability,
     worker : BOOLEAN, subscription : BOOLEAN]

ASSUME JournalAssumption == None \notin Journal

(* The journal of a cleanup that has everything left to do for c. *)
JournalFor(c) ==
    [primary |-> c, targets |-> {c} \ {None},
     gateway |-> {c} \ {None}, pusher |-> {c} \ {None},
     worker |-> TRUE, subscription |-> TRUE]

(* Further capabilities to revoke; those the journal already has stay as   *)
(* far as they are.                                                        *)
WithTargets(j, extra) ==
    LET new == extra \ j.targets IN
    [j EXCEPT !.targets = @ \union new, !.gateway = @ \union new,
              !.pusher = @ \union new, !.subscription = TRUE]

\* Faulty variant: the gateway's answer is not waited for.
CompleteUnrevoked(j) == j.pusher = {} /\ ~j.worker /\ ~j.subscription

Complete(j) ==
    /\ j.gateway = {} /\ j.pusher = {}
    /\ ~j.worker /\ ~j.subscription

Request(op, c, t) == [op |-> op, cap |-> c, tab |-> t]

Idle ==
    [at |-> "idle", cap |-> None, found |-> FALSE, orphan |-> FALSE,
     work |-> None]

(* Setup under way, from the epoch it remembers to its commit. *)
Enrolling ==
    {"asked", "subscribing", "subscribed", "configuring", "registering",
     "confirming", "reregistering", "pushing", "checking", "committed",
     "rotated"}
Undoing  == {"undoing", "unconfiguring", "failing"}
Cleaning == {"cleaning", "unsubscribing", "finishing"}

\* Faulty variant: an epoch that is not compared.
EpochIgnored(t) == TRUE

Unlocked == lock = NoTab
Current(t) == t \in knows

Go(t, s) == page' = [page EXCEPT ![t].at = s]

Release(t) == lock' = IF lock = t THEN NoTab ELSE lock

(* What comes too late for a registration that was revoked. *)
Refused(m) == m.op \in {"post", "delete"} /\ gateway[m.cap] = "revoked"

(* The requests of t that nobody waits for any more: each may still arrive *)
(* or be lost.                                                             *)
LateRequests(t) ==
    LET own  == {m \in flight : m.tab = t}
        late == {m \in flight : m.tab = NoTab}
    IN  \E kept \in SUBSET {m \in own : ~Refused(m)} :
           LET left == late \union {[m EXCEPT !.tab = NoTab] : m \in kept}
           IN  /\ Cardinality(left) <= MaxLate
               /\ flight' = (flight \ (own \union late)) \union left

(* Messages to the worker stay in its queue. *)
Muted(t) ==
    [i \in DOMAIN posted |->
        IF posted[i].tab = t THEN [posted[i] EXCEPT !.tab = NoTab] ELSE posted[i]]

Orphan(t) == LateRequests(t) /\ posted' = Muted(t)

(* A worker that is gone gets no messages. *)
Posted(op, c, t) ==
    IF registered THEN Append(posted, Request(op, c, t)) ELSE posted

\* Faulty variant: credentials are only removed by an explicit null.
WithoutNothing(c) == IF c = None THEN None ELSE creds

(* The stored credentials are removed unless they are of another generation. *)
Without(c) == IF c \in {None, creds} THEN None ELSE creds

PendingCleanup == journal # None \/ fallback # {} \/ intent

(* What a setup asserts after everything it waited for: its epoch stands,  *)
(* no cleanup was asked for, the journal is its own.                       *)
Owned(t) ==
    /\ Current(t)
    /\ ~intent
    /\ journal # None
    /\ journal.primary = page[t].cap
    /\ journal.targets = {page[t].cap}

Init ==
    /\ creds = None
    /\ journal = None
    /\ fallback = {}
    /\ intent = FALSE
    /\ knows = {}
    /\ lock = NoTab
    /\ page = [t \in Tab |-> Idle]
    /\ registered = FALSE
    /\ subscribed = FALSE
    /\ config = None
    /\ posted = <<>>
    /\ renewal = None
    /\ gateway = [c \in Capability |-> "none"]
    /\ pushers = {}
    /\ flight = {}
    /\ used = {}
    /\ asked = {}
    /\ undurable = FALSE

-----------------------------------------------------------------------------
(* Setup: enablePush, and refreshPushState with the stored credentials. *)

(* A setup reads the epoch, and a refresh the credentials, before it waits *)
(* for the user, the service worker and the lock.                          *)
StartSetup(t) ==
    /\ page[t].at = "idle"
    /\ ~PendingCleanup
    /\ \E c \in {None, creds} :
          page' = [page EXCEPT ![t] = [Idle EXCEPT !.at = "asked", !.cap = c]]
    /\ knows' = knows \union {t}
    /\ registered' = TRUE
    /\ asked' = asked \ {t}
    /\ UNCHANGED <<creds, journal, fallback, intent, lock, subscribed,
                   config, posted, renewal, servers, used, undurable>>

TakeForSetup(t) ==
    /\ page[t].at = "asked"
    /\ Unlocked
    /\ lock' = t
    /\ Go(t, IF PendingCleanup \/ ~Current(t)
             THEN "failing" ELSE "subscribing")
    /\ UNCHANGED <<storage, worker, servers, history>>

Subscribe(t) ==
    /\ page[t].at = "subscribing"
    /\ registered
    /\ subscribed' = TRUE
    /\ Go(t, "subscribed")
    /\ UNCHANGED <<storage, lock, registered, config, posted, renewal,
                   servers, history>>

(* The credentials a setup works with: those it was started for, those in  *)
(* localStorage, or fresh ones.                                            *)
Chosen(t) ==
    IF page[t].cap # None THEN {page[t].cap}
    ELSE IF creds # None THEN {creds}
    ELSE Capability \ used

(* The epoch is checked again, the journal written, the stored credentials *)
(* removed and the worker told, in one piece.                              *)
QueueSetup(t) ==
    /\ page[t].at = "subscribed"
    /\ Current(t)
    /\ Len(posted) < MaxPosted
    /\ \E c \in Chosen(t) :
          LET other == creds \notin {None, c} IN
          /\ journal' = [JournalFor(c) EXCEPT !.worker = ~other,
                            !.subscription = ~other]
          /\ creds' = Without(c)
          /\ page' = [page EXCEPT ![t].at = "configuring", ![t].cap = c]
          /\ posted' = Posted("set", c, t)
          /\ used' = used \union {c}
    /\ knows' = {t}
    /\ asked' = asked \intersect Tab
    /\ UNCHANGED <<fallback, intent, lock, registered, subscribed,
                   config, renewal, servers, undurable>>

FallbackKeeps(c) == fallback' = fallback \union {c}

(* The journal cannot be written: the capability goes to the fallback, or  *)
(* nowhere, and what it gave is taken back right away.                     *)
QueueFails(t) ==
    /\ page[t].at = "subscribed"
    /\ Current(t)
    /\ \E c \in Chosen(t) :
          /\ \/ FallbackKeeps(c) /\ UNCHANGED undurable
             \/ undurable' = TRUE /\ UNCHANGED fallback
          /\ page' = [page EXCEPT ![t].at = "undoing", ![t].cap = c]
          /\ flight' = flight \union
                {Request("delete", c, t), Request("removePusher", c, t)}
          /\ used' = used \union {c}
    /\ UNCHANGED <<creds, journal, intent, knows, lock, worker,
                   gateway, pushers, asked>>

UndoWorker(t) ==
    /\ page[t].at = "undoing"
    /\ Len(posted) < MaxPosted
    /\ LateRequests(t)
    /\ IF creds \notin {None, page[t].cap}
       THEN Go(t, "failing") /\ UNCHANGED posted
       ELSE /\ Go(t, "unconfiguring")
            /\ posted' = Posted("clear", page[t].cap, t)
    /\ UNCHANGED <<storage, lock, registered, subscribed, config, renewal,
                   gateway, pushers, history>>

(* The worker did not confirm: its subscription is left alone. *)
UndoFails(t) ==
    /\ page[t].at = "unconfiguring"
    /\ Orphan(t)
    /\ creds' = Without(page[t].cap)
    /\ Go(t, "failing")
    /\ UNCHANGED <<journal, fallback, intent, knows, lock, registered,
                   subscribed, config, renewal, gateway, pushers, history>>

(* No confirmation in time, or not from a worker that is asleep: the same  *)
(* registration again shows how it stands.                                 *)
Reregister(t) ==
    /\ page[t].at = "confirming"
    /\ Go(t, "reregistering")
    /\ flight' = flight \union {Request("post", page[t].cap, t)}
    /\ UNCHANGED <<storage, lock, worker, gateway, pushers, history>>

(* The commit: credentials, a new epoch, and only then no journal. *)
CommitCredentials(t) ==
    /\ page[t].at = "checking"
    /\ Owned(t)
    /\ subscribed
    /\ creds' = page[t].cap
    /\ asked' = IF t \in asked THEN asked \union {page[t].cap} ELSE asked
    /\ Go(t, "committed")
    /\ UNCHANGED <<journal, fallback, intent, knows, lock, worker,
                   servers, used, undurable>>

RotateEpoch(t) ==
    /\ page[t].at = "committed"
    /\ knows' = {}
    /\ Go(t, "rotated")
    /\ UNCHANGED <<creds, journal, fallback, intent, lock, worker,
                   servers, history>>

EndSetup(t) ==
    /\ page[t].at = "rotated"
    /\ journal' = None
    /\ page' = [page EXCEPT ![t] = Idle]
    /\ Release(t)
    /\ asked' = asked \ {t}
    /\ UNCHANGED <<creds, fallback, intent, knows, worker, servers,
                   used, undurable>>

(* Whatever a setup waits for may fail or take too long, storage may fail  *)
(* at each write, and the subscription may be gone.                        *)
SetupFails(t) ==
    /\ page[t].at \in Enrolling \ {"confirming"}
    /\ Orphan(t)
    /\ Go(t, "failing")
    /\ UNCHANGED <<storage, lock, registered, subscribed, config, renewal,
                   gateway, pushers, used, asked, undurable>>

-----------------------------------------------------------------------------
(* Cleanup. *)

(* forgetLocalPushState records the intent and a new epoch before it waits *)
(* for the lock; neither is certain when storage fails.                    *)
Demand(t) ==
    /\ page' = [page EXCEPT ![t] = [Idle EXCEPT !.at = "forgetting"]]
    /\ \/ /\ intent' = TRUE
          /\ knows' = {}
          /\ asked' = asked \union {u \in Tab \ {t} : page[u].at \in Enrolling}
                            \union ({creds} \ {None})
       \/ UNCHANGED intent /\ knows' = knows \ {t} /\ asked' = asked \ {t}

(* Sign-out, Forget this browser, disabling, an unlocked or a booting page *)
(* that finds something to clean up.                                       *)
Forget(t) ==
    /\ page[t].at = "idle"
    /\ Demand(t)
    /\ UNCHANGED <<creds, journal, fallback, lock, worker, servers,
                   used, undurable>>

(* A failed setup releases the lock and cleans up behind itself. *)
EndFailedSetup(t) ==
    /\ page[t].at = "failing"
    /\ Release(t)
    /\ IF PendingCleanup
       THEN Demand(t)
       ELSE /\ page' = [page EXCEPT ![t] = Idle]
            /\ knows' = knows \ {t} /\ asked' = asked \ {t}
            /\ UNCHANGED intent
    /\ UNCHANGED <<creds, journal, fallback, worker, servers, used,
                   undurable>>

LockTimeout(t) ==
    /\ page[t].at = "forgetting"
    /\ page' = [page EXCEPT ![t] = Idle]
    /\ UNCHANGED <<storage, lock, worker, servers, history>>

(* The journal a cleanup begins with: the pending one with the fallback    *)
(* merged in, the fallback, or one for the stored credentials.             *)
FirstJournal(p) ==
    IF journal # None
    THEN IF fallback = {} THEN journal ELSE WithTargets(journal, fallback)
    ELSE IF fallback # {} THEN WithTargets(JournalFor(p), fallback)
    ELSE JournalFor(creds)

(* A journal without keys takes over those the worker was configured with. *)
Adopted(j) ==
    IF config = None \/ j.primary # None THEN j
    ELSE [WithTargets(j, {config}) EXCEPT !.primary = config]

Merged(j) ==
    [Adopted(WithTargets(j, {config} \ {j.primary}))
        EXCEPT !.worker = TRUE, !.subscription = TRUE]

(* Without a registration the worker's database is read directly, which    *)
(* may fail, and its keys are in the journal before anything is revoked    *)
(* with them.                                                              *)
Recovered(j) ==
    IF config = None
    THEN [j EXCEPT !.worker = FALSE, !.subscription = FALSE]
    ELSE Merged(j)

(* Under the lock the worker is asked first; when no worker of this        *)
(* protocol answers nothing is touched, as when the lock takes too long.   *)
(* Then the journal is written, the stored credentials are removed, and    *)
(* everything left to do is sent out: the pusher only with the service.    *)
BeginCleanup(t) ==
    /\ page[t].at = "forgetting"
    /\ Unlocked
    /\ lock' = t
    /\ Len(posted) < MaxPosted
    /\ \E p \in IF journal = None /\ fallback # {} THEN fallback ELSE {None},
          service, inspected \in BOOLEAN :
          LET begun == FirstJournal(p)
              j     == IF registered THEN Adopted(begun)
                       ELSE IF inspected THEN Recovered(begun) ELSE begun
              kept  == journal # None /\ j = WithTargets(journal, fallback)
          IN  /\ journal' = IF kept THEN journal ELSE j
              /\ creds' = Without(begun.primary)
              /\ page' = [page EXCEPT ![t] =
                     [at |-> "cleaning", cap |-> None, found |-> registered,
                      orphan |-> ~registered /\ inspected /\ config # None,
                      work |-> j]]
              /\ posted' = IF j.worker THEN Posted("clear", j.primary, t)
                           ELSE posted
              /\ flight' = flight
                    \union {Request("delete", c, t) : c \in j.gateway}
                    \union {Request("removePusher", c, t) :
                               c \in IF service THEN j.pusher ELSE {}}
    /\ knows' = {}
    /\ asked' = asked \intersect Tab
    /\ UNCHANGED <<fallback, intent, registered, subscribed, config, renewal,
                   gateway, pushers, used, undurable>>

(* Everything was answered or took too long.  A pusher nobody can remove   *)
(* may be left once the gateway refuses it, if the caller allowed it and   *)
(* the warning to the user is stored.  The database of a worker that is    *)
(* gone goes last.                                                         *)
Settle(t) ==
    /\ page[t].at = "cleaning"
    /\ Orphan(t)
    /\ \E warned, deleted \in BOOLEAN :
          LET work  == page[t].work
              leave == work.gateway = {} /\ work.pusher # {} /\ warned
              left  == IF leave THEN [work EXCEPT !.pusher = {}] ELSE work
              drop  == /\ page[t].orphan /\ deleted
                       /\ left.gateway = {} /\ left.pusher = {}
          IN  /\ config' = IF drop THEN None ELSE config
              /\ page' = [page EXCEPT ![t].at = "unsubscribing",
                     ![t].work = IF drop THEN [left EXCEPT !.worker = FALSE,
                                                  !.subscription = FALSE]
                                 ELSE left]
    /\ UNCHANGED <<creds, journal, fallback, intent, knows, lock, registered,
                   subscribed, renewal, gateway, pushers, history>>

\* Faulty variant: the worker may still bring the subscription back.
UnsubscribeEarly(j) == j.subscription

(* The subscription goes only after the worker's configuration, which      *)
(* could bring it back.                                                    *)
MayUnsubscribe(j) == ~j.worker /\ j.subscription

EndCleanup(t) ==
    /\ page[t].at = "unsubscribing"
    /\ \E removed \in BOOLEAN :
          LET work == page[t].work
              go   == removed /\ page[t].found /\ MayUnsubscribe(work)
              done == [work EXCEPT !.subscription = @ /\ ~go]
          IN  /\ subscribed' = (subscribed /\ ~go)
              /\ IF Complete(done)
                 THEN /\ journal' = None
                      /\ Go(t, "finishing")
                      /\ UNCHANGED lock
                 ELSE /\ journal' = done
                      /\ page' = [page EXCEPT ![t] = Idle]
                      /\ Release(t)
    /\ UNCHANGED <<creds, fallback, intent, knows, registered, config,
                   posted, renewal, servers, history>>

FinishCleanup(t) ==
    /\ page[t].at = "finishing"
    /\ fallback' = {}
    /\ intent' = FALSE
    /\ knows' = {}
    /\ page' = [page EXCEPT ![t] = Idle]
    /\ Release(t)
    /\ UNCHANGED <<creds, journal, worker, servers, history>>

(* The window is closed, or the browser dies. *)
Crash(t) ==
    /\ page[t].at # "idle"
    /\ Orphan(t)
    /\ page' = [page EXCEPT ![t] = Idle]
    /\ Release(t)
    /\ knows' = knows \ {t} /\ asked' = asked \ {t}
    /\ UNCHANGED <<creds, journal, fallback, intent, registered,
                   subscribed, config, renewal, gateway, pushers, used,
                   undurable>>

-----------------------------------------------------------------------------
(* The service worker and the browser. *)

(* A registration the gateway does not know starts with a challenge. *)
Begun(s) == IF s = "none" THEN "pending" ELSE s

(* The page that waits for this answer goes on, if it still owns its       *)
(* setup, and sends its next request.                                      *)
Continue(t, s, sent) ==
    /\ Go(t, IF Owned(t) THEN s ELSE "failing")
    /\ flight' = IF Owned(t) THEN flight \union sent ELSE flight

SetConfig ==
    LET m == Head(posted) IN
    /\ renewal = None
    /\ posted # <<>> /\ m.op = "set"
    /\ config' = m.cap
    /\ posted' = Tail(posted)
    /\ IF m.tab = NoTab THEN UNCHANGED <<page, flight>>
       ELSE Continue(m.tab, "registering", {Request("post", m.cap, m.tab)})
    /\ UNCHANGED <<storage, lock, registered, subscribed, renewal, gateway,
                   pushers, history>>

(* Only the configuration of that generation is cleared. *)
Cleared(c) == config \in {None, c}

ClearConfig ==
    LET m == Head(posted)
        t == m.tab
        undo == t # NoTab /\ Cleared(m.cap) /\ page[t].at = "unconfiguring"
    IN
    /\ renewal = None
    /\ posted # <<>> /\ m.op = "clear"
    /\ config' = IF Cleared(m.cap) THEN None ELSE config
    /\ posted' = Tail(posted)
    /\ page' = IF t = NoTab \/ ~Cleared(m.cap) THEN page
               ELSE IF undo THEN [page EXCEPT ![t].at = "failing"]
               ELSE [page EXCEPT ![t].work.worker = FALSE]
    (* The rollback goes on: no subscription, no credentials. *)
    /\ subscribed' = (subscribed /\ ~undo)
    /\ creds' = IF undo THEN Without(m.cap) ELSE creds
    /\ UNCHANGED <<journal, fallback, intent, knows, lock, registered,
                   renewal, servers, history>>

(* The browser drops the subscription, and the worker asks for a new one   *)
(* and registers it with the keys it has.  No message is handled meanwhile. *)
SubscriptionChange ==
    /\ registered /\ subscribed
    /\ renewal = None
    /\ subscribed' = FALSE
    /\ renewal' = config
    /\ UNCHANGED <<storage, lock, page, registered, config, posted, servers,
                   history>>

EndRenewal ==
    /\ renewal # None
    /\ renewal' = None
    /\ \/ UNCHANGED <<subscribed, gateway>>
       \/ /\ subscribed' = TRUE
          /\ gateway' \in {gateway, [gateway EXCEPT ![renewal] = Begun(@)]}
    /\ UNCHANGED <<storage, lock, page, registered, config, posted, pushers,
                   flight, history>>

WorkerDies ==
    /\ posted # <<>>
    /\ posted' = <<>>
    /\ renewal' = None
    /\ UNCHANGED <<storage, lock, page, registered, subscribed, config, servers,
                   history>>

(* The user or the browser removes the registration, not its database. *)
Unregister ==
    /\ registered
    /\ registered' = FALSE
    /\ subscribed' = FALSE
    /\ posted' = <<>>
    /\ renewal' = None
    /\ UNCHANGED <<storage, lock, page, config, servers, history>>

-----------------------------------------------------------------------------
(* The gateway and the homeserver. *)

ServePost(m) ==
    LET s == Begun(gateway[m.cap])
        t == m.tab
    IN
    /\ m.op = "post"
    /\ gateway' = [gateway EXCEPT ![m.cap] = s]
    /\ IF t = NoTab THEN UNCHANGED page /\ flight' = flight \ {m}
       ELSE IF s = "active" /\ Owned(t)
       THEN /\ Go(t, "pushing")
            /\ flight' = (flight \ {m}) \union {Request("setPusher", m.cap, t)}
       ELSE /\ Go(t, IF s = "pending" /\ page[t].at = "registering"
                     THEN "confirming" ELSE "failing")
            /\ flight' = flight \ {m}
    /\ UNCHANGED <<storage, lock, worker, pushers, history>>

(* The challenge reaches the worker, which answers for its own generation. *)
Confirm(c) ==
    /\ gateway[c] = "pending"
    /\ registered /\ subscribed /\ config = c
    /\ gateway' = [gateway EXCEPT ![c] = "active"]
    /\ UNCHANGED <<storage, lock, page, worker, pushers, flight, history>>

(* A management key is revoked whether or not the gateway knew it. *)
ServeDelete(m) ==
    /\ m.op = "delete"
    /\ gateway' = [gateway EXCEPT ![m.cap] = "revoked"]
    /\ flight' = flight \ {m}
    /\ page' = IF m.tab # NoTab /\ page[m.tab].at = "cleaning"
               THEN [page EXCEPT ![m.tab].work.gateway = @ \ {m.cap}] ELSE page
    /\ UNCHANGED <<storage, lock, worker, pushers, history>>

ServeSetPusher(m) ==
    /\ m.op = "setPusher"
    /\ pushers' = pushers \union {m.cap}
    /\ flight' = flight \ {m}
    /\ IF m.tab = NoTab THEN UNCHANGED page
       ELSE Go(m.tab, IF Owned(m.tab) THEN "checking" ELSE "failing")
    /\ UNCHANGED <<storage, lock, worker, gateway, history>>

ServeRemovePusher(m) ==
    /\ m.op = "removePusher"
    /\ pushers' = pushers \ {m.cap}
    /\ flight' = flight \ {m}
    /\ page' = IF m.tab # NoTab /\ page[m.tab].at = "cleaning"
               THEN [page EXCEPT ![m.tab].work.pusher = @ \ {m.cap}] ELSE page
    /\ UNCHANGED <<storage, lock, worker, gateway, history>>

-----------------------------------------------------------------------------
Window(t) ==
    \/ StartSetup(t) \/ TakeForSetup(t) \/ Subscribe(t) \/ QueueSetup(t)
    \/ QueueFails(t) \/ UndoWorker(t) \/ UndoFails(t) \/ Reregister(t)
    \/ CommitCredentials(t) \/ RotateEpoch(t) \/ EndSetup(t) \/ SetupFails(t)
    \/ Forget(t) \/ EndFailedSetup(t) \/ LockTimeout(t) \/ BeginCleanup(t)
    \/ Settle(t) \/ EndCleanup(t)
    \/ FinishCleanup(t) \/ Crash(t)

Worker ==
    \/ SetConfig \/ ClearConfig \/ SubscriptionChange \/ EndRenewal
    \/ WorkerDies \/ Unregister

Server ==
    \/ \E c \in Capability : Confirm(c)
    \/ \E m \in flight :
          \/ ServePost(m) \/ ServeDelete(m) \/ ServeSetPusher(m)
          \/ ServeRemovePusher(m)

Next == (\E t \in Tab : Window(t)) \/ Worker \/ Server

Spec == Init /\ [][Next]_vars

-----------------------------------------------------------------------------
(* The types, and the lock: whoever changes what the windows share, from   *)
(* the subscription to the commit and all through a cleanup, holds it.     *)
TypeOK ==
    /\ creds \in Stored /\ config \in Stored /\ renewal \in Stored
    /\ journal \in Journal \union {None}
    /\ fallback \subseteq Capability
    /\ intent \in BOOLEAN /\ undurable \in BOOLEAN
    /\ registered \in BOOLEAN /\ subscribed \in BOOLEAN
    /\ knows \subseteq Tab
    /\ lock \in Tab \union {NoTab}
    /\ gateway \in [Capability -> {"none", "pending", "active", "revoked"}]
    /\ pushers \subseteq Capability
    /\ \A t \in Tab :
          /\ page[t].at \in Enrolling \union Undoing \union Cleaning
                             \union {"idle", "forgetting"}
          /\ page[t].work \in Journal \union {None}
          /\ (page[t].at \in Cleaning \/ page[t].at \in Enrolling \ {"asked"})
                => lock = t

(* Who could revoke c after a restart. *)
Recorded(c) ==
    \/ creds = c
    \/ journal # None /\ c \in journal.gateway
    \/ c \in fallback

(* Whatever is live is known to somebody who can end it: a registration at *)
(* the gateway, a pusher the gateway still serves, and a configuration of  *)
(* the worker that the next cleanup is able to clear.  The exception is a  *)
(* capability that no storage took, of which the user is told.             *)
CapabilityRecorded ==
    ~undurable =>
        /\ \A c \in Capability :
              \/ gateway[c] \in {"pending", "active"}
              \/ c \in pushers /\ gateway[c] # "revoked"
              => Recorded(c)
        /\ config # None =>
              \/ creds = config \/ config \in fallback
              \/ journal # None /\ journal.primary \in {config, None}

(* When a cleanup reports that it is complete nothing is left: no          *)
(* credentials, no configuration, no subscription, no registration, even   *)
(* though what earlier windows sent may still arrive.                      *)
CleanupLeavesNothing ==
    \A t \in Tab : page[t].at = "finishing" /\ ~undurable =>
        /\ creds = None /\ config = None /\ ~subscribed
        /\ \A c \in Capability : gateway[c] \in {"none", "revoked"}

(* Notifications that are on are on everywhere: the worker has the same    *)
(* capability, the homeserver pushes to it and the gateway has not revoked *)
(* it.                                                                     *)
EnrolledIsWhole ==
    creds # None /\ ~PendingCleanup /\ ~undurable =>
        config = creds /\ creds \in pushers /\ gateway[creds] # "revoked"

(* A setup or an enrolment from before a recorded request to clean up does *)
(* not outlive it: the request stands until the credentials are gone.      *)
SignOutSticks ==
    creds \in asked => intent \/ journal # None
=============================================================================
