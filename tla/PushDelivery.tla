---------------------------- MODULE PushDelivery ----------------------------
(***************************************************************************)
(* The homeserver's callbacks and how lib/push-server.ts delivers them:    *)
(* notify and deliver over the tables of PushStore, while the browser      *)
(* moves or revokes its subscription, requests overlap, the provider       *)
(* answers late or never, and server instances die.                        *)
(*                                                                         *)
(* A request carries one event for every registered device.  Each device   *)
(* is a job of the request; the jobs run concurrently, one database        *)
(* statement or provider call at a time.  Everything a job remembers is in *)
(* its record: the snapshot read when the request arrived and the time it  *)
(* read before its first statement, which all its statements use.          *)
(*                                                                         *)
(* Outside src/: the homeserver, which calls again until a call is         *)
(* answered 200, waiting for one call at a time but not for ever, and the  *)
(* push provider.                                                          *)
(***************************************************************************)
EXTENDS PushStore

CONSTANTS
    Requests,       \* notify requests the homeserver makes, at most
    Distrusted,     \* endpoints the push policy no longer accepts
    NoSnapshot,     \* the subscription of a device that has none
    MaxClock        \* bound: the time at which the model stops ticking

ASSUME DistrustedAssumption == Distrusted \subseteq Endpoints
ASSUME AbsentAssumption ==
    NoSnapshot \notin Endpoints \union Keys
ASSUME ClockAssumption == MaxClock \in Nat /\ 0..MaxClock \subseteq Times
ASSUME LeaseAssumption == StaleAfter # 0
ASSUME ChallengeAssumption == Challenges # {}

VARIABLES
    clock,          \* seconds, the same for all instances
    request,        \* request[r]: the notify handler
    job,            \* job[r][d]: deliver for one device of a request
    acked,          \* events the homeserver got a 200 for
    accepted,       \* accepted[d][x]: messages the provider took (history)
    excused         \* excused[d][x]: why more or fewer than one (history)

deliveryVars == <<clock, request, job, acked, accepted, excused>>
vars == <<storeVars, deliveryVars>>

Job == [at: {"idle", "check", "claim", "reclaim", "budget", "send", "mark", "release",
             "drop", "done", "dead"},
        endpoint: Endpoints \union {NoSnapshot}, keys: Keys \union {NoSnapshot},
        time: 0..MaxClock, result: {"none", "sent", "suppressed", "rejected", "transient"}]

Request == [at: {"unused", "budget", "deliver", "sweep", "answered"},
            event: Events \union {NoEvent},
            status: {0, 200, 502, 503},
            heard: BOOLEAN]

Excuses == {"limited", "unregistered", "unrecorded", "outlived", "purged", "overlapped"}

DeliveryTypeOK ==
    /\ TypeOK
    /\ clock \in 0..MaxClock
    /\ request \in [Requests -> Request]
    /\ job \in [Requests -> [DeliveryKeys -> Job]]
    /\ acked \subseteq Events
    /\ accepted \in [DeliveryKeys -> [Events -> Nat]]
    /\ excused \in [DeliveryKeys -> [Events -> SUBSET Excuses]]

Idle == [at |-> "idle", endpoint |-> NoSnapshot, keys |-> NoSnapshot, time |-> 0,
         result |-> "none"]

\* Devices registered, as PushStore leaves them; nothing delivered yet.
DeliveryInit ==
    /\ subs \in SUBSET [delivery: DeliveryKeys, mgmt: ManagementKeys,
                        endpoint: Endpoints, keys: Keys, updatedAt: {0}]
    /\ UniqueRows(subs) /\ IsFiniteSet(subs)
    /\ {s.delivery : s \in subs} = DeliveryKeys
    /\ subCount = Cardinality(subs)
    /\ pending = {} /\ revoked = {} /\ revokedCount = 0 /\ revokedLimit = MaxRevoked
    /\ deliveries = {}
    /\ reply = [op |-> "none", outcome |-> "none"]
    /\ clock = 0
    /\ request = [r \in Requests |-> [at |-> "unused", event |-> NoEvent,
                                      status |-> 0, heard |-> FALSE]]
    /\ job = [r \in Requests |-> [d \in DeliveryKeys |-> Idle]]
    /\ acked = {}
    /\ accepted = [d \in DeliveryKeys |-> [x \in Events |-> 0]]
    /\ excused = [d \in DeliveryKeys |-> [x \in Events |-> {}]]

-----------------------------------------------------------------------------
(* Jobs *)

Running(r, d) == job[r][d].at \notin {"idle", "done", "dead"}

\* The job believes it holds the claim on (d, x).
Holds(r, d, x) ==
    request[r].event = x /\ job[r][d].at \in {"budget", "send", "mark"}

Goes(r, d, at) == job' = [job EXCEPT ![r][d].at = at]

Ends(r, d, result) ==
    job' = [job EXCEPT ![r][d].at = "done", ![r][d].result = result]

Excused(d, x, why) == excused' = [excused EXCEPT ![d][x] = @ \union {why}]

\* The rows are gone: whatever was to be delivered there no longer is.
Unregistered(rows) ==
    excused' = [d \in DeliveryKeys |->
                   [x \in Events |->
                       IF \E s \in rows : s.delivery = d
                       THEN excused[d][x] \union {"unregistered"}
                       ELSE excused[d][x]]]

Snapshot(r, d) == Current(d, job[r][d].endpoint, job[r][d].keys)

Answers(r, status) ==
    request' = [request EXCEPT ![r] =
        [at |-> "answered", event |-> @.event, status |-> status, heard |-> @.heard]]

-----------------------------------------------------------------------------
(* The homeserver and notify *)

\* The callback arrives and the devices' rows are read in one query.  The
\* homeserver has one call per event in the air that it still waits for.
Notify(r, x) ==
    /\ request[r].at = "unused"
    /\ x \notin acked
    /\ \A q \in Requests : request[q].event = x => request[q].heard
    /\ request' = [request EXCEPT ![r] =
           [at |-> IF subs = {} THEN "answered" ELSE "budget", event |-> x,
            status |-> IF subs = {} THEN 200 ELSE 0, heard |-> FALSE]]
    /\ job' = [job EXCEPT ![r] = [d \in DeliveryKeys |->
           IF RowsOf(d) = {}
           THEN [Idle EXCEPT !.at = "done", !.result = "rejected"]
           ELSE LET row == CHOOSE s \in RowsOf(d) : TRUE
                IN  [Idle EXCEPT !.at = "check", !.endpoint = row.endpoint,
                                 !.keys = row.keys]]]
    /\ UNCHANGED <<storeVars, clock, acked, accepted, excused>>

\* The matrix-notify budget admits the call or not.
AdmitCall(r) ==
    /\ request[r].at = "budget"
    /\ request' = [request EXCEPT ![r].at = "deliver"]
    /\ UNCHANGED <<storeVars, clock, job, acked, accepted, excused>>

RefuseCall(r) ==
    /\ request[r].at = "budget"
    /\ Answers(r, 503)
    /\ UNCHANGED <<storeVars, clock, job, acked, accepted, excused>>

\* All devices are settled: old delivery records go first, unless the
\* database fails, which notify ignores here and below ...
Purge(r) ==
    /\ request[r].at = "deliver"
    /\ \A d \in DeliveryKeys : job[r][d].at = "done"
    /\ CleanupDeliveries(clock) \/ UNCHANGED storeVars
    /\ excused' = [d \in DeliveryKeys |-> [x \in Events |->
           IF Entry(d, x) # {} /\ Entry(d, x) \intersect deliveries' = {}
           THEN excused[d][x] \union {"purged"} ELSE excused[d][x]]]
    /\ request' = [request EXCEPT ![r].at = "sweep"]
    /\ UNCHANGED <<clock, job, acked, accepted>>

\* A single transient device makes the whole call one the homeserver repeats.
Status(r) ==
    IF \E d \in DeliveryKeys : job[r][d].result = "transient" THEN 503 ELSE 200

\* ... then unused subscriptions, and the call is answered.
Sweep(r) ==
    /\ request[r].at = "sweep"
    /\ CleanupSubscriptions(clock)
    /\ Unregistered(subs \ subs')
    /\ Answers(r, Status(r))
    /\ UNCHANGED <<clock, job, acked, accepted>>

\* A device's failure rejects Promise.all; the other devices carry on.
Fail(r) ==
    /\ request[r].at = "deliver"
    /\ \E d \in DeliveryKeys : job[r][d].at = "dead"
    /\ Answers(r, 502)
    /\ UNCHANGED <<storeVars, clock, job, acked, accepted, excused>>

Hear(r) ==
    /\ request[r].at = "answered" /\ ~request[r].heard
    /\ request' = [request EXCEPT ![r].heard = TRUE]
    /\ acked' = IF request[r].status = 200 THEN acked \union {request[r].event} ELSE acked
    /\ UNCHANGED <<storeVars, clock, job, accepted, excused>>

\* The homeserver stops waiting, or the answer is lost.
GiveUp(r) ==
    /\ request[r].at # "unused" /\ ~request[r].heard
    /\ request' = [request EXCEPT ![r].heard = TRUE]
    /\ UNCHANGED <<storeVars, clock, job, acked, accepted, excused>>

-----------------------------------------------------------------------------
(* deliver, for one device of a request *)

\* The policy changed since the endpoint was registered.
DropInvalid(r, d) ==
    /\ request[r].at = "deliver" /\ job[r][d].at = "check"
    /\ job[r][d].endpoint \in Distrusted
    /\ DropIfCurrent(d, job[r][d].endpoint, job[r][d].keys)
    /\ Ends(r, d, IF Snapshot(r, d) = {} THEN "transient" ELSE "rejected")
    /\ Unregistered(Snapshot(r, d))
    /\ UNCHANGED <<clock, request, acked, accepted>>

\* The clock is read once; the per-device limit updates the device's row, so
\* a row that is gone counts as a limit that is reached.
PassLimit(r, d) ==
    /\ request[r].at = "deliver" /\ job[r][d].at = "check"
    /\ job[r][d].endpoint \notin Distrusted
    /\ RowsOf(d) # {}
    /\ job' = [job EXCEPT ![r][d].at = "claim", ![r][d].time = clock]
    /\ UNCHANGED <<storeVars, clock, request, acked, accepted, excused>>

HitLimit(r, d) ==
    /\ request[r].at = "deliver" /\ job[r][d].at = "check"
    /\ job[r][d].endpoint \notin Distrusted
    /\ Ends(r, d, "suppressed")
    /\ Excused(d, request[r].event, "limited")
    /\ UNCHANGED <<storeVars, clock, request, acked, accepted>>

\* Another attempt's claim is in the way.
NotesOverlap(d, x) ==
    IF \E y \in Entry(d, x) : y.status = "pending"
    THEN Excused(d, x, "overlapped")
    ELSE UNCHANGED excused

Claim(r, d) ==
    /\ job[r][d].at = "claim"
    /\ ClaimInsert(d, request[r].event, job[r][d].time)
    /\ Goes(r, d, IF Entry(d, request[r].event) = {} THEN "budget" ELSE "reclaim")
    /\ NotesOverlap(d, request[r].event)
    /\ UNCHANGED <<clock, request, acked, accepted>>

Reclaim(r, d) ==
    LET x == request[r].event
    IN  /\ job[r][d].at = "reclaim"
        /\ ClaimStale(d, x, job[r][d].time)
        /\ IF StaleClaims(d, x, job[r][d].time) # {}
           THEN Goes(r, d, "budget")
           ELSE Ends(r, d, "suppressed")
        /\ NotesOverlap(d, x)
        /\ UNCHANGED <<clock, request, acked, accepted>>

\* The outbound-deliveries budget admits the message or not.
AdmitSend(r, d) ==
    /\ job[r][d].at = "budget"
    /\ Goes(r, d, "send")
    /\ UNCHANGED <<storeVars, clock, request, acked, accepted, excused>>

\* Faulty variant: the spent budget ends the job like the device's own limit.
RefuseSendQuietly(r, d) ==
    /\ job[r][d].at = "budget"
    /\ Ends(r, d, "suppressed")
    /\ UNCHANGED <<storeVars, clock, request, acked, accepted, excused>>

RefuseSend(r, d) ==
    /\ job[r][d].at = "budget"
    /\ Goes(r, d, "release")
    /\ UNCHANGED <<storeVars, clock, request, acked, accepted, excused>>

Accepts(d, x) == accepted' = [accepted EXCEPT ![d][x] = @ + 1]

\* The provider takes the message and says so.
SendAccepted(r, d) ==
    /\ job[r][d].at = "send"
    /\ Accepts(d, request[r].event)
    /\ Goes(r, d, "mark")
    /\ UNCHANGED <<storeVars, clock, request, acked, excused>>

\* The provider takes the message and its answer is lost.
SendAmbiguous(r, d) ==
    /\ job[r][d].at = "send"
    /\ Accepts(d, request[r].event)
    /\ Excused(d, request[r].event, "unrecorded")
    /\ Goes(r, d, "release")
    /\ UNCHANGED <<storeVars, clock, request, acked>>

SendFailed(r, d) ==
    /\ job[r][d].at = "send"
    /\ Goes(r, d, "release")
    /\ UNCHANGED <<storeVars, clock, request, acked, accepted, excused>>

\* 404 or 410: the provider no longer knows the endpoint.
SendGone(r, d) ==
    /\ job[r][d].at = "send"
    /\ Goes(r, d, "drop")
    /\ UNCHANGED <<storeVars, clock, request, acked, accepted, excused>>

\* A subscription that moved meanwhile is not marked, so that the message is
\* sent again to where the browser listens now.
Mark(r, d) ==
    /\ job[r][d].at = "mark"
    /\ MarkIfCurrent(d, job[r][d].endpoint, job[r][d].keys, request[r].event,
                     job[r][d].time)
    /\ IF Snapshot(r, d) # {}
       THEN Ends(r, d, "sent") /\ UNCHANGED excused
       ELSE Goes(r, d, "release") /\ Excused(d, request[r].event, "unrecorded")
    /\ UNCHANGED <<clock, request, acked, accepted>>

\* The statement fails, with or without effect, and is treated like a send
\* that failed.
MarkFails(r, d) ==
    /\ job[r][d].at = "mark"
    /\ \/ MarkIfCurrent(d, job[r][d].endpoint, job[r][d].keys, request[r].event,
                        job[r][d].time)
       \/ UNCHANGED storeVars
    /\ Goes(r, d, "release")
    /\ Excused(d, request[r].event, "unrecorded")
    /\ UNCHANGED <<clock, request, acked, accepted>>

ReleaseClaim(r, d) ==
    /\ job[r][d].at = "release"
    /\ Release(d, request[r].event)
    /\ Ends(r, d, "transient")
    /\ UNCHANGED <<clock, request, acked, accepted, excused>>

\* Faulty variant: the claim is forgotten when the browser moved meanwhile.
DropGoneKeepingClaim(r, d) ==
    /\ job[r][d].at = "drop"
    /\ DropIfCurrent(d, job[r][d].endpoint, job[r][d].keys)
    /\ Ends(r, d, IF Snapshot(r, d) # {} THEN "rejected" ELSE "transient")
    /\ Unregistered(Snapshot(r, d))
    /\ UNCHANGED <<clock, request, acked, accepted>>

DropGone(r, d) ==
    /\ job[r][d].at = "drop"
    /\ DropIfCurrent(d, job[r][d].endpoint, job[r][d].keys)
    /\ IF Snapshot(r, d) # {} THEN Ends(r, d, "rejected") ELSE Goes(r, d, "release")
    /\ Unregistered(Snapshot(r, d))
    /\ UNCHANGED <<clock, request, acked, accepted>>

\* The instance is stopped, or the database refuses a statement outside the
\* try block or inside its handler.
Die(r, d) ==
    /\ Running(r, d) /\ request[r].at # "budget"
    /\ Goes(r, d, "dead")
    /\ IF job[r][d].at = "mark" THEN Excused(d, request[r].event, "unrecorded")
                                ELSE UNCHANGED excused
    /\ UNCHANGED <<storeVars, clock, request, acked, accepted>>

-----------------------------------------------------------------------------
(* The browser and the clock *)

Move(d) ==
    /\ \E m \in ManagementKeys, e \in Endpoints \ Distrusted, k \in Keys :
           BeginActive(d, m, e, k, clock)
    /\ Unregistered({s \in subs : \A t \in subs' : s.delivery # t.delivery})
    /\ UNCHANGED <<clock, request, job, acked, accepted>>

Revoke(m) ==
    /\ DeleteRemoved(m)
    /\ Unregistered(subs \ subs')
    /\ UNCHANGED <<clock, request, job, acked, accepted>>

\* An attempt still under way when a claim dated by its clock reading, which
\* it may be about to make, is stale.
Outlives(r, d, x) ==
    /\ request[r].event = x
    /\ job[r][d].at \in {"claim", "reclaim", "budget", "send", "mark", "release", "drop"}
    /\ job[r][d].time <= clock + 1 - StaleAfter

Tick ==
    /\ clock < MaxClock
    /\ clock' = clock + 1
    /\ excused' = [d \in DeliveryKeys |-> [x \in Events |->
           IF \E r \in Requests : Outlives(r, d, x)
           THEN excused[d][x] \union {"outlived"} ELSE excused[d][x]]]
    /\ UNCHANGED <<storeVars, request, job, acked, accepted>>

-----------------------------------------------------------------------------

Deliver(r, d) ==
    \/ DropInvalid(r, d) \/ PassLimit(r, d) \/ HitLimit(r, d)
    \/ Claim(r, d) \/ Reclaim(r, d)
    \/ AdmitSend(r, d) \/ RefuseSend(r, d)
    \/ SendAccepted(r, d) \/ SendAmbiguous(r, d) \/ SendFailed(r, d) \/ SendGone(r, d)
    \/ Mark(r, d) \/ MarkFails(r, d) \/ ReleaseClaim(r, d) \/ DropGone(r, d)

Answer(r) == AdmitCall(r) \/ RefuseCall(r) \/ Purge(r) \/ Sweep(r) \/ Fail(r)

Homeserver(r) == (\E x \in Events : Notify(r, x)) \/ Hear(r) \/ GiveUp(r)

DeliveryNext ==
    \/ \E r \in Requests : Homeserver(r) \/ Answer(r)
    \/ \E r \in Requests, d \in DeliveryKeys : Deliver(r, d) \/ Die(r, d)
    \/ \E d \in DeliveryKeys : Move(d)
    \/ \E m \in ManagementKeys : Revoke(m)
    \/ Tick

DeliverySpec == DeliveryInit /\ [][DeliveryNext]_vars

-----------------------------------------------------------------------------
(* Properties *)

\* "Delivery is deduplicated by capability hash and event ID" (ADR-0008): the
\* provider gets a second message for an event and a device only if the
\* gateway could not record the first, an attempt outlived its lease, or the
\* record was purged or went with the subscription.
DuplicateExplained ==
    \A d \in DeliveryKeys, x \in Events :
        accepted[d][x] > 1 =>
            excused[d][x] \intersect {"unrecorded", "outlived", "purged", "unregistered"} # {}

\* While the lease lasts one attempt at a time sends an event to a device.
LeaseExclusive ==
    \A d \in DeliveryKeys, x \in Events, r, q \in Requests :
        /\ r # q
        /\ Holds(r, d, x) /\ Holds(q, d, x)
        => excused[d][x] \intersect {"outlived", "purged", "unregistered"} # {}

\* A claim outlives the attempts on it only if one of them died: every other
\* way out of deliver marks, releases or removes it.
ClaimsReturned ==
    \A y \in deliveries :
        y.status = "pending" =>
            \E r \in Requests :
                /\ request[r].event = y.event
                /\ Running(r, y.delivery) \/ job[r][y.delivery].at = "dead"

\* When the homeserver has been told that an event is dealt with, each device
\* got it, or is gone, or was limited, or another attempt's claim stood in the
\* way of one of the attempts.
Explained(d, x) ==
    \/ accepted[d][x] > 0
    \/ excused[d][x] \intersect {"limited", "unregistered", "overlapped"} # {}

AckExplained == \A d \in DeliveryKeys, x \in acked : Explained(d, x)

\* What "recoverable leases" (ADR-0008) promises: the same without the last
\* excuse, at least when no attempt is under way.  A claim that was not completed is taken over by a later call, so
\* the homeserver must be made to call again.
AckedIsDelivered ==
    \A d \in DeliveryKeys, x \in acked :
        (\A r \in Requests : request[r].event = x => ~Running(r, d)) =>
            \/ accepted[d][x] > 0
            \/ excused[d][x] \intersect {"limited", "unregistered"} # {}

=============================================================================
