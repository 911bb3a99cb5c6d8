--------------------------- MODULE PushEnrolment ---------------------------
(***************************************************************************)
(* How browsers enrol, test and leave: changeSubscription and              *)
(* testNotification of lib/push-server.ts over the tables of PushStore.    *)
(* Calls overlap, are repeated by pages that stopped waiting, and stop     *)
(* between two statements when their server instance does; challenges      *)
(* travel through the push provider to the worker and come back late,      *)
(* twice or never; the homeserver's callbacks use the same rows meanwhile. *)
(*                                                                         *)
(* A call carries everything its handler holds in local variables: the     *)
(* capability and subscription it was sent or, for a test, the snapshot of *)
(* the row it read.  One action is one database statement or one answer of *)
(* the provider.  The challenge of a call is named by the call.            *)
(*                                                                         *)
(* Outside src/: the provider, which may take a message and lose the       *)
(* answer, and forgets endpoints.  Of the homeserver's callbacks there are *)
(* the statements that touch the registry (PushDelivery has the rest).     *)
(***************************************************************************)
EXTENDS PushStore

CONSTANTS
    Calls,          \* calls of pages and workers, at most
    Owner,          \* the management key generated with each delivery key
    Distrusted,     \* endpoints the push policy no longer accepts
    NoValue,        \* what a call does not carry
    MaxClock        \* bound: the time at which the model stops ticking

ASSUME CallsAssumption == Calls \subseteq Challenges
ASSUME OwnerAssumption == Owner \in [DeliveryKeys -> ManagementKeys]
ASSUME EnrolmentAssumption ==
    /\ Distrusted \subseteq Endpoints
    /\ NoValue \notin DeliveryKeys \union Endpoints \union Keys
    /\ MaxClock \in Nat /\ 0..MaxClock \subseteq Times

VARIABLES
    clock,          \* seconds, the same for all instances
    call,           \* call[i]: a request to the gateway
    returning,      \* challenges a worker has and may send back
    gone            \* endpoints the provider has forgotten

enrolmentVars == <<clock, call, returning, gone>>
vars == <<storeVars, enrolmentVars>>

Call ==
    [at: {"unused", "sweep", "begin", "budget", "cancel", "check", "send", "mark",
          "drop", "answered", "dead"},
     device: DeliveryKeys \union {NoValue},
     endpoint: Endpoints \union {NoValue},
     keys: Keys \union {NoValue},
     time: 0..MaxClock,
     answer: {"none", "registered", "pending", "removed", "not_found", "sent",
              "expired", "changed", "refused", "failed"}]

EnrolmentTypeOK ==
    /\ TypeOK
    /\ clock \in 0..MaxClock
    /\ call \in [Calls -> Call]
    /\ returning \subseteq Calls
    /\ gone \subseteq Endpoints

\* Some devices are enrolled, by capabilities of their own.
EnrolmentInit ==
    /\ subs \in SUBSET {[delivery |-> d, mgmt |-> Owner[d], endpoint |-> e, keys |-> k,
                         updatedAt |-> 0] : d \in DeliveryKeys, e \in Endpoints, k \in Keys}
    /\ UniqueRows(subs)
    /\ IsFiniteSet(subs) /\ Cardinality(subs) <= MaxSubscriptions
    /\ subCount = Cardinality(subs)
    /\ pending = {} /\ revoked = {} /\ revokedCount = 0 /\ revokedLimit = MaxRevoked
    /\ deliveries = {}
    /\ reply = [op |-> "none", outcome |-> "none"]
    /\ clock = 0
    /\ call = [i \in Calls |-> [at |-> "unused", device |-> NoValue, endpoint |-> NoValue,
                                keys |-> NoValue, time |-> 0, answer |-> "none"]]
    /\ returning = {}
    /\ gone = {}

-----------------------------------------------------------------------------
(* Calls *)

Goes(i, at) == call' = [call EXCEPT ![i].at = at]

Answers(i, answer) ==
    call' = [call EXCEPT ![i].at = "answered", ![i].answer = answer]

\* What the handler makes of the outcome of the statement just executed.
AnswersReply(i, answerOf) == Answers(i, answerOf[reply'.outcome])

\* A spent budget ends a call where it asks for one; so does, in a test, the
\* limit of the device, whose row may be gone.
Refuse(i) ==
    /\ call[i].at \in {"sweep", "check"}
    /\ Answers(i, "refused")
    /\ UNCHANGED <<storeVars, clock, returning, gone>>

\* The instance stops, or the database refuses a statement.
Die(i) ==
    /\ call[i].at \notin {"unused", "answered", "dead"}
    /\ Goes(i, "dead")
    /\ UNCHANGED <<storeVars, clock, returning, gone>>

-----------------------------------------------------------------------------
(* POST: registration *)

\* A page or a worker asks for its subscription to be registered.
Register(i, d, e, k) ==
    /\ call[i].at = "unused"
    /\ e \notin Distrusted
    /\ call' = [call EXCEPT ![i].at = "sweep", ![i].device = d,
                            ![i].endpoint = e, ![i].keys = k]
    /\ UNCHANGED <<storeVars, clock, returning, gone>>

SweepStale(i) ==
    /\ call[i].at = "sweep"
    /\ CleanupSubscriptions(clock)
    /\ Goes(i, "begin")
    /\ UNCHANGED <<clock, returning, gone>>

BeginAnswer ==
    [active |-> "registered", management_conflict |-> "refused", revoked |-> "refused",
     capacity_exceeded |-> "refused", pending_capacity_exceeded |-> "refused",
     error |-> "failed"]

BeginRegistration(i) ==
    /\ call[i].at = "begin"
    /\ Begin(call[i].device, Owner[call[i].device], call[i].endpoint, call[i].keys, i, clock)
    /\ IF reply'.outcome = "challenge_required"
       THEN Goes(i, "budget")
       ELSE AnswersReply(i, BeginAnswer)
    /\ UNCHANGED <<clock, returning, gone>>

\* The budget for messages, then the provider: the challenge is on its way ...
SendChallenge(i) ==
    /\ call[i].at = "budget"
    /\ call[i].endpoint \notin gone
    /\ returning' = returning \union {i}
    /\ Answers(i, "pending")
    /\ UNCHANGED <<storeVars, clock, gone>>

\* ... or it is, and the server does not know ...
SendChallengeAmbiguous(i) ==
    /\ call[i].at = "budget"
    /\ call[i].endpoint \notin gone
    /\ returning' = returning \union {i}
    /\ Goes(i, "cancel")
    /\ UNCHANGED <<storeVars, clock, gone>>

\* ... or the budget is spent, or the provider refuses.
ChallengeNotSent(i) ==
    /\ call[i].at = "budget"
    /\ Goes(i, "cancel")
    /\ UNCHANGED <<storeVars, clock, returning, gone>>

\* Faulty variant: gives up whatever is pending for the device.
CancelForDevice(i) ==
    /\ call[i].at = "cancel"
    /\ pending' = {p \in pending : p.delivery # call[i].device}
    /\ Replies("cancel", "true")
    /\ Answers(i, "failed")
    /\ UNCHANGED <<subs, subCount, deliveries, tombstones, clock, returning, gone>>

\* The registration this call began is given up, by its challenge: a later
\* one of the same device is not touched.
Cancel(i) ==
    /\ call[i].at = "cancel"
    /\ CancelPending(i)
    /\ Answers(i, "failed")
    /\ UNCHANGED <<clock, returning, gone>>

-----------------------------------------------------------------------------
(* PATCH: the worker returns a challenge, as often as it likes *)

Return(i) ==
    /\ i \in returning
    /\ Confirm(i, clock)
    /\ UNCHANGED enrolmentVars

-----------------------------------------------------------------------------
(* DELETE: removal, by the management key alone *)

RemovalAnswer ==
    [removed |-> "removed", not_found |-> "not_found", capacity_exceeded |-> "refused"]

\* One statement; a removal that the budget refuses changes nothing and is no step.
Remove(i, d) ==
    /\ call[i].at = "unused"
    /\ Delete(Owner[d])
    /\ call' = [call EXCEPT ![i].at = "answered", ![i].device = d,
                            ![i].answer = RemovalAnswer[reply'.outcome]]
    /\ UNCHANGED <<clock, returning, gone>>

-----------------------------------------------------------------------------
(* testNotification *)

\* The row of the capability is read, and everything after uses that copy.
Test(i, d) ==
    /\ call[i].at = "unused"
    /\ call' = [call EXCEPT ![i] =
           IF ManagedBy(Owner[d]) = {}
           THEN [@ EXCEPT !.at = "answered", !.device = d, !.answer = "refused"]
           ELSE LET row == CHOOSE s \in ManagedBy(Owner[d]) : TRUE
                IN  [@ EXCEPT !.at = IF row.endpoint \in Distrusted THEN "drop" ELSE "check",
                              !.device = row.delivery, !.endpoint = row.endpoint,
                              !.keys = row.keys]]
    /\ UNCHANGED <<storeVars, clock, returning, gone>>

\* Budgets and the device's own limit, which needs its row.
Admit(i) ==
    /\ call[i].at = "check"
    /\ RowsOf(call[i].device) # {}
    /\ call' = [call EXCEPT ![i].at = "send", ![i].time = clock]
    /\ UNCHANGED <<storeVars, clock, returning, gone>>

SendTest(i) ==
    /\ call[i].at = "send"
    /\ call[i].endpoint \notin gone
    /\ Goes(i, "mark")
    /\ UNCHANGED <<storeVars, clock, returning, gone>>

\* 404 or 410.
SendTestGone(i) ==
    /\ call[i].at = "send"
    /\ call[i].endpoint \in gone
    /\ Goes(i, "drop")
    /\ UNCHANGED <<storeVars, clock, returning, gone>>

SendTestFails(i) ==
    /\ call[i].at = "send"
    /\ Answers(i, "failed")
    /\ UNCHANGED <<storeVars, clock, returning, gone>>

MarkTested(i) ==
    /\ call[i].at = "mark"
    /\ MarkIfCurrent(call[i].device, call[i].endpoint, call[i].keys, NoEvent, call[i].time)
    /\ AnswersReply(i, [true |-> "sent", false |-> "changed"])
    /\ UNCHANGED <<clock, returning, gone>>

\* The statement fails, with or without effect: 502 like a send that failed.
MarkTestedFails(i) ==
    /\ call[i].at = "mark"
    /\ \/ MarkIfCurrent(call[i].device, call[i].endpoint, call[i].keys, NoEvent, call[i].time)
       \/ UNCHANGED storeVars
    /\ Answers(i, "failed")
    /\ UNCHANGED <<clock, returning, gone>>

\* The endpoint is no longer valid: the row goes if it still is the one read.
DropTested(i) ==
    /\ call[i].at = "drop"
    /\ DropIfCurrent(call[i].device, call[i].endpoint, call[i].keys)
    /\ AnswersReply(i, [true |-> "expired", false |-> "changed"])
    /\ UNCHANGED <<clock, returning, gone>>

-----------------------------------------------------------------------------
(* Around the calls *)

\* The browser unsubscribed, or its subscription was replaced.
Forget(e) ==
    /\ e \notin gone
    /\ gone' = gone \union {e}
    /\ UNCHANGED <<storeVars, clock, call, returning>>

Tick ==
    /\ clock < MaxClock
    /\ clock' = clock + 1
    /\ UNCHANGED <<storeVars, call, returning, gone>>

\* What notify and deliver do to the registry, with clock readings and
\* snapshots as old as they like.
Callback ==
    /\ \/ \E d \in DeliveryKeys, e \in Endpoints, k \in Keys, now \in 0..clock :
              \/ MarkIfCurrent(d, e, k, NoEvent, now)
              \/ e \in gone \union Distrusted /\ DropIfCurrent(d, e, k)
       \/ CleanupSubscriptions(clock)
    /\ UNCHANGED enrolmentVars

Subscribing(i) ==
    \/ \E d \in DeliveryKeys, e \in Endpoints, k \in Keys : Register(i, d, e, k)
    \/ SweepStale(i) \/ BeginRegistration(i)
    \/ SendChallenge(i) \/ SendChallengeAmbiguous(i) \/ ChallengeNotSent(i)
    \/ Cancel(i) \/ Return(i)
    \/ \E d \in DeliveryKeys : Remove(i, d)

Testing(i) ==
    \/ \E d \in DeliveryKeys : Test(i, d)
    \/ Admit(i) \/ SendTest(i) \/ SendTestGone(i) \/ SendTestFails(i)
    \/ MarkTested(i) \/ MarkTestedFails(i) \/ DropTested(i)

EnrolmentNext ==
    \/ \E i \in Calls : Subscribing(i) \/ Testing(i) \/ Refuse(i) \/ Die(i)
    \/ \E e \in Endpoints : Forget(e)
    \/ Callback
    \/ Tick

EnrolmentSpec == EnrolmentInit /\ [][EnrolmentNext]_vars

-----------------------------------------------------------------------------
(* Properties *)

\* A removal that was answered, even with "not found", is final: no call that
\* overtook it or was delayed, no challenge that returns later and no second
\* registration brings a row of that capability back.
RemovedForGood ==
    \A i \in Calls :
        call[i].answer \in {"removed", "not_found"} =>
            \A row \in subs \union pending : row.mgmt # Owner[call[i].device]

\* Call i is a registration of the same device, capability or endpoint as p,
\* and this step begins it.
Begins(i, p) ==
    /\ call[i].at = "begin" /\ call'[i].at # "begin"
    /\ \/ call[i].device = p.delivery
       \/ Owner[call[i].device] = p.mgmt
       \/ call[i].endpoint = p.endpoint

\* A registration whose challenge is out waits for it: it leaves only when it
\* becomes active, runs out, is removed, is replaced by a later registration of
\* the same browser, or is given up by the call that began it.  No other call
\* that fails, is refused for capacity or is repeated takes it away.
PendingKept ==
    [][\A p \in pending \ pending' :
           \/ \E s \in subs' : s.delivery = p.delivery /\ s.endpoint = p.endpoint
           \/ p.expiresAt <= clock
           \/ p.mgmt \in revoked'
           \/ \E i \in Calls : Begins(i, p)
           \/ call[p.challenge].at = "cancel"]_vars

\* A device leaves the table only when it is removed by its capability, was
\* not used for long, lost its endpoint to another registration, or is at an
\* endpoint that does not work any more.  An answer about the endpoint it had
\* when a test or a delivery began does not remove a device that moved since.
RowsLeaveForCause ==
    [][\A s \in subs :
           \/ \E t \in subs' : t.delivery = s.delivery
           \/ s.mgmt \in revoked'
           \/ s.updatedAt <= clock - SubscriptionTtl
           \/ \E t \in subs' : t.endpoint = s.endpoint
           \/ s.endpoint \in gone \union Distrusted]_vars

=============================================================================
