------------------------- MODULE PushDeliveryProofs -------------------------
(***************************************************************************)
(* Theorems about PushDelivery, for every set of devices, events and       *)
(* requests and every clock.  A step of a callback is a statement of       *)
(* PushStore or leaves the tables alone, so that what PushStoreProofs      *)
(* knows of a statement holds here as well.                                *)
(***************************************************************************)
EXTENDS PushDelivery, PushStoreProofs

-----------------------------------------------------------------------------
(* What jobs and requests look like *)

\* A request that has not arrived has no event, and one that has runs its jobs
\* on snapshots of rows.
Shaped ==
    \A r \in Requests :
        /\ request[r].at = "unused" =>
               /\ request[r].event = NoEvent
               /\ \A d \in DeliveryKeys : job[r][d] = Idle
        /\ request[r].at # "unused" => request[r].event \in Events
        /\ \A d \in DeliveryKeys :
               Running(r, d) => job[r][d].endpoint \in Endpoints /\ job[r][d].keys \in Keys

DeliveryTyped == DeliveryTypeOK /\ FiniteTables /\ Shaped

\* A running job belongs to a request that has arrived, about some event.
LEMMA RunningHasEvent ==
    ASSUME DeliveryTyped, NEW r \in Requests, NEW d \in DeliveryKeys, Running(r, d)
    PROVE  /\ request[r].at # "unused" /\ request[r].event \in Events
           /\ job[r][d].endpoint \in Endpoints /\ job[r][d].keys \in Keys
  BY DEF DeliveryTyped, Shaped, Running, Idle

\* A job of r becomes new. The lemmas below name the move, never its body, so
\* that the provers need not compare two updated tables.
Becomes(r, d, new) == job' = [job EXCEPT ![r][d] = new]

\* How a job looks after a move, and that the others stay as they are.
LEMMA JobMoves ==
    ASSUME DeliveryTypeOK, NEW r \in Requests, NEW d \in DeliveryKeys,
           NEW new \in Job, Becomes(r, d, new)
    PROVE  /\ job' \in [Requests -> [DeliveryKeys -> Job]]
           /\ job'[r][d] = new
           /\ \A q \in Requests, c \in DeliveryKeys :
                  q # r \/ c # d => job'[q][c] = job[q][c]
  <1>1. job \in [Requests -> [DeliveryKeys -> Job]]
    BY DEF DeliveryTypeOK
  <1>2. [job[r] EXCEPT ![d] = new] \in [DeliveryKeys -> Job]
    BY <1>1
  <1>3. job' = [job EXCEPT ![r] = [job[r] EXCEPT ![d] = new]]
    BY DEF Becomes
  <1>4. QED
    BY <1>1, <1>2, <1>3

LEMMA GoesMoves ==
    ASSUME DeliveryTypeOK, NEW r \in Requests, NEW d \in DeliveryKeys,
           NEW at \in {"idle", "check", "claim", "reclaim", "budget", "send", "mark",
                       "release", "drop", "done", "dead"},
           Goes(r, d, at)
    PROVE  /\ job' \in [Requests -> [DeliveryKeys -> Job]]
           /\ job'[r][d] = [job[r][d] EXCEPT !.at = at]
           /\ \A q \in Requests, c \in DeliveryKeys :
                  q # r \/ c # d => job'[q][c] = job[q][c]
  <1>1. job[r][d] \in Job
    BY DEF DeliveryTypeOK
  <1>2. [job[r][d] EXCEPT !.at = at] \in Job
    BY <1>1 DEF Job
  <1>3. Becomes(r, d, [job[r][d] EXCEPT !.at = at])
    BY DEF Becomes, Goes, DeliveryTypeOK
  <1>4. QED
    BY <1>2, <1>3, JobMoves

LEMMA EndsBecomes ==
    ASSUME DeliveryTypeOK, NEW r \in Requests, NEW d \in DeliveryKeys, NEW result,
           Ends(r, d, result)
    PROVE  Becomes(r, d, [job[r][d] EXCEPT !.at = "done", !.result = result])
  <1> DEFINE done == [job[r][d] EXCEPT !.at = "done"]
             one == [job EXCEPT ![r] = [job[r] EXCEPT ![d] = done]]
  <1>1. job \in [Requests -> [DeliveryKeys -> Job]]
    BY DEF DeliveryTypeOK
  <1>2. job' = [one EXCEPT ![r] = [one[r] EXCEPT ![d] = [one[r][d] EXCEPT !.result = result]]]
    BY DEF Ends
  <1>3. one[r] = [job[r] EXCEPT ![d] = done] /\ one[r][d] = done
    BY <1>1
  <1>4. job' = [one EXCEPT ![r] = [[job[r] EXCEPT ![d] = done]
                              EXCEPT ![d] = [done EXCEPT !.result = result]]]
    BY <1>2, <1>3
  <1>5. [[job[r] EXCEPT ![d] = done] EXCEPT ![d] = [done EXCEPT !.result = result]]
          = [job[r] EXCEPT ![d] = [done EXCEPT !.result = result]]
    BY <1>1
  <1>6. job' = [job EXCEPT ![r] = [job[r] EXCEPT ![d] = [done EXCEPT !.result = result]]]
    BY <1>1, <1>4, <1>5
  <1>7. QED
    BY <1>6 DEF Becomes

LEMMA EndsMoves ==
    ASSUME DeliveryTypeOK, NEW r \in Requests, NEW d \in DeliveryKeys,
           NEW result \in {"none", "sent", "suppressed", "rejected", "transient"},
           Ends(r, d, result)
    PROVE  /\ job' \in [Requests -> [DeliveryKeys -> Job]]
           /\ job'[r][d] = [job[r][d] EXCEPT !.at = "done", !.result = result]
           /\ \A q \in Requests, c \in DeliveryKeys :
                  q # r \/ c # d => job'[q][c] = job[q][c]
  <1>1. job[r][d] \in Job
    BY DEF DeliveryTypeOK
  <1>2. [job[r][d] EXCEPT !.at = "done", !.result = result] \in Job
    BY <1>1 DEF Job
  <1>3. Becomes(r, d, [job[r][d] EXCEPT !.at = "done", !.result = result])
    BY EndsBecomes
  <1>4. QED
    BY <1>2, <1>3, JobMoves

\* Moving a running job keeps requests and jobs the way they look.
LEMMA MoveKeepsShape ==
    ASSUME DeliveryTyped, NEW r \in Requests, NEW d \in DeliveryKeys, Running(r, d),
           NEW new \in Job, new.endpoint = job[r][d].endpoint, new.keys = job[r][d].keys,
           Becomes(r, d, new), request' = request
    PROVE  job' \in [Requests -> [DeliveryKeys -> Job]] /\ Shaped'
  <1>1. /\ job' \in [Requests -> [DeliveryKeys -> Job]]
        /\ job'[r][d] = new
        /\ \A q \in Requests, c \in DeliveryKeys :
               q # r \/ c # d => job'[q][c] = job[q][c]
    BY JobMoves DEF DeliveryTyped
  <1>2. /\ request[r].at # "unused" /\ request[r].event \in Events
        /\ new.endpoint \in Endpoints /\ new.keys \in Keys
    BY RunningHasEvent
  <1>3. SUFFICES ASSUME NEW q \in Requests
                 PROVE  /\ request[q].at = "unused" =>
                               /\ request[q].event = NoEvent
                               /\ \A c \in DeliveryKeys : job'[q][c] = Idle
                        /\ request[q].at # "unused" => request[q].event \in Events
                        /\ \A c \in DeliveryKeys :
                               job'[q][c].at \notin {"idle", "done", "dead"} =>
                                   job'[q][c].endpoint \in Endpoints /\ job'[q][c].keys \in Keys
    BY <1>1 DEF Shaped, Running
  <1>4. /\ request[q].at = "unused" =>
               /\ request[q].event = NoEvent
               /\ \A c \in DeliveryKeys : job[q][c] = Idle
        /\ request[q].at # "unused" => request[q].event \in Events
        /\ \A c \in DeliveryKeys :
               job[q][c].at \notin {"idle", "done", "dead"} =>
                   job[q][c].endpoint \in Endpoints /\ job[q][c].keys \in Keys
    BY DEF DeliveryTyped, Shaped, Running
  <1>5. ASSUME NEW c \in DeliveryKeys
        PROVE  /\ request[q].at = "unused" => job'[q][c] = Idle
               /\ job'[q][c].at \notin {"idle", "done", "dead"} =>
                      job'[q][c].endpoint \in Endpoints /\ job'[q][c].keys \in Keys
    BY <1>1, <1>2, <1>4
  <1>6. QED
    BY <1>4, <1>5

\* What a step of one job does to the rest of the state, whatever the step.
JobStep(r, d) ==
    /\ Running(r, d)
    /\ \E new \in Job :
           /\ new.endpoint = job[r][d].endpoint /\ new.keys = job[r][d].keys
           /\ Becomes(r, d, new)
    /\ UNCHANGED <<clock, request, acked>>
    /\ [Next]_storeVars

\* A job's own fields after Goes and Ends.
LEMMA GoesIsMove ==
    ASSUME DeliveryTypeOK, NEW r \in Requests, NEW d \in DeliveryKeys,
           \/ \E at \in {"idle", "check", "claim", "reclaim", "budget", "send", "mark",
                         "release", "drop", "done", "dead"} : Goes(r, d, at)
           \/ \E result \in {"none", "sent", "suppressed", "rejected", "transient"} :
                  Ends(r, d, result)
    PROVE  \E new \in Job :
               /\ new.endpoint = job[r][d].endpoint /\ new.keys = job[r][d].keys
               /\ Becomes(r, d, new)
  <1>a. job \in [Requests -> [DeliveryKeys -> Job]]
    BY DEF DeliveryTypeOK
  <1>1. job[r][d] \in Job
    BY <1>a
  <1>2. ASSUME NEW at \in {"idle", "check", "claim", "reclaim", "budget", "send", "mark",
                           "release", "drop", "done", "dead"}, Goes(r, d, at)
        PROVE  \E new \in Job :
                   /\ new.endpoint = job[r][d].endpoint /\ new.keys = job[r][d].keys
                   /\ Becomes(r, d, new)
    <2> DEFINE new == [job[r][d] EXCEPT !.at = at]
    <2>1. new \in Job /\ new.endpoint = job[r][d].endpoint /\ new.keys = job[r][d].keys
      BY <1>1 DEF Job
    <2>2. Becomes(r, d, new)
      BY <1>2, <1>a DEF Becomes, Goes
    <2>3. QED
      BY <2>1, <2>2
  <1>3. ASSUME NEW result \in {"none", "sent", "suppressed", "rejected", "transient"},
               Ends(r, d, result)
        PROVE  \E new \in Job :
                   /\ new.endpoint = job[r][d].endpoint /\ new.keys = job[r][d].keys
                   /\ Becomes(r, d, new)
    <2> DEFINE new == [job[r][d] EXCEPT !.at = "done", !.result = result]
    <2>1. new \in Job /\ new.endpoint = job[r][d].endpoint /\ new.keys = job[r][d].keys
      BY <1>1 DEF Job
    <2>2. Becomes(r, d, new)
      BY <1>3, EndsBecomes
    <2>3. QED
      BY <2>1, <2>2
  <1>4. QED
    BY <1>2, <1>3

\* Every action of deliver, and its death, is such a step.
LEMMA DeliverIsJobStep ==
    ASSUME DeliveryTyped, NEW r \in Requests, NEW d \in DeliveryKeys,
           Deliver(r, d) \/ Die(r, d)
    PROVE  JobStep(r, d)
  <1>a. DeliveryTypeOK
    BY DEF DeliveryTyped
  <1>b. UNCHANGED <<clock, request, acked>>
    BY DEF Deliver, DropInvalid, PassLimit, HitLimit, Claim, Reclaim, AdmitSend, RefuseSend,
           SendAccepted, SendAmbiguous, SendFailed, SendGone, Mark, MarkFails,
           ReleaseClaim, DropGone, Die
  <1>c. Running(r, d)
    BY DEF Deliver, DropInvalid, PassLimit, HitLimit, Claim, Reclaim, AdmitSend, RefuseSend,
           SendAccepted, SendAmbiguous, SendFailed, SendGone, Mark, MarkFails,
           ReleaseClaim, DropGone, Die, Running
  <1>d. /\ request[r].event \in Events
        /\ job[r][d].endpoint \in Endpoints /\ job[r][d].keys \in Keys
    BY <1>c, RunningHasEvent
  <1>e. job[r][d] \in Job /\ job[r][d].time \in Times /\ clock \in 0..MaxClock
    BY <1>a, ClockAssumption DEF DeliveryTypeOK, Job
  <1>1. \E new \in Job :
            /\ new.endpoint = job[r][d].endpoint /\ new.keys = job[r][d].keys
            /\ Becomes(r, d, new)
    <2>1. CASE PassLimit(r, d)
      <3> DEFINE new == [job[r][d] EXCEPT !.at = "claim", !.time = clock]
      <3>1. new \in Job /\ new.endpoint = job[r][d].endpoint /\ new.keys = job[r][d].keys
        BY <1>e DEF Job
      <3>2. Becomes(r, d, new)
        BY <2>1, <1>a DEF Becomes, PassLimit, DeliveryTypeOK
      <3>3. QED
        BY <3>1, <3>2
    <2>2. CASE ~PassLimit(r, d)
      <3>1. \/ \E at \in {"idle", "check", "claim", "reclaim", "budget", "send", "mark",
                          "release", "drop", "done", "dead"} : Goes(r, d, at)
            \/ \E result \in {"none", "sent", "suppressed", "rejected", "transient"} :
                   Ends(r, d, result)
        BY <2>2 DEF Deliver, DropInvalid, HitLimit, Claim, Reclaim, AdmitSend, RefuseSend,
               SendAccepted, SendAmbiguous, SendFailed, SendGone, Mark, MarkFails,
               ReleaseClaim, DropGone, Die
      <3>2. QED
        BY <3>1, <1>a, GoesIsMove
    <2>3. QED
      BY <2>1, <2>2
  <1>2. [Next]_storeVars
    <2>1. CASE DropInvalid(r, d) \/ DropGone(r, d)
      BY <2>1, <1>d, Zenon DEF DropInvalid, DropGone, Next, DeliveryPath
    <2>2. CASE Claim(r, d) \/ Reclaim(r, d)
      BY <2>2, <1>d, <1>e, Zenon DEF Claim, Reclaim, Next, DeliveryPath
    <2>3. CASE Mark(r, d) \/ MarkFails(r, d)
      BY <2>3, <1>d, <1>e, Zenon DEF Mark, MarkFails, Next, DeliveryPath
    <2>4. CASE ReleaseClaim(r, d)
      BY <2>4, <1>d, Zenon DEF ReleaseClaim, Next, DeliveryPath
    <2>5. CASE UNCHANGED storeVars
      BY <2>5
    <2>6. QED
      BY <2>1, <2>2, <2>3, <2>4, <2>5
      DEF Deliver, PassLimit, HitLimit, AdmitSend, RefuseSend, SendAccepted,
          SendAmbiguous, SendFailed, SendGone, Die
  <1>3. QED
    BY <1>1, <1>2, <1>b, <1>c DEF JobStep


\* The bookkeeping of excuses and of what the provider took stays typed.
LEMMA HistoryTyped ==
    ASSUME DeliveryTyped, [DeliveryNext]_vars
    PROVE  /\ accepted' \in [DeliveryKeys -> [Events -> Nat]]
           /\ excused' \in [DeliveryKeys -> [Events -> SUBSET Excuses]]
  <1>a. /\ accepted \in [DeliveryKeys -> [Events -> Nat]]
        /\ excused \in [DeliveryKeys -> [Events -> SUBSET Excuses]]
    BY DEF DeliveryTyped, DeliveryTypeOK
  <1>1. accepted' \in [DeliveryKeys -> [Events -> Nat]]
    <2>1. ASSUME NEW r \in Requests, NEW d \in DeliveryKeys, Running(r, d),
                 Accepts(d, request[r].event)
          PROVE  accepted' \in [DeliveryKeys -> [Events -> Nat]]
      <3>1. request[r].event \in Events
        BY <2>1, RunningHasEvent
      <3>2. QED
        BY <2>1, <3>1, <1>a DEF Accepts
    <2>2. CASE UNCHANGED accepted
      BY <2>2, <1>a
    <2>3. ASSUME NEW r \in Requests, NEW d \in DeliveryKeys, Deliver(r, d)
          PROVE  accepted' \in [DeliveryKeys -> [Events -> Nat]]
      BY <2>1, <2>2, <2>3
      DEF Deliver, DropInvalid, PassLimit, HitLimit, Claim, Reclaim, AdmitSend, RefuseSend,
          SendAccepted, SendAmbiguous, SendFailed, SendGone, Mark, MarkFails,
          ReleaseClaim, DropGone, Running
    <2>4. QED
      BY <2>2, <2>3
      DEF DeliveryNext, Homeserver, Notify, Hear, GiveUp, Answer, AdmitCall, RefuseCall,
          Purge, Sweep, Fail, Die, Move, Revoke, Tick, vars, deliveryVars
  <1>2. excused' \in [DeliveryKeys -> [Events -> SUBSET Excuses]]
    <2>1. ASSUME NEW r \in Requests, NEW d \in DeliveryKeys, Running(r, d),
                 NEW why \in Excuses, Excused(d, request[r].event, why)
          PROVE  excused' \in [DeliveryKeys -> [Events -> SUBSET Excuses]]
      <3>1. request[r].event \in Events
        BY <2>1, RunningHasEvent
      <3>2. QED
        BY <2>1, <3>1, <1>a DEF Excused
    <2>2. CASE UNCHANGED excused
      BY <2>2, <1>a
    <2>3. ASSUME NEW rows, Unregistered(rows)
          PROVE  excused' \in [DeliveryKeys -> [Events -> SUBSET Excuses]]
      BY <2>3, <1>a DEF Unregistered, Excuses
    <2>4. ASSUME NEW r \in Requests, NEW d \in DeliveryKeys, Deliver(r, d) \/ Die(r, d)
          PROVE  excused' \in [DeliveryKeys -> [Events -> SUBSET Excuses]]
      BY <2>1, <2>2, <2>3, <2>4
      DEF Deliver, DropInvalid, PassLimit, HitLimit, Claim, Reclaim, AdmitSend, RefuseSend,
          SendAccepted, SendAmbiguous, SendFailed, SendGone, Mark, MarkFails,
          ReleaseClaim, DropGone, Die, Running, NotesOverlap, Excuses
    <2>5. ASSUME NEW r \in Requests, Purge(r)
          PROVE  excused' \in [DeliveryKeys -> [Events -> SUBSET Excuses]]
      BY <2>5, <1>a DEF Purge, Excuses
    <2>6. CASE Tick
      BY <2>6, <1>a DEF Tick, Excuses
    <2>7. QED
      BY <2>2, <2>3, <2>4, <2>5, <2>6
      DEF DeliveryNext, Homeserver, Notify, Hear, GiveUp, Answer, AdmitCall, RefuseCall,
          Sweep, Fail, Move, Revoke, vars, deliveryVars
  <1>3. QED
    BY <1>1, <1>2

\* The steps that are not a job's are statements or leave the tables alone.
LEMMA OtherStepsAreStatements ==
    ASSUME DeliveryTyped, DeliveryNext,
           \A r \in Requests, d \in DeliveryKeys : ~Deliver(r, d) /\ ~Die(r, d)
    PROVE  [Next]_storeVars
  <1>1. clock \in Times /\ clock \in 0..MaxClock
    BY ClockAssumption DEF DeliveryTyped, DeliveryTypeOK
  <1>2. CASE \E r \in Requests : Purge(r) \/ Sweep(r)
    BY <1>1, <1>2, Zenon DEF Purge, Sweep, Next, Cleanup
  <1>3. CASE \E d \in DeliveryKeys : Move(d)
    <2>1. PICK d \in DeliveryKeys, m \in ManagementKeys, e \in Endpoints, k \in Keys :
              BeginActive(d, m, e, k, clock)
      BY <1>3 DEF Move
    <2>2. PICK c \in Challenges : TRUE
      BY ChallengeAssumption
    <2>3. Begin(d, m, e, k, c, clock)
      BY <2>1, Zenon DEF Begin
    <2>4. QED
      BY <2>3, <1>1, Zenon DEF Next, Registration
  <1>4. CASE \E m \in ManagementKeys : Revoke(m)
    BY <1>4, Zenon DEF Revoke, Delete, Next, Registration
  <1>5. CASE UNCHANGED storeVars
    BY <1>5
  <1>6. QED
    BY <1>2, <1>3, <1>4, <1>5
    DEF DeliveryNext, Homeserver, Notify, Hear, GiveUp, Answer, AdmitCall, RefuseCall,
        Fail, Tick

\* A callback that has just arrived runs its jobs on rows of the table.
LEMMA NotifyKeepsShape ==
    ASSUME DeliveryTyped, NEW r \in Requests, NEW x \in Events, Notify(r, x)
    PROVE  /\ request' \in [Requests -> Request]
           /\ job' \in [Requests -> [DeliveryKeys -> Job]]
           /\ Shaped'
  <1>a. /\ request \in [Requests -> Request]
        /\ job \in [Requests -> [DeliveryKeys -> Job]]
        /\ subs \subseteq Subscription
        /\ 0 \in 0..MaxClock
    BY ClockAssumption DEF DeliveryTyped, DeliveryTypeOK, TypeOK
  <1> DEFINE Fresh(d) ==
                 IF RowsOf(d) = {}
                 THEN [Idle EXCEPT !.at = "done", !.result = "rejected"]
                 ELSE LET row == CHOOSE s \in RowsOf(d) : TRUE
                      IN  [Idle EXCEPT !.at = "check", !.endpoint = row.endpoint,
                                       !.keys = row.keys]
  <1>1. ASSUME NEW d \in DeliveryKeys
        PROVE  /\ Fresh(d) \in Job
               /\ Fresh(d).at \notin {"idle", "done", "dead"} =>
                      Fresh(d).endpoint \in Endpoints /\ Fresh(d).keys \in Keys
    <2>1. CASE RowsOf(d) = {}
      <3>1. Fresh(d) = [at |-> "done", endpoint |-> NoSnapshot, keys |-> NoSnapshot,
                        time |-> 0, result |-> "rejected"]
        BY <2>1 DEF Idle
      <3>2. QED
        BY <3>1, <1>a DEF Job
    <2>2. CASE RowsOf(d) # {}
      <3> DEFINE row == CHOOSE s \in RowsOf(d) : TRUE
      <3>1. row \in Subscription
        BY <2>2, <1>a DEF RowsOf
      <3>2. row.endpoint \in Endpoints /\ row.keys \in Keys
        BY <3>1 DEF Subscription
      <3>3. Fresh(d) = [at |-> "check", endpoint |-> row.endpoint, keys |-> row.keys,
                        time |-> 0, result |-> "none"]
        BY <2>2 DEF Idle
      <3> HIDE DEF row, Fresh
      <3>4. QED
        BY <3>2, <3>3, <1>a DEF Job
    <2>3. QED
      BY <2>1, <2>2
  <1>2. job' = [job EXCEPT ![r] = [d \in DeliveryKeys |-> Fresh(d)]]
    BY DEF Notify
  <1>3. request' = [request EXCEPT ![r] =
           [at |-> IF subs = {} THEN "answered" ELSE "budget", event |-> x,
            status |-> IF subs = {} THEN 200 ELSE 0, heard |-> FALSE]]
    BY DEF Notify
  <1> HIDE DEF Fresh
  <1>4. request' \in [Requests -> Request]
    BY <1>3, <1>a DEF Request
  <1>5. job' \in [Requests -> [DeliveryKeys -> Job]]
    BY <1>1, <1>2, <1>a
  <1>6. Shaped'
    <2>1. /\ request'[r].at # "unused" /\ request'[r].event \in Events
          /\ \A d \in DeliveryKeys : job'[r][d] = Fresh(d)
      BY <1>2, <1>3, <1>a
    <2>2. \A q \in Requests \ {r} : request'[q] = request[q] /\ job'[q] = job[q]
      BY <1>2, <1>3, <1>a
    <2>3. QED
      BY <2>1, <2>2, <1>1 DEF Shaped, Running, DeliveryTyped
  <1>7. QED
    BY <1>4, <1>5, <1>6

\* Every other change of a request keeps its event, and no request becomes
\* unused again.
LEMMA RequestMoves ==
    ASSUME DeliveryTyped, NEW r \in Requests, UNCHANGED job,
           NEW new \in Request, new.event = request[r].event,
           new.at # "unused", request[r].at # "unused",
           request' = [request EXCEPT ![r] = new]
    PROVE  /\ request' \in [Requests -> Request]
           /\ request'[r] = new
           /\ \A q \in Requests \ {r} : request'[q] = request[q]
           /\ Shaped'
  <1>1. /\ request' \in [Requests -> Request]
        /\ request'[r] = new
        /\ \A q \in Requests \ {r} : request'[q] = request[q]
    BY DEF DeliveryTyped, DeliveryTypeOK
  <1>2. Shaped'
    BY <1>1 DEF DeliveryTyped, Shaped, Running
  <1>3. QED
    BY <1>1, <1>2

\* A request that is answered keeps its event.
LEMMA AnsweredMoves ==
    ASSUME DeliveryTyped, NEW r \in Requests, NEW status \in {0, 200, 502, 503},
           Answers(r, status)
    PROVE  \E new \in Request :
               /\ new.event = request[r].event /\ new.at # "unused"
               /\ request' = [request EXCEPT ![r] = new]
  <1> DEFINE new == [at |-> "answered", event |-> request[r].event,
                     status |-> status, heard |-> request[r].heard]
  <1>1. request[r] \in Request
    BY DEF DeliveryTyped, DeliveryTypeOK
  <1>2. new \in Request /\ new.event = request[r].event /\ new.at # "unused"
    BY <1>1 DEF Request
  <1>3. request' = [request EXCEPT ![r] = new]
    BY DEF Answers, DeliveryTyped, DeliveryTypeOK
  <1> HIDE DEF new
  <1>4. QED
    BY <1>2, <1>3

\* Nor does it matter who waits for the answer.
LEMMA HeardAlready ==
    ASSUME NEW q \in Request
    PROVE  LET new == [q EXCEPT !.heard = TRUE]
           IN  new \in Request /\ new.event = q.event /\ new.at = q.at
  <1> DEFINE A == {"unused", "budget", "deliver", "sweep", "answered"}
             E == Events \union {NoEvent}
             S == {0, 200, 502, 503}
  <1>1. Request = [at: A, event: E, status: S, heard: BOOLEAN]
    BY DEF Request
  <1> HIDE DEF A, E, S
  <1>2. QED
    BY <1>1

\* Those changes are what AdmitCall, RefuseCall, Purge, Sweep, Fail, Hear and
\* GiveUp make.
LEMMA AnswerMoves ==
    ASSUME DeliveryTyped, NEW r \in Requests, Answer(r) \/ Hear(r) \/ GiveUp(r)
    PROVE  /\ UNCHANGED <<clock, job>>
           /\ request[r].at # "unused"
           /\ \E new \in Request :
                  /\ new.event = request[r].event /\ new.at # "unused"
                  /\ request' = [request EXCEPT ![r] = new]
  <1>a. request \in [Requests -> Request] /\ request[r] \in Request
    BY DEF DeliveryTyped, DeliveryTypeOK
  <1>2. CASE AdmitCall(r)
    <2> DEFINE new == [request[r] EXCEPT !.at = "deliver"]
    <2>1. new \in Request /\ new.event = request[r].event /\ new.at # "unused"
      BY <1>a DEF Request
    <2>2. request' = [request EXCEPT ![r] = new]
      BY <1>2, <1>a DEF AdmitCall
    <2>3. QED
      BY <2>1, <2>2, <1>2 DEF AdmitCall
  <1>3. CASE RefuseCall(r)
    BY <1>3, AnsweredMoves DEF RefuseCall
  <1>4. CASE Purge(r)
    <2> DEFINE new == [request[r] EXCEPT !.at = "sweep"]
    <2>1. new \in Request /\ new.event = request[r].event /\ new.at # "unused"
      BY <1>a DEF Request
    <2>2. request' = [request EXCEPT ![r] = new]
      BY <1>4, <1>a DEF Purge
    <2>3. QED
      BY <2>1, <2>2, <1>4 DEF Purge
  <1>5. CASE Sweep(r)
    <2>1. Status(r) \in {0, 200, 502, 503}
      BY DEF Status
    <2>2. QED
      BY <1>5, <2>1, AnsweredMoves DEF Sweep
  <1>6. CASE Fail(r)
    BY <1>6, AnsweredMoves DEF Fail
  <1>7. CASE Hear(r) \/ GiveUp(r)
    <2> DEFINE new == [request[r] EXCEPT !.heard = TRUE]
    <2>1. request[r].at # "unused"
      BY <1>7 DEF Hear, GiveUp
    <2>2. new \in Request /\ new.event = request[r].event /\ new.at = request[r].at
      BY <1>a, HeardAlready
    <2>3. new.event = request[r].event /\ new.at # "unused"
      BY <2>1, <2>2
    <2>4. request' = [request EXCEPT ![r] = new]
      BY <1>7, <1>a DEF Hear, GiveUp
    <2>5. QED
      BY <2>1, <2>2, <2>3, <2>4, <1>7 DEF Hear, GiveUp
  <1>8. QED
    BY <1>2, <1>3, <1>4, <1>5, <1>6, <1>7 DEF Answer

\* An acknowledged event is one that was called about.
LEMMA AckedTyped ==
    ASSUME DeliveryTyped, [DeliveryNext]_vars
    PROVE  acked' \subseteq Events
  <1>1. CASE UNCHANGED acked
    BY <1>1 DEF DeliveryTyped, DeliveryTypeOK
  <1>2. ASSUME NEW r \in Requests, Hear(r)
        PROVE  acked' \subseteq Events
    BY <1>2 DEF Hear, DeliveryTyped, DeliveryTypeOK, Shaped
  <1>3. QED
    BY <1>1, <1>2, DeliverIsJobStep
    DEF JobStep, DeliveryNext, Homeserver, Notify, GiveUp, Answer, AdmitCall, RefuseCall,
        Purge, Sweep, Fail, Move, Revoke, Tick, vars, deliveryVars

LEMMA DeliveryStep ==
    ASSUME DeliveryTyped, [DeliveryNext]_vars
    PROVE  DeliveryTyped' /\ [Next]_storeVars
  <1>1. [Next]_storeVars
    BY DeliverIsJobStep, OtherStepsAreStatements DEF JobStep, vars
  <1>2. Typed'
    BY <1>1, NextTyped DEF DeliveryTyped, DeliveryTypeOK, Typed
  <1>3. /\ clock' \in 0..MaxClock
        /\ request' \in [Requests -> Request]
        /\ job' \in [Requests -> [DeliveryKeys -> Job]]
        /\ Shaped'
    <2>a. /\ clock \in 0..MaxClock /\ request \in [Requests -> Request]
          /\ job \in [Requests -> [DeliveryKeys -> Job]]
          /\ Shaped
      BY DEF DeliveryTyped, DeliveryTypeOK
    <2>1. ASSUME NEW r \in Requests, NEW d \in DeliveryKeys, Deliver(r, d) \/ Die(r, d)
          PROVE  /\ clock' = clock /\ request' = request
                 /\ job' \in [Requests -> [DeliveryKeys -> Job]]
                 /\ Shaped'
      BY <2>1, DeliverIsJobStep, MoveKeepsShape DEF JobStep
    <2>2. ASSUME NEW r \in Requests, NEW x \in Events, Notify(r, x)
          PROVE  /\ clock' = clock /\ request' \in [Requests -> Request]
                 /\ job' \in [Requests -> [DeliveryKeys -> Job]]
                 /\ Shaped'
      BY <2>2, NotifyKeepsShape DEF Notify
    <2>3. ASSUME NEW r \in Requests, Answer(r) \/ Hear(r) \/ GiveUp(r)
          PROVE  /\ clock' = clock /\ request' \in [Requests -> Request] /\ job' = job
                 /\ Shaped'
      BY <2>3, AnswerMoves, RequestMoves
    <2>4. ASSUME UNCHANGED <<request, job>>
          PROVE  /\ request' \in [Requests -> Request]
                 /\ job' \in [Requests -> [DeliveryKeys -> Job]]
                 /\ Shaped'
      BY <2>4, <2>a DEF Shaped, Running
    <2>5. CASE \/ \E d \in DeliveryKeys : Move(d)
               \/ \E m \in ManagementKeys : Revoke(m)
      <3>1. UNCHANGED <<clock, request, job>>
        BY <2>5, Zenon DEF Move, Revoke
      <3>2. QED
        BY <3>1, <2>4, <2>a
    <2>6. CASE Tick
      <3>1. clock < MaxClock /\ clock' = clock + 1 /\ UNCHANGED <<request, job>>
        BY <2>6, Zenon DEF Tick
      <3>2. QED
        BY <3>1, <2>4, <2>a, ClockAssumption
    <2>7. CASE UNCHANGED vars
      BY <2>7, <2>4, <2>a DEF vars, deliveryVars
    <2>8. QED
      BY <2>1, <2>2, <2>3, <2>5, <2>6, <2>7, <2>a DEF DeliveryNext, Homeserver
  <1>4. QED
    BY <1>1, <1>2, <1>3, HistoryTyped, AckedTyped DEF DeliveryTyped, DeliveryTypeOK, Typed

\* The state PushStore leaves, before anything was delivered.
LEMMA DeliveryInitTyped == DeliveryInit => DeliveryTyped /\ Keyed
  <1>1. SUFFICES ASSUME DeliveryInit PROVE DeliveryTyped /\ Keyed
    OBVIOUS
  <1>2. /\ subs \in SUBSET [delivery: DeliveryKeys, mgmt: ManagementKeys,
                            endpoint: Endpoints, keys: Keys, updatedAt: {0}]
        /\ UniqueRows(subs) /\ IsFiniteSet(subs) /\ subCount = Cardinality(subs)
        /\ pending = {} /\ revoked = {} /\ revokedCount = 0 /\ revokedLimit = MaxRevoked
        /\ deliveries = {} /\ reply = [op |-> "none", outcome |-> "none"]
    BY <1>1, Zenon DEF DeliveryInit
  <1>3. subs \subseteq Subscription
    BY <1>2 DEF Subscription
  <1>4. subCount \in Nat
    BY <1>2, FS_CardinalityType
  <1>5. TypeOK
    BY <1>2, <1>3, <1>4, LimitAssumption DEF TypeOK, Reply
  <1>6. FiniteTables
    BY <1>2, FS_EmptySet DEF FiniteTables
  <1>7. Keyed
    BY <1>2, Zenon DEF Keyed, RowsUnique, PendingIsNew, NoResurrection, PendingDistinct
  <1>8. /\ clock \in 0..MaxClock /\ acked \subseteq Events
        /\ request \in [Requests -> Request]
        /\ job \in [Requests -> [DeliveryKeys -> Job]]
        /\ Shaped
    BY <1>1, ClockAssumption DEF DeliveryInit, Request, Job, Idle, Shaped, Running
  <1>9. /\ accepted \in [DeliveryKeys -> [Events -> Nat]]
        /\ excused \in [DeliveryKeys -> [Events -> SUBSET Excuses]]
    BY <1>1 DEF DeliveryInit
  <1>10. QED
    BY <1>5, <1>6, <1>7, <1>8, <1>9 DEF DeliveryTyped, DeliveryTypeOK

\* The tables stay consistent under the callbacks, as under any statements.
LEMMA DeliveryKeepsKeyed == DeliveryTyped /\ Keyed /\ [DeliveryNext]_vars => Keyed'
  BY DeliveryStep, NextKeyed DEF DeliveryTyped, DeliveryTypeOK, Typed

\* Tables, requests, jobs and history keep their types, in every interleaving.
THEOREM DeliveryTypeCorrect == DeliverySpec => []DeliveryTypeOK
  <1>1. DeliveryTyped => DeliveryTypeOK
    BY DEF DeliveryTyped
  <1>2. QED
    BY <1>1, DeliveryInitTyped, DeliveryStep, PTL DEF DeliverySpec

\* A delivery recorded as sent stays recorded under the callbacks, too: no
\* claim, takeover, release or failure of another request forgets it.
THEOREM SentStaysFinalInDelivery == DeliverySpec => SentIsFinal
  <1>1. DeliveryTyped /\ [DeliveryNext]_vars => [SentKept]_storeVars
    BY DeliveryStep, StepKeepsSent DEF DeliveryTyped, DeliveryTypeOK, Typed
  <1>2. QED
    BY <1>1, DeliveryInitTyped, DeliveryStep, PTL DEF DeliverySpec, SentIsFinal

-----------------------------------------------------------------------------
(* Claims *)

\* Where a job is while a claim may be its own, and where it is if it died.
ClaimStates == {"budget", "send", "mark", "release", "drop", "dead"}

HasClaimant(y) ==
    \E r \in Requests :
        request[r].event = y.event /\ job[r][y.delivery].at \in ClaimStates

\* What makes ClaimsReturned inductive: a job that is yet to claim, or is done,
\* does not count.
Claimed == \A y \in deliveries : y.status = "pending" => HasClaimant(y)

\* A job's move leaves a claim its claimant, unless it is the claimant and the
\* move ends it.
LEMMA ClaimantStays ==
    ASSUME DeliveryTyped, NEW r \in Requests, NEW d \in DeliveryKeys,
           NEW new \in Job, Becomes(r, d, new), request' = request,
           NEW y \in Delivery,
           HasClaimant(y) \/ (y.delivery = d /\ y.event = request[r].event),
           \/ y.delivery # d \/ y.event # request[r].event
           \/ new.at \in ClaimStates
           \/ HasClaimant(y) /\ job[r][d].at \notin ClaimStates
    PROVE  HasClaimant(y)'
  <1>1. /\ job'[r][d] = new
        /\ \A q \in Requests, c \in DeliveryKeys :
               q # r \/ c # d => job'[q][c] = job[q][c]
    BY JobMoves DEF DeliveryTyped
  <1>2. y.delivery \in DeliveryKeys
    BY DEF Delivery
  <1>3. CASE y.delivery = d /\ y.event = request[r].event /\ new.at \in ClaimStates
    BY <1>1, <1>3 DEF HasClaimant
  <1>4. CASE HasClaimant(y) /\ ( \/ y.delivery # d \/ y.event # request[r].event
                                 \/ job[r][d].at \notin ClaimStates)
    <2>1. PICK q \in Requests :
              request[q].event = y.event /\ job[q][y.delivery].at \in ClaimStates
      BY <1>4 DEF HasClaimant
    <2>2. q # r \/ y.delivery # d
      BY <1>4, <2>1
    <2>3. job'[q][y.delivery] = job[q][y.delivery]
      BY <1>1, <1>2, <2>2
    <2>4. QED
      BY <2>1, <2>3 DEF HasClaimant
  <1>5. QED
    BY <1>3, <1>4

\* A job that took a claim stays its claimant until it marked, released or
\* removed it.
LEMMA DeliverKeepsClaimed ==
    ASSUME DeliveryTyped, Claimed, NEW r \in Requests, NEW d \in DeliveryKeys,
           Deliver(r, d) \/ Die(r, d)
    PROVE  Claimed'
  <1>1. PICK new \in Job : Becomes(r, d, new)
    BY DeliverIsJobStep DEF JobStep
  <1>2. request' = request /\ DeliveryTypeOK
    BY DeliverIsJobStep DEF JobStep, DeliveryTyped
  <1>3. job'[r][d] = new
    BY <1>1, <1>2, JobMoves
  <1>4. SUFFICES ASSUME NEW y \in deliveries', y.status = "pending"
                 PROVE  HasClaimant(y)'
    BY DEF Claimed
  <1>5. y \in Delivery
    BY DeliveryStep DEF DeliveryTyped, DeliveryTypeOK, TypeOK, DeliveryNext
  <1> DEFINE here == y.delivery = d /\ y.event = request[r].event
  <1>6. SUFFICES \/ HasClaimant(y) /\ ~here
                 \/ here /\ new.at \in ClaimStates
                 \/ HasClaimant(y) /\ new.at \in ClaimStates
                 \/ HasClaimant(y) /\ job[r][d].at \notin ClaimStates
    BY <1>1, <1>2, <1>5, ClaimantStays
  <1>7. y \in deliveries => HasClaimant(y)
    BY <1>4 DEF Claimed
  <1>8. ASSUME NEW at, Goes(r, d, at)
        PROVE  new.at = at
    BY <1>8, <1>2, <1>3 DEF Goes, DeliveryTypeOK, Job
  <1>9. CASE DropInvalid(r, d) \/ PassLimit(r, d) \/ HitLimit(r, d)
    <2>1. job[r][d].at \notin ClaimStates /\ y \in deliveries
      BY <1>9 DEF DropInvalid, PassLimit, HitLimit, DropIfCurrent, storeVars, ClaimStates
    <2>2. QED
      BY <2>1, <1>7
  <1>10. CASE Claim(r, d)
    <2>1. CASE Entry(d, request[r].event) # {}
      <3>1. y \in deliveries /\ job[r][d].at \notin ClaimStates
        BY <1>10, <2>1 DEF Claim, ClaimInsert, ClaimStates
      <3>2. QED
        BY <3>1, <1>7
    <2>2. CASE Entry(d, request[r].event) = {}
      <3>1. new.at \in ClaimStates
        BY <1>10, <2>2, <1>8 DEF Claim, ClaimStates
      <3>2. y \in deliveries \/ here
        BY <1>10, <2>2 DEF Claim, ClaimInsert
      <3>3. QED
        BY <3>1, <3>2, <1>7
    <2>3. QED
      BY <2>1, <2>2
  <1>11. CASE Reclaim(r, d)
    <2> DEFINE x == request[r].event
               now == job[r][d].time
    <2>1. job[r][d].at \notin ClaimStates
      BY <1>11 DEF Reclaim, ClaimStates
    <2>2. deliveries' = Touched(StaleClaims(d, x, now), "pending", now)
      BY <1>11 DEF Reclaim, ClaimStale
    <2>3. y \in deliveries \/ (StaleClaims(d, x, now) # {} /\ here)
      <3>1. y \in deliveries \/ \E z \in StaleClaims(d, x, now) :
                y = [z EXCEPT !.status = "pending", !.updatedAt = now]
        BY <2>2 DEF Touched
      <3>2. \A z \in StaleClaims(d, x, now) :
                z \in Delivery /\ z.delivery = d /\ z.event = x
        BY DEF StaleClaims, Entry, DeliveryTyped, DeliveryTypeOK, TypeOK
      <3>3. ASSUME NEW z \in Delivery
            PROVE  LET w == [z EXCEPT !.status = "pending", !.updatedAt = now]
                   IN  w.delivery = z.delivery /\ w.event = z.event
        BY DEF Delivery
      <3>4. QED
        BY <3>1, <3>2, <3>3
    <2>4. CASE y \in deliveries
      BY <2>1, <2>4, <1>7
    <2>5. CASE StaleClaims(d, x, now) # {} /\ here
      BY <1>11, <2>5, <1>8 DEF Reclaim, ClaimStates
    <2>6. QED
      BY <2>3, <2>4, <2>5
  <1>12. CASE \/ AdmitSend(r, d) \/ RefuseSend(r, d) \/ SendAccepted(r, d)
              \/ SendAmbiguous(r, d) \/ SendFailed(r, d) \/ SendGone(r, d) \/ Die(r, d)
    <2>1. new.at \in ClaimStates /\ y \in deliveries
      BY <1>12, <1>8 DEF AdmitSend, RefuseSend, SendAccepted, SendAmbiguous, SendFailed,
                         SendGone, Die, storeVars, ClaimStates
    <2>2. QED
      BY <2>1, <1>7
  <1>13. ASSUME MarkIfCurrent(d, job[r][d].endpoint, job[r][d].keys, request[r].event,
                              job[r][d].time),
                Snapshot(r, d) # {}
         PROVE  y \in deliveries /\ ~here
    <2>1. deliveries' = Touched(Entry(d, request[r].event), "sent", job[r][d].time)
      BY <1>13 DEF MarkIfCurrent, Snapshot
    <2>2. \A z \in deliveries : [z EXCEPT !.status = "sent", !.updatedAt = job[r][d].time].status
                                    = "sent"
      BY DEF DeliveryTyped, DeliveryTypeOK, TypeOK, Delivery
    <2>3. y \in deliveries \ Entry(d, request[r].event)
      BY <2>1, <2>2, <1>4 DEF Touched, Entry
    <2>4. QED
      BY <2>3 DEF Entry
  <1>14. ASSUME MarkIfCurrent(d, job[r][d].endpoint, job[r][d].keys, request[r].event,
                              job[r][d].time),
                Snapshot(r, d) = {}
         PROVE  y \in deliveries
    BY <1>14 DEF MarkIfCurrent, Snapshot
  <1>15. CASE Mark(r, d) \/ MarkFails(r, d)
    <2>1. y \in deliveries
      BY <1>13, <1>14, <1>15 DEF Mark, MarkFails, storeVars
    <2>2. ~here \/ new.at \in ClaimStates
      BY <1>8, <1>13, <1>15 DEF Mark, MarkFails, ClaimStates
    <2>3. QED
      BY <2>1, <2>2, <1>7
  <1>16. CASE ReleaseClaim(r, d)
    <2>1. y \in deliveries /\ ~here
      BY <1>16, <1>4 DEF ReleaseClaim, Release, Entry
    <2>2. QED
      BY <2>1, <1>7
  <1>17. CASE DropGone(r, d)
    <2>1. y \in deliveries \ DeliveriesFor(Snapshot(r, d))
      BY <1>17 DEF DropGone, DropIfCurrent, Snapshot
    <2>2. CASE Snapshot(r, d) # {}
      BY <2>1, <2>2, <1>7 DEF DeliveriesFor, Snapshot, Current, RowsOf
    <2>3. CASE Snapshot(r, d) = {}
      BY <1>17, <2>1, <2>3, <1>7, <1>8 DEF DropGone, ClaimStates
    <2>4. QED
      BY <2>2, <2>3
  <1>18. QED
    BY <1>9, <1>10, <1>11, <1>12, <1>15, <1>16, <1>17 DEF Deliver

\* Every other step leaves the claims, and the jobs that hold them, alone or
\* removes claims.
LEMMA OthersKeepClaimed ==
    ASSUME DeliveryTyped, Claimed, [DeliveryNext]_vars,
           \A r \in Requests, d \in DeliveryKeys : ~Deliver(r, d) /\ ~Die(r, d)
    PROVE  Claimed'
  <1>1. SUFFICES /\ deliveries' \subseteq deliveries
                 /\ \A y \in deliveries : HasClaimant(y) => HasClaimant(y)'
    BY DEF Claimed
  <1>2. deliveries \subseteq Delivery
    BY DEF DeliveryTyped, DeliveryTypeOK, TypeOK
  <1>3. ASSUME \A r \in Requests : request'[r].event = request[r].event, UNCHANGED job
        PROVE  \A y \in deliveries : HasClaimant(y) => HasClaimant(y)'
    BY <1>3 DEF HasClaimant
  <1>4. ASSUME NEW r \in Requests, NEW x \in Events, Notify(r, x)
        PROVE  /\ deliveries' \subseteq deliveries
               /\ \A y \in deliveries : HasClaimant(y) => HasClaimant(y)'
    <2>1. deliveries' = deliveries
      BY <1>4, Zenon DEF Notify, storeVars
    <2>2. \A q \in Requests \ {r} : request'[q] = request[q] /\ job'[q] = job[q]
      BY <1>4 DEF Notify, DeliveryTyped, DeliveryTypeOK
    <2>3. request[r].at = "unused"
      BY <1>4, Zenon DEF Notify
    <2>4. \A d \in DeliveryKeys : job[r][d].at = "idle"
      BY <2>3 DEF DeliveryTyped, Shaped, Idle
    <2>5. QED
      BY <2>1, <2>2, <2>4, <1>2 DEF HasClaimant, Delivery, ClaimStates
  <1>5. ASSUME NEW r \in Requests, Answer(r) \/ Hear(r) \/ GiveUp(r)
        PROVE  /\ deliveries' \subseteq deliveries
               /\ \A y \in deliveries : HasClaimant(y) => HasClaimant(y)'
    <2>1. UNCHANGED job /\ \A q \in Requests : request'[q].event = request[q].event
      BY <1>5, AnswerMoves DEF DeliveryTyped, DeliveryTypeOK
    <2>2. deliveries' \subseteq deliveries
      BY <1>5, Zenon DEF Answer, AdmitCall, RefuseCall, Purge, Sweep, Fail, Hear, GiveUp,
          CleanupDeliveries, CleanupSubscriptions, storeVars
    <2>3. QED
      BY <2>1, <2>2, <1>3
  <1>6. CASE \/ \E d \in DeliveryKeys : Move(d)
             \/ \E m \in ManagementKeys : Revoke(m)
             \/ Tick \/ UNCHANGED vars
    <2>1. UNCHANGED <<request, job>>
      BY <1>6, Zenon DEF Move, Revoke, Tick, vars, deliveryVars
    <2>2. deliveries' \subseteq deliveries
      BY <1>6, Zenon DEF Move, BeginActive, Revoke, DeleteRemoved, Tick, vars, storeVars
    <2>3. QED
      BY <2>1, <2>2, <1>3
  <1>7. QED
    BY <1>4, <1>5, <1>6 DEF DeliveryNext, Homeserver

\* A claim outlives the attempts on it only if one of them died: the claim
\* with no attempt left behind it is the one the lease is for.
THEOREM NoClaimLost == DeliverySpec => []ClaimsReturned
  <1>1. DeliveryInit => Claimed
    <2>1. DeliveryInit => deliveries = {}
      BY Zenon DEF DeliveryInit
    <2>2. QED
      BY <2>1 DEF Claimed
  <1>2. DeliveryTyped /\ Claimed /\ [DeliveryNext]_vars => Claimed'
    BY DeliverKeepsClaimed, OthersKeepClaimed
  <1>3. Claimed => ClaimsReturned
    BY DEF Claimed, HasClaimant, ClaimStates, ClaimsReturned, Running
  <1>4. QED
    BY <1>1, <1>2, <1>3, DeliveryInitTyped, DeliveryStep, PTL DEF DeliverySpec

-----------------------------------------------------------------------------
(* Leases *)

\* Excuses that end a lease's exclusiveness, and the attempts it is about.
Lapsed(d, x) == excused[d][x] \intersect {"outlived", "purged", "unregistered"} # {}

Attempting(r, d, x) ==
    request[r].event = x /\ job[r][d].at \in {"budget", "send", "mark", "release", "drop"}

UnderWay(r, d, x) ==
    /\ request[r].event = x
    /\ job[r][d].at \in {"claim", "reclaim", "budget", "send", "mark", "release", "drop"}

\* One attempt, whose time is the one in the table, and nobody's is stale.
Sole(d, x) ==
    \A r, q \in Requests : Attempting(r, d, x) /\ Attempting(q, d, x) => r = q

Backed(d, x) ==
    \A r \in Requests :
        Attempting(r, d, x) =>
            /\ Entry(d, x) # {}
            /\ \A y \in Entry(d, x) : y.updatedAt = job[r][d].time

Fresh(d, x) ==
    \A r \in Requests : UnderWay(r, d, x) => job[r][d].time > clock - StaleAfter

Leased(d, x) == Sole(d, x) /\ Backed(d, x) /\ Fresh(d, x)

EntriesUnique ==
    \A y, z \in deliveries : y.delivery = z.delivery /\ y.event = z.event => y = z

TimesPast == \A r \in Requests, d \in DeliveryKeys : job[r][d].time <= clock

LeaseKept == \A d \in DeliveryKeys, x \in Events : Lapsed(d, x) \/ Leased(d, x)

\* What a job's record says after Goes and Ends.
LEMMA JobFields ==
    ASSUME DeliveryTypeOK, NEW r \in Requests, NEW d \in DeliveryKeys
    PROVE  /\ \A at : Goes(r, d, at) =>
                  /\ job'[r][d].at = at /\ job'[r][d].time = job[r][d].time
                  /\ job'[r][d].result = job[r][d].result
           /\ \A result : Ends(r, d, result) =>
                  /\ job'[r][d].at = "done" /\ job'[r][d].time = job[r][d].time
                  /\ job'[r][d].result = result
           /\ \A why, x \in Events : Excused(d, x, why) =>
                  /\ excused'[d][x] = excused[d][x] \union {why}
                  /\ \A c \in DeliveryKeys, z \in Events :
                         c # d \/ z # x => excused'[c][z] = excused[c][z]
  <1>1. job[r][d] \in Job
    BY DEF DeliveryTypeOK
  <1>2. ASSUME NEW at, Goes(r, d, at)
        PROVE  /\ job'[r][d].at = at /\ job'[r][d].time = job[r][d].time
               /\ job'[r][d].result = job[r][d].result
    BY <1>1, <1>2 DEF Goes, Job, DeliveryTypeOK
  <1>3. ASSUME NEW result, Ends(r, d, result)
        PROVE  /\ job'[r][d].at = "done" /\ job'[r][d].time = job[r][d].time
               /\ job'[r][d].result = result
    BY <1>1, <1>3 DEF Ends, Job, DeliveryTypeOK
  <1>4. ASSUME NEW why, NEW x \in Events, Excused(d, x, why)
        PROVE  /\ excused'[d][x] = excused[d][x] \union {why}
               /\ \A c \in DeliveryKeys, z \in Events :
                      c # d \/ z # x => excused'[c][z] = excused[c][z]
    BY <1>4 DEF Excused, DeliveryTypeOK
  <1>5. QED
    BY <1>2, <1>3, <1>4

\* Excuses are history.
LEMMA ExcusesGrow ==
    ASSUME DeliveryTyped, [DeliveryNext]_vars, NEW d \in DeliveryKeys, NEW x \in Events
    PROVE  excused[d][x] \subseteq excused'[d][x]
  <1>a. DeliveryTypeOK
    BY DEF DeliveryTyped
  <1>1. ASSUME NEW c \in DeliveryKeys, NEW z \in Events, NEW why, Excused(c, z, why)
        PROVE  excused[d][x] \subseteq excused'[d][x]
    BY <1>1, <1>a DEF Excused, DeliveryTypeOK
  <1>2. ASSUME NEW rows, Unregistered(rows)
        PROVE  excused[d][x] \subseteq excused'[d][x]
    BY <1>2 DEF Unregistered
  <1>3. ASSUME NEW r \in Requests, NEW c \in DeliveryKeys, Deliver(r, c) \/ Die(r, c)
        PROVE  excused[d][x] \subseteq excused'[d][x]
    <2>1. request[r].event \in Events
      BY <1>3, DeliverIsJobStep, RunningHasEvent DEF JobStep
    <2>2. QED
      BY <1>1, <1>2, <1>3, <2>1
      DEF Deliver, DropInvalid, PassLimit, HitLimit, Claim, Reclaim, AdmitSend, RefuseSend,
          SendAccepted, SendAmbiguous, SendFailed, SendGone, Mark, MarkFails,
          ReleaseClaim, DropGone, Die, NotesOverlap
  <1>4. ASSUME NEW r \in Requests, Purge(r)
        PROVE  excused[d][x] \subseteq excused'[d][x]
    BY <1>4 DEF Purge
  <1>5. CASE Tick
    BY <1>5 DEF Tick
  <1>6. CASE UNCHANGED excused
    BY <1>6
  <1>7. QED
    BY <1>2, <1>3, <1>4, <1>5, <1>6
    DEF DeliveryNext, Homeserver, Notify, Hear, GiveUp, Answer, AdmitCall, RefuseCall,
        Sweep, Fail, Move, Revoke, vars, deliveryVars

\* A claim or a mark touches the records of one device and event.
LEMMA TouchedEntries ==
    ASSUME deliveries \subseteq Delivery, NEW d, NEW x,
           NEW rows \in SUBSET Entry(d, x), NEW status, NEW now,
           deliveries' = Touched(rows, status, now)
    PROVE  /\ \A c, z : c # d \/ z # x => Entry(c, z)' = Entry(c, z)
           /\ \A t \in Entry(d, x)' :
                  \/ t \in Entry(d, x) \ rows
                  \/ t.status = status /\ t.updatedAt = now
           /\ Entry(d, x) # {} => Entry(d, x)' # {}
           /\ EntriesUnique => EntriesUnique'
  <1>1. \A y \in rows :
            LET t == [y EXCEPT !.status = status, !.updatedAt = now]
            IN  t.delivery = d /\ t.event = x /\ t.updatedAt = now /\ t.status = status
    BY DEF Entry, Delivery
  <1>2. \A c, z : c # d \/ z # x => Entry(c, z)' = Entry(c, z)
    BY <1>1 DEF Touched, Entry
  <1>3. Entry(d, x)' = (Entry(d, x) \ rows) \union
            {[y EXCEPT !.status = status, !.updatedAt = now] : y \in rows}
    BY <1>1 DEF Touched, Entry
  <1>4. ASSUME EntriesUnique
        PROVE  EntriesUnique'
    <2>1. SUFFICES ASSUME NEW y \in deliveries', NEW z \in deliveries',
                          y.delivery = z.delivery, y.event = z.event
                   PROVE  y = z
      BY DEF EntriesUnique
    <2>2. \A s, t \in Entry(d, x) : s = t
      BY <1>4 DEF EntriesUnique, Entry
    <2>3. CASE y.delivery = d /\ y.event = x
      <3>1. y \in Entry(d, x)' /\ z \in Entry(d, x)'
        BY <2>1, <2>3 DEF Entry
      <3>2. QED
        BY <3>1, <1>3, <2>2
    <2>4. CASE y.delivery # d \/ y.event # x
      <3>1. y \in Entry(y.delivery, y.event)' /\ z \in Entry(y.delivery, y.event)'
        BY <2>1 DEF Entry
      <3>2. y \in deliveries /\ z \in deliveries
        BY <3>1, <2>4, <1>2 DEF Entry
      <3>3. QED
        BY <3>2, <2>1, <1>4 DEF EntriesUnique
    <2>5. QED
      BY <2>3, <2>4
  <1>5. \A t \in Entry(d, x)' :
            \/ t \in Entry(d, x) \ rows
            \/ t.status = status /\ t.updatedAt = now
    BY <1>1, <1>3
  <1>6. ASSUME NEW y \in Entry(d, x)
        PROVE  Entry(d, x)' # {}
    <2>1. CASE y \in rows
      <3>1. [y EXCEPT !.status = status, !.updatedAt = now] \in Entry(d, x)'
        BY <1>3, <2>1
      <3>2. QED
        BY <3>1
    <2>2. CASE y \notin rows
      BY <1>3, <1>6, <2>2
    <2>3. QED
      BY <2>1, <2>2
  <1>7. QED
    BY <1>2, <1>4, <1>5, <1>6

\* A lease survives a step that leaves its record and the clock alone and
\* begins no attempt on it.
LEMMA LeaseFrame ==
    ASSUME NEW d \in DeliveryKeys, NEW x \in Events, Leased(d, x),
           clock' = clock, Entry(d, x)' = Entry(d, x),
           \A r \in Requests :
               /\ Attempting(r, d, x)' => Attempting(r, d, x)
               /\ UnderWay(r, d, x)' => UnderWay(r, d, x)
               /\ UnderWay(r, d, x)' => job'[r][d].time = job[r][d].time
    PROVE  Leased(d, x)'
  <1>1. \A r \in Requests : Attempting(r, d, x)' => UnderWay(r, d, x)'
    BY DEF Attempting, UnderWay
  <1>2. Sole(d, x)'
    BY DEF Leased, Sole
  <1>3. Backed(d, x)'
    BY <1>1 DEF Leased, Backed
  <1>4. Fresh(d, x)'
    BY DEF Leased, Fresh
  <1>5. QED
    BY <1>2, <1>3, <1>4 DEF Leased

\* Records go with their subscription only when its row does.
LEMMA RemovedWithRow ==
    ASSUME DeliveryTyped, NEW rows \in SUBSET subs,
           deliveries' = deliveries \ DeliveriesFor(rows), Unregistered(rows),
           NEW d \in DeliveryKeys, NEW x \in Events, ~Lapsed(d, x)'
    PROVE  Entry(d, x)' = Entry(d, x)
  <1>1. excused'[d][x] = IF \E s \in rows : s.delivery = d
                         THEN excused[d][x] \union {"unregistered"} ELSE excused[d][x]
    BY DEF Unregistered
  <1>2. \A s \in rows : s.delivery # d
    BY <1>1 DEF Lapsed
  <1>3. QED
    BY <1>2 DEF Entry, DeliveriesFor

\* The statements of a job reach the records of its own device and event only,
\* unless they remove the device.
LEMMA EntryElsewhere ==
    ASSUME DeliveryTyped, NEW r \in Requests, NEW c \in DeliveryKeys,
           Deliver(r, c) \/ Die(r, c),
           NEW d \in DeliveryKeys, NEW x \in Events, ~Lapsed(d, x)',
           d # c \/ x # request[r].event
    PROVE  Entry(d, x)' = Entry(d, x)
  <1>a. deliveries \subseteq Delivery
    BY DEF DeliveryTyped, DeliveryTypeOK, TypeOK
  <1>b. ASSUME NEW rows \in SUBSET Entry(c, request[r].event), NEW status, NEW now,
               deliveries' = Touched(rows, status, now)
        PROVE  Entry(d, x)' = Entry(d, x)
    <2>1. \A a, z : a # c \/ z # request[r].event => Entry(a, z)' = Entry(a, z)
      BY <1>a, <1>b, TouchedEntries
    <2>2. QED
      BY <2>1
  <1>1. CASE deliveries' = deliveries
    BY <1>1 DEF Entry
  <1>2. CASE DropInvalid(r, c) \/ DropGone(r, c)
    <2>1. /\ deliveries' = deliveries \ DeliveriesFor(Snapshot(r, c))
          /\ Unregistered(Snapshot(r, c))
      BY <1>2 DEF DropInvalid, DropGone, DropIfCurrent, Snapshot
    <2>2. Snapshot(r, c) \in SUBSET subs
      BY DEF Snapshot, Current, RowsOf
    <2>3. QED
      BY <2>1, <2>2, RemovedWithRow
  <1>3. CASE Claim(r, c)
    BY <1>3 DEF Claim, ClaimInsert, Entry
  <1>4. CASE Reclaim(r, c)
    <2>1. /\ deliveries' = Touched(StaleClaims(c, request[r].event, job[r][c].time),
                                   "pending", job[r][c].time)
          /\ StaleClaims(c, request[r].event, job[r][c].time)
                 \in SUBSET Entry(c, request[r].event)
      BY <1>4 DEF Reclaim, ClaimStale, StaleClaims
    <2>2. QED
      BY <2>1, <1>b
  <1>5. CASE Mark(r, c) \/ MarkFails(r, c)
    <2>1. \/ deliveries' = deliveries
          \/ deliveries' = Touched(Entry(c, request[r].event), "sent", job[r][c].time)
      BY <1>5 DEF Mark, MarkFails, MarkIfCurrent, storeVars
    <2>2. QED
      BY <2>1, <1>1, <1>b
  <1>6. CASE ReleaseClaim(r, c)
    BY <1>6 DEF ReleaseClaim, Release, Entry
  <1>7. QED
    BY <1>1, <1>2, <1>3, <1>4, <1>5, <1>6
    DEF Deliver, PassLimit, HitLimit, AdmitSend, RefuseSend, SendAccepted,
        SendAmbiguous, SendFailed, SendGone, Die, storeVars

\* So a job's step leaves every other device's or event's lease alone.
LEMMA LeaseElsewhere ==
    ASSUME DeliveryTyped, NEW r \in Requests, NEW c \in DeliveryKeys,
           Deliver(r, c) \/ Die(r, c),
           NEW d \in DeliveryKeys, NEW x \in Events, ~Lapsed(d, x)', Leased(d, x),
           d # c \/ x # request[r].event
    PROVE  Leased(d, x)'
  <1>1. Entry(d, x)' = Entry(d, x)
    BY EntryElsewhere
  <1>2. PICK new \in Job : Becomes(r, c, new)
    BY DeliverIsJobStep DEF JobStep
  <1>3. clock' = clock /\ request' = request /\ DeliveryTypeOK
    BY DeliverIsJobStep DEF JobStep, DeliveryTyped
  <1>4. \A q \in Requests : q # r \/ d # c => job'[q][d] = job[q][d]
    BY <1>2, <1>3, JobMoves
  <1>5. \A q \in Requests :
            /\ Attempting(q, d, x)' => Attempting(q, d, x)
            /\ UnderWay(q, d, x)' => UnderWay(q, d, x)
            /\ UnderWay(q, d, x)' => job'[q][d].time = job[q][d].time
    BY <1>3, <1>4 DEF Attempting, UnderWay
  <1>6. QED
    BY <1>1, <1>3, <1>5, LeaseFrame

\* A job that has an attempt and keeps or ends it, over records that are kept,
\* leaves its own lease in order.
LEMMA LeaseMoves ==
    ASSUME DeliveryTyped, NEW r \in Requests, NEW d \in DeliveryKeys,
           Deliver(r, d) \/ Die(r, d),
           NEW x \in Events, x = request[r].event, Leased(d, x),
           Entry(d, x)' = Entry(d, x),
           Attempting(r, d, x)' => Attempting(r, d, x),
           UnderWay(r, d, x)' => UnderWay(r, d, x) /\ job'[r][d].time = job[r][d].time
    PROVE  Leased(d, x)'
  <1>1. PICK new \in Job : Becomes(r, d, new)
    BY DeliverIsJobStep DEF JobStep
  <1>2. clock' = clock /\ request' = request /\ DeliveryTypeOK
    BY DeliverIsJobStep DEF JobStep, DeliveryTyped
  <1>3. \A q \in Requests : q # r => job'[q][d] = job[q][d]
    BY <1>1, <1>2, JobMoves
  <1>4. \A q \in Requests :
            /\ Attempting(q, d, x)' => Attempting(q, d, x)
            /\ UnderWay(q, d, x)' => UnderWay(q, d, x)
            /\ UnderWay(q, d, x)' => job'[q][d].time = job[q][d].time
    BY <1>2, <1>3 DEF Attempting, UnderWay
  <1>5. QED
    BY <1>2, <1>4, LeaseFrame

\* A job's step leaves the lease of its own device and event in order: a claim
\* is taken where there is no record or a stale one, and nobody else attempts
\* then; only the one that attempts marks, releases or removes the record.
LEMMA LeaseHere ==
    ASSUME DeliveryTyped, EntriesUnique, TimesPast,
           NEW r \in Requests, NEW d \in DeliveryKeys, Deliver(r, d) \/ Die(r, d),
           NEW x \in Events, x = request[r].event, ~Lapsed(d, x)', Leased(d, x)
    PROVE  Leased(d, x)'
  <1>a. PICK new \in Job : Becomes(r, d, new)
    BY DeliverIsJobStep DEF JobStep
  <1>b. clock' = clock /\ request' = request /\ DeliveryTypeOK /\ deliveries \subseteq Delivery
    BY DeliverIsJobStep DEF JobStep, DeliveryTyped, DeliveryTypeOK, TypeOK
  <1>c. \A q \in Requests : q # r => job'[q][d] = job[q][d]
    BY <1>a, <1>b, JobMoves
  <1>d. /\ clock \in Int /\ StaleAfter \in Nat /\ StaleAfter # 0
        /\ \A q \in Requests : job[q][d].time \in Int /\ job[q][d].time <= clock
    <2>1. clock \in 0..MaxClock /\ \A q \in Requests : job[q][d] \in Job
      BY <1>b DEF DeliveryTypeOK
    <2>2. \A q \in Requests : job[q][d].time \in 0..MaxClock
      BY <2>1 DEF Job
    <2>3. QED
      BY <2>1, <2>2, ClockAssumption, TimeAssumption, LeaseAssumption DEF TimesPast
  <1>e. x \in Events /\ request'[r].event = x
    BY <1>b
  \* What the attempt's own record must look like when nobody else attempts.
  <1>1. ASSUME \A q \in Requests : q # r => ~Attempting(q, d, x),
               Attempting(r, d, x)' =>
                   Entry(d, x)' # {} /\ \A y \in Entry(d, x)' : y.updatedAt = job[r][d].time,
               UnderWay(r, d, x)' => UnderWay(r, d, x) /\ job'[r][d].time = job[r][d].time
        PROVE  Leased(d, x)'
    <2>1. \A q \in Requests : Attempting(q, d, x)' => q = r
      BY <1>1, <1>b, <1>c DEF Attempting
    <2>2. Attempting(r, d, x)' => job'[r][d].time = job[r][d].time
      BY <1>1 DEF Attempting, UnderWay
    <2>3. Sole(d, x)' /\ Backed(d, x)'
      BY <1>1, <2>1, <2>2 DEF Sole, Backed
    <2>4. ASSUME NEW q \in Requests, UnderWay(q, d, x)'
          PROVE  job'[q][d].time > clock - StaleAfter
      <3>1. UnderWay(q, d, x) /\ job'[q][d].time = job[q][d].time
        BY <2>4, <1>1, <1>b, <1>c DEF UnderWay
      <3>2. QED
        BY <3>1 DEF Leased, Fresh
    <2>5. QED
      BY <2>3, <2>4, <1>b DEF Leased, Fresh
  <1>2. ASSUME Entry(d, x)' = Entry(d, x),
               Attempting(r, d, x)' => Attempting(r, d, x),
               UnderWay(r, d, x)' => UnderWay(r, d, x) /\ job'[r][d].time = job[r][d].time
        PROVE  Leased(d, x)'
    BY <1>2, LeaseMoves
  <1>3. \A result : Ends(r, d, result) => ~Attempting(r, d, x)' /\ ~UnderWay(r, d, x)'
    BY <1>b, JobFields DEF Attempting, UnderWay
  <1>4. CASE DropInvalid(r, d) \/ HitLimit(r, d)
    <2>1. ~Attempting(r, d, x)' /\ ~UnderWay(r, d, x)'
      BY <1>3, <1>4 DEF DropInvalid, HitLimit
    <2>2. Entry(d, x)' = Entry(d, x)
      <3>1. CASE HitLimit(r, d)
        BY <3>1 DEF HitLimit, storeVars, Entry
      <3>2. CASE DropInvalid(r, d)
        <4>1. /\ deliveries' = deliveries \ DeliveriesFor(Snapshot(r, d))
              /\ Unregistered(Snapshot(r, d))
          BY <3>2 DEF DropInvalid, DropIfCurrent, Snapshot
        <4>2. Snapshot(r, d) \in SUBSET subs
          BY DEF Snapshot, Current, RowsOf
        <4>3. QED
          BY <4>1, <4>2, RemovedWithRow
      <3>3. QED
        BY <1>4, <3>1, <3>2
    <2>3. QED
      BY <1>2, <2>1, <2>2
  <1>5. CASE PassLimit(r, d)
    <2>1. Entry(d, x)' = Entry(d, x)
      BY <1>5 DEF PassLimit, storeVars, Entry
    <2>2. job'[r][d].at = "claim" /\ job'[r][d].time = clock
      BY <1>5, <1>b DEF PassLimit, DeliveryTypeOK, Job
    <2>3. \A q \in Requests : Attempting(q, d, x)' =>
              q # r /\ Attempting(q, d, x) /\ job'[q][d].time = job[q][d].time
      BY <2>2, <1>b, <1>c DEF Attempting
    <2>4. Sole(d, x)' /\ Backed(d, x)'
      BY <2>1, <2>3 DEF Leased, Sole, Backed
    <2>5. ASSUME NEW q \in Requests, UnderWay(q, d, x)'
          PROVE  job'[q][d].time > clock - StaleAfter
      <3>1. CASE q = r
        BY <3>1, <2>2, <1>d
      <3>2. CASE q # r
        BY <3>2, <2>5, <1>b, <1>c DEF UnderWay, Leased, Fresh
      <3>3. QED
        BY <3>1, <3>2
    <2>6. QED
      BY <2>4, <2>5, <1>b DEF Leased, Fresh
  <1>6. CASE Claim(r, d)
    <2>a. job[r][d].at = "claim" /\ UnderWay(r, d, x)
      BY <1>6 DEF Claim, UnderWay
    <2>1. CASE Entry(d, x) # {}
      <3>1. deliveries' = deliveries /\ Goes(r, d, "reclaim")
        BY <1>6, <2>1 DEF Claim, ClaimInsert
      <3>2. job'[r][d].at = "reclaim" /\ job'[r][d].time = job[r][d].time
        BY <3>1, <1>b, JobFields
      <3>3. Entry(d, x)' = Entry(d, x)
        BY <3>1 DEF Entry
      <3>4. QED
        BY <3>2, <3>3, <2>a, <1>2 DEF Attempting, UnderWay
    <2>2. CASE Entry(d, x) = {}
      <3>1. /\ deliveries' = deliveries \union
                   {[delivery |-> d, event |-> x, status |-> "pending",
                     updatedAt |-> job[r][d].time]}
            /\ Goes(r, d, "budget")
        BY <1>6, <2>2 DEF Claim, ClaimInsert
      <3>2. job'[r][d].at = "budget" /\ job'[r][d].time = job[r][d].time
        BY <3>1, <1>b, JobFields
      <3>3. Entry(d, x)' = {[delivery |-> d, event |-> x, status |-> "pending",
                             updatedAt |-> job[r][d].time]}
        BY <3>1, <2>2 DEF Entry
      <3>4. \A q \in Requests : ~Attempting(q, d, x)
        BY <2>2 DEF Leased, Backed
      <3>5. QED
        BY <3>2, <3>3, <3>4, <2>a, <1>1
    <2>3. QED
      BY <2>1, <2>2
  <1>7. CASE Reclaim(r, d)
    <2> DEFINE now   == job[r][d].time
               stale == StaleClaims(d, x, now)
    <2>a. job[r][d].at = "reclaim" /\ UnderWay(r, d, x)
      BY <1>7 DEF Reclaim, UnderWay
    <2>b. deliveries' = Touched(stale, "pending", now)
      BY <1>7 DEF Reclaim, ClaimStale
    <2>1. CASE stale = {}
      <3>1. Ends(r, d, "suppressed")
        BY <1>7, <2>1 DEF Reclaim
      <3>2. Entry(d, x)' = Entry(d, x)
        BY <2>b, <2>1 DEF Touched, Entry
      <3>3. QED
        BY <3>1, <3>2, <1>2, <1>3
    <2>2. CASE stale # {}
      <3>1. Goes(r, d, "budget")
        BY <1>7, <2>2 DEF Reclaim
      <3>2. job'[r][d].at = "budget" /\ job'[r][d].time = job[r][d].time
        BY <3>1, <1>b, JobFields
      <3>3. PICK y \in Entry(d, x) : y \in stale /\ y.updatedAt <= now - StaleAfter
        BY <2>2 DEF StaleClaims
      <3>4. y.updatedAt \in Int
        BY <1>b DEF Entry, Delivery
      <3>5. \A q \in Requests : ~Attempting(q, d, x)
        <4>1. SUFFICES ASSUME NEW q \in Requests, Attempting(q, d, x) PROVE FALSE
          OBVIOUS
        <4>2. y.updatedAt = job[q][d].time
          BY <4>1, <3>3 DEF Leased, Backed
        <4>3. job[q][d].time > clock - StaleAfter
          BY <4>1 DEF Leased, Fresh, Attempting, UnderWay
        <4>4. QED
          BY <4>2, <4>3, <3>3, <3>4, <1>d
      <3>6. stale \in SUBSET Entry(d, x) /\ \A z \in Entry(d, x) : z \in stale
        BY <3>3 DEF StaleClaims, EntriesUnique, Entry
      <3> HIDE DEF stale
      <3>7. /\ \A t \in Entry(d, x)' :
                   t \in Entry(d, x) \ stale \/ (t.status = "pending" /\ t.updatedAt = now)
            /\ Entry(d, x) # {} => Entry(d, x)' # {}
        BY <2>b, <3>6, <1>b, TouchedEntries
      <3>8. QED
        BY <3>2, <3>3, <3>5, <3>6, <3>7, <2>a, <1>1
    <2>3. QED
      BY <2>1, <2>2
  <1>8. CASE \/ AdmitSend(r, d) \/ RefuseSend(r, d) \/ SendAccepted(r, d)
             \/ SendAmbiguous(r, d) \/ SendFailed(r, d) \/ SendGone(r, d) \/ Die(r, d)
    <2>1. deliveries' = deliveries
      BY <1>8 DEF AdmitSend, RefuseSend, SendAccepted, SendAmbiguous, SendFailed,
                  SendGone, Die, storeVars
    <2>2. \E at \in {"send", "release", "mark", "drop", "dead"} :
              /\ Goes(r, d, at)
              /\ at = "dead" \/ Attempting(r, d, x)
      BY <1>8, <1>e DEF AdmitSend, RefuseSend, SendAccepted, SendAmbiguous, SendFailed,
                  SendGone, Die, Attempting
    <2>3. /\ job'[r][d].time = job[r][d].time
          /\ Attempting(r, d, x)' => Attempting(r, d, x)
          /\ UnderWay(r, d, x)' => UnderWay(r, d, x)
      BY <2>2, <1>b, JobFields DEF Attempting, UnderWay
    <2>4. QED
      BY <2>1, <2>3, <1>2 DEF Entry
  <1>9. ASSUME Attempting(r, d, x)
        PROVE  \A q \in Requests : q # r => ~Attempting(q, d, x)
    BY <1>9 DEF Leased, Sole
  <1>10. CASE Mark(r, d) \/ MarkFails(r, d)
    <2>a. Attempting(r, d, x) /\ UnderWay(r, d, x)
      BY <1>10 DEF Mark, MarkFails, Attempting, UnderWay
    <2>b. job'[r][d].time = job[r][d].time
      BY <1>10, <1>b, JobFields DEF Mark, MarkFails
    <2>1. CASE deliveries' = deliveries
      BY <2>a, <2>b, <2>1, <1>2 DEF Entry
    <2>2. CASE deliveries' = Touched(Entry(d, x), "sent", job[r][d].time)
      <3>1. /\ \A t \in Entry(d, x)' :
                   \/ t \in Entry(d, x) \ Entry(d, x)
                   \/ t.status = "sent" /\ t.updatedAt = job[r][d].time
            /\ Entry(d, x) # {} => Entry(d, x)' # {}
        BY <2>2, <1>b, TouchedEntries
      <3>2. Entry(d, x) # {}
        BY <2>a DEF Leased, Backed
      <3>3. QED
        BY <3>1, <3>2, <2>a, <2>b, <1>1, <1>9
    <2>3. QED
      BY <1>10, <2>1, <2>2 DEF Mark, MarkFails, MarkIfCurrent, storeVars
  <1>11. CASE ReleaseClaim(r, d)
    <2>1. Attempting(r, d, x) /\ ~Attempting(r, d, x)' /\ ~UnderWay(r, d, x)'
      BY <1>11, <1>3 DEF ReleaseClaim, Attempting
    <2>2. QED
      BY <2>1, <1>1, <1>9
  <1>12. CASE DropGone(r, d)
    <2>1. Attempting(r, d, x) /\ UnderWay(r, d, x) /\ job'[r][d].time = job[r][d].time
      BY <1>12, <1>b, JobFields DEF DropGone, Attempting, UnderWay
    <2>2. /\ deliveries' = deliveries \ DeliveriesFor(Snapshot(r, d))
          /\ Unregistered(Snapshot(r, d))
      BY <1>12 DEF DropGone, DropIfCurrent, Snapshot
    <2>3. Snapshot(r, d) \in SUBSET subs
      BY DEF Snapshot, Current, RowsOf
    <2>4. Entry(d, x)' = Entry(d, x)
      BY <2>2, <2>3, RemovedWithRow
    <2>5. QED
      BY <2>1, <2>4, <1>2
  <1>13. QED
    BY <1>4, <1>5, <1>6, <1>7, <1>8, <1>10, <1>11, <1>12 DEF Deliver

\* The other steps remove no record without an excuse: what is purged or goes
\* with its row is noted.
LEMMA EntryKeptByOthers ==
    ASSUME DeliveryTyped, Keyed, EntriesUnique, [DeliveryNext]_vars,
           \A r \in Requests, d \in DeliveryKeys : ~Deliver(r, d) /\ ~Die(r, d),
           NEW d \in DeliveryKeys, NEW x \in Events, ~Lapsed(d, x)'
    PROVE  Entry(d, x)' = Entry(d, x)
  <1>1. CASE UNCHANGED storeVars
    BY <1>1, Zenon DEF storeVars, Entry
  <1>2. ASSUME NEW r \in Requests, Purge(r)
        PROVE  Entry(d, x)' = Entry(d, x)
    <2>1. /\ deliveries' \subseteq deliveries
          /\ Entry(d, x) # {} /\ Entry(d, x) \intersect deliveries' = {}
                 => "purged" \in excused'[d][x]
      BY <1>2, Zenon DEF Purge, CleanupDeliveries, storeVars
    <2>2. Entry(d, x) # {} => Entry(d, x) \intersect deliveries' # {}
      BY <2>1 DEF Lapsed
    <2>3. \A y, z \in Entry(d, x) : y = z
      BY DEF EntriesUnique, Entry
    <2>4. QED
      BY <2>1, <2>2, <2>3 DEF Entry
  <1>3. ASSUME NEW r \in Requests, Sweep(r)
        PROVE  Entry(d, x)' = Entry(d, x)
    <2>1. PICK rows \in SUBSET subs :
              subs' = subs \ rows /\ deliveries' = deliveries \ DeliveriesFor(rows)
      BY <1>3 DEF Sweep, CleanupSubscriptions
    <2>2. subs \ subs' = rows
      BY <2>1
    <2>3. Unregistered(rows)
      BY <1>3, <2>2 DEF Sweep
    <2>4. QED
      BY <2>1, <2>3, RemovedWithRow
  <1>4. ASSUME NEW c \in DeliveryKeys, Move(c)
        PROVE  Entry(d, x)' = Entry(d, x)
    <2>1. PICK m \in ManagementKeys, e \in Endpoints \ Distrusted, k \in Keys :
              BeginActive(c, m, e, k, clock)
      BY <1>4 DEF Move
    <2> DEFINE gone == HoldersOf(e, c)
    <2>2. /\ deliveries' = deliveries \ DeliveriesFor(gone)
          /\ subs' = Rotated(c, m, e, k, clock)
      BY <2>1 DEF BeginActive
    <2>3. Unregistered({s \in subs : \A t \in subs' : s.delivery # t.delivery})
      BY <1>4 DEF Move
    <2>4. gone \in SUBSET {s \in subs : \A t \in subs' : s.delivery # t.delivery}
      BY <2>2 DEF HoldersOf, Rotated, RowsOf, Keyed, RowsUnique, UniqueRows
    <2>5. \A s \in gone : s.delivery # d
      BY <2>3, <2>4 DEF Unregistered, Lapsed
    <2>6. QED
      BY <2>2, <2>5 DEF Entry, DeliveriesFor
  <1>5. ASSUME NEW m \in ManagementKeys, Revoke(m)
        PROVE  Entry(d, x)' = Entry(d, x)
    <2>1. /\ deliveries' = deliveries \ DeliveriesFor(ManagedBy(m))
          /\ subs' = subs \ ManagedBy(m)
          /\ Unregistered(subs \ subs')
      BY <1>5 DEF Revoke, DeleteRemoved
    <2>2. ManagedBy(m) \in SUBSET subs /\ subs \ subs' = ManagedBy(m)
      BY <2>1 DEF ManagedBy
    <2>3. QED
      BY <2>1, <2>2, RemovedWithRow
  <1>6. QED
    BY <1>1, <1>2, <1>3, <1>4, <1>5, Zenon
    DEF DeliveryNext, Homeserver, Notify, Hear, GiveUp, Answer, AdmitCall, RefuseCall,
        Fail, Tick, vars

\* What they do to the jobs of an event: they begin no attempt, and only Tick
\* moves the clock.
LEMMA JobsKeptByOthers ==
    ASSUME DeliveryTyped, [DeliveryNext]_vars,
           \A r \in Requests, d \in DeliveryKeys : ~Deliver(r, d) /\ ~Die(r, d),
           NEW d \in DeliveryKeys, NEW x \in Events, NEW r \in Requests
    PROVE  /\ UnderWay(r, d, x)' =>
                  /\ UnderWay(r, d, x)
                  /\ job'[r][d] = job[r][d]
           /\ UnderWay(r, d, x) => request'[r].event = x /\ job'[r][d] = job[r][d]
  <1>1. CASE UNCHANGED job /\ request'[r].event = request[r].event
    BY <1>1 DEF UnderWay
  <1>2. ASSUME NEW q \in Requests, NEW z \in Events, Notify(q, z)
        PROVE  /\ UnderWay(r, d, x)' =>
                      /\ UnderWay(r, d, x)
                      /\ job'[r][d] = job[r][d]
               /\ UnderWay(r, d, x) => request'[r].event = x /\ job'[r][d] = job[r][d]
    <2>1. CASE q = r
      <3>1. job'[r][d].at \in {"done", "check"}
        BY <1>2, <2>1 DEF Notify, DeliveryTyped, DeliveryTypeOK, Idle
      <3>2. request[r].at = "unused"
        BY <1>2, <2>1, Zenon DEF Notify
      <3>3. job[r][d].at = "idle"
        BY <3>2 DEF DeliveryTyped, Shaped, Idle
      <3>4. QED
        BY <3>1, <3>3 DEF UnderWay
    <2>2. CASE q # r
      <3>1. request'[r] = request[r] /\ job'[r] = job[r]
        BY <1>2, <2>2 DEF Notify, DeliveryTyped, DeliveryTypeOK
      <3>2. QED
        BY <3>1 DEF UnderWay
    <2>3. QED
      BY <2>1, <2>2
  <1>3. ASSUME NEW q \in Requests, Answer(q) \/ Hear(q) \/ GiveUp(q)
        PROVE  UNCHANGED job /\ request'[r].event = request[r].event
    BY <1>3, AnswerMoves DEF DeliveryTyped, DeliveryTypeOK
  <1>4. CASE \/ \E c \in DeliveryKeys : Move(c)
             \/ \E m \in ManagementKeys : Revoke(m)
             \/ Tick \/ UNCHANGED vars
    <2>1. UNCHANGED <<job, request>>
      BY <1>4, Zenon DEF Move, Revoke, Tick, vars, deliveryVars
    <2>2. QED
      BY <1>1, <2>1
  <1>5. QED
    BY <1>1, <1>2, <1>3, <1>4 DEF DeliveryNext, Homeserver

\* So they end no lease without an excuse: an attempt the clock overtakes is
\* noted, too.
LEMMA LeaseOthers ==
    ASSUME DeliveryTyped, Keyed, EntriesUnique, [DeliveryNext]_vars,
           \A r \in Requests, d \in DeliveryKeys : ~Deliver(r, d) /\ ~Die(r, d),
           NEW d \in DeliveryKeys, NEW x \in Events, ~Lapsed(d, x)', Leased(d, x)
    PROVE  Leased(d, x)'
  <1>1. Entry(d, x)' = Entry(d, x)
    BY EntryKeptByOthers
  <1>2. \A r \in Requests :
            UnderWay(r, d, x)' => UnderWay(r, d, x) /\ job'[r][d] = job[r][d]
    BY JobsKeptByOthers
  <1>3. \A r \in Requests :
            /\ Attempting(r, d, x)' => Attempting(r, d, x)
            /\ UnderWay(r, d, x)' => job'[r][d].time = job[r][d].time
    BY <1>2 DEF Attempting, UnderWay
  <1>4. CASE clock' = clock
    BY <1>1, <1>2, <1>3, <1>4, LeaseFrame
  <1>5. CASE Tick
    <2>1. /\ clock' = clock + 1 /\ UNCHANGED <<storeVars, request, job>>
          /\ (\E r \in Requests : Outlives(r, d, x)) => "outlived" \in excused'[d][x]
      BY <1>5 DEF Tick
    <2>2. \A r \in Requests : ~Outlives(r, d, x)
      BY <2>1 DEF Lapsed
    <2>3. \A r \in Requests : UnderWay(r, d, x)' => UnderWay(r, d, x) /\ ~Outlives(r, d, x)
      BY <2>1, <2>2 DEF UnderWay
    <2>4. \A r \in Requests : job[r][d].time \in Int /\ clock \in Int /\ StaleAfter \in Int
      <3>1. clock \in 0..MaxClock /\ \A r \in Requests : job[r][d] \in Job
        BY DEF DeliveryTyped, DeliveryTypeOK
      <3>2. \A r \in Requests : job[r][d].time \in 0..MaxClock
        BY <3>1 DEF Job
      <3>3. QED
        BY <3>1, <3>2, ClockAssumption, TimeAssumption
    <2>5. Fresh(d, x)'
      BY <2>1, <2>3, <2>4 DEF Fresh, Outlives, UnderWay
    <2>6. Sole(d, x)' /\ Backed(d, x)'
      BY <2>1 DEF Leased, Sole, Backed, Attempting, Entry, storeVars
    <2>7. QED
      BY <2>5, <2>6 DEF Leased
  <1>6. clock' = clock \/ Tick
    BY AnswerMoves, Zenon
    DEF DeliveryNext, Homeserver, Notify, Move, Revoke, vars, deliveryVars
  <1>7. QED
    BY <1>4, <1>5, <1>6

\* There is one record per device and event: the table's primary key.
LEMMA EntriesStayUnique ==
    ASSUME DeliveryTyped, EntriesUnique, [DeliveryNext]_vars
    PROVE  EntriesUnique'
  <1>a. deliveries \subseteq Delivery
    BY DEF DeliveryTyped, DeliveryTypeOK, TypeOK
  <1>1. ASSUME deliveries' \subseteq deliveries
        PROVE  EntriesUnique'
    BY <1>1 DEF EntriesUnique
  <1>2. ASSUME NEW r \in Requests, NEW d \in DeliveryKeys, Deliver(r, d) \/ Die(r, d)
        PROVE  EntriesUnique'
    <2>1. ASSUME NEW x, x = request[r].event, NEW rows \in SUBSET Entry(d, x),
                 NEW status, NEW now, deliveries' = Touched(rows, status, now)
          PROVE  EntriesUnique'
      BY <2>1, <1>a, TouchedEntries
    <2>2. CASE Claim(r, d)
      <3>1. CASE Entry(d, request[r].event) # {}
        BY <1>1, <2>2, <3>1 DEF Claim, ClaimInsert
      <3>2. CASE Entry(d, request[r].event) = {}
        <4>1. deliveries' = deliveries \union
                  {[delivery |-> d, event |-> request[r].event, status |-> "pending",
                    updatedAt |-> job[r][d].time]}
          BY <2>2, <3>2 DEF Claim, ClaimInsert
        <4>2. QED
          BY <4>1, <3>2 DEF EntriesUnique, Entry
      <3>3. QED
        BY <3>1, <3>2
    <2>3. CASE Reclaim(r, d)
      BY <2>1, <2>3 DEF Reclaim, ClaimStale, StaleClaims
    <2>4. CASE Mark(r, d) \/ MarkFails(r, d)
      <3>1. \/ deliveries' = deliveries
            \/ deliveries' = Touched(Entry(d, request[r].event), "sent", job[r][d].time)
        BY <2>4 DEF Mark, MarkFails, MarkIfCurrent, storeVars
      <3>2. QED
        BY <3>1, <2>1, <1>1
    <2>5. CASE ReleaseClaim(r, d)
      BY <1>1, <2>5 DEF ReleaseClaim, Release
    <2>6. CASE DropInvalid(r, d) \/ DropGone(r, d)
      BY <1>1, <2>6 DEF DropInvalid, DropGone, DropIfCurrent
    <2>7. CASE UNCHANGED storeVars
      BY <1>1, <2>7 DEF storeVars
    <2>8. QED
      BY <1>2, <2>2, <2>3, <2>4, <2>5, <2>6, <2>7
      DEF Deliver, PassLimit, HitLimit, AdmitSend, RefuseSend, SendAccepted,
          SendAmbiguous, SendFailed, SendGone, Die
  <1>3. CASE UNCHANGED storeVars
    BY <1>1, <1>3 DEF storeVars
  <1>4. ASSUME NEW r \in Requests, Answer(r)
        PROVE  EntriesUnique'
    <2>1. deliveries' \subseteq deliveries
      BY <1>4, Zenon DEF Answer, AdmitCall, RefuseCall, Purge, Sweep, Fail,
          CleanupDeliveries, CleanupSubscriptions, storeVars
    <2>2. QED
      BY <2>1, <1>1
  <1>5. CASE (\E d \in DeliveryKeys : Move(d)) \/ (\E m \in ManagementKeys : Revoke(m))
    <2>1. deliveries' \subseteq deliveries
      BY <1>5, Zenon DEF Move, BeginActive, Revoke, DeleteRemoved
    <2>2. QED
      BY <2>1, <1>1
  <1>6. QED
    BY <1>2, <1>3, <1>4, <1>5 DEF DeliveryNext, Homeserver, Notify, Hear, GiveUp, Tick, vars

\* A job's clock reading is in the past.
LEMMA TimesStayPast ==
    ASSUME DeliveryTyped, TimesPast, [DeliveryNext]_vars
    PROVE  TimesPast'
  <1>a. DeliveryTypeOK
    BY DEF DeliveryTyped
  <1>b. /\ clock \in Int /\ 0 <= clock
        /\ \A r \in Requests, d \in DeliveryKeys :
               job[r][d].time \in Int /\ job[r][d].time <= clock
    <2>1. clock \in 0..MaxClock
          /\ \A r \in Requests, d \in DeliveryKeys : job[r][d] \in Job
      BY <1>a DEF DeliveryTypeOK
    <2>2. \A r \in Requests, d \in DeliveryKeys : job[r][d].time \in 0..MaxClock
      BY <2>1 DEF Job
    <2>3. QED
      BY <2>1, <2>2, ClockAssumption DEF TimesPast
  <1>1. ASSUME clock' = clock \/ clock' = clock + 1,
               \A r \in Requests, d \in DeliveryKeys :
                   \/ job'[r][d].time = job[r][d].time
                   \/ job'[r][d].time = clock
                   \/ job'[r][d].time = 0
        PROVE  TimesPast'
    <2>1. SUFFICES ASSUME NEW r \in Requests, NEW d \in DeliveryKeys
                   PROVE  job'[r][d].time <= clock'
      BY DEF TimesPast
    <2>2. \/ job'[r][d].time = job[r][d].time
          \/ job'[r][d].time = clock
          \/ job'[r][d].time = 0
      BY <1>1
    <2>3. job[r][d].time \in Int /\ job[r][d].time <= clock /\ clock \in Int /\ 0 <= clock
      BY <1>b
    <2>4. QED
      BY <1>1, <2>2, <2>3
  <1>2. ASSUME NEW r \in Requests, NEW d \in DeliveryKeys, Deliver(r, d) \/ Die(r, d)
        PROVE  TimesPast'
    <2>1. clock' = clock
      BY <1>2, DeliverIsJobStep DEF JobStep
    <2>2. PICK new \in Job : Becomes(r, d, new)
      BY <1>2, DeliverIsJobStep DEF JobStep
    <2>3. \A q \in Requests, c \in DeliveryKeys : q # r \/ c # d => job'[q][c] = job[q][c]
      BY <2>2, <1>a, JobMoves
    <2>4. job'[r][d].time = job[r][d].time \/ job'[r][d].time = clock
      <3>1. CASE PassLimit(r, d)
        BY <3>1, <1>a DEF PassLimit, DeliveryTypeOK, Job
      <3>2. CASE ~PassLimit(r, d)
        <4>1. (\E at : Goes(r, d, at)) \/ (\E result : Ends(r, d, result))
          BY <1>2, <3>2 DEF Deliver, DropInvalid, HitLimit, Claim, Reclaim, AdmitSend,
                 RefuseSend, SendAccepted, SendAmbiguous, SendFailed, SendGone, Mark,
                 MarkFails, ReleaseClaim, DropGone, Die
        <4>2. QED
          BY <4>1, <1>a, JobFields
      <3>3. QED
        BY <3>1, <3>2
    <2>5. QED
      BY <2>1, <2>3, <2>4, <1>1
  <1>3. ASSUME NEW r \in Requests, NEW x \in Events, Notify(r, x)
        PROVE  TimesPast'
    <2>1. clock' = clock
      BY <1>3 DEF Notify
    <2>2. \A q \in Requests \ {r} : job'[q] = job[q]
      BY <1>3, <1>a DEF Notify, DeliveryTypeOK
    <2>3. \A d \in DeliveryKeys : job'[r][d].time = 0
      BY <1>3, <1>a DEF Notify, DeliveryTypeOK, Idle
    <2>4. QED
      BY <2>1, <2>2, <2>3, <1>1
  <1>4. ASSUME NEW r \in Requests, Answer(r) \/ Hear(r) \/ GiveUp(r)
        PROVE  TimesPast'
    BY <1>1, <1>4, AnswerMoves
  <1>5. CASE \/ \E d \in DeliveryKeys : Move(d)
             \/ \E m \in ManagementKeys : Revoke(m)
             \/ Tick \/ UNCHANGED vars
    <2>1. UNCHANGED job /\ (clock' = clock \/ clock' = clock + 1)
      BY <1>5, Zenon DEF Move, Revoke, Tick, vars, deliveryVars
    <2>2. QED
      BY <2>1, <1>1
  <1>6. QED
    BY <1>2, <1>3, <1>4, <1>5 DEF DeliveryNext, Homeserver

\* The lease invariant, with what it rests on.
Exclusive == EntriesUnique /\ TimesPast /\ LeaseKept

LEMMA InitExclusive == DeliveryInit => Exclusive
  <1>1. SUFFICES ASSUME DeliveryInit PROVE Exclusive
    OBVIOUS
  <1>2. /\ deliveries = {} /\ clock = 0
        /\ \A r \in Requests, d \in DeliveryKeys :
               job[r][d].at = "idle" /\ job[r][d].time = 0
    BY <1>1 DEF DeliveryInit, Idle
  <1>3. EntriesUnique /\ TimesPast
    BY <1>2 DEF EntriesUnique, TimesPast
  <1>4. LeaseKept
    BY <1>2 DEF LeaseKept, Leased, Sole, Backed, Fresh, Attempting, UnderWay
  <1>5. QED
    BY <1>3, <1>4 DEF Exclusive

LEMMA StepExclusive ==
    DeliveryTyped /\ Keyed /\ Exclusive /\ [DeliveryNext]_vars => Exclusive'
  <1>1. SUFFICES ASSUME DeliveryTyped, Keyed, Exclusive, [DeliveryNext]_vars
                 PROVE  Exclusive'
    OBVIOUS
  <1>2. EntriesUnique' /\ TimesPast'
    BY <1>1, EntriesStayUnique, TimesStayPast DEF Exclusive
  <1>3. SUFFICES ASSUME NEW d \in DeliveryKeys, NEW x \in Events, ~Lapsed(d, x)'
                 PROVE  Leased(d, x)'
    BY <1>2 DEF Exclusive, LeaseKept
  <1>4. ~Lapsed(d, x)
    BY <1>1, <1>3, ExcusesGrow DEF Lapsed
  <1>5. Leased(d, x) /\ EntriesUnique /\ TimesPast
    BY <1>1, <1>4 DEF Exclusive, LeaseKept
  <1>6. ASSUME NEW r \in Requests, NEW c \in DeliveryKeys, Deliver(r, c) \/ Die(r, c)
        PROVE  Leased(d, x)'
    <2>1. CASE d # c \/ x # request[r].event
      BY <1>1, <1>3, <1>5, <1>6, <2>1, LeaseElsewhere
    <2>2. CASE d = c /\ x = request[r].event
      BY <1>1, <1>3, <1>5, <1>6, <2>2, LeaseHere
    <2>3. QED
      BY <2>1, <2>2
  <1>7. QED
    BY <1>1, <1>3, <1>5, <1>6, LeaseOthers

\* While the lease lasts one attempt at a time sends an event to a device,
\* for any number of overlapping requests, devices and events.
THEOREM OneAttempt == DeliverySpec => []LeaseExclusive
  <1>1. Exclusive => LeaseExclusive
    <2>1. SUFFICES ASSUME Exclusive, NEW d \in DeliveryKeys, NEW x \in Events,
                          NEW r \in Requests, NEW q \in Requests, r # q,
                          Holds(r, d, x), Holds(q, d, x)
                   PROVE  Lapsed(d, x)
      BY DEF LeaseExclusive, Lapsed
    <2>2. Attempting(r, d, x) /\ Attempting(q, d, x)
      BY <2>1 DEF Holds, Attempting
    <2>3. QED
      BY <2>1, <2>2 DEF Exclusive, LeaseKept, Leased, Sole
  <1>2. QED
    BY <1>1, DeliveryInitTyped, DeliveryStep, DeliveryKeepsKeyed, InitExclusive,
       StepExclusive, PTL DEF DeliverySpec

-----------------------------------------------------------------------------
(* Duplicates *)

\* Excuses for a second message.
Repeatable(d, x) ==
    excused[d][x] \intersect {"unrecorded", "outlived", "purged", "unregistered"} # {}

Marking(r, d, x) == request[r].event = x /\ job[r][d].at = "mark"
Sending(r, d, x) == request[r].event = x /\ job[r][d].at \in {"budget", "send"}
SentEntry(d, x) == \E y \in Entry(d, x) : y.status = "sent"

\* A message the provider took is recorded, or about to be by the attempt that
\* sent it, and no other attempt is about to send one.
Counted(d, x) ==
    /\ accepted[d][x] <= 1
    /\ accepted[d][x] > 0 => (\E r \in Requests : Marking(r, d, x)) \/ SentEntry(d, x)
    /\ \A r \in Requests : Sending(r, d, x) => accepted[d][x] = 0

CountedOnce == \A d \in DeliveryKeys, x \in Events : Repeatable(d, x) \/ Counted(d, x)

\* A step that sends nothing, keeps the record and begins no sending.
LEMMA CountFrame ==
    ASSUME NEW d \in DeliveryKeys, NEW x \in Events, Counted(d, x),
           accepted'[d][x] = accepted[d][x],
           SentEntry(d, x) => SentEntry(d, x)',
           \A r \in Requests :
               /\ Marking(r, d, x) => Marking(r, d, x)' \/ SentEntry(d, x)'
               /\ Sending(r, d, x)' => Sending(r, d, x)
    PROVE  Counted(d, x)'
  BY DEF Counted

\* Only the provider's acceptance counts.
LEMMA AcceptedMoves ==
    ASSUME DeliveryTyped, NEW r \in Requests, NEW c \in DeliveryKeys,
           Deliver(r, c) \/ Die(r, c), NEW d \in DeliveryKeys, NEW x \in Events
    PROVE  \/ accepted'[d][x] = accepted[d][x]
           \/ /\ d = c /\ x = request[r].event
              /\ SendAccepted(r, c) \/ SendAmbiguous(r, c)
              /\ accepted'[d][x] = accepted[d][x] + 1
  <1>1. request[r].event \in Events
    BY DeliverIsJobStep, RunningHasEvent DEF JobStep
  <1>2. CASE Accepts(c, request[r].event) /\ (SendAccepted(r, c) \/ SendAmbiguous(r, c))
    BY <1>1, <1>2 DEF Accepts, DeliveryTyped, DeliveryTypeOK
  <1>3. CASE UNCHANGED accepted
    BY <1>3
  <1>4. QED
    BY <1>2, <1>3
    DEF Deliver, DropInvalid, PassLimit, HitLimit, Claim, Reclaim, AdmitSend, RefuseSend,
        SendAccepted, SendAmbiguous, SendFailed, SendGone, Mark, MarkFails,
        ReleaseClaim, DropGone, Die

\* A job's step leaves the count of every other device and event alone.
LEMMA CountElsewhere ==
    ASSUME DeliveryTyped, NEW r \in Requests, NEW c \in DeliveryKeys,
           Deliver(r, c) \/ Die(r, c),
           NEW d \in DeliveryKeys, NEW x \in Events, ~Repeatable(d, x)', Counted(d, x),
           d # c \/ x # request[r].event
    PROVE  Counted(d, x)'
  <1>1. Entry(d, x)' = Entry(d, x)
    BY EntryElsewhere DEF Repeatable, Lapsed
  <1>2. PICK new \in Job : Becomes(r, c, new)
    BY DeliverIsJobStep DEF JobStep
  <1>3. request' = request /\ DeliveryTypeOK
    BY DeliverIsJobStep DEF JobStep, DeliveryTyped
  <1>4. \A q \in Requests : q # r \/ d # c => job'[q][d] = job[q][d]
    BY <1>2, <1>3, JobMoves
  <1>5. \A q \in Requests : /\ Marking(q, d, x) => Marking(q, d, x)'
                            /\ Sending(q, d, x)' => Sending(q, d, x)
    BY <1>3, <1>4 DEF Marking, Sending
  <1>6. accepted'[d][x] = accepted[d][x]
    BY AcceptedMoves
  <1>7. SentEntry(d, x) => SentEntry(d, x)'
    BY <1>1 DEF SentEntry
  <1>8. QED
    BY <1>5, <1>6, <1>7, CountFrame

\* Nor does it spoil the count of its own: it takes a claim where nothing was
\* sent, and a message that could not be recorded is noted.
LEMMA CountHere ==
    ASSUME DeliveryTyped, EntriesUnique, TimesPast,
           NEW r \in Requests, NEW d \in DeliveryKeys, Deliver(r, d) \/ Die(r, d),
           NEW x \in Events, x = request[r].event,
           ~Repeatable(d, x)', Leased(d, x), Counted(d, x)
    PROVE  Counted(d, x)'
  <1>a. PICK new \in Job : Becomes(r, d, new)
    BY DeliverIsJobStep DEF JobStep
  <1>b. request' = request /\ DeliveryTypeOK /\ deliveries \subseteq Delivery
    BY DeliverIsJobStep DEF JobStep, DeliveryTyped, DeliveryTypeOK, TypeOK
  <1>c. \A q \in Requests : q # r => job'[q][d] = job[q][d]
    BY <1>a, <1>b, JobMoves
  <1>d. \A q \in Requests : q # r => /\ Marking(q, d, x) => Marking(q, d, x)'
                                     /\ Sending(q, d, x)' => Sending(q, d, x)
    BY <1>b, <1>c DEF Marking, Sending
  <1>e. accepted[d][x] \in Nat
    BY <1>b DEF DeliveryTypeOK
  <1>f. ~Excused(d, x, "unrecorded")
    <2>1. Excused(d, x, "unrecorded") => "unrecorded" \in excused'[d][x]
      BY <1>b DEF Excused, DeliveryTypeOK
    <2>2. QED
      BY <2>1 DEF Repeatable
  \* Steps of an attempt that is not at the mark and sends nothing.
  <1>1. ASSUME accepted'[d][x] = accepted[d][x],
               SentEntry(d, x) => SentEntry(d, x)',
               Marking(r, d, x) => SentEntry(d, x)',
               Sending(r, d, x)' => Sending(r, d, x)
        PROVE  Counted(d, x)'
    BY <1>1, <1>d, CountFrame
  \* Steps that take a claim.
  <1>2. ASSUME accepted'[d][x] = accepted[d][x],
               \A q \in Requests : ~Attempting(q, d, x), ~SentEntry(d, x)
        PROVE  Counted(d, x)'
    <2>1. \A q \in Requests : ~Marking(q, d, x)
      BY <1>2 DEF Marking, Attempting
    <2>2. accepted[d][x] = 0
      BY <1>2, <2>1, <1>e DEF Counted
    <2>3. QED
      BY <1>2, <2>2 DEF Counted
  <1>3. \A result : Ends(r, d, result) => job'[r][d].at = "done"
    BY <1>b, JobFields
  <1>4. \A at : Goes(r, d, at) => job'[r][d].at = at
    BY <1>b, JobFields
  <1>5. deliveries' = deliveries => (SentEntry(d, x) => SentEntry(d, x)')
    BY DEF SentEntry, Entry
  <1>6. CASE DropInvalid(r, d) \/ DropGone(r, d)
    <2>1. /\ deliveries' = deliveries \ DeliveriesFor(Snapshot(r, d))
          /\ Unregistered(Snapshot(r, d)) /\ accepted' = accepted
      BY <1>6 DEF DropInvalid, DropGone, DropIfCurrent, Snapshot
    <2>2. Snapshot(r, d) \in SUBSET subs
      BY DEF Snapshot, Current, RowsOf
    <2>3. Entry(d, x)' = Entry(d, x)
      BY <2>1, <2>2, RemovedWithRow DEF Repeatable, Lapsed
    <2>4. ~Marking(r, d, x) /\ ~Sending(r, d, x)'
      BY <1>3, <1>4, <1>6 DEF DropInvalid, DropGone, Marking, Sending
    <2>5. QED
      BY <2>1, <2>3, <2>4, <1>1 DEF SentEntry
  <1>7. CASE HitLimit(r, d) \/ PassLimit(r, d)
    <2>1. deliveries' = deliveries /\ accepted' = accepted /\ ~Marking(r, d, x)
      BY <1>7 DEF HitLimit, PassLimit, storeVars, Marking
    <2>2. job'[r][d].at \in {"done", "claim"}
      BY <1>3, <1>7, <1>b DEF HitLimit, PassLimit, DeliveryTypeOK, Job
    <2>3. QED
      BY <2>1, <2>2, <1>1, <1>5 DEF Sending
  <1>8. CASE Claim(r, d)
    <2>1. accepted' = accepted /\ ~Marking(r, d, x)
      BY <1>8 DEF Claim, Marking
    <2>2. CASE Entry(d, x) # {}
      <3>1. deliveries' = deliveries /\ job'[r][d].at = "reclaim"
        BY <1>4, <1>8, <2>2 DEF Claim, ClaimInsert
      <3>2. QED
        BY <3>1, <2>1, <1>1, <1>5 DEF Sending
    <2>3. CASE Entry(d, x) = {}
      BY <2>1, <2>3, <1>2 DEF Leased, Backed, SentEntry
    <2>4. QED
      BY <2>2, <2>3
  <1>9. CASE Reclaim(r, d)
    <2> DEFINE now   == job[r][d].time
               stale == StaleClaims(d, x, now)
    <2>1. accepted' = accepted /\ ~Marking(r, d, x)
      BY <1>9 DEF Reclaim, Marking
    <2>2. CASE stale = {}
      <3>1. deliveries' = deliveries /\ job'[r][d].at = "done"
        BY <1>3, <1>9, <2>2 DEF Reclaim, ClaimStale, Touched
      <3>2. QED
        BY <3>1, <2>1, <1>1, <1>5 DEF Sending
    <2>3. CASE stale # {}
      <3>1. PICK y \in Entry(d, x) : y.status = "pending" /\ y.updatedAt <= now - StaleAfter
        BY <2>3 DEF StaleClaims
      <3>2. ~SentEntry(d, x)
        BY <3>1 DEF SentEntry, EntriesUnique, Entry
      <3>3. \A q \in Requests : ~Attempting(q, d, x)
        <4>1. SUFFICES ASSUME NEW q \in Requests, Attempting(q, d, x) PROVE FALSE
          OBVIOUS
        <4>2. y.updatedAt = job[q][d].time
          BY <4>1, <3>1 DEF Leased, Backed
        <4>3. job[q][d].time > clock - StaleAfter
          BY <4>1 DEF Leased, Fresh, Attempting, UnderWay
        <4>4. /\ y.updatedAt \in Int /\ clock \in Int /\ StaleAfter \in Int
              /\ now \in Int /\ now <= clock
          <5>1. y \in Delivery /\ clock \in 0..MaxClock /\ job[r][d] \in Job
            BY <1>b DEF Entry, DeliveryTypeOK
          <5>2. y.updatedAt \in Nat /\ now \in 0..MaxClock
            BY <5>1 DEF Delivery, Job
          <5>3. QED
            BY <5>1, <5>2, ClockAssumption, TimeAssumption DEF TimesPast
        <4>5. QED
          BY <4>2, <4>3, <4>4, <3>1
      <3>4. QED
        BY <2>1, <3>2, <3>3, <1>2
    <2>4. QED
      BY <2>2, <2>3
  <1>10. CASE AdmitSend(r, d) \/ RefuseSend(r, d) \/ SendFailed(r, d) \/ SendGone(r, d)
    <2>1. /\ deliveries' = deliveries /\ accepted' = accepted
          /\ ~Marking(r, d, x) /\ Sending(r, d, x)
      BY <1>10 DEF AdmitSend, RefuseSend, SendFailed, SendGone, storeVars, Marking, Sending
    <2>2. QED
      BY <2>1, <1>1, <1>5
  <1>11. CASE SendAccepted(r, d)
    <2>1. deliveries' = deliveries /\ Sending(r, d, x) /\ Attempting(r, d, x)
      BY <1>11 DEF SendAccepted, storeVars, Sending, Attempting
    <2>2. job'[r][d].at = "mark"
      BY <1>4, <1>11 DEF SendAccepted
    <2>3. accepted[d][x] = 0
      BY <2>1 DEF Counted
    <2>4. accepted'[d][x] = 1
      BY <2>3, <1>11, <1>b DEF SendAccepted, Accepts, DeliveryTypeOK
    <2>5. Marking(r, d, x)'
      BY <2>2, <1>b DEF Marking
    <2>6. \A q \in Requests : ~Sending(q, d, x)'
      <3>1. \A q \in Requests : q # r => ~Sending(q, d, x)
        BY <2>1 DEF Leased, Sole, Sending, Attempting
      <3>2. QED
        BY <3>1, <2>2, <1>d DEF Sending
    <2>7. QED
      BY <2>4, <2>5, <2>6 DEF Counted
  <1>12. CASE SendAmbiguous(r, d) \/ MarkFails(r, d)
    BY <1>12, <1>f DEF SendAmbiguous, MarkFails
  <1>13. CASE Mark(r, d)
    <2>1. Snapshot(r, d) # {} /\ Ends(r, d, "sent") /\ accepted' = accepted
      BY <1>13, <1>f DEF Mark
    <2>2. deliveries' = Touched(Entry(d, x), "sent", job[r][d].time)
      BY <1>13, <2>1 DEF Mark, MarkIfCurrent, Snapshot
    <2>3. /\ \A t \in Entry(d, x)' :
                 \/ t \in Entry(d, x) \ Entry(d, x)
                 \/ t.status = "sent" /\ t.updatedAt = job[r][d].time
          /\ Entry(d, x) # {} => Entry(d, x)' # {}
      BY <2>2, <1>b, TouchedEntries
    <2>4. Entry(d, x) # {}
      BY <1>13 DEF Mark, Leased, Backed, Attempting
    <2>5. SentEntry(d, x)'
      BY <2>3, <2>4 DEF SentEntry
    <2>6. ~Sending(r, d, x)'
      BY <2>1, <1>3 DEF Sending
    <2>7. QED
      BY <2>1, <2>5, <2>6, <1>1
  <1>14. CASE ReleaseClaim(r, d)
    <2>1. /\ accepted' = accepted /\ ~Marking(r, d, x) /\ Ends(r, d, "transient")
          /\ deliveries' = deliveries \ {y \in Entry(d, x) : y.status = "pending"}
      BY <1>14 DEF ReleaseClaim, Release, Marking
    <2>2. SentEntry(d, x) => SentEntry(d, x)'
      BY <2>1 DEF SentEntry, Entry
    <2>3. ~Sending(r, d, x)'
      BY <2>1, <1>3 DEF Sending
    <2>4. QED
      BY <2>1, <2>2, <2>3, <1>1
  <1>15. CASE Die(r, d)
    <2>1. /\ accepted' = accepted /\ deliveries' = deliveries
          /\ job'[r][d].at = "dead" /\ ~Marking(r, d, x)
      BY <1>4, <1>15, <1>f DEF Die, storeVars, Marking
    <2>2. QED
      BY <2>1, <1>1, <1>5 DEF Sending
  <1>16. QED
    BY <1>6, <1>7, <1>8, <1>9, <1>10, <1>11, <1>12, <1>13, <1>14, <1>15 DEF Deliver

\* The other steps send nothing and keep what is recorded.
LEMMA CountOthers ==
    ASSUME DeliveryTyped, Keyed, EntriesUnique, [DeliveryNext]_vars,
           \A r \in Requests, d \in DeliveryKeys : ~Deliver(r, d) /\ ~Die(r, d),
           NEW d \in DeliveryKeys, NEW x \in Events, ~Repeatable(d, x)', Counted(d, x)
    PROVE  Counted(d, x)'
  <1>1. Entry(d, x)' = Entry(d, x)
    BY EntryKeptByOthers DEF Repeatable, Lapsed
  <1>2. \A r \in Requests :
            /\ UnderWay(r, d, x)' => UnderWay(r, d, x) /\ job'[r][d] = job[r][d]
            /\ UnderWay(r, d, x) => request'[r].event = x /\ job'[r][d] = job[r][d]
    BY JobsKeptByOthers
  <1>3. \A r \in Requests : /\ Marking(r, d, x) => Marking(r, d, x)'
                            /\ Sending(r, d, x)' => Sending(r, d, x)
    BY <1>2 DEF Marking, Sending, UnderWay
  <1>4. UNCHANGED accepted
    BY Zenon DEF DeliveryNext, Homeserver, Notify, Hear, GiveUp, Answer, AdmitCall,
       RefuseCall, Purge, Sweep, Fail, Move, Revoke, Tick, vars, deliveryVars
  <1>5. QED
    BY <1>1, <1>3, <1>4, CountFrame DEF SentEntry

LEMMA InitCounted == DeliveryInit => CountedOnce
  <1>1. SUFFICES ASSUME DeliveryInit PROVE CountedOnce
    OBVIOUS
  <1>2. \A d \in DeliveryKeys, x \in Events : accepted[d][x] = 0
    BY <1>1 DEF DeliveryInit
  <1>3. QED
    BY <1>2 DEF CountedOnce, Counted

LEMMA StepCounted ==
    DeliveryTyped /\ Keyed /\ Exclusive /\ CountedOnce /\ [DeliveryNext]_vars => CountedOnce'
  <1>1. SUFFICES ASSUME DeliveryTyped, Keyed, Exclusive, CountedOnce, [DeliveryNext]_vars,
                        NEW d \in DeliveryKeys, NEW x \in Events, ~Repeatable(d, x)'
                 PROVE  Counted(d, x)'
    BY DEF CountedOnce
  <1>2. ~Repeatable(d, x)
    BY <1>1, ExcusesGrow DEF Repeatable
  <1>3. Counted(d, x) /\ Leased(d, x) /\ EntriesUnique /\ TimesPast
    BY <1>1, <1>2 DEF CountedOnce, Exclusive, LeaseKept, Repeatable, Lapsed
  <1>4. ASSUME NEW r \in Requests, NEW c \in DeliveryKeys, Deliver(r, c) \/ Die(r, c)
        PROVE  Counted(d, x)'
    <2>1. CASE d # c \/ x # request[r].event
      BY <1>1, <1>3, <1>4, <2>1, CountElsewhere
    <2>2. CASE d = c /\ x = request[r].event
      BY <1>1, <1>3, <1>4, <2>2, CountHere
    <2>3. QED
      BY <2>1, <2>2
  <1>5. QED
    BY <1>1, <1>3, <1>4, CountOthers

\* "Delivery is deduplicated by capability hash and event ID" (ADR-0008), but
\* for the exceptions DuplicateExplained names.
THEOREM Deduplicated == DeliverySpec => []DuplicateExplained
  <1>1. CountedOnce /\ DeliveryTypeOK => DuplicateExplained
    BY DEF CountedOnce, Counted, DuplicateExplained, Repeatable, DeliveryTypeOK
  <1>2. DeliveryTyped => DeliveryTypeOK
    BY DEF DeliveryTyped
  <1>3. QED
    BY <1>1, <1>2, DeliveryInitTyped, DeliveryStep, DeliveryKeepsKeyed, InitExclusive,
       StepExclusive, InitCounted, StepCounted, PTL DEF DeliverySpec

-----------------------------------------------------------------------------
(* Answers *)

\* A device without a row has lost it for a reason.
LossNoted ==
    \A d \in DeliveryKeys, x \in Events : RowsOf(d) = {} => "unregistered" \in excused[d][x]

SentMeansAccepted ==
    \A y \in deliveries : y.status = "sent" => accepted[y.delivery][y.event] > 0

\* What a job knows, as far as it has come.
JobAccounted(r, d) ==
    /\ job[r][d].at = "mark" => accepted[d][request[r].event] > 0
    /\ job[r][d].at = "reclaim" => Explained(d, request[r].event)
    /\ job[r][d].at = "done" =>
           /\ job[r][d].result # "none"
           /\ job[r][d].result # "transient" => Explained(d, request[r].event)

JobsAccounted == \A r \in Requests, d \in DeliveryKeys : JobAccounted(r, d)

RequestAccounted(r) ==
    /\ request[r].at = "unused" => request[r].status = 0
    /\ request[r].at = "sweep" => \A d \in DeliveryKeys : job[r][d].at = "done"
    /\ request[r].status = 200 => \A d \in DeliveryKeys : Explained(d, request[r].event)

RequestsAccounted == \A r \in Requests : RequestAccounted(r)

Accounted ==
    LossNoted /\ SentMeansAccepted /\ JobsAccounted /\ RequestsAccounted /\ AckExplained

\* Deliveries and excuses are history, so that an explanation stays one.
LEMMA ExplainedStays ==
    ASSUME DeliveryTyped, [DeliveryNext]_vars, NEW d \in DeliveryKeys, NEW x \in Events
    PROVE  /\ accepted[d][x] > 0 => accepted'[d][x] > 0
           /\ Explained(d, x) => Explained(d, x)'
  <1>1. accepted[d][x] \in Nat
    BY DEF DeliveryTyped, DeliveryTypeOK
  <1>2. accepted'[d][x] = accepted[d][x] \/ accepted'[d][x] = accepted[d][x] + 1
    <2>1. ASSUME NEW r \in Requests, NEW c \in DeliveryKeys, Deliver(r, c) \/ Die(r, c)
          PROVE  accepted'[d][x] = accepted[d][x] \/ accepted'[d][x] = accepted[d][x] + 1
      BY <2>1, AcceptedMoves
    <2>2. CASE UNCHANGED accepted
      BY <2>2
    <2>3. QED
      BY <2>1, <2>2, Zenon
      DEF DeliveryNext, Homeserver, Notify, Hear, GiveUp, Answer, AdmitCall,
          RefuseCall, Purge, Sweep, Fail, Move, Revoke, Tick, vars, deliveryVars
  <1>3. accepted[d][x] > 0 => accepted'[d][x] > 0
    BY <1>1, <1>2
  <1>4. QED
    BY <1>3, ExcusesGrow DEF Explained

\* A device's row goes only with a note of it.
LEMMA StepNotesLoss ==
    ASSUME DeliveryTyped, LossNoted, [DeliveryNext]_vars
    PROVE  LossNoted'
  <1>1. SUFFICES ASSUME NEW d \in DeliveryKeys, NEW x \in Events, RowsOf(d)' = {}
                 PROVE  "unregistered" \in excused'[d][x]
    BY DEF LossNoted
  <1>2. CASE RowsOf(d) = {}
    BY <1>2, ExcusesGrow DEF LossNoted
  <1>3. CASE RowsOf(d) # {}
    <2>1. PICK s \in subs : s.delivery = d
      BY <1>3 DEF RowsOf
    <2>2. \A t \in subs' : t.delivery # d
      BY <1>1 DEF RowsOf
    <2>3. ASSUME NEW rows, subs' = subs \ rows, Unregistered(rows)
          PROVE  "unregistered" \in excused'[d][x]
      BY <2>1, <2>2, <2>3 DEF Unregistered
    <2>4. subs' # subs
      BY <2>1, <2>2
    <2>5. ASSUME NEW r \in Requests, NEW c \in DeliveryKeys, Deliver(r, c) \/ Die(r, c)
          PROVE  "unregistered" \in excused'[d][x]
      <3>1. CASE DropInvalid(r, c) \/ DropGone(r, c)
        BY <3>1, <2>3 DEF DropInvalid, DropGone, DropIfCurrent, Snapshot
      <3>2. CASE Mark(r, c) \/ MarkFails(r, c)
        <4> DEFINE rows == Snapshot(r, c)
                   moved == [s EXCEPT !.updatedAt = job[r][c].time]
        <4>1. subs' = (subs \ rows) \union
                          {[t EXCEPT !.updatedAt = job[r][c].time] : t \in rows}
          BY <3>2, <2>4 DEF Mark, MarkFails, MarkIfCurrent, Snapshot, storeVars
        <4>2. s \in subs' \/ moved \in subs'
          BY <4>1
        <4>3. moved.delivery = d
          BY <2>1 DEF DeliveryTyped, DeliveryTypeOK, TypeOK, Subscription
        <4>4. QED
          BY <4>2, <4>3, <2>1, <2>2
      <3>3. CASE subs' = subs
        BY <3>3, <2>4
      <3>4. QED
        BY <2>5, <3>1, <3>2, <3>3
        DEF Deliver, PassLimit, HitLimit, Claim, ClaimInsert, Reclaim, ClaimStale,
            AdmitSend, RefuseSend, SendAccepted, SendAmbiguous, SendFailed, SendGone,
            ReleaseClaim, Release, Die, storeVars, registry
    <2>6. ASSUME NEW r \in Requests, Sweep(r)
          PROVE  "unregistered" \in excused'[d][x]
      BY <2>1, <2>2, <2>6 DEF Sweep, Unregistered
    <2>7. ASSUME NEW c \in DeliveryKeys, Move(c)
          PROVE  "unregistered" \in excused'[d][x]
      BY <2>1, <2>2, <2>7 DEF Move, Unregistered
    <2>8. ASSUME NEW m \in ManagementKeys, Revoke(m)
          PROVE  "unregistered" \in excused'[d][x]
      BY <2>1, <2>2, <2>8 DEF Revoke, Unregistered
    <2>9. ASSUME NEW r \in Requests, Purge(r)
          PROVE  subs' = subs
      BY <2>9, Zenon DEF Purge, CleanupDeliveries, registry, storeVars
    <2>10. QED
      BY <2>4, <2>5, <2>6, <2>7, <2>8, <2>9, Zenon
      DEF DeliveryNext, Homeserver, Notify, Hear, GiveUp, Answer, AdmitCall,
          RefuseCall, Fail, Tick, vars, storeVars
  <1>4. QED
    BY <1>2, <1>3

\* Only a message the provider took is recorded as sent.
LEMMA StepSentMeansAccepted ==
    ASSUME DeliveryTyped, SentMeansAccepted, JobsAccounted, [DeliveryNext]_vars
    PROVE  SentMeansAccepted'
  <1>a. deliveries \subseteq Delivery /\ DeliveryTypeOK
    BY DEF DeliveryTyped, DeliveryTypeOK, TypeOK
  <1>1. SUFFICES ASSUME NEW y \in deliveries', y.status = "sent"
                 PROVE  accepted'[y.delivery][y.event] > 0
    BY DEF SentMeansAccepted
  <1>2. CASE y \in deliveries
    <2>1. y.delivery \in DeliveryKeys /\ y.event \in Events
      BY <1>a, <1>2 DEF Delivery
    <2>2. accepted[y.delivery][y.event] > 0
      BY <1>1, <1>2 DEF SentMeansAccepted
    <2>3. QED
      BY <2>1, <2>2, ExplainedStays
  <1>3. CASE y \notin deliveries
    <2>1. ASSUME NEW r \in Requests, NEW d \in DeliveryKeys, Deliver(r, d) \/ Die(r, d)
          PROVE  accepted'[y.delivery][y.event] > 0
      <3>1. CASE Mark(r, d) \/ MarkFails(r, d)
        <4>1. deliveries' = Touched(Entry(d, request[r].event), "sent", job[r][d].time)
          BY <1>3, <3>1 DEF Mark, MarkFails, MarkIfCurrent, storeVars
        <4>2. y.delivery = d /\ y.event = request[r].event
          BY <4>1, <1>3, <1>a DEF Touched, Entry, Delivery
        <4>3. accepted[d][request[r].event] > 0 /\ accepted' = accepted
          BY <3>1 DEF Mark, MarkFails, JobsAccounted, JobAccounted
        <4>4. QED
          BY <4>2, <4>3
      <3>2. CASE Claim(r, d)
        BY <1>1, <1>3, <3>2 DEF Claim, ClaimInsert
      <3>3. CASE Reclaim(r, d)
        <4>1. deliveries' = Touched(StaleClaims(d, request[r].event, job[r][d].time),
                                    "pending", job[r][d].time)
          BY <3>3 DEF Reclaim, ClaimStale
        <4>2. y.status = "pending"
          BY <4>1, <1>3, <1>a DEF Touched, StaleClaims, Entry, Delivery
        <4>3. QED
          BY <4>2, <1>1
      <3>4. CASE deliveries' \subseteq deliveries
        BY <1>3, <3>4
      <3>5. CASE DropInvalid(r, d) \/ DropGone(r, d) \/ ReleaseClaim(r, d)
        <4>1. deliveries' \subseteq deliveries
          BY <3>5, Zenon DEF DropInvalid, DropGone, DropIfCurrent, ReleaseClaim, Release
        <4>2. QED
          BY <4>1, <3>4
      <3>6. CASE UNCHANGED storeVars
        BY <3>6, <3>4 DEF storeVars
      <3>7. QED
        BY <2>1, <3>1, <3>2, <3>3, <3>5, <3>6
        DEF Deliver, PassLimit, HitLimit, AdmitSend, RefuseSend, SendAccepted,
            SendAmbiguous, SendFailed, SendGone, Die
    <2>2. ASSUME \A r \in Requests, d \in DeliveryKeys : ~Deliver(r, d) /\ ~Die(r, d)
          PROVE  deliveries' \subseteq deliveries
      <3>1. ASSUME NEW r, Homeserver(r) \/ Answer(r)
            PROVE  deliveries' \subseteq deliveries
        BY <3>1, Zenon
        DEF Homeserver, Notify, Hear, GiveUp, Answer, AdmitCall, RefuseCall, Purge, Sweep,
            Fail, CleanupDeliveries, CleanupSubscriptions, storeVars
      <3>2. ASSUME NEW d, Move(d)
            PROVE  deliveries' \subseteq deliveries
        BY <3>2, Zenon DEF Move, BeginActive
      <3>3. ASSUME NEW m, Revoke(m)
            PROVE  deliveries' \subseteq deliveries
        BY <3>3, Zenon DEF Revoke, DeleteRemoved
      <3>4. CASE Tick \/ UNCHANGED vars
        BY <3>4, Zenon DEF Tick, vars, storeVars
      <3>5. QED
        BY <2>2, <3>1, <3>2, <3>3, <3>4, Zenon DEF DeliveryNext
    <2>3. QED
      BY <2>1, <2>2, <1>3
  <1>4. QED
    BY <1>2, <1>3

\* A job that found its claim taken, was limited, lost its device or got the
\* message accepted can say so.
LEMMA DeliverAccounted ==
    ASSUME DeliveryTyped, SentMeansAccepted,
           NEW r \in Requests, NEW d \in DeliveryKeys, Deliver(r, d) \/ Die(r, d),
           JobAccounted(r, d)
    PROVE  JobAccounted(r, d)'
  <1>a. request' = request /\ DeliveryTypeOK
    BY DeliverIsJobStep DEF JobStep, DeliveryTyped
  <1>b. request[r].event \in Events
    BY DeliverIsJobStep, RunningHasEvent DEF JobStep
  <1>c. PICK x \in Events : x = request[r].event
    BY <1>b
  <1>d. [DeliveryNext]_vars
    BY DEF DeliveryNext
  <1>1. /\ accepted[d][x] > 0 => accepted'[d][x] > 0
        /\ Explained(d, x) => Explained(d, x)'
    BY <1>d, ExplainedStays
  <1>2. SUFFICES /\ job'[r][d].at = "mark" => accepted'[d][x] > 0
                 /\ job'[r][d].at = "reclaim" => Explained(d, x)'
                 /\ job'[r][d].at = "done" =>
                        /\ job'[r][d].result # "none"
                        /\ job'[r][d].result # "transient" => Explained(d, x)'
    BY <1>a, <1>c DEF JobAccounted
  <1>3. /\ \A at : Goes(r, d, at) => job'[r][d].at = at
        /\ \A result : Ends(r, d, result) =>
               job'[r][d].at = "done" /\ job'[r][d].result = result
    BY <1>a, JobFields
  <1>4. ASSUME NEW why \in {"limited", "overlapped"}, Excused(d, x, why)
        PROVE  Explained(d, x)'
    <2>1. why \in excused'[d][x]
      BY <1>4, <1>a DEF Excused, DeliveryTypeOK
    <2>2. QED
      BY <2>1 DEF Explained
  <1>5. ASSUME NEW rows, NEW s \in rows, s.delivery = d, Unregistered(rows)
        PROVE  Explained(d, x)'
    BY <1>5 DEF Unregistered, Explained
  <1>6. \A s \in Snapshot(r, d) : s.delivery = d
    BY DEF Snapshot, Current, RowsOf
  <1>7. CASE DropInvalid(r, d) \/ DropGone(r, d)
    <2>1. CASE Snapshot(r, d) # {}
      BY <1>7, <2>1, <1>3, <1>5, <1>6 DEF DropInvalid, DropGone
    <2>2. CASE Snapshot(r, d) = {}
      BY <1>7, <2>2, <1>3 DEF DropInvalid, DropGone
    <2>3. QED
      BY <2>1, <2>2
  <1>8. CASE PassLimit(r, d)
    <2>1. job'[r][d].at = "claim"
      BY <1>8, <1>a DEF PassLimit, DeliveryTypeOK, Job
    <2>2. QED
      BY <2>1
  <1>9. CASE HitLimit(r, d)
    BY <1>9, <1>c, <1>3, <1>4 DEF HitLimit
  <1>10. CASE Claim(r, d)
    <2>1. CASE Entry(d, x) = {}
      BY <1>10, <2>1, <1>c, <1>3 DEF Claim
    <2>2. CASE Entry(d, x) # {}
      <3>1. PICK y \in Entry(d, x) : TRUE
        BY <2>2
      <3>2. y \in deliveries /\ y.delivery = d /\ y.event = x /\ y \in Delivery
        BY <3>1, <1>a DEF Entry, DeliveryTypeOK, TypeOK
      <3>3. job'[r][d].at = "reclaim"
        BY <1>10, <2>2, <1>c, <1>3 DEF Claim
      <3>4. CASE y.status = "pending"
        <4>1. Excused(d, x, "overlapped")
          BY <1>10, <1>c, <3>1, <3>4 DEF Claim, NotesOverlap
        <4>2. QED
          BY <4>1, <3>3, <1>4
      <3>5. CASE y.status = "sent"
        <4>1. accepted[d][x] > 0
          BY <3>2, <3>5 DEF SentMeansAccepted
        <4>2. Explained(d, x)
          BY <4>1 DEF Explained
        <4>3. QED
          BY <4>2, <3>3, <1>1
      <3>6. QED
        BY <3>2, <3>4, <3>5 DEF Delivery
    <2>3. QED
      BY <2>1, <2>2
  <1>11. CASE Reclaim(r, d)
    <2>1. Explained(d, x)
      BY <1>11, <1>c DEF Reclaim, JobAccounted
    <2>2. Explained(d, x)'
      BY <2>1, <1>1
    <2>3. \/ job'[r][d].at = "budget"
          \/ job'[r][d].at = "done" /\ job'[r][d].result = "suppressed"
      BY <1>11, <1>3 DEF Reclaim
    <2>4. QED
      BY <2>2, <2>3
  <1>12. CASE \/ AdmitSend(r, d) \/ RefuseSend(r, d) \/ SendAmbiguous(r, d)
              \/ SendFailed(r, d) \/ SendGone(r, d) \/ MarkFails(r, d) \/ Die(r, d)
    <2>1. \E at \in {"send", "release", "drop", "dead"} : Goes(r, d, at)
      BY <1>12 DEF AdmitSend, RefuseSend, SendAmbiguous, SendFailed, SendGone, MarkFails, Die
    <2>2. QED
      BY <2>1, <1>3
  <1>13. CASE SendAccepted(r, d)
    <2>1. accepted'[d][x] = accepted[d][x] + 1 /\ accepted[d][x] \in Nat
      BY <1>13, <1>a, <1>c DEF SendAccepted, Accepts, DeliveryTypeOK
    <2>2. job'[r][d].at = "mark"
      BY <1>13, <1>3 DEF SendAccepted
    <2>3. QED
      BY <2>1, <2>2
  <1>14. CASE Mark(r, d)
    <2>1. accepted[d][x] > 0
      BY <1>14, <1>c DEF Mark, JobAccounted
    <2>2. Explained(d, x)'
      BY <2>1, <1>1 DEF Explained
    <2>3. \/ job'[r][d].at = "done" /\ job'[r][d].result = "sent"
          \/ job'[r][d].at = "release"
      BY <1>14, <1>3 DEF Mark
    <2>4. QED
      BY <2>2, <2>3
  <1>15. CASE ReleaseClaim(r, d)
    BY <1>15, <1>3 DEF ReleaseClaim
  <1>16. QED
    BY <1>7, <1>8, <1>9, <1>10, <1>11, <1>12, <1>13, <1>14, <1>15 DEF Deliver

\* A callback that finds a device without a row finds it excused.
LEMMA NotifyAccounted ==
    ASSUME DeliveryTyped, LossNoted, NEW r \in Requests, NEW x \in Events, Notify(r, x)
    PROVE  /\ \A d \in DeliveryKeys : JobAccounted(r, d)'
           /\ RequestAccounted(r)'
  <1>1. /\ request'[r].at = IF subs = {} THEN "answered" ELSE "budget"
        /\ request'[r].event = x
        /\ request'[r].status = IF subs = {} THEN 200 ELSE 0
        /\ excused' = excused /\ accepted' = accepted
    BY DEF Notify, DeliveryTyped, DeliveryTypeOK
  <1>2. \A d \in DeliveryKeys : RowsOf(d) = {} => Explained(d, x)'
    BY <1>1 DEF LossNoted, Explained
  <1>3. \A d \in DeliveryKeys :
            /\ RowsOf(d) = {} => job'[r][d].at = "done" /\ job'[r][d].result = "rejected"
            /\ RowsOf(d) # {} => job'[r][d].at = "check"
    BY DEF Notify, DeliveryTyped, DeliveryTypeOK, Idle
  <1>4. \A d \in DeliveryKeys : JobAccounted(r, d)'
    BY <1>1, <1>2, <1>3 DEF JobAccounted
  <1>5. subs = {} => \A d \in DeliveryKeys : RowsOf(d) = {}
    BY DEF RowsOf
  <1>6. RequestAccounted(r)'
    BY <1>1, <1>2, <1>5 DEF RequestAccounted
  <1>7. QED
    BY <1>4, <1>6

\* A request is told 200 when all its jobs are done and none is transient.
LEMMA AnswerAccounted ==
    ASSUME DeliveryTyped, [DeliveryNext]_vars, JobsAccounted, RequestsAccounted,
           NEW r \in Requests, Answer(r) \/ Hear(r) \/ GiveUp(r)
    PROVE  RequestAccounted(r)'
  <1>a. request \in [Requests -> Request] /\ UNCHANGED job
    BY AnswerMoves DEF DeliveryTyped, DeliveryTypeOK
  <1>b. request[r].event \in Events /\ request'[r].event = request[r].event
    BY AnswerMoves DEF DeliveryTyped, Shaped, DeliveryTypeOK
  <1>u. request'[r].at # "unused"
    BY AnswerMoves, <1>a
  <1>c. PICK x \in Events : x = request[r].event
    BY <1>b
  <1>d. \A d \in DeliveryKeys : Explained(d, x) => Explained(d, x)'
    BY ExplainedStays
  <1>1. SUFFICES /\ request'[r].at = "sweep" => \A d \in DeliveryKeys : job[r][d].at = "done"
                 /\ request'[r].status = 200 => \A d \in DeliveryKeys : Explained(d, x)
    BY <1>a, <1>b, <1>c, <1>d, <1>u DEF RequestAccounted
  <1>2. /\ request[r].at = "sweep" => \A d \in DeliveryKeys : job[r][d].at = "done"
        /\ request[r].status = 200 => \A d \in DeliveryKeys : Explained(d, x)
    BY <1>c DEF RequestsAccounted, RequestAccounted
  <1>3. CASE AdmitCall(r) \/ Hear(r) \/ GiveUp(r)
    <2>1. \/ request' = [request EXCEPT ![r].at = "deliver"]
          \/ request' = [request EXCEPT ![r].heard = TRUE]
      BY <1>3, Zenon DEF AdmitCall, Hear, GiveUp
    <2>2. request[r] \in Request
      BY <1>a
    <2>3. /\ request'[r].status = request[r].status
          /\ request'[r].at \in {"deliver", request[r].at}
      BY <2>1, <2>2, <1>a DEF Request
    <2>4. QED
      BY <2>3, <1>2
  <1>4. CASE RefuseCall(r) \/ Fail(r)
    <2>1. request'[r].at = "answered" /\ request'[r].status \in {502, 503}
      BY <1>4, <1>a DEF RefuseCall, Fail, Answers
    <2>2. QED
      BY <2>1
  <1>5. CASE Purge(r)
    <2>1. \A d \in DeliveryKeys : job[r][d].at = "done"
      BY <1>5, Zenon DEF Purge
    <2>2. request' = [request EXCEPT ![r].at = "sweep"]
      BY <1>5 DEF Purge
    <2>3. request'[r].status = request[r].status
      BY <2>2, <1>a
    <2>4. QED
      BY <2>1, <2>3, <1>2
  <1>6. CASE Sweep(r)
    <2>1. request[r].at = "sweep" /\ Answers(r, Status(r))
      BY <1>6 DEF Sweep
    <2>2. request'[r].at = "answered" /\ request'[r].status = Status(r)
      BY <2>1, <1>a DEF Answers
    <2>3. ASSUME Status(r) = 200, NEW d \in DeliveryKeys
          PROVE  Explained(d, x)
      <3>1. job[r][d].at = "done" /\ job[r][d].result # "transient"
        BY <2>1, <2>3, <1>2 DEF Status
      <3>2. QED
        BY <3>1, <1>c DEF JobsAccounted, JobAccounted
    <2>4. QED
      BY <2>2, <2>3
  <1>7. QED
    BY <1>3, <1>4, <1>5, <1>6 DEF Answer

\* A step leaves what jobs and requests say accounted for.
LEMMA StepAccounted ==
    ASSUME DeliveryTyped, Accounted, [DeliveryNext]_vars
    PROVE  Accounted'
  <1>a. DeliveryTypeOK /\ Shaped
    BY DEF DeliveryTyped
  <1>1. LossNoted' /\ SentMeansAccepted'
    BY StepNotesLoss, StepSentMeansAccepted DEF Accounted
  \* Jobs and requests a step leaves alone stay accounted for.
  <1>2. ASSUME NEW r \in Requests, request'[r].event = request[r].event,
               NEW d \in DeliveryKeys, job'[r][d] = job[r][d]
        PROVE  JobAccounted(r, d)'
    <2>1. CASE request[r].at = "unused"
      <3>1. job'[r][d] = Idle
        BY <1>2, <2>1, <1>a DEF Shaped
      <3>2. QED
        BY <3>1 DEF JobAccounted, Idle
    <2>2. CASE request[r].at # "unused"
      <3>1. PICK x \in Events : x = request[r].event
        BY <2>2, <1>a DEF Shaped
      <3>2. /\ accepted[d][x] > 0 => accepted'[d][x] > 0
            /\ Explained(d, x) => Explained(d, x)'
        BY ExplainedStays
      <3>3. JobAccounted(r, d)
        BY DEF Accounted, JobsAccounted
      <3>4. QED
        BY <3>1, <3>2, <3>3, <1>2 DEF JobAccounted
    <2>3. QED
      BY <2>1, <2>2
  <1>3. ASSUME NEW r \in Requests, request'[r] = request[r],
               \A d \in DeliveryKeys : job[r][d].at = "done" => job'[r][d].at = "done"
        PROVE  RequestAccounted(r)'
    <2>1. RequestAccounted(r)
      BY DEF Accounted, RequestsAccounted
    <2>2. ASSUME request[r].status = 200, NEW d \in DeliveryKeys
          PROVE  Explained(d, request[r].event)'
      <3>1. PICK x \in Events : x = request[r].event
        BY <2>1, <2>2, <1>a DEF RequestAccounted, Shaped
      <3>2. Explained(d, x)
        BY <2>1, <2>2, <3>1 DEF RequestAccounted
      <3>3. Explained(d, x)'
        BY <3>2, ExplainedStays
      <3>4. QED
        BY <3>1, <3>3, <1>3
    <2>3. QED
      BY <2>1, <2>2, <1>3 DEF RequestAccounted
  <1>4. JobsAccounted' /\ RequestsAccounted'
    <2>1. SUFFICES ASSUME NEW r \in Requests
                   PROVE  (\A d \in DeliveryKeys : JobAccounted(r, d)') /\ RequestAccounted(r)'
      BY DEF JobsAccounted, RequestsAccounted
    <2>2. CASE UNCHANGED <<request, job>>
      BY <2>2, <1>2, <1>3
    <2>3. ASSUME NEW q \in Requests, NEW c \in DeliveryKeys, Deliver(q, c) \/ Die(q, c)
          PROVE  (\A d \in DeliveryKeys : JobAccounted(r, d)') /\ RequestAccounted(r)'
      <3>1. Running(q, c) /\ request' = request
        BY <2>3, DeliverIsJobStep DEF JobStep
      <3>2. PICK new \in Job : Becomes(q, c, new)
        BY <2>3, DeliverIsJobStep DEF JobStep
      <3>3. \A p \in Requests, d \in DeliveryKeys : p # q \/ d # c => job'[p][d] = job[p][d]
        BY <3>2, <1>a, JobMoves
      <3>4. JobAccounted(q, c)'
        BY <2>3, DeliverAccounted DEF Accounted, JobsAccounted
      <3>5. \A d \in DeliveryKeys : JobAccounted(r, d)'
        BY <3>1, <3>3, <3>4, <1>2
      <3>6. RequestAccounted(r)'
        BY <3>1, <3>3, <1>3 DEF Running
      <3>7. QED
        BY <3>5, <3>6
    <2>4. ASSUME NEW q \in Requests, NEW x \in Events, Notify(q, x)
          PROVE  (\A d \in DeliveryKeys : JobAccounted(r, d)') /\ RequestAccounted(r)'
      <3>1. CASE q = r
        BY <2>4, <3>1, NotifyAccounted DEF Accounted
      <3>2. CASE q # r
        <4>1. request'[r] = request[r] /\ job'[r] = job[r]
          BY <2>4, <3>2, <1>a DEF Notify, DeliveryTypeOK
        <4>2. QED
          BY <4>1, <1>2, <1>3
      <3>3. QED
        BY <3>1, <3>2
    <2>5. ASSUME NEW q \in Requests, Answer(q) \/ Hear(q) \/ GiveUp(q)
          PROVE  (\A d \in DeliveryKeys : JobAccounted(r, d)') /\ RequestAccounted(r)'
      <3>1. UNCHANGED job /\ request'[r].event = request[r].event
        BY <2>5, AnswerMoves, <1>a DEF DeliveryTypeOK
      <3>2. \A d \in DeliveryKeys : JobAccounted(r, d)'
        BY <3>1, <1>2
      <3>3. CASE q = r
        BY <2>5, <3>2, <3>3, AnswerAccounted DEF Accounted
      <3>4. CASE q # r
        <4>1. request'[r] = request[r]
          BY <2>5, <3>4, AnswerMoves, <1>a DEF DeliveryTypeOK
        <4>2. QED
          BY <3>1, <3>2, <4>1, <1>3
      <3>5. QED
        BY <3>3, <3>4
    <2>6. CASE \/ \E d \in DeliveryKeys : Move(d)
               \/ \E m \in ManagementKeys : Revoke(m)
               \/ Tick \/ UNCHANGED vars
      <3>1. UNCHANGED <<request, job>>
        BY <2>6, Zenon DEF Move, Revoke, Tick, vars, deliveryVars
      <3>2. QED
        BY <3>1, <2>2
    <2>7. QED
      BY <2>3, <2>4, <2>5, <2>6 DEF DeliveryNext, Homeserver
  <1>5. AckExplained'
    <2>1. SUFFICES ASSUME NEW d \in DeliveryKeys, NEW x \in acked'
                   PROVE  Explained(d, x)'
      BY DEF AckExplained
    <2>2. x \in Events
      BY AckedTyped
    <2>3. CASE x \in acked
      BY <2>2, <2>3, ExplainedStays DEF Accounted, AckExplained
    <2>4. CASE x \notin acked
      <3>1. PICK r \in Requests : Hear(r)
        BY <2>4, DeliverIsJobStep, Zenon
        DEF JobStep, DeliveryNext, Homeserver, Notify, GiveUp, Answer, AdmitCall,
            RefuseCall, Purge, Sweep, Fail, Move, Revoke, Tick, vars, deliveryVars
      <3>2. request[r].status = 200 /\ request[r].event = x
        BY <2>4, <3>1 DEF Hear
      <3>3. Explained(d, x)
        BY <3>2 DEF Accounted, RequestsAccounted, RequestAccounted
      <3>4. QED
        BY <2>2, <3>3, ExplainedStays
    <2>5. QED
      BY <2>3, <2>4
  <1>6. QED
    BY <1>1, <1>4, <1>5 DEF Accounted

LEMMA InitAccounted == DeliveryInit => Accounted
  <1>1. SUFFICES ASSUME DeliveryInit PROVE Accounted
    OBVIOUS
  <1>2. /\ {s.delivery : s \in subs} = DeliveryKeys /\ deliveries = {} /\ acked = {}
        /\ \A r \in Requests : request[r].at = "unused" /\ request[r].status = 0
        /\ \A r \in Requests, d \in DeliveryKeys : job[r][d].at = "idle"
    BY <1>1 DEF DeliveryInit, Idle
  <1>3. \A d \in DeliveryKeys : RowsOf(d) # {}
    BY <1>2 DEF RowsOf
  <1>4. QED
    BY <1>2, <1>3 DEF Accounted, LossNoted, SentMeansAccepted, JobsAccounted, JobAccounted,
                      RequestsAccounted, RequestAccounted, AckExplained

\* When the homeserver is told that an event is dealt with, each device got it,
\* is gone, was limited, or another attempt's claim stood in the way.
THEOREM AnswersExplained == DeliverySpec => []AckExplained
  <1>1. Accounted => AckExplained
    BY DEF Accounted
  <1>2. QED
    BY <1>1, DeliveryInitTyped, DeliveryStep, InitAccounted, StepAccounted, PTL
    DEF DeliverySpec

=============================================================================
