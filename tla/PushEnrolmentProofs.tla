------------------------ MODULE PushEnrolmentProofs ------------------------
(***************************************************************************)
(* Theorems about PushEnrolment, for every set of devices, endpoints and   *)
(* calls and every clock.  A step of a call is a statement of PushStore or *)
(* leaves the tables alone; what is added here is what a call carries from *)
(* one statement to the next.                                              *)
(***************************************************************************)
EXTENDS PushEnrolment, PushStoreProofs

UnderWay == {"sweep", "begin", "budget", "cancel", "check", "send", "mark", "drop"}

\* What a call has to look like: under way it carries a subscription, it drops
\* a row only for an endpoint that does not work, and it says that a capability
\* is removed only after its tombstone was written.
Proper(c, lost, tombs) ==
    /\ c.at \in UnderWay =>
           c.device \in DeliveryKeys /\ c.endpoint \in Endpoints /\ c.keys \in Keys
    /\ c.at = "drop" => c.endpoint \in lost \union Distrusted
    /\ c.answer \in {"removed", "not_found"} =>
           c.at = "answered" /\ c.device \in DeliveryKeys /\ Owner[c.device] \in tombs

CallsProper == \A i \in Calls : Proper(call[i], gone, revoked)

EnrolmentTyped == EnrolmentTypeOK /\ FiniteTables /\ CallsProper

LEMMA ProperStays ==
    ASSUME NEW c, NEW lost, NEW lost2, NEW tombs, NEW tombs2,
           lost \subseteq lost2, tombs \subseteq tombs2, Proper(c, lost, tombs)
    PROVE  Proper(c, lost2, tombs2)
  BY DEF Proper

\* Tombstones are never removed.
LEMMA TombstonesStay ==
    ASSUME [Next]_storeVars
    PROVE  revoked \subseteq revoked'
  <1>1. CASE Registration
    <2>1. ASSUME NEW d, NEW m, NEW e, NEW k, NEW c, NEW now, Begin(d, m, e, k, c, now)
          PROVE  UNCHANGED tombstones
      BY <2>1, Zenon
      DEF Begin, BeginRevoked, BeginConflict, BeginActive, BeginCollides, BeginFull,
          BeginPendingFull, BeginChallenge
    <2>2. ASSUME NEW c, NEW now, Confirm(c, now)
          PROVE  UNCHANGED tombstones
      BY <2>2, Zenon DEF Confirm, ConfirmInvalid, ConfirmDropped, ConfirmFull, ConfirmActive
    <2>3. ASSUME NEW c, CancelPending(c)
          PROVE  UNCHANGED tombstones
      BY <2>3 DEF CancelPending
    <2>4. ASSUME NEW m, Delete(m)
          PROVE  revoked \subseteq revoked'
      BY <2>4 DEF Delete, DeleteFull, DeleteNotFound, DeleteRemoved, Entomb
    <2>5. QED
      BY <1>1, <2>1, <2>2, <2>3, <2>4 DEF Registration, tombstones
  <1>2. CASE DeliveryPath \/ Cleanup
    <2>1. CASE DeliveryPath
      <3>1. ASSUME NEW d, NEW e, NEW k, NEW x, NEW now,
                   \/ DropIfCurrent(d, e, k) \/ MarkIfCurrent(d, e, k, x, now)
                   \/ ClaimInsert(d, x, now) \/ ClaimStale(d, x, now) \/ Release(d, x)
            PROVE  UNCHANGED tombstones
        BY <3>1, Zenon
        DEF DropIfCurrent, MarkIfCurrent, ClaimInsert, ClaimStale, Release, tombstones
      <3>2. UNCHANGED tombstones
        BY <2>1, <3>1, Zenon DEF DeliveryPath
      <3>3. QED
        BY <3>2 DEF tombstones
    <2>2. CASE Cleanup
      BY <2>2, Zenon DEF Cleanup, CleanupSubscriptions, CleanupDeliveries, tombstones
    <2>3. QED
      BY <1>2, <2>1, <2>2
  <1>3. CASE UNCHANGED storeVars
    BY <1>3 DEF storeVars, tombstones
  <1>4. QED
    BY <1>1, <1>2, <1>3 DEF Next

-----------------------------------------------------------------------------
(* Steps of a call *)

\* A call moves on, or is answered.
CallMoves(i) ==
    \E new \in Call : Proper(new, gone', revoked') /\ call' = [call EXCEPT ![i] = new]

LEMMA GoesMoves ==
    ASSUME EnrolmentTyped, NEW i \in Calls, call[i].at \in UnderWay,
           NEW at \in UnderWay \union {"dead"}, Goes(i, at),
           at = "drop" => call[i].endpoint \in gone', revoked \subseteq revoked'
    PROVE  CallMoves(i)
  <1> DEFINE new == [at |-> at, device |-> call[i].device, endpoint |-> call[i].endpoint,
                     keys |-> call[i].keys, time |-> call[i].time,
                     answer |-> call[i].answer]
  <1>1. call \in [Calls -> Call] /\ call[i] \in Call /\ Proper(call[i], gone, revoked)
    BY DEF EnrolmentTyped, EnrolmentTypeOK, CallsProper
  <1>2. new \in Call
    BY <1>1 DEF Call, UnderWay
  <1>3. [call[i] EXCEPT !.at = at] = new
    BY <1>1 DEF Call
  <1>4. call' = [call EXCEPT ![i] = new]
    BY <1>1, <1>3 DEF Goes
  <1>5. Proper(new, gone', revoked')
    BY <1>1 DEF Proper, UnderWay
  <1>6. QED
    BY <1>2, <1>4, <1>5 DEF CallMoves

LEMMA AnswersMoves ==
    ASSUME EnrolmentTyped, NEW i \in Calls,
           NEW answer \in {"registered", "pending", "sent", "expired", "changed",
                           "refused", "failed"},
           Answers(i, answer)
    PROVE  CallMoves(i)
  <1> DEFINE new == [call[i] EXCEPT !.at = "answered", !.answer = answer]
  <1>1. call \in [Calls -> Call] /\ call[i] \in Call
    BY DEF EnrolmentTyped, EnrolmentTypeOK
  <1>2. new \in Call /\ new.at = "answered" /\ new.answer = answer
    BY <1>1 DEF Call
  <1>3. call' = [call EXCEPT ![i] = new]
    BY <1>1 DEF Answers
  <1>4. Proper(new, gone', revoked')
    BY <1>2 DEF Proper, UnderWay
  <1>5. QED
    BY <1>2, <1>3, <1>4 DEF CallMoves

\* A page asks for its subscription to be registered.
LEMMA RegisterMoves ==
    ASSUME EnrolmentTyped, NEW i \in Calls, NEW d \in DeliveryKeys, NEW e \in Endpoints,
           NEW k \in Keys, Register(i, d, e, k)
    PROVE  CallMoves(i)
  <1> DEFINE new == [call[i] EXCEPT !.at = "sweep", !.device = d, !.endpoint = e,
                                    !.keys = k]
  <1>1. /\ call \in [Calls -> Call] /\ call[i] \in Call /\ Proper(call[i], gone, revoked)
        /\ call[i].at = "unused"
    BY DEF EnrolmentTyped, EnrolmentTypeOK, CallsProper, Register
  <1>2. /\ new \in Call
        /\ new.at = "sweep" /\ new.device = d /\ new.endpoint = e /\ new.keys = k
        /\ new.answer = call[i].answer
    BY <1>1 DEF Call
  <1>3. call' = [call EXCEPT ![i] = new]
    BY <1>1 DEF Register
  <1>4. Proper(new, gone', revoked')
    BY <1>1, <1>2 DEF Proper, UnderWay
  <1>5. QED
    BY <1>2, <1>3, <1>4 DEF CallMoves

\* A removal is answered by what the statement did: nothing is said to be
\* removed, or not to be there, without a tombstone.
LEMMA RemoveMoves ==
    ASSUME EnrolmentTyped, NEW i \in Calls, NEW d \in DeliveryKeys, Remove(i, d)
    PROVE  CallMoves(i)
  <1> DEFINE answer == RemovalAnswer[reply'.outcome]
             new == [call[i] EXCEPT !.at = "answered", !.device = d, !.answer = answer]
  <1>1. call \in [Calls -> Call] /\ call[i] \in Call
    BY DEF EnrolmentTyped, EnrolmentTypeOK
  <1>2. \/ answer = "refused"
        \/ answer \in {"removed", "not_found"} /\ Owner[d] \in revoked'
    <2>1. Delete(Owner[d])
      BY DEF Remove
    <2>2. CASE DeleteFull(Owner[d])
      BY <2>2 DEF DeleteFull, Replies, RemovalAnswer
    <2>3. CASE DeleteNotFound(Owner[d])
      BY <2>3 DEF DeleteNotFound, Entomb, Replies, RemovalAnswer
    <2>4. CASE DeleteRemoved(Owner[d])
      BY <2>4 DEF DeleteRemoved, Entomb, Replies, RemovalAnswer
    <2>5. QED
      BY <2>1, <2>2, <2>3, <2>4 DEF Delete
  <1>3. /\ new \in Call
        /\ new.at = "answered" /\ new.device = d /\ new.answer = answer
    BY <1>1, <1>2 DEF Call
  <1>4. call' = [call EXCEPT ![i] = new]
    BY <1>1 DEF Remove
  <1>5. Proper(new, gone', revoked')
    BY <1>2, <1>3 DEF Proper, UnderWay
  <1>6. QED
    BY <1>3, <1>4, <1>5 DEF CallMoves

\* A test works on a copy of the row it read.
LEMMA TestMoves ==
    ASSUME EnrolmentTyped, NEW i \in Calls, NEW d \in DeliveryKeys, Test(i, d)
    PROVE  CallMoves(i)
  <1>1. /\ call \in [Calls -> Call] /\ call[i] \in Call /\ Proper(call[i], gone, revoked)
        /\ call[i].at = "unused" /\ subs \subseteq Subscription
    BY DEF EnrolmentTyped, EnrolmentTypeOK, TypeOK, CallsProper, Test
  <1>2. CASE ManagedBy(Owner[d]) = {}
    <2> DEFINE new == [call[i] EXCEPT !.at = "answered", !.device = d, !.answer = "refused"]
    <2>1. new \in Call /\ new.at = "answered" /\ new.answer = "refused"
      BY <1>1 DEF Call
    <2>2. call' = [call EXCEPT ![i] = new]
      BY <1>1, <1>2 DEF Test
    <2>3. Proper(new, gone', revoked')
      BY <2>1 DEF Proper, UnderWay
    <2>4. QED
      BY <2>1, <2>2, <2>3 DEF CallMoves
  <1>3. CASE ManagedBy(Owner[d]) # {}
    <2> DEFINE row == CHOOSE s \in ManagedBy(Owner[d]) : TRUE
               at == IF row.endpoint \in Distrusted THEN "drop" ELSE "check"
               new == [call[i] EXCEPT !.at = at, !.device = row.delivery,
                                      !.endpoint = row.endpoint, !.keys = row.keys]
    <2>1. row \in Subscription
      BY <1>1, <1>3 DEF ManagedBy
    <2>2. row.delivery \in DeliveryKeys /\ row.endpoint \in Endpoints /\ row.keys \in Keys
      BY <2>1 DEF Subscription
    <2>3. /\ new \in Call
          /\ new.at = at /\ new.device = row.delivery /\ new.endpoint = row.endpoint
          /\ new.keys = row.keys /\ new.answer = call[i].answer
      BY <1>1, <2>2 DEF Call
    <2>4. call' = [call EXCEPT ![i] = new]
      BY <1>1, <1>3 DEF Test
    <2>5. Proper(new, gone', revoked')
      BY <1>1, <2>2, <2>3 DEF Proper, UnderWay
    <2>6. QED
      BY <2>3, <2>4, <2>5 DEF CallMoves
  <1>4. QED
    BY <1>2, <1>3

LEMMA AdmitMoves ==
    ASSUME EnrolmentTyped, NEW i \in Calls, Admit(i)
    PROVE  CallMoves(i)
  <1> DEFINE new == [call[i] EXCEPT !.at = "send", !.time = clock]
  <1>1. /\ call \in [Calls -> Call] /\ call[i] \in Call /\ Proper(call[i], gone, revoked)
        /\ call[i].at = "check" /\ clock \in 0..MaxClock
    BY DEF EnrolmentTyped, EnrolmentTypeOK, CallsProper, Admit
  <1>2. /\ new \in Call
        /\ new.at = "send" /\ new.device = call[i].device
        /\ new.endpoint = call[i].endpoint /\ new.keys = call[i].keys
        /\ new.answer = call[i].answer
    BY <1>1 DEF Call
  <1>3. call' = [call EXCEPT ![i] = new]
    BY <1>1 DEF Admit
  <1>4. Proper(new, gone', revoked')
    BY <1>1, <1>2 DEF Proper, UnderWay
  <1>5. QED
    BY <1>2, <1>3, <1>4 DEF CallMoves

\* The steps of call i, and what each of them does to the rest of the state.
CallAction(i) == Subscribing(i) \/ Testing(i) \/ Refuse(i) \/ Die(i)

\* Every step of a call but a challenge that returns, which moves no call.
LEMMA CallActionMoves ==
    ASSUME EnrolmentTyped, NEW i \in Calls, CallAction(i), ~Return(i),
           revoked \subseteq revoked'
    PROVE  CallMoves(i)
  <1>1. CASE \E d \in DeliveryKeys, e \in Endpoints, k \in Keys : Register(i, d, e, k)
    BY <1>1, RegisterMoves
  <1>2. CASE \E d \in DeliveryKeys : Remove(i, d)
    BY <1>2, RemoveMoves
  <1>3. CASE \E d \in DeliveryKeys : Test(i, d)
    BY <1>3, TestMoves
  <1>4. CASE Admit(i)
    BY <1>4, AdmitMoves
  <1>5. ASSUME NEW at \in UnderWay \union {"dead"}, Goes(i, at), call[i].at \in UnderWay,
               at = "drop" => call[i].endpoint \in gone'
        PROVE  CallMoves(i)
    BY <1>5, GoesMoves
  <1>6. ASSUME NEW answer \in {"registered", "pending", "sent", "expired", "changed",
                               "refused", "failed"}, Answers(i, answer)
        PROVE  CallMoves(i)
    BY <1>6, AnswersMoves
  <1>7. CASE SweepStale(i) \/ SendChallengeAmbiguous(i) \/ ChallengeNotSent(i)
             \/ SendTest(i) \/ SendTestGone(i)
    BY <1>5, <1>7
    DEF SweepStale, SendChallengeAmbiguous, ChallengeNotSent, SendTest, SendTestGone, UnderWay
  <1>8. CASE Die(i)
    <2>1. call[i].at \in UnderWay
      BY <1>8 DEF Die, EnrolmentTyped, EnrolmentTypeOK, Call, UnderWay
    <2>2. QED
      BY <1>5, <1>8, <2>1 DEF Die
  <1>9. CASE SendChallenge(i) \/ Cancel(i) \/ SendTestFails(i) \/ MarkTestedFails(i)
             \/ Refuse(i)
    BY <1>6, <1>9 DEF SendChallenge, Cancel, SendTestFails, MarkTestedFails, Refuse
  <1>10. CASE BeginRegistration(i)
    <2>1. reply'.outcome \in {"active", "management_conflict", "revoked",
                              "capacity_exceeded", "pending_capacity_exceeded", "error",
                              "challenge_required"}
      <3>1. PICK d, m, e, k, now : Begin(d, m, e, k, i, now)
        BY <1>10, Zenon DEF BeginRegistration
      <3>2. QED
        BY <3>1
        DEF Begin, BeginRevoked, BeginConflict, BeginActive, BeginCollides, BeginFull,
            BeginPendingFull, BeginChallenge, Replies
    <2>2. CASE reply'.outcome = "challenge_required"
      BY <1>5, <1>10, <2>2 DEF BeginRegistration, UnderWay
    <2>3. CASE reply'.outcome # "challenge_required"
      <3>1. BeginAnswer[reply'.outcome] \in {"registered", "refused", "failed"}
        BY <2>1, <2>3 DEF BeginAnswer
      <3>2. Answers(i, BeginAnswer[reply'.outcome])
        BY <1>10, <2>3, Zenon DEF BeginRegistration, AnswersReply
      <3>3. QED
        BY <1>6, <3>1, <3>2
    <2>4. QED
      BY <2>2, <2>3
  <1>11. CASE MarkTested(i)
    <2>1. reply'.outcome \in {"true", "false"}
      BY <1>11 DEF MarkTested, MarkIfCurrent, Replies
    <2> DEFINE answer == [true |-> "sent", false |-> "changed"][reply'.outcome]
    <2>2. answer \in {"sent", "changed"}
      BY <2>1
    <2>3. Answers(i, answer)
      BY <1>11, Zenon DEF MarkTested, AnswersReply
    <2>4. QED
      BY <1>6, <2>2, <2>3
  <1>12. CASE DropTested(i)
    <2>1. reply'.outcome \in {"true", "false"}
      BY <1>12 DEF DropTested, DropIfCurrent, Replies
    <2> DEFINE answer == [true |-> "expired", false |-> "changed"][reply'.outcome]
    <2>2. answer \in {"expired", "changed"}
      BY <2>1
    <2>3. Answers(i, answer)
      BY <1>12, Zenon DEF DropTested, AnswersReply
    <2>4. QED
      BY <1>6, <2>2, <2>3
  <1>13. QED
    BY <1>1, <1>2, <1>3, <1>4, <1>7, <1>8, <1>9, <1>10, <1>11, <1>12
    DEF CallAction, Subscribing, Testing

\* A call's statement is one of PushStore's, about its own device.
LEMMA CallActionIsStatement ==
    ASSUME EnrolmentTyped, NEW i \in Calls, CallAction(i)
    PROVE  [Next]_storeVars
  <1>1. /\ clock \in Times /\ i \in Challenges
        /\ call[i].at \in UnderWay =>
               /\ call[i].device \in DeliveryKeys /\ call[i].endpoint \in Endpoints
               /\ call[i].keys \in Keys /\ Owner[call[i].device] \in ManagementKeys
        /\ \A d \in DeliveryKeys : Owner[d] \in ManagementKeys
        /\ call[i].time \in Times
    BY CallsAssumption, OwnerAssumption, EnrolmentAssumption
    DEF EnrolmentTyped, EnrolmentTypeOK, CallsProper, Proper, Call
  <1>2. CASE SweepStale(i)
    BY <1>1, <1>2, Zenon DEF SweepStale, Next, Cleanup
  <1>3. CASE BeginRegistration(i)
    <2>1. call[i].at \in UnderWay
      BY <1>3 DEF BeginRegistration, UnderWay
    <2>2. Begin(call[i].device, Owner[call[i].device], call[i].endpoint, call[i].keys, i,
                clock)
      BY <1>3, Zenon DEF BeginRegistration
    <2>3. QED
      BY <1>1, <2>1, <2>2, Zenon DEF Next, Registration
  <1>4. CASE Cancel(i) \/ Return(i)
    BY <1>1, <1>4, Zenon DEF Cancel, Return, Next, Registration
  <1>5. CASE \E d \in DeliveryKeys : Remove(i, d)
    BY <1>1, <1>5, Zenon DEF Remove, Next, Registration
  <1>6. CASE DropTested(i) \/ MarkTested(i) \/ MarkTestedFails(i)
    <2>1. call[i].at \in UnderWay
      BY <1>6 DEF DropTested, MarkTested, MarkTestedFails, UnderWay
    <2>2. NoEvent \in Events \union {NoEvent}
      OBVIOUS
    <2>3. \/ DropIfCurrent(call[i].device, call[i].endpoint, call[i].keys)
          \/ MarkIfCurrent(call[i].device, call[i].endpoint, call[i].keys, NoEvent,
                           call[i].time)
          \/ UNCHANGED storeVars
      BY <1>6, Zenon DEF DropTested, MarkTested, MarkTestedFails
    <2>4. QED
      BY <1>1, <2>1, <2>2, <2>3, Zenon DEF Next, DeliveryPath
  <1>7. CASE UNCHANGED storeVars
    BY <1>7
  <1>8. QED
    BY <1>2, <1>3, <1>4, <1>5, <1>6, <1>7, Zenon
    DEF CallAction, Subscribing, Testing, Register, SendChallenge,
        SendChallengeAmbiguous, ChallengeNotSent, Test, Admit, SendTest, SendTestGone,
        SendTestFails, Refuse, Die

\* So are the callbacks' statements.
LEMMA CallbackIsStatement ==
    ASSUME EnrolmentTyped, Callback
    PROVE  [Next]_storeVars
  <1>1. clock \in Times /\ 0..clock \subseteq Times
    BY EnrolmentAssumption DEF EnrolmentTyped, EnrolmentTypeOK
  <1>2. NoEvent \in Events \union {NoEvent}
    OBVIOUS
  <1>3. CASE CleanupSubscriptions(clock)
    BY <1>1, <1>3, Zenon DEF Next, Cleanup
  <1>4. ASSUME NEW d \in DeliveryKeys, NEW e \in Endpoints, NEW k \in Keys,
               NEW now \in 0..clock, MarkIfCurrent(d, e, k, NoEvent, now)
        PROVE  Next
    BY <1>1, <1>2, <1>4, Zenon DEF Next, DeliveryPath
  <1>5. ASSUME NEW d \in DeliveryKeys, NEW e \in Endpoints, NEW k \in Keys,
               DropIfCurrent(d, e, k)
        PROVE  Next
    BY <1>5, Zenon DEF Next, DeliveryPath
  <1>6. QED
    BY <1>3, <1>4, <1>5, Zenon DEF Callback

-----------------------------------------------------------------------------
(* The invariant *)

LEMMA CallsStayProper ==
    ASSUME EnrolmentTyped, revoked \subseteq revoked', gone \subseteq gone',
           \/ call' = call
           \/ \E i \in Calls : CallMoves(i)
    PROVE  call' \in [Calls -> Call] /\ CallsProper'
  <1>1. call \in [Calls -> Call] /\ \A j \in Calls : Proper(call[j], gone', revoked')
    BY ProperStays DEF EnrolmentTyped, EnrolmentTypeOK, CallsProper
  <1>2. ASSUME NEW i \in Calls, CallMoves(i)
        PROVE  call' \in [Calls -> Call] /\ CallsProper'
    <2>1. PICK new \in Call : Proper(new, gone', revoked') /\ call' = [call EXCEPT ![i] = new]
      BY <1>2, Zenon DEF CallMoves
    <2>2. /\ call' \in [Calls -> Call]
          /\ \A j \in Calls : call'[j] = IF j = i THEN new ELSE call[j]
      BY <1>1, <2>1
    <2>3. \A j \in Calls : Proper(call'[j], gone', revoked')
      BY <1>1, <2>1, <2>2
    <2>4. QED
      BY <2>2, <2>3 DEF CallsProper
  <1>3. QED
    BY <1>1, <1>2 DEF CallsProper

\* Every step is a statement on the tables or none, and keeps the calls proper.
LEMMA EnrolmentStep ==
    ASSUME EnrolmentTyped, [EnrolmentNext]_vars
    PROVE  EnrolmentTyped' /\ [Next]_storeVars
  <1>1. [Next]_storeVars
    BY CallActionIsStatement, CallbackIsStatement, Zenon
    DEF EnrolmentNext, CallAction, Forget, Tick, vars
  <1>2. Typed'
    BY <1>1, NextTyped DEF EnrolmentTyped, EnrolmentTypeOK, Typed
  <1>3. revoked \subseteq revoked'
    BY <1>1, TombstonesStay
  <1>4. clock \in 0..MaxClock /\ returning \subseteq Calls /\ gone \subseteq Endpoints
    BY DEF EnrolmentTyped, EnrolmentTypeOK
  <1>5. ASSUME NEW i \in Calls, CallAction(i)
        PROVE  /\ clock' = clock /\ gone' = gone /\ returning' \subseteq Calls
               /\ call' = call \/ CallMoves(i)
    <2>1. clock' = clock /\ gone' = gone
      BY <1>5, Zenon
      DEF CallAction, Subscribing, Testing, Register, SweepStale, BeginRegistration,
          SendChallenge, SendChallengeAmbiguous, ChallengeNotSent, Cancel, Return, Remove,
          Test, Admit, SendTest, SendTestGone, SendTestFails, MarkTested,
          MarkTestedFails, DropTested, Refuse, Die, enrolmentVars
    <2>2. returning' = returning \/ returning' = returning \union {i}
      BY <1>5, Zenon
      DEF CallAction, Subscribing, Testing, Register, SweepStale, BeginRegistration,
          SendChallenge, SendChallengeAmbiguous, ChallengeNotSent, Cancel, Return, Remove,
          Test, Admit, SendTest, SendTestGone, SendTestFails, MarkTested,
          MarkTestedFails, DropTested, Refuse, Die, enrolmentVars
    <2>3. CASE Return(i)
      BY <2>1, <2>2, <2>3, <1>4 DEF Return, enrolmentVars
    <2>4. CASE ~Return(i)
      BY <2>1, <2>2, <2>4, <1>3, <1>4, <1>5, CallActionMoves
    <2>5. QED
      BY <2>3, <2>4
  <1>6. /\ clock' \in 0..MaxClock /\ returning' \subseteq Calls
        /\ gone \subseteq gone' /\ gone' \subseteq Endpoints
        /\ call' = call \/ \E i \in Calls : CallMoves(i)
    <2>1. CASE \E i \in Calls : CallAction(i)
      BY <2>1, <1>4, <1>5
    <2>2. CASE \E e \in Endpoints : Forget(e)
      BY <2>2, <1>4 DEF Forget
    <2>3. CASE Callback
      BY <2>3, <1>4 DEF Callback, enrolmentVars
    <2>4. CASE Tick
      BY <2>4, <1>4, EnrolmentAssumption DEF Tick
    <2>5. CASE UNCHANGED vars
      BY <2>5, <1>4 DEF vars, enrolmentVars
    <2>6. QED
      BY <2>1, <2>2, <2>3, <2>4, <2>5 DEF EnrolmentNext, CallAction
  <1>7. call' \in [Calls -> Call] /\ CallsProper'
    BY <1>3, <1>6, CallsStayProper
  <1>8. QED
    BY <1>1, <1>2, <1>6, <1>7 DEF EnrolmentTyped, EnrolmentTypeOK, Typed

\* At the start some devices are enrolled and nobody has called.
LEMMA EnrolmentInitTyped == EnrolmentInit => EnrolmentTyped /\ Keyed
  <1>1. SUFFICES ASSUME EnrolmentInit PROVE EnrolmentTyped /\ Keyed
    OBVIOUS
  <1>2. /\ UniqueRows(subs) /\ IsFiniteSet(subs) /\ subCount = Cardinality(subs)
        /\ pending = {} /\ revoked = {} /\ revokedCount = 0 /\ revokedLimit = MaxRevoked
        /\ deliveries = {} /\ reply = [op |-> "none", outcome |-> "none"]
    BY <1>1 DEF EnrolmentInit
  <1>3. subs \subseteq Subscription
    <2>1. \A s \in subs : \E d \in DeliveryKeys, e \in Endpoints, k \in Keys :
              s = [delivery |-> d, mgmt |-> Owner[d], endpoint |-> e, keys |-> k,
                   updatedAt |-> 0]
      BY <1>1 DEF EnrolmentInit
    <2>2. \A d \in DeliveryKeys : Owner[d] \in ManagementKeys
      BY OwnerAssumption
    <2>3. 0 \in Times
      BY EnrolmentAssumption
    <2>4. QED
      BY <2>1, <2>2, <2>3 DEF Subscription
  <1>4. subCount \in Nat
    BY <1>2, FS_CardinalityType
  <1>5. TypeOK
    BY <1>2, <1>3, <1>4, LimitAssumption DEF TypeOK, Reply
  <1>6. FiniteTables
    BY <1>2, FS_EmptySet DEF FiniteTables
  <1>7. Keyed
    BY <1>2, Zenon DEF Keyed, RowsUnique, PendingIsNew, NoResurrection, PendingDistinct
  <1>8. /\ clock \in 0..MaxClock /\ returning \subseteq Calls /\ gone \subseteq Endpoints
        /\ call \in [Calls -> Call] /\ CallsProper
    <2> DEFINE unused == [at |-> "unused", device |-> NoValue, endpoint |-> NoValue,
                          keys |-> NoValue, time |-> 0, answer |-> "none"]
    <2>1. call = [i \in Calls |-> unused] /\ clock = 0 /\ returning = {} /\ gone = {}
      BY <1>1, Zenon DEF EnrolmentInit
    <2>2. unused \in Call /\ 0 \in 0..MaxClock
      BY EnrolmentAssumption DEF Call
    <2>3. Proper(unused, gone, revoked)
      BY DEF Proper, UnderWay
    <2> HIDE DEF unused
    <2>4. QED
      BY <2>1, <2>2, <2>3 DEF CallsProper
  <1>9. QED
    BY <1>5, <1>6, <1>7, <1>8 DEF EnrolmentTyped, EnrolmentTypeOK

LEMMA EnrolmentKeepsKeyed == EnrolmentTyped /\ Keyed /\ [EnrolmentNext]_vars => Keyed'
  BY EnrolmentStep, NextKeyed DEF EnrolmentTyped, EnrolmentTypeOK, Typed

\* Tables, calls, clock and endpoints keep their types in every interleaving.
THEOREM EnrolmentTypeCorrect == EnrolmentSpec => []EnrolmentTypeOK
  <1>1. EnrolmentTyped => EnrolmentTypeOK
    BY DEF EnrolmentTyped
  <1>2. QED
    BY <1>1, EnrolmentInitTyped, EnrolmentStep, PTL DEF EnrolmentSpec

\* A removal that was answered is final: the tombstone it rests on refuses
\* registrations that were delayed, repeated or confirmed later.
THEOREM RemovalIsFinal == EnrolmentSpec => []RemovedForGood
  <1>1. EnrolmentTyped /\ Keyed => RemovedForGood
    BY DEF EnrolmentTyped, Keyed, CallsProper, Proper, NoResurrection, RemovedForGood
  <1>2. QED
    BY <1>1, EnrolmentInitTyped, EnrolmentStep, EnrolmentKeepsKeyed, PTL
    DEF EnrolmentSpec

-----------------------------------------------------------------------------
(* Who takes rows away *)

\* What may happen to the tables in a step, and by whom.
LEMMA EnrolmentStatements ==
    ASSUME [EnrolmentNext]_vars
    PROVE  \/ UNCHANGED <<subs, pending, revoked>>
           \/ CleanupSubscriptions(clock)
           \/ \E i \in Calls : BeginRegistration(i) \/ Cancel(i) \/ Return(i) \/ DropTested(i)
           \/ \E d \in DeliveryKeys : Delete(Owner[d])
           \/ \E d, e, k, now : MarkIfCurrent(d, e, k, NoEvent, now)
           \/ \E d, e, k : e \in gone \union Distrusted /\ DropIfCurrent(d, e, k)
  <1>1. CASE UNCHANGED storeVars
    BY <1>1 DEF storeVars, registry, tombstones
  <1>2. ASSUME NEW i \in Calls, CallAction(i), ~ UNCHANGED storeVars
        PROVE  \/ CleanupSubscriptions(clock)
               \/ BeginRegistration(i) \/ Cancel(i) \/ Return(i) \/ DropTested(i)
               \/ \E d \in DeliveryKeys : Delete(Owner[d])
               \/ \E d, e, k, now : MarkIfCurrent(d, e, k, NoEvent, now)
    BY <1>2, Zenon
    DEF CallAction, Subscribing, Testing, Register, SweepStale, SendChallenge,
        SendChallengeAmbiguous, ChallengeNotSent, Remove, Test, Admit, SendTest,
        SendTestGone, SendTestFails, MarkTested, MarkTestedFails, Refuse, Die
  <1>3. CASE Callback
    BY <1>3, Zenon DEF Callback
  <1>4. CASE \E i \in Calls : CallAction(i)
    BY <1>1, <1>2, <1>4, Zenon
  <1>5. QED
    BY <1>1, <1>3, <1>4, Zenon DEF EnrolmentNext, CallAction, Forget, Tick, vars

\* Where a call is after Goes and Answers.
LEMMA CallFields ==
    ASSUME call \in [Calls -> Call], NEW i \in Calls
    PROVE  /\ \A at : Goes(i, at) => call'[i].at = at
           /\ \A answer : Answers(i, answer) => call'[i].at = "answered"
  <1>1. call[i] \in Call
    OBVIOUS
  <1>2. ASSUME NEW at, Goes(i, at) PROVE call'[i].at = at
    <2> DEFINE new == [call[i] EXCEPT !.at = at]
    <2>1. new.at = at
      BY <1>1 DEF Call
    <2>2. call'[i] = new
      BY <1>2 DEF Goes
    <2>3. QED
      BY <2>1, <2>2
  <1>3. ASSUME NEW answer, Answers(i, answer) PROVE call'[i].at = "answered"
    <2> DEFINE new == [call[i] EXCEPT !.at = "answered", !.answer = answer]
    <2>1. new.at = "answered"
      BY <1>1 DEF Call
    <2>2. call'[i] = new
      BY <1>3 DEF Answers
    <2>3. QED
      BY <2>1, <2>2
  <1>4. QED
    BY <1>2, <1>3

\* A registration whose challenge is out is taken away only by what overtook it.
LEMMA StepKeepsPending ==
    ASSUME EnrolmentTyped, Keyed, [EnrolmentNext]_vars, NEW p \in pending \ pending'
    PROVE  \/ \E s \in subs' : s.delivery = p.delivery /\ s.endpoint = p.endpoint
           \/ p.expiresAt <= clock
           \/ p.mgmt \in revoked'
           \/ \E i \in Calls : Begins(i, p)
           \/ call[p.challenge].at = "cancel"
  <1>1. /\ pending \subseteq Pending /\ clock \in Nat /\ p \in pending /\ p \notin pending'
        /\ call \in [Calls -> Call]
    BY EnrolmentAssumption DEF EnrolmentTyped, EnrolmentTypeOK, TypeOK
  <1>2. p.expiresAt \in Int
    BY <1>1, TimeAssumption DEF Pending
  <1>3. ASSUME NEW i \in Calls, BeginRegistration(i)
        PROVE  p.expiresAt <= clock \/ Begins(i, p)
    <2> DEFINE d == call[i].device
               m == Owner[call[i].device]
               e == call[i].endpoint
    <2>1. call[i].at = "begin" /\ call'[i].at # "begin"
      <3>1. call[i].at = "begin"
        BY <1>3, Zenon DEF BeginRegistration
      <3>2. \/ Goes(i, "budget")
            \/ \E answer : Answers(i, answer)
        BY <1>3, Zenon DEF BeginRegistration, AnswersReply
      <3>3. QED
        BY <1>1, <3>1, <3>2, CallFields
    <2>2. Begin(d, m, e, call[i].keys, i, clock)
      BY <1>3, Zenon DEF BeginRegistration
    <2>3. p.expiresAt > clock => p \in Unexpired(clock)
      BY <1>1 DEF Unexpired
    <2>4. p \in Superseded(d, m, e) => p.delivery = d \/ p.mgmt = m \/ p.endpoint = e
      BY DEF Superseded
    <2>5. pending' = pending \/ pending' = Unexpired(clock)
             \/ Unexpired(clock) \ Superseded(d, m, e) \subseteq pending'
      BY <2>2
      DEF Begin, BeginRevoked, BeginConflict, BeginActive, BeginCollides, BeginFull,
          BeginPendingFull, BeginChallenge, registry
    <2>6. p.expiresAt > clock => p \in Superseded(d, m, e)
      BY <1>1, <2>3, <2>5
    <2>7. QED
      BY <1>1, <1>2, <2>1, <2>4, <2>6 DEF Begins
  <1>4. ASSUME NEW i \in Calls, Cancel(i)
        PROVE  call[p.challenge].at = "cancel"
    BY <1>1, <1>4 DEF Cancel, CancelPending
  <1>5. ASSUME NEW i \in Calls, Return(i)
        PROVE  \/ \E s \in subs' : s.delivery = p.delivery /\ s.endpoint = p.endpoint
               \/ p.expiresAt <= clock
               \/ p.mgmt \in revoked'
    <2>1. Confirm(i, clock)
      BY <1>5 DEF Return
    <2>2. CASE ConfirmDropped(i, clock)
      <3>1. PICK q \in pending :
                /\ Expired(q, clock) \/ q.mgmt \in revoked
                /\ pending' = {r \in pending : r.mgmt # q.mgmt}
                /\ revoked' = revoked
        BY <2>2 DEF ConfirmDropped, tombstones
      <3>2. p = q
        BY <1>1, <3>1 DEF Keyed, PendingDistinct
      <3>3. QED
        BY <3>1, <3>2 DEF Expired
    <2>3. CASE ConfirmActive(i, clock)
      <3>1. PICK q \in pending :
                /\ pending' = {r \in pending : r.mgmt # q.mgmt}
                /\ subs' = Activated(q, clock)
        BY <2>3, Zenon DEF ConfirmActive
      <3>2. p = q
        BY <1>1, <3>1 DEF Keyed, PendingDistinct
      <3> DEFINE row == [delivery |-> q.delivery, mgmt |-> q.mgmt,
                         endpoint |-> q.endpoint, keys |-> q.keys, updatedAt |-> clock]
      <3>3. row \in subs'
        BY <3>1, Zenon DEF Activated
      <3>4. row.delivery = p.delivery /\ row.endpoint = p.endpoint
        BY <3>2
      <3>5. QED
        BY <3>3, <3>4
    <2>4. CASE ConfirmInvalid(i) \/ ConfirmFull(i, clock)
      BY <1>1, <2>4 DEF ConfirmInvalid, ConfirmFull, registry
    <2>5. QED
      BY <2>1, <2>2, <2>3, <2>4 DEF Confirm
  <1>6. ASSUME NEW m, Delete(m)
        PROVE  p.mgmt \in revoked'
    BY <1>1, <1>6 DEF Delete, DeleteFull, DeleteNotFound, DeleteRemoved, Entomb, registry
  <1>7. ASSUME pending' = pending
        PROVE  FALSE
    BY <1>1, <1>7
  <1>8. ASSUME NEW i \in Calls, DropTested(i)
        PROVE  pending' = pending
    BY <1>8 DEF DropTested, DropIfCurrent
  <1>9. QED
    BY <1>3, <1>4, <1>5, <1>6, <1>7, <1>8, EnrolmentStatements
    DEF CleanupSubscriptions, MarkIfCurrent, DropIfCurrent

\* "A challenge is in flight" survives whatever other calls do.
THEOREM ChallengesHonoured == EnrolmentSpec => PendingKept
  <1>1. EnrolmentTyped /\ Keyed /\ [EnrolmentNext]_vars =>
            [\A p \in pending \ pending' :
                 \/ \E s \in subs' : s.delivery = p.delivery /\ s.endpoint = p.endpoint
                 \/ p.expiresAt <= clock
                 \/ p.mgmt \in revoked'
                 \/ \E i \in Calls : Begins(i, p)
                 \/ call[p.challenge].at = "cancel"]_vars
    BY StepKeepsPending
  <1>2. QED
    BY <1>1, EnrolmentInitTyped, EnrolmentStep, EnrolmentKeepsKeyed, PTL
    DEF EnrolmentSpec, PendingKept

\* A device leaves the table for one of five causes, whatever the step.
LEMMA StepKeepsRows ==
    ASSUME EnrolmentTyped, Keyed, [EnrolmentNext]_vars, NEW s \in subs
    PROVE  \/ \E t \in subs' : t.delivery = s.delivery
           \/ s.mgmt \in revoked'
           \/ s.updatedAt <= clock - SubscriptionTtl
           \/ \E t \in subs' : t.endpoint = s.endpoint
           \/ s.endpoint \in gone \union Distrusted
  <1>1. ASSUME s \in subs'
        PROVE  \E t \in subs' : t.delivery = s.delivery
    BY <1>1
  <1>2. CASE CleanupSubscriptions(clock)
    BY <1>1, <1>2 DEF CleanupSubscriptions
  <1>3. ASSUME NEW i \in Calls, BeginRegistration(i)
        PROVE  \E t \in subs' : t.delivery = s.delivery \/ t.endpoint = s.endpoint
    <2> DEFINE d == call[i].device
               m == Owner[call[i].device]
               e == call[i].endpoint
               k == call[i].keys
               row == [delivery |-> d, mgmt |-> m, endpoint |-> e, keys |-> k,
                       updatedAt |-> clock]
    <2>1. Begin(d, m, e, k, i, clock)
      BY <1>3, Zenon DEF BeginRegistration
    <2>2. CASE BeginActive(d, m, e, k, clock)
      <3>1. row \in subs' /\ subs \ (RowsOf(d) \union HoldersOf(e, d)) \subseteq subs'
        BY <2>2 DEF BeginActive, Rotated
      <3>2. row.delivery = d /\ row.endpoint = e
        OBVIOUS
      <3>3. s \in RowsOf(d) => s.delivery = d
        BY DEF RowsOf
      <3>4. s \in HoldersOf(e, d) => s.endpoint = e
        BY DEF HoldersOf
      <3>5. QED
        BY <1>1, <3>1, <3>2, <3>3, <3>4
    <2>3. CASE UNCHANGED subs
      BY <1>1, <2>3
    <2>4. QED
      BY <2>1, <2>2, <2>3
      DEF Begin, BeginRevoked, BeginConflict, BeginCollides, BeginFull, BeginPendingFull,
          BeginChallenge, registry
  <1>4. ASSUME NEW i \in Calls, Return(i)
        PROVE  \E t \in subs' : t.delivery = s.delivery \/ t.endpoint = s.endpoint
    <2>1. Confirm(i, clock)
      BY <1>4 DEF Return
    <2>2. CASE ConfirmActive(i, clock)
      <3>1. PICK q \in pending : subs' = Activated(q, clock)
        BY <2>2, Zenon DEF ConfirmActive
      <3> DEFINE row == [delivery |-> q.delivery, mgmt |-> q.mgmt,
                         endpoint |-> q.endpoint, keys |-> q.keys, updatedAt |-> clock]
      <3>2. /\ row \in subs'
            /\ subs \ (RowsOf(q.delivery) \union HoldersOf(q.endpoint, q.delivery))
                   \subseteq subs'
        BY <3>1, Zenon DEF Activated
      <3>3. row.delivery = q.delivery /\ row.endpoint = q.endpoint
        OBVIOUS
      <3>4. s \in RowsOf(q.delivery) => s.delivery = q.delivery
        BY DEF RowsOf
      <3>5. s \in HoldersOf(q.endpoint, q.delivery) => s.endpoint = q.endpoint
        BY DEF HoldersOf
      <3>6. QED
        BY <1>1, <3>2, <3>3, <3>4, <3>5
    <2>3. CASE UNCHANGED subs
      BY <1>1, <2>3
    <2>4. QED
      BY <2>1, <2>2, <2>3 DEF Confirm, ConfirmInvalid, ConfirmDropped, ConfirmFull, registry
  <1>5. ASSUME NEW m, Delete(m)
        PROVE  s \in subs' \/ s.mgmt \in revoked'
    BY <1>5 DEF Delete, DeleteFull, DeleteNotFound, DeleteRemoved, Entomb, ManagedBy,
                registry
  <1>6. ASSUME NEW d, NEW e, NEW k, NEW now, MarkIfCurrent(d, e, k, NoEvent, now)
        PROVE  \E t \in subs' : t.delivery = s.delivery
    <2>1. s \in Subscription
      BY DEF EnrolmentTyped, EnrolmentTypeOK, TypeOK
    <2>2. [s EXCEPT !.updatedAt = now].delivery = s.delivery
      BY <2>1 DEF Subscription
    <2>3. s \in subs' \/ [s EXCEPT !.updatedAt = now] \in subs'
      BY <1>6 DEF MarkIfCurrent
    <2>4. QED
      BY <2>2, <2>3
  <1>7. ASSUME NEW d, NEW e, NEW k, e \in gone \union Distrusted, DropIfCurrent(d, e, k)
        PROVE  s \in subs' \/ s.endpoint \in gone \union Distrusted
    BY <1>7 DEF DropIfCurrent, Current
  <1>8. ASSUME NEW i \in Calls, DropTested(i)
        PROVE  s \in subs' \/ s.endpoint \in gone \union Distrusted
    <2>1. call[i].at = "drop"
      BY <1>8, Zenon DEF DropTested
    <2>2. call[i].endpoint \in gone \union Distrusted
      BY <2>1 DEF EnrolmentTyped, CallsProper, Proper
    <2>3. DropIfCurrent(call[i].device, call[i].endpoint, call[i].keys)
      BY <1>8, Zenon DEF DropTested
    <2>4. QED
      BY <1>7, <2>2, <2>3
  <1>9. ASSUME NEW i \in Calls, Cancel(i)
        PROVE  subs' = subs
    BY <1>9 DEF Cancel, CancelPending
  <1>10. QED
    BY <1>1, <1>2, <1>3, <1>4, <1>5, <1>6, <1>7, <1>8, <1>9, EnrolmentStatements, Zenon

\* A device is not removed for an endpoint it had once: a test or a delivery
\* drops a row only if it still is at the endpoint that does not work.
THEOREM RowsKept == EnrolmentSpec => RowsLeaveForCause
  <1>1. EnrolmentTyped /\ Keyed /\ [EnrolmentNext]_vars =>
            [\A s \in subs :
                 \/ \E t \in subs' : t.delivery = s.delivery
                 \/ s.mgmt \in revoked'
                 \/ s.updatedAt <= clock - SubscriptionTtl
                 \/ \E t \in subs' : t.endpoint = s.endpoint
                 \/ s.endpoint \in gone \union Distrusted]_vars
    BY StepKeepsRows
  <1>2. QED
    BY <1>1, EnrolmentInitTyped, EnrolmentStep, EnrolmentKeepsKeyed, PTL
    DEF EnrolmentSpec, RowsLeaveForCause

=============================================================================
