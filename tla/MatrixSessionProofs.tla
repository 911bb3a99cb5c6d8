------------------------- MODULE MatrixSessionProofs -------------------------
(*
Proofs about MatrixSession, for any number of refreshed credential pairs. IInv is the
inductive invariant; its parts say
  - Ends: how the service's end, its logout and the application's reference agree;
  - Running: what a service that was not stopped may rely on;
  - Pending: somebody waits for a refresh in flight, or has warned already;
  - Settled: where the last pair is once no refresh is in flight;
  - Removal: what a logout under way, or told, knows of its pairs;
  - Owned: under which start the lock is held.
*)
EXTENDS MatrixSession, TLAPS

Warned == warned # {} \/ app = "error"

Ends ==
    /\ invalidated => Stopped
    /\ afterStop => mode \in {"stop", "pagehide"} /\ out = "none"
    /\ out # "none" => mode \in {"logout", "pagehide"} /\ start = "started"
    /\ mode = "logout" => out # "none"
    /\ LogoutPending => app \in {"current", "leaving"}
    /\ app = "pending" =>
        /\ out = "none"
        /\ mode = "none" \/ (mode = "stop" /\ invalidated)
    /\ app = "current" => IF out = "none" THEN mode = "none" ELSE mode = "logout"
    /\ app = "leaving" => out # "none" /\ mode = "pagehide" /\ warned # {}
    /\ app = "error" => out \in {"ended", "unended"}
    /\ app = "current" => start = "started"

Running ==
    ~Stopped =>
        /\ live
        /\ used = held
        /\ outcome \in {"fulfilled", "failed"}
        /\ ~late
        /\ ~uncertain
        /\ ~afterHide
        /\ refresh \in {"none", "asked"} => held = latest

Pending ==
    /\ late => Stopped /\ uncertain /\ ~RefreshPending
    /\ StartPending => start = "opening" \/ ~RefreshPending
    /\ refresh \in {"asked", "written"} => latest \in sealed
    /\ Stopped /\ RefreshPending =>
        \/ afterStop
        \/ Warned
        \/ LogoutPending /\ app = "current"

Settled ==
    /\ ~RefreshPending /\ ~uncertain /\ outcome \notin {"discarded", "unconfirmed"}
        => latest \in sealed \cup revoked
    /\ uncertain \/ (~RefreshPending /\ outcome \in {"discarded", "unconfirmed"})
        => afterStop \/ Warned \/ (LoggingOut /\ out # "ended")
    /\ ~RefreshPending /\ outcome = "revoked" /\ ~uncertain => latest \in revoked

Removal ==
    /\ vault = Tombstone => out \in {"ending", "ended", "unended"}
    /\ out = "deleting" /\ live => mode = "logout"
    /\ /\ out = "ending" \/ (out = "deleting" /\ live)
       /\ refresh \in {"none", "asked"}
       /\ ~uncertain
       /\ outcome \in {"fulfilled", "committed"}
       => held = latest
    /\ out = "ending" => refresh \in {"none", "asked", "revoking"} /\ ~live
    /\ final = "confirmed" => held \in revoked /\ out # "deleting"
    /\ final # "none" => ~live
    /\ out = "ended" =>
        /\ held \in revoked
        /\ latest \in revoked
        /\ ~uncertain
        /\ ~RefreshPending
    /\ out = "unended" => LoggingOut \/ Warned

Owned ==
    Alive =>
        /\ start \in {"checking", "opening"} => locked
        /\ start = "started" /\ ~Stopped => locked
        /\ start \in {"opening", "started"} /\ ~Stopped =>
            vault = IF refresh = "written" THEN latest ELSE used

IInv == TypeOK /\ Ends /\ Running /\ Pending /\ Settled /\ Removal /\ Owned
-----------------------------------------------------------------------------

USE DEF Stopped, StartPending, RefreshPending, LogoutPending, LoggingOut, Alive,
        Starting, Renewing, Leaving, Pair, Warned, store, issue, lease, renewal,
        shutdown, removal, shell

LEMMA InitInv == Init => IInv
  <1> SUFFICES ASSUME Init PROVE IInv
    OBVIOUS
  <1>1. Values
    BY IssuedAssumption DEF Init, Values
  <1>4. Flags
    BY Zenon DEF Init, Flags
  <1>2. Ends /\ Running /\ Pending /\ Settled /\ Removal /\ Owned
    BY RecordAssumption DEF Init, Ends, Running, Pending, Settled, Removal, Owned
  <1>3. QED
    BY <1>1, <1>2, <1>4 DEF IInv, TypeOK

AppValues == /\ app \in {"pending", "current", "leaving", "gone", "error"}
             /\ warned \subseteq {"refresh", "logout"}

LEMMA Handled ==
    ASSUME NEW unconfirmed, HandleInvalidated(unconfirmed), AppValues
    PROVE  AppValues'
  <1>1. app' \in {"pending", "current", "leaving", "gone", "error"}
    BY DEF HandleInvalidated, AppValues
  <1>2. warned' \subseteq {"refresh", "logout"}
    BY DEF HandleInvalidated, AppValues
  <1>3. QED
    BY <1>1, <1>2 DEF AppValues

LEMMA StepTyped == IInv /\ [Next]_vars => TypeOK'
  <1> SUFFICES ASSUME IInv, [Next]_vars PROVE TypeOK'
    OBVIOUS
  <1> USE DEF IInv
  <1> USE RecordAssumption, IssuedAssumption
  <1>1. CASE AcquireLock
    <2>1. Values'
      BY <1>1 DEF AcquireLock, TypeOK, Values
    <2>2. Flags'
      BY <1>1, Zenon DEF AcquireLock, TypeOK, Flags
    <2>3. QED
      BY <2>1, <2>2 DEF TypeOK
  <1>2. CASE CheckCurrent
    <2>1. Values'
      BY <1>2 DEF CheckCurrent, TypeOK, Values
    <2>2. Flags'
      BY <1>2, Zenon DEF CheckCurrent, TypeOK, Flags
    <2>3. QED
      BY <2>1, <2>2 DEF TypeOK
  <1>3. CASE StartDone
    <2>1. Values'
      BY <1>3 DEF StartDone, TypeOK, Values
    <2>2. Flags'
      BY <1>3, Zenon DEF StartDone, TypeOK, Flags
    <2>3. QED
      BY <2>1, <2>2 DEF TypeOK
  <1>4. CASE StartFails
    <2>1. Values'
      BY <1>4 DEF StartFails, TypeOK, Values
    <2>2. Flags'
      BY <1>4, Zenon DEF StartFails, TypeOK, Flags
    <2>3. QED
      BY <2>1, <2>2 DEF TypeOK
  <1>5. CASE AnswerRefresh
    <2>1. Values'
      BY <1>5 DEF AnswerRefresh, TypeOK, Values
    <2>2. Flags'
      BY <1>5, Zenon DEF AnswerRefresh, TypeOK, Flags
    <2>3. QED
      BY <2>1, <2>2 DEF TypeOK
  <1>6. CASE RefuseRefresh
    <2>1. Values'
      BY <1>6 DEF RefuseRefresh, Settle, TypeOK, Values
    <2>2. Flags'
      BY <1>6, Zenon DEF RefuseRefresh, Settle, TypeOK, Flags
    <2>3. QED
      BY <2>1, <2>2 DEF TypeOK
  <1>7. CASE RefreshTimesOut
    <2>1. Values'
      <3>1. AppValues'
        BY <1>7, Handled DEF RefreshTimesOut, Settle, InvalidateSession, AppValues,
           TypeOK, Values
      <3>2. mode' \in {"none", "stop", "logout", "pagehide"}
        BY <1>7 DEF RefreshTimesOut, InvalidateSession, StopWithError, TypeOK, Values
      <3>3. /\ refresh' = "none" /\ outcome' = "unconfirmed"
            /\ UNCHANGED <<vault, sealed, latest, revoked, held, used, start, out, final,
                           page>>
        BY <1>7 DEF RefreshTimesOut, Settle
      <3>4. QED
        BY <3>1, <3>2, <3>3 DEF AppValues, TypeOK, Values
    <2>2. Flags'
      BY <1>7, Zenon DEF RefreshTimesOut, Settle, InvalidateSession, StopWithError,
         HandleInvalidated, TypeOK, Flags
    <2>3. QED
      BY <2>1, <2>2 DEF TypeOK
  <1>8. CASE Encrypted
    <2>1. Values'
      BY <1>8 DEF Encrypted, TypeOK, Values
    <2>2. Flags'
      BY <1>8, Zenon DEF Encrypted, TypeOK, Flags
    <2>3. QED
      BY <2>1, <2>2 DEF TypeOK
  <1>9. CASE CommitReseal
    <2>1. Values'
      BY <1>9 DEF CommitReseal, Current, TypeOK, Values
    <2>2. Flags'
      BY <1>9, Zenon DEF CommitReseal, Current, TypeOK, Flags
    <2>3. QED
      BY <2>1, <2>2 DEF TypeOK
  <1>10. CASE ResealFails
    <2>1. Values'
      BY <1>10 DEF ResealFails, TypeOK, Values
    <2>2. Flags'
      BY <1>10, Zenon DEF ResealFails, TypeOK, Flags
    <2>3. QED
      BY <2>1, <2>2 DEF TypeOK
  <1>11. CASE Resealed
    <2>1. Values'
      BY <1>11 DEF Resealed, Settle, TypeOK, Values, Pending
    <2>2. Flags'
      BY <1>11, Zenon DEF Resealed, Settle, TypeOK, Flags
    <2>3. QED
      BY <2>1, <2>2 DEF TypeOK
  <1>12. ASSUME NEW confirmed \in BOOLEAN, RevokeDiscarded(confirmed) PROVE TypeOK'
    <2>1. Values'
      <3>1. AppValues'
        BY <1>12, Handled DEF RevokeDiscarded, Settle, InvalidateSession, AppValues,
           TypeOK, Values
      <3>2. QED
        BY <1>12, <3>1 DEF RevokeDiscarded, Settle, InvalidateSession, StopWithError,
           AppValues,
           TypeOK, Values
    <2>2. Flags'
      BY <1>12, Zenon DEF RevokeDiscarded, Settle, InvalidateSession, StopWithError,
         HandleInvalidated, TypeOK, Flags
    <2>3. QED
      BY <2>1, <2>2 DEF TypeOK
  <1>13. CASE CommitTombstone
    <2>1. Values'
      BY <1>13 DEF CommitTombstone, Current, TypeOK, Values
    <2>2. Flags'
      BY <1>13, Zenon DEF CommitTombstone, Current, TypeOK, Flags
    <2>3. QED
      BY <2>1, <2>2 DEF TypeOK
  <1>14. CASE TombstoneFails
    <2>1. Values'
      BY <1>14 DEF TombstoneFails, TypeOK, Values
    <2>2. Flags'
      BY <1>14, Zenon DEF TombstoneFails, TypeOK, Flags
    <2>3. QED
      BY <2>1, <2>2 DEF TypeOK
  <1>15. CASE GiveUp
    <2>1. Values'
      BY <1>15 DEF GiveUp, TypeOK, Values
    <2>2. Flags'
      BY <1>15, Zenon DEF GiveUp, TypeOK, Flags
    <2>3. QED
      BY <2>1, <2>2 DEF TypeOK
  <1>16. ASSUME NEW confirmed \in BOOLEAN, EndRemote(confirmed) PROVE TypeOK'
    <2>1. Values'
      BY <1>16 DEF EndRemote, TypeOK, Values
    <2>2. Flags'
      BY <1>16, Zenon DEF EndRemote, TypeOK, Flags
    <2>3. QED
      BY <2>1, <2>2 DEF TypeOK
  <1>17. CASE CompleteLogout
    <2>1. Values'
      BY <1>17 DEF CompleteLogout, AccountedFor, TypeOK, Values
    <2>2. Flags'
      BY <1>17, Zenon DEF CompleteLogout, AccountedFor, TypeOK, Flags
    <2>3. QED
      BY <2>1, <2>2 DEF TypeOK
  <1>18. CASE Told
    <2>1. Values'
      <3>1. warned' \subseteq {"refresh", "logout"}
        BY <1>18 DEF Told, TypeOK, Values
      <3>2. QED
        BY <1>18, <3>1 DEF Told, TypeOK, Values
    <2>2. Flags'
      BY <1>18, Zenon DEF Told, TypeOK, Flags
    <2>3. QED
      BY <2>1, <2>2 DEF TypeOK
  <1>19. CASE ReleaseAfterStop
    <2>1. Values'
      <3>1. AppValues'
        BY <1>19, Handled DEF ReleaseAfterStop, AppValues, TypeOK, Values
      <3>2. QED
        BY <1>19, <3>1 DEF ReleaseAfterStop, AppValues, TypeOK, Values
    <2>2. Flags'
      BY <1>19, Zenon DEF ReleaseAfterStop, HandleInvalidated, TypeOK, Flags
    <2>3. QED
      BY <2>1, <2>2 DEF TypeOK
  <1>20. CASE ReleaseAfterHide
    <2>1. Values'
      BY <1>20 DEF ReleaseAfterHide, TypeOK, Values
    <2>2. Flags'
      BY <1>20, Zenon DEF ReleaseAfterHide, TypeOK, Flags
    <2>3. QED
      BY <2>1, <2>2 DEF TypeOK
  <1>21. CASE AskRefresh
    <2>1. Values'
      BY <1>21 DEF AskRefresh, TypeOK, Values
    <2>2. Flags'
      BY <1>21, Zenon DEF AskRefresh, TypeOK, Flags
    <2>3. QED
      BY <2>1, <2>2 DEF TypeOK
  <1>22. CASE AnswerLate
    <2>1. Values'
      BY <1>22 DEF AnswerLate, TypeOK, Values
    <2>2. Flags'
      BY <1>22, Zenon DEF AnswerLate, TypeOK, Flags
    <2>3. QED
      BY <2>1, <2>2 DEF TypeOK
  <1>23. CASE Publish
    <2>1. Values'
      BY <1>23 DEF Publish, TypeOK, Values
    <2>2. Flags'
      BY <1>23, Zenon DEF Publish, TypeOK, Flags
    <2>3. QED
      BY <2>1, <2>2 DEF TypeOK
  <1>24. CASE Discard
    <2>1. Values'
      BY <1>24 DEF Discard, StopWithError, TypeOK, Values
    <2>2. Flags'
      BY <1>24, Zenon DEF Discard, StopWithError, TypeOK, Flags
    <2>3. QED
      BY <2>1, <2>2 DEF TypeOK
  <1>25. CASE Takeover
    <2>1. Values'
      <3>1. AppValues'
        BY <1>25, Handled DEF Takeover, InvalidateSession, AppValues, TypeOK, Values
      <3>2. mode' \in {"none", "stop", "logout", "pagehide"}
        BY <1>25 DEF Takeover, InvalidateSession, StopWithError, TypeOK, Values
      <3>3. QED
        BY <1>25, <3>1, <3>2 DEF Takeover, AppValues, TypeOK, Values
    <2>2. Flags'
      BY <1>25, Zenon DEF Takeover, InvalidateSession, StopWithError, HandleInvalidated,
         TypeOK, Flags
    <2>3. QED
      BY <2>1, <2>2 DEF TypeOK
  <1>26. CASE Logout
    <2>1. Values'
      BY <1>26 DEF Logout, TypeOK, Values
    <2>2. Flags'
      BY <1>26, Zenon DEF Logout, TypeOK, Flags
    <2>3. QED
      BY <2>1, <2>2 DEF TypeOK
  <1>27. CASE PageHide
    <2>1. Values'
      BY <1>27 DEF PageHide, TypeOK, Values
    <2>2. Flags'
      BY <1>27, Zenon DEF PageHide, TypeOK, Flags
    <2>3. QED
      BY <2>1, <2>2 DEF TypeOK
  <1>28. CASE Close
    <2>1. Values'
      BY <1>28 DEF Close, TypeOK, Values
    <2>2. Flags'
      BY <1>28, Zenon DEF Close, TypeOK, Flags
    <2>3. QED
      BY <2>1, <2>2 DEF TypeOK
  <1>29. CASE OtherTab
    <2>1. Values'
      BY <1>29 DEF OtherTab, TypeOK, Values
    <2>2. Flags'
      BY <1>29, Zenon DEF OtherTab, TypeOK, Flags
    <2>3. QED
      BY <2>1, <2>2 DEF TypeOK
  <1>30. CASE UNCHANGED vars
    <2>1. Values'
      BY <1>30 DEF vars, TypeOK, Values
    <2>2. Flags'
      BY <1>30, Zenon DEF vars, TypeOK, Flags
    <2>3. QED
      BY <2>1, <2>2 DEF TypeOK
  <1>31. QED
    BY <1>1, <1>2, <1>3, <1>4, <1>5, <1>6, <1>7, <1>8, <1>9, <1>10, <1>11, <1>12, <1>13,
       <1>14, <1>15, <1>16, <1>17, <1>18, <1>19, <1>20, <1>21, <1>22, <1>23, <1>24,
       <1>25, <1>26, <1>27, <1>28, <1>29, <1>30 DEF Next, Progress, Choice

LEMMA StepParts ==
    IInv /\ [Next]_vars
        => (Ends /\ Running /\ Pending /\ Settled /\ Removal /\ Owned)'
  <1> DEFINE Parts == Ends /\ Running /\ Pending /\ Settled /\ Removal /\ Owned
  <1> SUFFICES ASSUME IInv, [Next]_vars PROVE Parts'
    OBVIOUS
  <1> USE RecordAssumption DEF IInv
  <1>0. latest \in Nat /\ held \in Nat /\ held \in sealed
    BY IssuedAssumption DEF TypeOK, Values
  <1>1. CASE AcquireLock
    BY <1>0, <1>1 DEF AcquireLock, Ends, Running, Pending, Settled, Removal, Owned
  <1>2. CASE CheckCurrent
    BY <1>0, <1>2 DEF CheckCurrent, Ends, Running, Pending, Settled, Removal, Owned
  <1>3. CASE StartDone
    BY <1>0, <1>3 DEF StartDone, Ends, Running, Pending, Settled, Removal, Owned
  <1>4. CASE StartFails
    <2>1. out = "none" /\ app \in {"pending", "gone"} /\ start # "started"
      BY <1>4 DEF StartFails, Ends, TypeOK, Values
    <2>2. Stopped' /\ start' = "over" /\ app' = "gone" /\ out' = "none"
      BY <1>4, <2>1 DEF StartFails
    <2>3. afterStop /\ mode # "logout" => afterStop'
      BY <1>4 DEF StartFails
    <2>4. RefreshPending => afterStop' \/ Warned
      <3>1. CASE mode \in {"logout", "pagehide"} /\ UNCHANGED afterStop
        BY <2>1, <3>1 DEF Pending
      <3>2. CASE afterStop' = (afterStop \/ RefreshPending)
        BY <3>2, Zenon
      <3>3. QED
        BY <1>4, <3>1, <3>2, Zenon DEF StartFails
    <2>5. Ends' /\ Running' /\ Owned'
      BY <1>0, <1>4, <2>1, <2>2 DEF StartFails, Ends, Running, Pending, Settled,
         Removal, Owned
    <2>6. Pending'
      BY <1>4, <2>1, <2>2, <2>4 DEF StartFails, Pending
    <2>7. Settled'
      BY <1>4, <2>1, <2>2, <2>3 DEF StartFails, Settled, Ends
    <2>8. Removal'
      <3>1. live' => live
        BY <1>4 DEF StartFails
      <3>2. UNCHANGED <<vault, held, latest, revoked, final, refresh, uncertain,
         outcome>>
        BY <1>4 DEF StartFails
      <3>3. QED
        BY <2>1, <2>2, <3>1, <3>2 DEF Removal
    <2>9. QED
      BY <2>5, <2>6, <2>7, <2>8
  <1>5. CASE AnswerRefresh
    BY <1>0, <1>5 DEF AnswerRefresh, Ends, Running, Pending, Settled, Removal, Owned
  <1>6. CASE RefuseRefresh
    BY <1>0, <1>6 DEF RefuseRefresh, Settle, Ends, Running, Pending, Settled, Removal,
       Owned
  <1>7. CASE RefreshTimesOut
    <2>1. Ends' /\ Running' /\ Owned'
      BY <1>0, <1>7
      DEF RefreshTimesOut, Settle, InvalidateSession, StopWithError, HandleInvalidated,
          Ends, Running, Owned
    <2>2. Pending' /\ Settled'
      BY <1>0, <1>7
      DEF RefreshTimesOut, Settle, InvalidateSession, StopWithError, HandleInvalidated,
          Ends, Running, Pending, Settled
    <2>3. Removal'
      BY <1>0, <1>7
      DEF RefreshTimesOut, Settle, InvalidateSession, StopWithError, HandleInvalidated,
          Ends, Running, Removal
    <2>4. QED
      BY <2>1, <2>2, <2>3
  <1>8. CASE Encrypted
    BY <1>0, <1>8 DEF Encrypted, Ends, Running, Pending, Settled, Removal, Owned
  <1>9. CASE CommitReseal
    BY <1>0, <1>9 DEF CommitReseal, Current, Ends, Running, Pending, Settled, Removal,
       Owned
  <1>10. CASE ResealFails
    BY <1>0, <1>10 DEF ResealFails, Ends, Running, Pending, Settled, Removal, Owned
  <1>11. CASE Resealed
    BY <1>0, <1>11 DEF Resealed, Settle, Ends, Running, Pending, Settled, Removal, Owned
  <1>12. ASSUME NEW confirmed \in BOOLEAN, RevokeDiscarded(confirmed) PROVE Parts'
    <2>1. CASE Stopped
      BY <1>0, <1>12, <2>1
      DEF RevokeDiscarded, Settle, Ends, Running, Pending, Settled, Removal, Owned
    <2>2. CASE ~Stopped
      <3>1. Ends' /\ Running'
        BY <1>0, <1>12, <2>2
        DEF RevokeDiscarded, Settle, InvalidateSession, StopWithError,
            HandleInvalidated, Ends, Running, Owned
      <3>2. Pending' /\ Settled'
        BY <1>0, <1>12, <2>2
        DEF RevokeDiscarded, Settle, InvalidateSession, StopWithError,
            HandleInvalidated, Ends, Running, Pending, Settled
      <3>3. Removal' /\ Owned'
        BY <1>0, <1>12, <2>2
        DEF RevokeDiscarded, Settle, InvalidateSession, StopWithError,
            HandleInvalidated, Ends, Running, Removal, Owned
      <3>4. QED
        BY <3>1, <3>2, <3>3
    <2>3. QED
      BY <2>1, <2>2
  <1>13. CASE CommitTombstone
    <2>1. Ends'
      BY <1>0, <1>13 DEF CommitTombstone, Current, Ends, Running, Pending, Settled,
         Removal, Owned
    <2>2. Running'
      BY <1>0, <1>13 DEF CommitTombstone, Current, Ends, Running, Pending, Settled,
         Removal, Owned
    <2>3. Pending'
      BY <1>0, <1>13 DEF CommitTombstone, Current, Ends, Running, Pending, Settled,
         Removal, Owned
    <2>4. Settled'
      BY <1>0, <1>13 DEF CommitTombstone, Current, Ends, Running, Pending, Settled,
         Removal, Owned
    <2>5. Removal'
      <3>1. refresh \in {"none", "asked", "revoking"}
        BY <1>13 DEF CommitTombstone, TypeOK, Values
      <3>2. final # "confirmed" /\ refresh' = refresh
        BY <1>13 DEF CommitTombstone, Removal
      <3>3. QED
        BY <1>0, <1>13, <3>1, <3>2 DEF CommitTombstone, Current, Ends, Running, Pending,
           Settled, Removal, Owned
    <2>6. Owned'
      BY <1>0, <1>13 DEF CommitTombstone, Current, Ends, Running, Pending, Settled,
         Removal, Owned
    <2>7. QED
      BY <2>1, <2>2, <2>3, <2>4, <2>5, <2>6
  <1>14. CASE TombstoneFails
    BY <1>0, <1>14 DEF TombstoneFails, Ends, Running, Pending, Settled, Removal, Owned
  <1>15. CASE GiveUp
    BY <1>0, <1>15 DEF GiveUp, Ends, Running, Pending, Settled, Removal, Owned
  <1>16. ASSUME NEW confirmed \in BOOLEAN, EndRemote(confirmed) PROVE Parts'
    BY <1>0, <1>16 DEF EndRemote, Ends, Running, Pending, Settled, Removal, Owned
  <1>17. CASE CompleteLogout
    BY <1>0, <1>17 DEF CompleteLogout, AccountedFor, Ends, Running, Pending, Settled,
       Removal, Owned
  <1>18. CASE Told
    BY <1>0, <1>18 DEF Told, Ends, Running, Pending, Settled, Removal, Owned
  <1>19. CASE ReleaseAfterStop
    BY <1>0, <1>19 DEF ReleaseAfterStop, HandleInvalidated, Ends, Running, Pending,
       Settled, Removal, Owned
  <1>20. CASE ReleaseAfterHide
    BY <1>0, <1>20 DEF ReleaseAfterHide, Ends, Running, Pending, Settled, Removal, Owned
  <1>21. CASE AskRefresh
    BY <1>0, <1>21 DEF AskRefresh, Ends, Running, Pending, Settled, Removal, Owned
  <1>22. CASE AnswerLate
    BY <1>0, <1>22 DEF AnswerLate, Ends, Running, Pending, Settled, Removal, Owned
  <1>23. CASE Publish
    BY <1>0, <1>23 DEF Publish, Ends, Running, Pending, Settled, Removal, Owned
  <1>24. CASE Discard
    BY <1>0, <1>24 DEF Discard, StopWithError, Ends, Running, Pending, Settled, Removal,
       Owned
  <1>25. CASE Takeover
    BY <1>0, <1>25 DEF Takeover, InvalidateSession, StopWithError, HandleInvalidated,
       Ends, Running, Pending, Settled, Removal, Owned
  <1>26. CASE Logout
    BY <1>0, <1>26 DEF Logout, Ends, Running, Pending, Settled, Removal, Owned
  <1>27. CASE PageHide
    <2>1. Ends'
      BY <1>0, <1>27 DEF PageHide, Ends, Running, Pending, Settled, Removal, Owned
    <2>2. Running'
      BY <1>0, <1>27 DEF PageHide, Ends, Running, Pending, Settled, Removal, Owned
    <2>3. Pending'
      BY <1>0, <1>27 DEF PageHide, Ends, Running, Pending, Settled, Removal, Owned
    <2>4. Settled'
      BY <1>0, <1>27 DEF PageHide, Ends, Running, Pending, Settled, Removal, Owned
    <2>5. Removal'
      BY <1>0, <1>27 DEF PageHide, Ends, Running, Pending, Settled, Removal, Owned
    <2>6. Owned'
      BY <1>0, <1>27 DEF PageHide, Ends, Running, Pending, Settled, Removal, Owned
    <2>7. QED
      BY <2>1, <2>2, <2>3, <2>4, <2>5, <2>6
  <1>28. CASE Close
    BY <1>0, <1>28 DEF Close, Ends, Running, Pending, Settled, Removal, Owned
  <1>29. CASE OtherTab
    BY <1>0, <1>29 DEF OtherTab, Ends, Running, Pending, Settled, Removal, Owned
  <1>30. CASE UNCHANGED vars
    BY <1>30 DEF vars, Ends, Running, Pending, Settled, Removal, Owned
  <1>31. QED
    BY <1>1, <1>2, <1>3, <1>4, <1>5, <1>6, <1>7, <1>8, <1>9, <1>10, <1>11, <1>12, <1>13,
       <1>14, <1>15, <1>16, <1>17, <1>18, <1>19, <1>20, <1>21, <1>22, <1>23, <1>24,
       <1>25, <1>26, <1>27, <1>28, <1>29, <1>30 DEF Next, Progress, Choice

LEMMA StepInv == IInv /\ [Next]_vars => IInv'
  <1> SUFFICES ASSUME IInv, [Next]_vars PROVE IInv'
    OBVIOUS
  <1>1. TypeOK'
    BY StepTyped
  <1>2. (Ends /\ Running /\ Pending /\ Settled /\ Removal /\ Owned)'
    BY StepParts
  <1>3. QED
    BY <1>1, <1>2 DEF IInv

-----------------------------------------------------------------------------
\* The inductive invariant holds in every state of the service, whatever order the
\* SDK, the user, the browser, the homeserver and the other tabs act in.
THEOREM Invariance == Spec => []IInv
  <1>1. Init => IInv
    BY InitInv
  <1>2. IInv /\ [Next]_vars => IInv'
    BY StepInv
  <1>3. QED
    BY <1>1, <1>2, PTL DEF Spec

\* The fields of MatrixService, of its lease and of the application keep their types;
\* the SDK and the lease only ever work with pairs the vault has held.
THEOREM TypeCorrect == Spec => []TypeOK
  <1>1. IInv => TypeOK
    BY DEF IInv
  <1>2. QED
    BY <1>1, Invariance, PTL

\* Whenever the service has come to rest, the last pair the homeserver issued to it is
\* in the vault, revoked, or the user was warned of it: performTokenRefresh, stop,
\* performLogout and scrubForPageHide lose no credentials between them.
THEOREM CredentialsKept == Spec => []CredentialsAccounted
  <1>1. IInv => CredentialsAccounted
    <2> SUFFICES ASSUME IInv, ~RefreshPending, ~afterStop, ~LogoutPending, ~LoggingOut
                 PROVE  \/ latest \in sealed /\ vault # Tombstone
                        \/ latest \in revoked
                        \/ Warned
      BY Zenon DEF CredentialsAccounted, Warned
    <2> USE DEF IInv
    <2>1. CASE uncertain \/ outcome \in {"discarded", "unconfirmed"}
      BY <2>1 DEF Settled
    <2>2. CASE ~uncertain /\ outcome \notin {"discarded", "unconfirmed"}
      <3>1. latest \in sealed \cup revoked
        BY <2>2 DEF Settled
      <3>2. vault = Tombstone => latest \in revoked \/ Warned
        BY DEF Removal
      <3>3. QED
        BY <3>1, <3>2
    <2>3. QED
      BY <2>1, <2>2
  <1>2. QED
    BY <1>1, Invariance, PTL

\* performLogout tells the application that the remote session ended only when no pair
\* of it is alive, and none can still be issued by a refresh it gave up on.
THEOREM HonestLogout == Spec => []LogoutIsHonest
  <1>1. IInv => LogoutIsHonest
    BY DEF IInv, LogoutIsHonest, Removal, Pending
  <1>2. QED
    BY <1>1, Invariance, PTL

\* From before the crypto store is opened the service holds the vault lock, and its
\* client works with the pair the vault holds until the service is stopped.
THEOREM VaultHeld == Spec => []ClientHoldsVault
  <1>1. IInv => ClientHoldsVault
    BY DEF IInv, ClientHoldsVault, Owned
  <1>2. QED
    BY <1>1, Invariance, PTL

\* A tombstone, or what another tab sealed, is never replaced by a pair of this service:
\* the one write of a pair, commitReseal, finds the record the lease knows.
THEOREM NeverResurrected == Spec => NoResurrection
  <1>1. IInv /\ [Next]_vars => [vault' \in Pair => vault \in Pair]_vars
    <2> SUFFICES ASSUME IInv, [Next]_vars, vault' \in Pair, vault \notin Pair
                 PROVE  FALSE
      BY DEF vars
    <2> USE RecordAssumption, IssuedAssumption
    <2>1. held \in Nat
      BY DEF IInv, TypeOK, Values
    <2>2. ~CommitReseal
      BY <2>1 DEF CommitReseal, Current
    <2>3. ~CommitTombstone
      BY DEF CommitTombstone
    <2>4. ~OtherTab
      BY DEF OtherTab
    <2>5. vault' # vault
      OBVIOUS
    <2>6. ~Progress
      BY <2>2, <2>3, <2>5 DEF Progress, AcquireLock, CheckCurrent, StartDone,
         StartFails,
         AnswerRefresh, RefuseRefresh, RefreshTimesOut, Encrypted, ResealFails,
            Resealed,
         RevokeDiscarded, TombstoneFails, GiveUp, EndRemote, CompleteLogout, Told,
         ReleaseAfterStop, ReleaseAfterHide
    <2>7. ~Choice
      BY <2>5 DEF Choice, AskRefresh, AnswerLate, Publish, Discard, Takeover, Logout,
         PageHide, Close
    <2>8. QED
      BY <2>4, <2>5, <2>6, <2>7 DEF Next, vars
  <1>2. QED
    BY <1>1, Invariance, PTL DEF Spec, NoResurrection
-----------------------------------------------------------------------------
(*
The pairs form a chain: whoever asks for the next one has sealed the last one. This
invariant is not part of IInv, which does not need it, and is inductive relative to it.
*)
Chain ==
    /\ \A pair \in 0 .. latest : pair # latest => pair \in sealed
    /\ late => latest \in sealed
    /\ vault \in Pair => vault = latest \/ (vault + 1 = latest /\ latest \notin sealed)

LEMMA InitChain == Init => Chain
  BY RecordAssumption DEF Init, Chain

\* A step that issues nothing and seals nothing, and starts no wait for a late answer.
LEMMA ChainKept ==
    ASSUME Chain, UNCHANGED <<latest, sealed, vault>>, late' => late
    PROVE  Chain'
  BY DEF Chain

\* A pair is issued while the last one is sealed and the next one is not.
LEMMA ChainGrows ==
    ASSUME IInv, Chain, latest \in sealed, latest' = latest + 1, ~late',
           UNCHANGED <<sealed, vault>>
    PROVE  Chain'
  <1>1. latest \in Nat /\ sealed \subseteq 0 .. latest
    BY IssuedAssumption DEF IInv, TypeOK, Values
  <1>2. latest + 1 \notin sealed
    BY <1>1
  <1>3. \A pair \in 0 .. latest + 1 : pair # latest + 1 => pair \in sealed
    <2> SUFFICES ASSUME NEW pair \in 0 .. latest + 1, pair # latest + 1
                 PROVE  pair \in sealed
      OBVIOUS
    <2>1. pair \in 0 .. latest
      BY <1>1
    <2>2. QED
      BY <2>1 DEF Chain
  <1>4. vault \in Pair => vault = latest
    BY DEF Chain
  <1>5. QED
    BY <1>1, <1>2, <1>3, <1>4 DEF Chain

LEMMA StepChain == IInv /\ Chain /\ [Next]_vars => Chain'
  <1> SUFFICES ASSUME IInv, Chain, [Next]_vars PROVE Chain'
    OBVIOUS
  <1>1. latest \in Nat
    BY IssuedAssumption DEF IInv, TypeOK, Values
  <1>2. refresh = "asked" => latest \in sealed
    BY DEF IInv, Pending
  <1>3. CASE AnswerRefresh
    <2>1. ~late
      BY <1>3 DEF AnswerRefresh, IInv, Pending
    <2>2. latest' = latest + 1 /\ ~late' /\ UNCHANGED <<sealed, vault>>
      BY <1>3, <2>1 DEF AnswerRefresh
    <2>3. latest \in sealed
      BY <1>2, <1>3 DEF AnswerRefresh
    <2>4. QED
      BY <2>2, <2>3, ChainGrows
  <1>4. CASE AnswerLate
    <2>1. latest' = latest + 1 /\ ~late' /\ UNCHANGED <<sealed, vault>>
      BY <1>4 DEF AnswerLate
    <2>2. latest \in sealed
      BY <1>4 DEF AnswerLate, Chain
    <2>3. QED
      BY <2>1, <2>2, ChainGrows
  <1>5. CASE RefreshTimesOut
    <2>1. UNCHANGED <<latest, sealed, vault>> /\ latest \in sealed
      BY <1>2, <1>5 DEF RefreshTimesOut
    <2>2. QED
      BY <2>1 DEF Chain
  <1>6. CASE CommitReseal
    <2>1. vault' = latest /\ sealed' = sealed \cup {latest} /\ UNCHANGED <<latest, late>>
      BY <1>6 DEF CommitReseal
    <2>2. QED
      BY <2>1 DEF Chain
  <1>7. CASE CommitTombstone \/ OtherTab
    <2>1. vault' \notin Pair /\ UNCHANGED <<latest, sealed, late>>
      BY <1>7, RecordAssumption DEF CommitTombstone, OtherTab
    <2>2. QED
      BY <2>1 DEF Chain
  <1>8. CASE ~(AnswerRefresh \/ AnswerLate \/ RefreshTimesOut \/ CommitReseal
               \/ CommitTombstone \/ OtherTab)
    <2> DEFINE Still == UNCHANGED <<latest, sealed, vault>> /\ (late' => late)
    <2>1. CASE Progress
      <3>1. ASSUME \/ AcquireLock \/ CheckCurrent \/ StartDone \/ StartFails
                   \/ RefuseRefresh \/ Encrypted \/ ResealFails \/ Resealed
            PROVE  Still
        BY <3>1 DEF AcquireLock, CheckCurrent, StartDone, StartFails, RefuseRefresh,
           Encrypted, ResealFails, Resealed
      <3>2. ASSUME NEW confirmed \in BOOLEAN, RevokeDiscarded(confirmed) PROVE Still
        BY <3>2 DEF RevokeDiscarded
      <3>3. ASSUME NEW confirmed \in BOOLEAN, EndRemote(confirmed) PROVE Still
        BY <3>3 DEF EndRemote
      <3>4. ASSUME TombstoneFails PROVE Still
        BY <3>4 DEF TombstoneFails
      <3>5. ASSUME GiveUp PROVE Still
        BY <3>5 DEF GiveUp
      <3>6. ASSUME CompleteLogout PROVE Still
        BY <3>6 DEF CompleteLogout
      <3>7. ASSUME Told PROVE Still
        BY <3>7 DEF Told
      <3>8. ASSUME ReleaseAfterStop PROVE Still
        BY <3>8 DEF ReleaseAfterStop
      <3>9. ASSUME ReleaseAfterHide PROVE Still
        BY <3>9 DEF ReleaseAfterHide
      <3> HIDE DEF Still
      <3>10. Still
        BY <1>8, <2>1, <3>1, <3>2, <3>3, <3>4, <3>5, <3>6, <3>7, <3>8, <3>9 DEF Progress
      <3>11. QED
        BY <3>10, ChainKept DEF Still
    <2>2. CASE Choice
      <3>1. ASSUME AskRefresh PROVE Still
        BY <3>1 DEF AskRefresh
      <3>2. ASSUME Publish PROVE Still
        BY <3>2 DEF Publish
      <3>3. ASSUME Discard PROVE Still
        BY <3>3 DEF Discard
      <3>4. ASSUME Takeover PROVE Still
        BY <3>4 DEF Takeover
      <3>5. ASSUME Logout PROVE Still
        BY <3>5 DEF Logout
      <3>6. ASSUME PageHide PROVE Still
        BY <3>6 DEF PageHide
      <3>7. ASSUME Close PROVE Still
        BY <3>7 DEF Close
      <3> HIDE DEF Still
      <3>8. Still
        BY <1>8, <2>2, <3>1, <3>2, <3>3, <3>4, <3>5, <3>6, <3>7 DEF Choice
      <3>9. QED
        BY <3>8, ChainKept DEF Still
    <2>3. CASE UNCHANGED vars
      <3>1. Still
        BY <2>3 DEF vars
      <3>2. QED
        BY <3>1, ChainKept
    <2>4. QED
      BY <1>8, <2>1, <2>2, <2>3 DEF Next
  <1>9. QED
    BY <1>3, <1>4, <1>5, <1>6, <1>7, <1>8

\* However a document ends, and whatever was in flight when it did: every pair but the
\* last was sealed by commitReseal before its successor was asked for, and a vault of
\* this login is at most one pair behind the homeserver.
THEOREM OneAtRisk == Spec => []OnlyLastAtRisk
  <1>1. Init => Chain
    BY InitChain
  <1>2. IInv /\ Chain /\ [Next]_vars => Chain'
    BY StepChain
  <1>3. Chain => OnlyLastAtRisk
    BY DEF Chain, OnlyLastAtRisk
  <1>4. QED
    BY <1>1, <1>2, <1>3, Invariance, PTL DEF Spec
=============================================================================
