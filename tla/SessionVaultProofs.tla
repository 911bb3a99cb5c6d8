------------------------- MODULE SessionVaultProofs -------------------------
(***************************************************************************)
(* Theorems about SessionVault, for every set of tabs and every number of  *)
(* logins and refreshes.                                                   *)
(*                                                                         *)
(* The inductive invariant relates what a tab remembers to what is stored. *)
(* Operating: what the record looks like to an operation that holds the    *)
(* lock, which only completeLocalSessionCleanup changes without it.        *)
(* Past: a tab remembers no record that is still to come, so a record that *)
(* changed never becomes again what an obsolete cleanup remembers.         *)
(* Covered: the record names every database there is, unless its cleanup   *)
(* takes whatever there is.  Removal: an operation that deletes has        *)
(* everything that is left on its list.                                    *)
(***************************************************************************)
EXTENDS SessionVault, TLAPS

Operating ==
    \A t \in Tab :
        /\ step[t] \in Owning => lock = t
        /\ step[t] \in Client \union {"committed", "unlocking", "clearing"} =>
            record.kind = "locked" /\ record = seen[t]
        /\ step[t] = "creating" => Available
        /\ step[t] = "migrating" => record.kind = "legacy" /\ record = seen[t]
        /\ step[t] \in Removing => record.kind \in {"erasing", "erased"}

Past ==
    /\ record.id <= minted
    /\ \A t \in Tab :
        /\ seen[t].id <= minted
        /\ seen[t].id = record.id => seen[t].rev <= record.rev

Recalled ==
    \A t \in Tab :
        /\ step[t] = "legacy" => seen[t].kind = "legacy"
        /\ step[t] \in {"locked", "unlocked"} => seen[t].kind = "locked"
        /\ step[t] \in Removing \union {"cleanup", "cleaned"} => seen[t].kind = "erasing"
        /\ step[t] = "erasing" => ~seen[t].all

Covered ==
    /\ record.all => record.kind = "erasing"
    /\ record.kind \in {"legacy", "locked", "erasing"} /\ ~record.all =>
        dbs \subseteq record.names
    /\ Available => dbs = {}
    /\ record.kind = "legacy" =>
        Legacy \in dbs /\ doomed \subseteq {Sync} /\ record.names = {Legacy, Sync}
    /\ record.kind = "corrupt" => doomed = {}
    /\ record.kind = "locked" => doomed = {} /\ Sync \notin dbs

Removal ==
    \A t \in Tab :
        /\ step[t] \in {"migrating", "clearing"} => todo[t] \subseteq {Sync}
        /\ step[t] = "migrating" /\ ~failed[t] => dbs \intersect {Sync} \subseteq todo[t]
        /\ step[t] \in {"cleaning", "wiping"} /\ ~failed[t] /\ record = seen[t] =>
            dbs \subseteq todo[t]
        /\ step[t] \in {"cleaned", "wiped"} /\ record = seen[t] => dbs = {}

IInv == TypeOK /\ Operating /\ Past /\ Recalled /\ Covered /\ Removal

-----------------------------------------------------------------------------
(* Records *)

\* The kinds of a record, and that a screen is not an operation.
LEMMA Kinds ==
    /\ DOMAIN Route = {"absent", "erased", "locked", "legacy", "erasing", "corrupt"}
    /\ \A k \in DOMAIN Route : Route[k] \in Steps \ Owning
  BY DEF Route, Steps, Owning, Sealing, Removing, Client

\* What the operations write is a record.
LEMMA Records ==
    ASSUME NEW r \in Record
    PROVE  /\ Absent \in Record
           /\ Corrupt \in Record
           /\ LegacyRecord \in Record
           /\ Tombstone(r) \in Record
           /\ Erased(r) \in Record
           /\ \A id \in Nat : \A names \in SUBSET Database : Locked(id, names) \in Record
  <1>1. /\ Absent \in Record /\ Corrupt \in Record /\ LegacyRecord \in Record
    BY Kinds DEF Absent, Corrupt, LegacyRecord, Record, Database
  <1>2. /\ r.rev + 1 \in Nat /\ {} \in SUBSET Database
        /\ "erasing" \in DOMAIN Route /\ "erased" \in DOMAIN Route
    BY Kinds DEF Record
  <1>5. Tombstone(r) \in Record
    BY <1>2 DEF Tombstone, Record
  <1>6. Erased(r) \in Record
    BY <1>2 DEF Erased, Record
  <1>3. ASSUME NEW id \in Nat, NEW names \in SUBSET Database
        PROVE  Locked(id, names) \in Record
    BY Kinds DEF Locked, Record
  <1>4. QED
    BY <1>1, <1>3, <1>5, <1>6

\* A reset writes a record whatever it finds.
LEMMA ForgottenRecord ==
    ASSUME record \in Record, minted \in Nat
    PROVE  Forgotten \in Record
  <1>1. Tombstone(record) \in Record
    BY Records
  <1>2. /\ record.kind \in DOMAIN Route /\ minted + 1 \in Nat
        /\ {} \in SUBSET Database /\ "erasing" \in DOMAIN Route
    BY Kinds DEF Record
  <1>3. CASE record.kind \in {"locked", "erased", "erasing", "legacy"}
    BY <1>1, <1>2, <1>3 DEF Forgotten, Record
  <1>4. CASE record.kind \in {"absent", "corrupt"}
    BY <1>1, <1>2, <1>4 DEF Forgotten, Record
  <1>5. QED
    BY <1>2, <1>3, <1>4, Kinds

\* It orders a deletion, in a revision of its own, of the vault it found or of a
\* new one.
LEMMA ForgottenOrders ==
    ASSUME record \in Record, minted \in Nat
    PROVE  /\ Forgotten.kind = "erasing" /\ Forgotten.rev = record.rev + 1
           /\ Forgotten.id \in {record.id, minted + 1}
  <1>1. /\ Tombstone(record).kind = "erasing" /\ Tombstone(record).rev = record.rev + 1
        /\ Tombstone(record).id = record.id /\ Tombstone(record) \in Record
    BY Records DEF Tombstone, Record
  <1>2. ASSUME NEW r \in Record
        PROVE  /\ [r EXCEPT !.names = {}, !.all = TRUE].kind = r.kind
               /\ [r EXCEPT !.names = {}, !.all = TRUE].rev = r.rev
               /\ [r EXCEPT !.names = {}, !.all = TRUE].id = r.id
               /\ [r EXCEPT !.all = TRUE].kind = r.kind
               /\ [r EXCEPT !.all = TRUE].rev = r.rev
               /\ [r EXCEPT !.all = TRUE].id = r.id
               /\ \A id \in Nat : /\ [r EXCEPT !.id = id].kind = r.kind
                                  /\ [r EXCEPT !.id = id].rev = r.rev
                                  /\ [r EXCEPT !.id = id].id = id
                                  /\ [r EXCEPT !.id = id, !.all = TRUE].kind = r.kind
                                  /\ [r EXCEPT !.id = id, !.all = TRUE].rev = r.rev
                                  /\ [r EXCEPT !.id = id, !.all = TRUE].id = id
    BY DEF Record
  <1>3. minted + 1 \in Nat
    OBVIOUS
  <1>4. QED
    BY <1>1, <1>2, <1>3 DEF Forgotten

\* Every vault an older release or nobody left is typed.
LEMMA InitTyped == Init => TypeOK
  <1>1. Absent \in Record /\ Corrupt \in Record /\ LegacyRecord \in Record
    BY Kinds DEF Absent, Corrupt, LegacyRecord, Record, Database
  <1>2. SUFFICES ASSUME Init PROVE TypeOK
    OBVIOUS
  <1>3. record \in Record /\ dbs \subseteq Database
    BY <1>1, <1>2 DEF Init, Database
  <1>4. QED
    BY <1>1, <1>2, <1>3 DEF Init, TypeOK, Steps

\* Every step keeps the types.
LEMMA StepTyped ==
    ASSUME TypeOK, NEW t \in Tab, Progress(t) \/ Choice(t)
    PROVE  TypeOK'
  <1> USE DEF TypeOK, Go, Remember, Back, Release, Acquire, Refuse,
          Unowned, Settled, GaveUp, Steps, Owning, Sealing, Removing, Client
  <1>0. Absent \in Record
    BY Records
  <1>1. CASE CommitCreate(t)
    <2>1. {draft[t]} \in SUBSET Database /\ minted + 1 \in Nat
      BY <1>1 DEF CommitCreate, Database
    <2>2. Locked(minted + 1, {draft[t]}) \in Record
      BY <2>1, Records
    <2>3. QED
      BY <1>1, <2>1, <2>2 DEF CommitCreate
  <1>2. CASE Publish(t)
    BY <1>0, <1>2 DEF Publish
  <1>3. CASE CommitMigrate(t)
    <2>1. record.names \in SUBSET Database /\ minted + 1 \in Nat
      BY DEF Record
    <2>2. Locked(minted + 1, record.names) \in Record
      BY <2>1, Records
    <2>3. record' \in Record /\ minted' \in Nat
      BY <1>3, <2>1, <2>2 DEF CommitMigrate
    <2>4. QED
      BY <1>3, <2>3 DEF CommitMigrate
  <1>4. CASE MigrateFails(t)
    BY <1>0, <1>4 DEF MigrateFails
  <1>5. CASE AssertCurrent(t)
    BY <1>0, <1>5 DEF AssertCurrent, Database
  <1>6. CASE WrongKey(t)
    BY <1>0, <1>6 DEF WrongKey
  <1>7. CASE GrantLease(t)
    BY <1>0, <1>7 DEF GrantLease
  <1>8. CASE CleanupFails(t)
    BY <1>0, <1>8 DEF CleanupFails
  <1>9. CASE EndCleanup(t)
    BY <1>0, <1>9 DEF EndCleanup
  <1>10. CASE OpenStore(t)
    BY <1>0, <1>10 DEF OpenStore, Record
  <1>11. CASE EraseStores(t)
    BY <1>0, <1>11 DEF EraseStores, Record
  <1>12. CASE StoresErased(t)
    BY <1>0, <1>12 DEF StoresErased
  <1>13. CASE CompleteLogout(t)
    BY Records, <1>0, <1>13 DEF CompleteLogout
  <1>14. CASE LogoutFails(t)
    BY <1>0, <1>14 DEF LogoutFails
  <1>15. ASSUME NEW d \in todo[t], DeleteDatabase(t, d) PROVE TypeOK'
    BY <1>0, <1>15 DEF DeleteDatabase
  <1>16. CASE Inspect(t)
    BY Kinds, <1>0, <1>16 DEF Inspect, Route, Record
  <1>17. CASE SignIn(t)
    BY <1>0, <1>17 DEF SignIn, Prepare
  <1>17a. CASE RedirectLogin(t)
    BY <1>0, <1>17a DEF RedirectLogin, Prepare
  <1>17b. CASE CancelEnrolment(t)
    BY <1>0, <1>17b DEF CancelEnrolment
  <1>18. CASE BeginCreate(t)
    BY <1>0, <1>18 DEF BeginCreate
  <1>19. CASE CreateConflict(t)
    BY <1>0, <1>19 DEF CreateConflict
  <1>20. CASE BeginMigrate(t)
    BY <1>0, <1>20 DEF BeginMigrate, Database
  <1>21. CASE MigrateConflict(t)
    BY <1>0, <1>21 DEF MigrateConflict
  <1>22. CASE BeginUnlock(t)
    BY <1>0, <1>22 DEF BeginUnlock
  <1>23. CASE Abort(t)
    BY <1>0, <1>23 DEF Abort
  <1>24. CASE Forget(t)
    BY ForgottenRecord, <1>0, <1>24 DEF Forget
  <1>25. CASE BeginCleanup(t)
    BY <1>0, <1>25 DEF BeginCleanup, Targets, Record
  <1>26. CASE CleanupConflict(t)
    BY <1>0, <1>26 DEF CleanupConflict
  <1>27. CASE PushCleanupFails(t)
    BY <1>0, <1>27 DEF PushCleanupFails
  <1>28. CASE CompleteCleanup(t)
    BY Records, <1>0, <1>28 DEF CompleteCleanup
  <1>29. CASE TakeOwnership(t)
    BY <1>0, <1>29 DEF TakeOwnership
  <1>30. CASE StartRefused(t)
    BY <1>0, <1>30 DEF StartRefused
  <1>31. CASE Stop(t)
    BY <1>0, <1>31 DEF Stop, Record
  <1>32. CASE Reseal(t)
    <2>1. [record EXCEPT !.rev = @ + 1] \in Record
      BY DEF Record
    <2>2. record' \in Record
      BY <1>32, <2>1 DEF Reseal
    <2>3. QED
      BY <1>32, <2>2 DEF Reseal
  <1>33. CASE Logout(t)
    BY Records, <1>0, <1>33 DEF Logout
  <1>34. CASE Crash(t)
    BY <1>0, <1>34 DEF Crash
  <1>35. CASE Open(t)
    BY <1>0, <1>35 DEF Open
  <1>36. QED
    BY <1>1, <1>2, <1>3, <1>4, <1>5, <1>6, <1>7, <1>8, <1>9, <1>10,
           <1>11, <1>12, <1>13, <1>14, <1>15, <1>16, <1>17, <1>18, <1>19,
           <1>17a, <1>17b,
           <1>20, <1>21, <1>22, <1>23, <1>24, <1>25, <1>26, <1>27, <1>28,
           <1>29, <1>30, <1>31, <1>32, <1>33, <1>34, <1>35 DEF Progress,
           Choice

\* Every step keeps what operations rely on, what tabs remember, and when.
LEMMA StepOperating ==
    ASSUME IInv, NEW t \in Tab, Progress(t) \/ Choice(t)
    PROVE  Operating' /\ Past' /\ Recalled'
  <1> USE NoTabAssumption DEF IInv, TypeOK, Operating, Recalled, Past,
          Covered, Available, LeaseCurrent, MarkerCurrent, Record, Absent, Go,
          Remember, Back, Release, Acquire, Refuse, Unowned, Settled, GaveUp,
          Steps, Owning, Sealing, Removing, Client
  <1>1. CASE CommitCreate(t)
    BY <1>1, Kinds DEF CommitCreate, Locked
  <1>2. CASE Publish(t)
    BY <1>2, Kinds DEF Publish
  <1>3. CASE CommitMigrate(t)
    BY <1>3, Kinds DEF CommitMigrate, Locked
  <1>4. CASE MigrateFails(t)
    BY <1>4, Kinds DEF MigrateFails
  <1>5. CASE AssertCurrent(t)
    BY <1>5, Kinds DEF AssertCurrent
  <1>6. CASE WrongKey(t)
    BY <1>6, Kinds DEF WrongKey
  <1>7. CASE GrantLease(t)
    BY <1>7, Kinds DEF GrantLease
  <1>8. CASE CleanupFails(t)
    BY <1>8, Kinds DEF CleanupFails
  <1>9. CASE EndCleanup(t)
    BY <1>9, Kinds DEF EndCleanup
  <1>10. CASE OpenStore(t)
    BY <1>10, Kinds DEF OpenStore
  <1>11. CASE EraseStores(t)
    BY <1>11, Kinds DEF EraseStores
  <1>12. CASE StoresErased(t)
    BY <1>12, Kinds DEF StoresErased
  <1>13. CASE CompleteLogout(t)
    BY <1>13, Kinds DEF CompleteLogout, Erased
  <1>14. CASE LogoutFails(t)
    BY <1>14, Kinds DEF LogoutFails
  <1>15. CASE Inspect(t)
    BY <1>15, Kinds DEF Inspect, Route
  <1>16. CASE SignIn(t)
    BY <1>16, Kinds DEF SignIn, Prepare
  <1>16a. CASE RedirectLogin(t)
    BY <1>16a, Kinds DEF RedirectLogin, Prepare
  <1>16b. CASE CancelEnrolment(t)
    BY <1>16b, Kinds DEF CancelEnrolment
  <1>17. CASE BeginCreate(t)
    BY <1>17, Kinds DEF BeginCreate
  <1>18. CASE CreateConflict(t)
    BY <1>18, Kinds DEF CreateConflict
  <1>19. CASE BeginMigrate(t)
    BY <1>19, Kinds DEF BeginMigrate
  <1>20. CASE MigrateConflict(t)
    BY <1>20, Kinds DEF MigrateConflict
  <1>21. CASE BeginUnlock(t)
    BY <1>21, Kinds DEF BeginUnlock
  <1>22. CASE Abort(t)
    BY <1>22, Kinds DEF Abort
  <1>23. CASE Forget(t)
    <2>1. /\ record'.kind = "erasing" /\ record'.rev = record.rev + 1
          /\ record'.id \in {record.id, minted + 1}
          /\ minted' = IF record'.id = record.id THEN minted ELSE minted + 1
      BY <1>23, ForgottenOrders DEF Forget
    <2>2. /\ step' = [step EXCEPT ![t] = "cleanup"] /\ seen' = [seen EXCEPT ![t] = record']
          /\ \A u \in Tab : step[u] \notin Owning /\ UNCHANGED lock
      BY <1>23 DEF Forget
    <2>3. QED
      BY <2>1, <2>2, Kinds
  <1>24. CASE BeginCleanup(t)
    BY <1>24, Kinds DEF BeginCleanup
  <1>25. CASE CleanupConflict(t)
    BY <1>25, Kinds DEF CleanupConflict
  <1>26. CASE PushCleanupFails(t)
    BY <1>26, Kinds DEF PushCleanupFails
  <1>27. CASE CompleteCleanup(t)
    BY <1>27, Kinds DEF CompleteCleanup, Erased
  <1>28. CASE TakeOwnership(t)
    BY <1>28, Kinds DEF TakeOwnership
  <1>29. CASE StartRefused(t)
    BY <1>29, Kinds DEF StartRefused
  <1>30. CASE Stop(t)
    BY <1>30, Kinds DEF Stop
  <1>31. CASE Reseal(t)
    BY <1>31, Kinds DEF Reseal
  <1>32. CASE Logout(t)
    BY <1>32, Kinds DEF Logout, Tombstone
  <1>33. CASE Crash(t)
    BY <1>33, Kinds DEF Crash
  <1>34. CASE Open(t)
    BY <1>34, Kinds DEF Open
  <1>35. ASSUME NEW d \in todo[t], DeleteDatabase(t, d) PROVE Operating' /\ Past' /\ Recalled'
    BY <1>35 DEF DeleteDatabase
  <1>36. QED
    BY <1>1, <1>2, <1>3, <1>4, <1>5, <1>6, <1>7, <1>8, <1>9, <1>10,
           <1>11, <1>12, <1>13, <1>14, <1>15, <1>16, <1>17, <1>18, <1>19,
           <1>16a, <1>16b,
           <1>20, <1>21, <1>22, <1>23, <1>24, <1>25, <1>26, <1>27, <1>28,
           <1>29, <1>30, <1>31, <1>32, <1>33, <1>34, <1>35 DEF Progress,
           Choice

\* Every step keeps the databases within what the record accounts for.
LEMMA StepCovered ==
    ASSUME IInv, NEW t \in Tab, Progress(t) \/ Choice(t)
    PROVE  Covered'
  <1> USE LegacyAssumption DEF IInv, TypeOK, Covered, Operating,
          Recalled, Removal, Available, MarkerCurrent, Go, Remember, Back,
          Release, Acquire, Refuse, Unowned, Settled, GaveUp, Steps, Owning,
          Sealing, Removing, Client
  <1>1. CASE CommitCreate(t)
    BY <1>1 DEF CommitCreate, Locked
  <1>2. CASE Publish(t)
    BY <1>2 DEF Publish
  <1>3. CASE CommitMigrate(t)
    BY <1>3 DEF CommitMigrate, Locked
  <1>4. CASE MigrateFails(t)
    BY <1>4 DEF MigrateFails
  <1>5. CASE AssertCurrent(t)
    BY <1>5 DEF AssertCurrent
  <1>6. CASE WrongKey(t)
    BY <1>6 DEF WrongKey
  <1>7. CASE GrantLease(t)
    BY <1>7 DEF GrantLease
  <1>8. CASE CleanupFails(t)
    BY <1>8 DEF CleanupFails
  <1>9. CASE EndCleanup(t)
    BY <1>9 DEF EndCleanup
  <1>10. CASE OpenStore(t)
    BY <1>10 DEF OpenStore
  <1>11. CASE EraseStores(t)
    BY <1>11 DEF EraseStores
  <1>12. CASE StoresErased(t)
    BY <1>12 DEF StoresErased
  <1>13. CASE CompleteLogout(t)
    BY <1>13 DEF CompleteLogout, Erased, Record
  <1>14. CASE LogoutFails(t)
    BY <1>14 DEF LogoutFails
  <1>15. ASSUME NEW d \in todo[t], DeleteDatabase(t, d) PROVE Covered'
    <2>1. step[t] \in {"migrating", "clearing", "cleaning", "wiping"}
      OBVIOUS
    <2>2. record' = record /\ dbs' \subseteq dbs
      BY <1>15 DEF DeleteDatabase
    <2>3. CASE step[t] = "migrating"
      <3>1. record.kind = "legacy" /\ d = Sync
        BY <2>3
      <3>2. QED
        BY <1>15, <3>1, <2>2, LegacyAssumption DEF DeleteDatabase
    <2>4. CASE step[t] = "clearing"
      <3>1. record.kind = "locked" /\ d = Sync
        BY <2>4
      <3>2. QED
        BY <1>15, <3>1, <2>2 DEF DeleteDatabase
    <2>5. CASE step[t] \in {"cleaning", "wiping"}
      <3>1. record.kind \in {"erasing", "erased"}
        BY <2>5
      <3>2. QED
        BY <3>1, <2>2
    <2>6. QED
      BY <2>1, <2>3, <2>4, <2>5
  <1>16. CASE Inspect(t)
    BY <1>16 DEF Inspect, Route, Record
  <1>17. CASE SignIn(t)
    BY <1>17 DEF SignIn, Prepare
  <1>17a. CASE RedirectLogin(t)
    BY <1>17a DEF RedirectLogin, Prepare
  <1>17b. CASE CancelEnrolment(t)
    BY <1>17b DEF CancelEnrolment
  <1>18. CASE BeginCreate(t)
    BY <1>18 DEF BeginCreate
  <1>19. CASE CreateConflict(t)
    BY <1>19 DEF CreateConflict
  <1>20. CASE BeginMigrate(t)
    BY <1>20 DEF BeginMigrate
  <1>21. CASE MigrateConflict(t)
    BY <1>21 DEF MigrateConflict
  <1>22. CASE BeginUnlock(t)
    BY <1>22 DEF BeginUnlock
  <1>23. CASE Abort(t)
    BY <1>23 DEF Abort
  <1>24. CASE Forget(t)
    BY <1>24 DEF Forget, Forgotten, Tombstone, Record
  <1>25. CASE BeginCleanup(t)
    BY <1>25 DEF BeginCleanup
  <1>26. CASE CleanupConflict(t)
    BY <1>26 DEF CleanupConflict
  <1>27. CASE PushCleanupFails(t)
    BY <1>27 DEF PushCleanupFails
  <1>28. CASE CompleteCleanup(t)
    BY <1>28 DEF CompleteCleanup, Erased, Record
  <1>29. CASE TakeOwnership(t)
    BY <1>29 DEF TakeOwnership
  <1>30. CASE StartRefused(t)
    BY <1>30 DEF StartRefused
  <1>31. CASE Stop(t)
    BY <1>31 DEF Stop
  <1>32. CASE Reseal(t)
    BY <1>32 DEF Reseal, Record
  <1>33. CASE Logout(t)
    BY <1>33 DEF Logout, Tombstone, Record
  <1>34. CASE Crash(t)
    BY <1>34 DEF Crash
  <1>35. CASE Open(t)
    BY <1>35 DEF Open
  <1>36. QED
    BY <1>1, <1>2, <1>3, <1>4, <1>5, <1>6, <1>7, <1>8, <1>9, <1>10,
           <1>11, <1>12, <1>13, <1>14, <1>15, <1>16, <1>17, <1>18, <1>19,
           <1>17a, <1>17b,
           <1>20, <1>21, <1>22, <1>23, <1>24, <1>25, <1>26, <1>27, <1>28,
           <1>29, <1>30, <1>31, <1>32, <1>33, <1>34, <1>35 DEF Progress,
           Choice

\* Every step keeps the lists of deletions complete.
LEMMA StepRemoval ==
    ASSUME IInv, NEW t \in Tab, Progress(t) \/ Choice(t)
    PROVE  Removal'
  <1> USE DEF IInv, TypeOK, Covered, Operating, Recalled, Past,
          Removal, Available, MarkerCurrent, LeaseCurrent, Go, Remember, Back,
          Release, Acquire, Refuse, Unowned, Settled, GaveUp, Steps, Owning,
          Sealing, Removing, Client
  <1>1. CASE CommitCreate(t)
    BY <1>1 DEF CommitCreate, Locked
  <1>2. CASE Publish(t)
    BY <1>2 DEF Publish
  <1>3. CASE CommitMigrate(t)
    BY <1>3 DEF CommitMigrate, Locked
  <1>4. CASE MigrateFails(t)
    BY <1>4 DEF MigrateFails
  <1>5. CASE AssertCurrent(t)
    BY <1>5 DEF AssertCurrent
  <1>6. CASE WrongKey(t)
    BY <1>6 DEF WrongKey
  <1>7. CASE GrantLease(t)
    BY <1>7 DEF GrantLease
  <1>8. CASE CleanupFails(t)
    BY <1>8 DEF CleanupFails
  <1>9. CASE EndCleanup(t)
    BY <1>9 DEF EndCleanup
  <1>10. CASE OpenStore(t)
    BY <1>10 DEF OpenStore
  <1>11. CASE EraseStores(t)
    BY <1>11 DEF EraseStores
  <1>12. CASE StoresErased(t)
    BY <1>12 DEF StoresErased
  <1>13. CASE CompleteLogout(t)
    BY <1>13 DEF CompleteLogout, Erased, Record
  <1>14. CASE LogoutFails(t)
    BY <1>14 DEF LogoutFails
  <1>15. ASSUME NEW d \in todo[t], DeleteDatabase(t, d) PROVE Removal'
    BY <1>15 DEF DeleteDatabase
  <1>16. CASE Inspect(t)
    BY Kinds, <1>16 DEF Inspect, Route, Record
  <1>17. CASE SignIn(t)
    BY <1>17 DEF SignIn, Prepare
  <1>17a. CASE RedirectLogin(t)
    BY <1>17a DEF RedirectLogin, Prepare
  <1>17b. CASE CancelEnrolment(t)
    BY <1>17b DEF CancelEnrolment
  <1>18. CASE BeginCreate(t)
    BY <1>18 DEF BeginCreate
  <1>19. CASE CreateConflict(t)
    BY <1>19 DEF CreateConflict
  <1>20. CASE BeginMigrate(t)
    BY <1>20 DEF BeginMigrate
  <1>21. CASE MigrateConflict(t)
    BY <1>21 DEF MigrateConflict
  <1>22. CASE BeginUnlock(t)
    BY <1>22 DEF BeginUnlock
  <1>23. CASE Abort(t)
    BY <1>23 DEF Abort
  <1>24. CASE Forget(t)
    <2>1. /\ record'.id = record.id => record'.rev = record.rev + 1
          /\ record'.id # record.id => record'.id = minted + 1
      BY <1>24 DEF Forget, Forgotten, Tombstone, Record
    <2>2. \A u \in Tab : seen[u] # record'
      BY <2>1 DEF Record
    <2>3. \A u \in Tab \ {t} : step[u] \notin Owning
      BY <1>24, NoTabAssumption DEF Forget
    <2>4. /\ step'[t] \in {"cleanup", "erasing"}
          /\ \A u \in Tab \ {t} : step'[u] = step[u] /\ seen'[u] = seen[u]
          /\ UNCHANGED <<todo, failed>>
      BY <1>24 DEF Forget
    <2>5. QED
      BY <2>2, <2>3, <2>4
  <1>25. CASE BeginCleanup(t)
    BY <1>25 DEF BeginCleanup, Targets
  <1>26. CASE CleanupConflict(t)
    BY <1>26 DEF CleanupConflict
  <1>27. CASE PushCleanupFails(t)
    BY <1>27 DEF PushCleanupFails
  <1>28. CASE CompleteCleanup(t)
    BY <1>28 DEF CompleteCleanup, Erased, Record
  <1>29. CASE TakeOwnership(t)
    BY <1>29 DEF TakeOwnership
  <1>30. CASE StartRefused(t)
    BY <1>30 DEF StartRefused
  <1>31. CASE Stop(t)
    BY <1>31 DEF Stop
  <1>32. CASE Reseal(t)
    BY <1>32 DEF Reseal, Record
  <1>33. CASE Logout(t)
    <2>1. /\ record'.id = record.id => record'.rev = record.rev + 1
          /\ record'.id # record.id => record'.id = minted + 1
      BY <1>33 DEF Logout, Forgotten, Tombstone, Record
    <2>2. \A u \in Tab : seen[u] # record'
      BY <2>1 DEF Record
    <2>3. \A u \in Tab \ {t} : step[u] \notin Owning
      BY <1>33, NoTabAssumption DEF Logout
    <2>4. /\ step'[t] \in {"cleanup", "erasing"}
          /\ \A u \in Tab \ {t} : step'[u] = step[u] /\ seen'[u] = seen[u]
          /\ UNCHANGED <<todo, failed>>
      BY <1>33 DEF Logout
    <2>5. QED
      BY <2>2, <2>3, <2>4
  <1>34. CASE Crash(t)
    BY <1>34 DEF Crash
  <1>35. CASE Open(t)
    BY <1>35 DEF Open
  <1>36. QED
    BY <1>1, <1>2, <1>3, <1>4, <1>5, <1>6, <1>7, <1>8, <1>9, <1>10,
           <1>11, <1>12, <1>13, <1>14, <1>15, <1>16, <1>17, <1>18, <1>19,
           <1>17a, <1>17b,
           <1>20, <1>21, <1>22, <1>23, <1>24, <1>25, <1>26, <1>27, <1>28,
           <1>29, <1>30, <1>31, <1>32, <1>33, <1>34, <1>35 DEF Progress,
           Choice

\* A belated deletion keeps the invariant.
LEMMA StepLate ==
    ASSUME IInv, NEW d \in doomed, LateDelete(d)
    PROVE  IInv'
  <1>1. TypeOK'
    BY DEF IInv, TypeOK, LateDelete, tabs
  <1>2. Operating' /\ Past' /\ Recalled'
    BY DEF IInv, Operating, Past, Recalled, LateDelete, tabs, Available
  <1>3. Covered'
    BY LegacyAssumption DEF IInv, TypeOK, Covered, LateDelete, tabs, Available
  <1>4. Removal'
    BY DEF IInv, TypeOK, Removal, LateDelete, tabs
  <1>5. QED
    BY <1>1, <1>2, <1>3, <1>4 DEF IInv

-----------------------------------------------------------------------------
(* The inductive invariant *)

\* The invariant holds at first.
LEMMA InitInv == Init => IInv
  <1>1. Init => TypeOK
    BY InitTyped
  <1>2. Init => Operating /\ Recalled /\ Removal
    BY DEF Init, Operating, Recalled, Removal, Owning, Sealing, Removing, Client
  <1>3. ASSUME Init PROVE Past
    <2>1. record.id = 0 /\ record.rev = 0 /\ minted = 0
      <3>1. Absent.id = 0 /\ Absent.rev = 0
        BY DEF Absent
      <3>2. LegacyRecord.id = 0 /\ LegacyRecord.rev = 0
        BY DEF LegacyRecord, Absent
      <3>3. Corrupt.id = 0 /\ Corrupt.rev = 0
        BY DEF Corrupt, Absent
      <3>4. QED
        BY <1>3, <3>1, <3>2, <3>3 DEF Init
    <2>2. \A t \in Tab : seen[t].id = 0 /\ seen[t].rev = 0
      BY <1>3 DEF Init, Absent
    <2>3. QED
      BY <2>1, <2>2 DEF Past
  <1>4. ASSUME Init PROVE Covered
    <2>1. CASE record = Absent /\ dbs = {}
      BY <1>4, <2>1 DEF Covered, Available, Absent
    <2>2. CASE record = LegacyRecord /\ dbs = {Legacy, Sync}
      <3>1. doomed = {}
        BY <1>4 DEF Init
      <3>2. QED
        BY <2>2, <3>1 DEF Covered, Available, LegacyRecord, Absent
    <2>3. CASE record = Corrupt
      <3>1. doomed = {}
        BY <1>4 DEF Init
      <3>2. QED
        BY <2>3, <3>1 DEF Covered, Available, Corrupt, Absent
    <2>4. QED
      BY <1>4, <2>1, <2>2, <2>3 DEF Init
  <1>5. QED
    BY <1>1, <1>2, <1>3, <1>4 DEF IInv

\* Every step of the system keeps the invariant.
LEMMA StepInv == IInv /\ [Next]_vars => IInv'
  <1>1. ASSUME IInv, NEW t \in Tab, Progress(t) \/ Choice(t) PROVE IInv'
    <2>1. TypeOK'
      BY <1>1, StepTyped DEF IInv
    <2>2. Operating' /\ Past' /\ Recalled' /\ Covered' /\ Removal'
      BY <1>1, StepOperating, StepCovered, StepRemoval
    <2>3. QED
      BY <2>1, <2>2 DEF IInv
  <1>2. ASSUME IInv, NEW d \in doomed, LateDelete(d) PROVE IInv'
    BY <1>2, StepLate
  <1>3. ASSUME IInv, UNCHANGED vars PROVE IInv'
    BY <1>3 DEF vars, tabs, IInv, TypeOK, Operating, Past, Recalled, Covered, Removal,
                Available
  <1>4. QED
    BY <1>1, <1>2, <1>3 DEF Next

\* The inductive invariant holds throughout.
THEOREM Invariance == Spec => []IInv
  BY InitInv, StepInv, PTL DEF Spec

\* The vault, its lock and what tabs remember keep their types.
THEOREM TypeCorrect == Spec => []TypeOK
  BY Invariance, PTL DEF IInv

\* Whoever opens or uses the crypto store owns the lock and the record that is stored.
THEOREM OneOwner == Spec => []ClientOwnsRecord
  <1>1. IInv => ClientOwnsRecord
    BY DEF IInv, Operating, ClientOwnsRecord, Owning
  <1>2. QED
    BY <1>1, Invariance, PTL

\* A vault that reads as empty has no database left.
THEOREM CleanWhenEmpty == Spec => []NothingLeftBehind
  <1>1. IInv => NothingLeftBehind
    BY DEF IInv, Covered, NothingLeftBehind
  <1>2. QED
    BY <1>1, Invariance, PTL

-----------------------------------------------------------------------------
(* What no step does *)

Kept == \A d \in dbs \ {Sync} :
    record.kind = "locked" /\ d \in record.names => d \in dbs'

Lineage ==
    /\ record.kind = "locked" =>
        record'.kind \in {"locked", "erasing"} /\ record'.id = record.id
    /\ record.kind = "erasing" =>
        record'.kind \in {"erasing", "erased"} /\ record'.id = record.id
    /\ record'.id = record.id /\ record.id # 0 => record'.rev = record.rev + 1
    /\ record.kind = "erased" /\ record'.id = record.id => record'.kind = "erasing"

\* No step of a tab deletes a live store, or departs from the record's lineage.
LEMMA StepKeeps ==
    ASSUME IInv, NEW t \in Tab, Progress(t) \/ Choice(t)
    PROVE  Kept /\ (Lineage \/ record' = record)
  <1> USE DEF IInv, TypeOK, Kept, Removal, Record, Operating, Past,
          Covered, Recalled, Lineage, Available, Go, Remember, Back, Release,
          Acquire, Refuse, Unowned, Settled, GaveUp, Steps, Owning, Sealing,
          Removing, Client
  <1>1. CASE CommitCreate(t)
    BY <1>1 DEF CommitCreate, Locked
  <1>2. CASE Publish(t)
    BY <1>2 DEF Publish
  <1>3. CASE CommitMigrate(t)
    BY <1>3 DEF CommitMigrate, Locked
  <1>4. CASE MigrateFails(t)
    BY <1>4 DEF MigrateFails
  <1>5. CASE AssertCurrent(t)
    BY <1>5 DEF AssertCurrent
  <1>6. CASE WrongKey(t)
    BY <1>6 DEF WrongKey
  <1>7. CASE GrantLease(t)
    BY <1>7 DEF GrantLease
  <1>8. CASE CleanupFails(t)
    BY <1>8 DEF CleanupFails
  <1>9. CASE EndCleanup(t)
    BY <1>9 DEF EndCleanup
  <1>10. CASE OpenStore(t)
    BY <1>10 DEF OpenStore
  <1>11. CASE EraseStores(t)
    BY <1>11 DEF EraseStores
  <1>12. CASE StoresErased(t)
    BY <1>12 DEF StoresErased
  <1>13. CASE CompleteLogout(t)
    BY <1>13 DEF CompleteLogout, Erased, Record
  <1>14. CASE LogoutFails(t)
    BY <1>14 DEF LogoutFails
  <1>15. ASSUME NEW d \in todo[t], DeleteDatabase(t, d) PROVE Kept /\ (Lineage \/ record' = record)
    BY <1>15 DEF DeleteDatabase
  <1>16. CASE Inspect(t)
    BY <1>16 DEF Inspect, Route, Record
  <1>17. CASE SignIn(t)
    BY <1>17 DEF SignIn, Prepare
  <1>17a. CASE RedirectLogin(t)
    BY <1>17a DEF RedirectLogin, Prepare
  <1>17b. CASE CancelEnrolment(t)
    BY <1>17b DEF CancelEnrolment
  <1>18. CASE BeginCreate(t)
    BY <1>18 DEF BeginCreate
  <1>19. CASE CreateConflict(t)
    BY <1>19 DEF CreateConflict
  <1>20. CASE BeginMigrate(t)
    BY <1>20 DEF BeginMigrate
  <1>21. CASE MigrateConflict(t)
    BY <1>21 DEF MigrateConflict
  <1>22. CASE BeginUnlock(t)
    BY <1>22 DEF BeginUnlock
  <1>23. CASE Abort(t)
    BY <1>23 DEF Abort
  <1>24. CASE Forget(t)
    BY <1>24 DEF Forget, Forgotten, Tombstone, Record
  <1>25. CASE BeginCleanup(t)
    BY <1>25 DEF BeginCleanup
  <1>26. CASE CleanupConflict(t)
    BY <1>26 DEF CleanupConflict
  <1>27. CASE PushCleanupFails(t)
    BY <1>27 DEF PushCleanupFails
  <1>28. CASE CompleteCleanup(t)
    BY <1>28 DEF CompleteCleanup, Erased, Record
  <1>29. CASE TakeOwnership(t)
    BY <1>29 DEF TakeOwnership
  <1>30. CASE StartRefused(t)
    BY <1>30 DEF StartRefused
  <1>31. CASE Stop(t)
    BY <1>31 DEF Stop
  <1>32. CASE Reseal(t)
    BY <1>32 DEF Reseal, Record
  <1>33. CASE Logout(t)
    BY <1>33 DEF Logout, Tombstone, Record
  <1>34. CASE Crash(t)
    BY <1>34 DEF Crash
  <1>35. CASE Open(t)
    BY <1>35 DEF Open
  <1>36. QED
    BY <1>1, <1>2, <1>3, <1>4, <1>5, <1>6, <1>7, <1>8, <1>9, <1>10,
           <1>11, <1>12, <1>13, <1>14, <1>15, <1>16, <1>17, <1>18, <1>19,
           <1>17a, <1>17b,
           <1>20, <1>21, <1>22, <1>23, <1>24, <1>25, <1>26, <1>27, <1>28,
           <1>29, <1>30, <1>31, <1>32, <1>33, <1>34, <1>35 DEF Progress,
           Choice

\* No cleaner deletes the crypto store of the session in the vault.
THEOREM LiveStoresKept == Spec => LiveStoreKept
  <1>1. IInv /\ [Next]_vars => [Kept]_vars
    <2>1. ASSUME IInv, NEW d \in doomed, LateDelete(d) PROVE Kept
      BY <2>1 DEF IInv, Covered, Kept, LateDelete
    <2>2. QED
      BY <2>1, StepKeeps DEF Next
  <1>2. QED
    BY <1>1, Invariance, PTL DEF Spec, LiveStoreKept, Kept

\* Identities retire once and revisions go up by one.
THEOREM LineageKept == Spec => OneLineage
  <1>1. IInv /\ [Next]_vars => [Lineage]_record
    <2>1. ASSUME NEW d \in doomed, LateDelete(d) PROVE record' = record
      BY <2>1 DEF LateDelete
    <2>2. ASSUME UNCHANGED vars PROVE record' = record
      BY <2>2 DEF vars
    <2>3. QED
      BY <2>1, <2>2, StepKeeps DEF Next
  <1>2. QED
    BY <1>1, Invariance, PTL DEF Spec, OneLineage, Lineage

-----------------------------------------------------------------------------
(* The contract *)

\* The holder of the contract is the tab whose client owns the vault.
LEMMA HolderIs ==
    ASSUME Operating
    PROVE  /\ \A t \in Tab : step[t] \in Client => Holder = t
           /\ (\A t \in Tab : step[t] \notin Client) => Holder = NoTab
           /\ lock = NoTab => Holder = NoTab
  BY DEF Operating, Holder, Owning

\* The phase follows the kind of the record.
LEMMA PhaseIs ==
    /\ record.kind \in {"absent", "erased"} => Phase = "empty"
    /\ record.kind \in {"legacy", "corrupt"} => Phase = "unsealed"
    /\ record.kind = "locked" => Phase = "sealed"
    /\ record.kind = "erasing" => Phase = "retired"
  BY DEF Phase

\* The contract holds of every vault the program finds.
LEMMA InitPromise == Init => Promise!Init
  <1>1. Init => Holder = NoTab
    BY DEF Init, Holder
  <1>2. CASE record = Absent /\ dbs = {}
    BY <1>1, <1>2, PhaseIs DEF Promise!Init, Absent
  <1>3. CASE record \in {LegacyRecord, Corrupt}
    BY <1>1, <1>3, PhaseIs DEF Promise!Init, Absent, LegacyRecord, Corrupt
  <1>4. QED
    BY <1>2, <1>3 DEF Init

\* Where no client starts or ends, the holder stays.
LEMMA HolderKept ==
    ASSUME IInv, IInv', \A u \in Tab : step'[u] \in Client <=> step[u] \in Client
    PROVE  Holder' = Holder
  BY DEF IInv, Operating, Holder, Owning

\* A deletion that leaves no database is of a session that was retired.
LEMMA Removed ==
    ASSUME IInv, IInv', UNCHANGED <<record, step>>, dbs' \subseteq dbs,
           record.kind = "locked" => dbs' = dbs,
           record.kind = "corrupt" => dbs' = dbs
    PROVE  Promise!Remove \/ UNCHANGED Promise!vars
  <1>1. Holder' = Holder
    BY HolderKept
  <1>2. Phase' = Phase
    BY DEF Phase
  <1>3. CASE (dbs' # {}) = (dbs # {})
    BY <1>1, <1>2, <1>3 DEF Promise!vars
  <1>4. CASE dbs' = {} /\ dbs # {}
    <2>1. record.kind \notin {"locked", "corrupt", "legacy", "absent", "erased"}
      BY <1>4 DEF IInv, Covered, Available
    <2>2. record.kind = "erasing"
      BY <2>1, Kinds DEF IInv, TypeOK, Record
    <2>3. QED
      BY <1>1, <1>2, <1>4, <2>2, PhaseIs DEF Promise!Remove
  <1>5. QED
    BY <1>3, <1>4

\* Most steps of an operation cannot be seen from outside.
LEMMA Unseen ==
    ASSUME IInv, IInv', record'.kind = record.kind, dbs' = dbs,
           \A u \in Tab : step'[u] \in Client <=> step[u] \in Client
    PROVE  UNCHANGED Promise!vars
  <1>1. Holder' = Holder
    BY HolderKept
  <1>2. Phase' = Phase
    BY DEF Phase
  <1>3. QED
    BY <1>1, <1>2 DEF Promise!vars

\* A step that replaces the record and starts or ends no client.
LEMMA Replaced ==
    ASSUME IInv, IInv', dbs' = dbs,
           \A u \in Tab : step'[u] \in Client <=> step[u] \in Client
    PROVE  /\ Phase \in {"empty", "unsealed"} /\ Phase' = "sealed" => Promise!Seal
           /\ Phase = "retired" /\ dbs = {} /\ Phase' = "empty" => Promise!Clear
           /\ lock = NoTab /\ Phase' = "retired" => \A t \in Tab : Promise!Retire(t)
  <1>1. Holder' = Holder
    BY HolderKept
  <1>2. lock = NoTab => Holder = NoTab
    BY HolderIs DEF IInv
  <1>3. QED
    BY <1>1, <1>2 DEF Promise!Seal, Promise!Clear, Promise!Retire

\* A step that only ends a client, perhaps after it created its store.
LEMMA Closed ==
    ASSUME IInv, IInv', NEW t \in Tab, step[t] \in Client, step'[t] \notin Client,
           record' = record, dbs \subseteq dbs',
           \A u \in Tab \ {t} : step'[u] = step[u]
    PROVE  Promise!Close(t)
  <1>1. Holder = t
    BY HolderIs DEF IInv
  <1>2. \A u \in Tab : step'[u] \notin Client
    BY NoTabAssumption DEF IInv, Operating, Owning
  <1>3. Holder' = NoTab
    BY <1>2 DEF Holder
  <1>4. Phase' = Phase
    BY DEF Phase
  <1>5. QED
    BY <1>1, <1>3, <1>4 DEF Promise!Close

\* Every step of a tab is a step of the contract or invisible to it.
LEMMA StepPromise ==
    ASSUME IInv, IInv', NEW t \in Tab, Progress(t) \/ Choice(t)
    PROVE  Promise!Next \/ UNCHANGED Promise!vars
  <1> USE DEF IInv, TypeOK, Go, Remember, Back, Release, Acquire,
          Refuse, Unowned, Settled, GaveUp, Steps, Owning, Sealing, Removing,
          Client
  <1>1. CASE CommitCreate(t)
    <2>1. \A u \in Tab : step'[u] \in Client <=> step[u] \in Client
      BY <1>1 DEF CommitCreate
    <2>2. Phase \in {"empty", "unsealed"}
      BY <1>1, PhaseIs DEF CommitCreate, Operating, Available
    <2>3. record'.kind = "locked"
      BY <1>1 DEF CommitCreate, Locked
    <2>4. Phase' = "sealed"
      BY <2>3 DEF Phase
    <2>5. dbs' = dbs
      BY <1>1 DEF CommitCreate
    <2>6. QED
      BY <2>1, <2>2, <2>4, <2>5, Replaced DEF Promise!Next
  <1>2. CASE Publish(t)
    <2>1. \A u \in Tab : step'[u] \in Client <=> step[u] \in Client
      BY <1>2 DEF Publish
    <2>2. QED
      BY <1>2, <2>1, Unseen DEF Publish
  <1>3. CASE CommitMigrate(t)
    <2>1. \A u \in Tab : step'[u] \in Client <=> step[u] \in Client
      BY <1>3 DEF CommitMigrate
    <2>2. Phase \in {"empty", "unsealed"}
      BY <1>3, PhaseIs DEF CommitMigrate, Operating, Available
    <2>3. record'.kind = "locked"
      BY <1>3 DEF CommitMigrate, Locked
    <2>4. Phase' = "sealed"
      BY <2>3 DEF Phase
    <2>5. dbs' = dbs
      BY <1>3 DEF CommitMigrate
    <2>6. QED
      BY <2>1, <2>2, <2>4, <2>5, Replaced DEF Promise!Next
  <1>4. CASE MigrateFails(t)
    <2>1. \A u \in Tab : step'[u] \in Client <=> step[u] \in Client
      BY <1>4 DEF MigrateFails
    <2>2. QED
      BY <1>4, <2>1, Unseen DEF MigrateFails
  <1>5. CASE AssertCurrent(t)
    <2>1. \A u \in Tab : step'[u] \in Client <=> step[u] \in Client
      BY <1>5 DEF AssertCurrent
    <2>2. QED
      BY <1>5, <2>1, Unseen DEF AssertCurrent
  <1>6. CASE WrongKey(t)
    <2>1. \A u \in Tab : step'[u] \in Client <=> step[u] \in Client
      BY <1>6 DEF WrongKey
    <2>2. QED
      BY <1>6, <2>1, Unseen DEF WrongKey
  <1>7. CASE GrantLease(t)
    <2>1. \A u \in Tab : step'[u] \in Client <=> step[u] \in Client
      BY <1>7 DEF GrantLease
    <2>2. QED
      BY <1>7, <2>1, Unseen DEF GrantLease
  <1>8. CASE CleanupFails(t)
    <2>1. \A u \in Tab : step'[u] \in Client <=> step[u] \in Client
      BY <1>8 DEF CleanupFails
    <2>2. QED
      BY <1>8, <2>1, Unseen DEF CleanupFails
  <1>9. CASE EndCleanup(t)
    <2>1. \A u \in Tab : step'[u] \in Client <=> step[u] \in Client
      BY <1>9 DEF EndCleanup
    <2>2. QED
      BY <1>9, <2>1, Unseen DEF EndCleanup
  <1>10. CASE OpenStore(t)
    <2>1. \A u \in Tab : step'[u] \in Client <=> step[u] \in Client
      BY <1>10 DEF OpenStore
    <2>2. Holder = t /\ Holder' = Holder
      BY <1>10, <2>1, HolderIs, HolderKept DEF OpenStore
    <2>3. record' = record /\ dbs \subseteq dbs'
      BY <1>10 DEF OpenStore
    <2>4. Phase' = Phase
      BY <2>3 DEF Phase
    <2>5. CASE dbs' = {}
      <3>1. dbs = {}
        BY <2>3, <2>5
      <3>2. UNCHANGED Promise!vars
        BY <2>2, <2>4, <2>5, <3>1 DEF Promise!vars
      <3>3. QED
        BY <3>2
    <2>6. CASE dbs' # {}
      <3>1. Promise!Store(t)
        BY <2>2, <2>4, <2>6 DEF Promise!Store
      <3>2. QED
        BY <3>1 DEF Promise!Next
    <2>7. QED
      BY <2>5, <2>6
  <1>11. CASE EraseStores(t)
    <2>1. \A u \in Tab : step'[u] \in Client <=> step[u] \in Client
      BY <1>11 DEF EraseStores
    <2>2. QED
      BY <1>11, <2>1, Unseen DEF EraseStores
  <1>12. CASE StoresErased(t)
    <2>1. \A u \in Tab : step'[u] \in Client <=> step[u] \in Client
      BY <1>12 DEF StoresErased
    <2>2. QED
      BY <1>12, <2>1, Unseen DEF StoresErased
  <1>13. CASE CompleteLogout(t)
    <2>1. \A u \in Tab : step'[u] \in Client <=> step[u] \in Client
      BY <1>13 DEF CompleteLogout
    <2>2. record.kind = "erasing" /\ dbs = {}
      BY <1>13 DEF CompleteLogout, Recalled, Removal
    <2>3. record'.kind = "erased"
      BY <1>13 DEF CompleteLogout, Erased, Record
    <2>4. Phase = "retired" /\ Phase' = "empty"
      BY <2>2, <2>3 DEF Phase
    <2>5. dbs' = dbs
      BY <1>13 DEF CompleteLogout
    <2>6. QED
      BY <2>1, <2>2, <2>4, <2>5, Replaced DEF Promise!Next
  <1>14. CASE LogoutFails(t)
    <2>1. step[t] \notin Client
      BY <1>14 DEF LogoutFails, Operating
    <2>2. \A u \in Tab : step'[u] \in Client <=> step[u] \in Client
      BY <1>14, <2>1 DEF LogoutFails
    <2>3. QED
      BY <1>14, <2>2, Unseen DEF LogoutFails
  <1>15. ASSUME NEW d \in todo[t], DeleteDatabase(t, d)
        PROVE  Promise!Next \/ UNCHANGED Promise!vars
    <2>1. UNCHANGED <<record, step>> /\ dbs' \subseteq dbs
      BY <1>15 DEF DeleteDatabase
    <2>2. ASSUME record.kind = "locked" PROVE dbs' = dbs
      <3>1. step[t] = "clearing"
        BY <2>2 DEF Operating
      <3>2. d = Sync /\ d \notin dbs
        BY <2>2, <3>1 DEF Covered, Removal
      <3>3. dbs' = dbs \ {d} \/ dbs' = dbs
        BY <1>15 DEF DeleteDatabase
      <3>4. QED
        BY <3>2, <3>3
    <2>3. record.kind # "corrupt"
      BY <1>15 DEF Operating
    <2>4. QED
      BY <2>1, <2>2, <2>3, Removed DEF Promise!Next
  <1>16. CASE Inspect(t)
    <2>1. \A u \in Tab : step'[u] \in Client <=> step[u] \in Client
      BY <1>16, Kinds DEF Inspect, Record
    <2>2. QED
      BY <1>16, <2>1, Unseen DEF Inspect
  <1>17. CASE SignIn(t)
    <2>1. \A u \in Tab : step'[u] \in Client <=> step[u] \in Client
      BY <1>17 DEF SignIn, Prepare
    <2>2. QED
      BY <1>17, <2>1, Unseen DEF SignIn, Prepare
  <1>17a. CASE RedirectLogin(t)
    <2>1. \A u \in Tab : step'[u] \in Client <=> step[u] \in Client
      BY <1>17a DEF RedirectLogin, Prepare
    <2>2. QED
      BY <1>17a, <2>1, Unseen DEF RedirectLogin, Prepare
  <1>17b. CASE CancelEnrolment(t)
    <2>1. \A u \in Tab : step'[u] \in Client <=> step[u] \in Client
      BY <1>17b DEF CancelEnrolment
    <2>2. QED
      BY <1>17b, <2>1, Unseen DEF CancelEnrolment
  <1>18. CASE BeginCreate(t)
    <2>1. \A u \in Tab : step'[u] \in Client <=> step[u] \in Client
      BY <1>18 DEF BeginCreate
    <2>2. QED
      BY <1>18, <2>1, Unseen DEF BeginCreate
  <1>19. CASE CreateConflict(t)
    <2>1. \A u \in Tab : step'[u] \in Client <=> step[u] \in Client
      BY <1>19 DEF CreateConflict
    <2>2. QED
      BY <1>19, <2>1, Unseen DEF CreateConflict
  <1>20. CASE BeginMigrate(t)
    <2>1. \A u \in Tab : step'[u] \in Client <=> step[u] \in Client
      BY <1>20 DEF BeginMigrate
    <2>2. QED
      BY <1>20, <2>1, Unseen DEF BeginMigrate
  <1>21. CASE MigrateConflict(t)
    <2>1. \A u \in Tab : step'[u] \in Client <=> step[u] \in Client
      BY <1>21 DEF MigrateConflict
    <2>2. QED
      BY <1>21, <2>1, Unseen DEF MigrateConflict
  <1>22. CASE BeginUnlock(t)
    <2>1. \A u \in Tab : step'[u] \in Client <=> step[u] \in Client
      BY <1>22 DEF BeginUnlock
    <2>2. QED
      BY <1>22, <2>1, Unseen DEF BeginUnlock
  <1>23. CASE Abort(t)
    <2>1. \A u \in Tab : step'[u] \in Client <=> step[u] \in Client
      BY <1>23 DEF Abort
    <2>2. QED
      BY <1>23, <2>1, Unseen DEF Abort
  <1>24. CASE Forget(t)
    <2>1. \A u \in Tab : step'[u] \in Client <=> step[u] \in Client
      BY <1>24 DEF Forget
    <2>2. record'.kind = "erasing"
      BY <1>24 DEF Forget, Forgotten, Tombstone, Record
    <2>3. Phase' = "retired"
      BY <2>2 DEF Phase
    <2>4. dbs' = dbs /\ lock = NoTab
      BY <1>24 DEF Forget
    <2>5. QED
      BY <2>1, <2>3, <2>4, Replaced DEF Promise!Next
  <1>25. CASE BeginCleanup(t)
    <2>1. \A u \in Tab : step'[u] \in Client <=> step[u] \in Client
      BY <1>25 DEF BeginCleanup
    <2>2. QED
      BY <1>25, <2>1, Unseen DEF BeginCleanup
  <1>26. CASE CleanupConflict(t)
    <2>1. \A u \in Tab : step'[u] \in Client <=> step[u] \in Client
      BY <1>26 DEF CleanupConflict
    <2>2. QED
      BY <1>26, <2>1, Unseen DEF CleanupConflict
  <1>27. CASE PushCleanupFails(t)
    <2>1. \A u \in Tab : step'[u] \in Client <=> step[u] \in Client
      BY <1>27 DEF PushCleanupFails
    <2>2. QED
      BY <1>27, <2>1, Unseen DEF PushCleanupFails
  <1>28. CASE CompleteCleanup(t)
    <2>1. \A u \in Tab : step'[u] \in Client <=> step[u] \in Client
      BY <1>28 DEF CompleteCleanup
    <2>2. record.kind = "erasing" /\ dbs = {}
      BY <1>28 DEF CompleteCleanup, Recalled, Removal
    <2>3. record'.kind = "erased"
      BY <1>28 DEF CompleteCleanup, Erased, Record
    <2>4. Phase = "retired" /\ Phase' = "empty"
      BY <2>2, <2>3 DEF Phase
    <2>5. dbs' = dbs
      BY <1>28 DEF CompleteCleanup
    <2>6. QED
      BY <2>1, <2>2, <2>4, <2>5, Replaced DEF Promise!Next
  <1>29. CASE TakeOwnership(t)
    <2>1. Holder = NoTab
      BY <1>29, HolderIs DEF TakeOwnership
    <2>2. Holder' = t
      BY <1>29 DEF TakeOwnership, Holder
    <2>3. record.kind = "locked" /\ record' = record /\ dbs' = dbs
      BY <1>29 DEF TakeOwnership, LeaseCurrent, Recalled
    <2>4. Phase = "sealed" /\ Phase' = Phase
      BY <2>3 DEF Phase
    <2>5. Promise!Start(t)
      BY <2>1, <2>2, <2>3, <2>4 DEF Promise!Start
    <2>6. QED
      BY <2>5 DEF Promise!Next
  <1>30. CASE StartRefused(t)
    <2>1. \A u \in Tab : step'[u] \in Client <=> step[u] \in Client
      BY <1>30 DEF StartRefused
    <2>2. QED
      BY <1>30, <2>1, Unseen DEF StartRefused
  <1>31. CASE Stop(t)
    <2>1. CASE step[t] = "unlocked"
      <3>1. \A u \in Tab : step'[u] \in Client <=> step[u] \in Client
        BY <1>31, <2>1 DEF Stop
      <3>2. record' = record /\ dbs' = dbs
        BY <1>31, <2>1 DEF Stop
      <3>3. QED
        BY <3>1, <3>2, Unseen
    <2>2. CASE step[t] \in Client
      <3>1. /\ step'[t] \notin Client
            /\ \A u \in Tab \ {t} : step'[u] = step[u]
            /\ record' = record /\ dbs \subseteq dbs'
        BY <1>31, <2>2 DEF Stop
      <3>2. QED
        BY <2>2, <3>1, Closed DEF Promise!Next
    <2>3. QED
      BY <1>31, <2>1, <2>2 DEF Stop
  <1>32. CASE Reseal(t)
    <2>1. \A u \in Tab : step'[u] \in Client <=> step[u] \in Client
      BY <1>32 DEF Reseal
    <2>2. QED
      BY <1>32, <2>1, Unseen DEF Reseal
  <1>33. CASE Logout(t)
    <2>1. Holder = t
      BY <1>33, HolderIs DEF Logout
    <2>2. \A u \in Tab : step'[u] \notin Client
      BY <1>33, NoTabAssumption DEF Logout, Operating
    <2>3. Holder' = NoTab
      BY <2>2 DEF Holder
    <2>4. record'.kind = "erasing"
      BY <1>33 DEF Logout, Tombstone, Record
    <2>5. Phase' = "retired"
      BY <2>4 DEF Phase
    <2>6. dbs' = dbs
      BY <1>33 DEF Logout
    <2>7. Promise!Retire(t)
      BY <2>1, <2>3, <2>5, <2>6 DEF Promise!Retire
    <2>8. QED
      BY <2>7 DEF Promise!Next
  <1>34. CASE Crash(t)
    <2>1. /\ step'[t] \notin Client
          /\ \A u \in Tab \ {t} : step'[u] = step[u]
          /\ record' = record /\ dbs' = dbs
      BY <1>34 DEF Crash
    <2>2. CASE step[t] \in Client
      BY <2>1, <2>2, Closed DEF Promise!Next
    <2>3. CASE step[t] \notin Client
      <3>1. \A u \in Tab : step'[u] \in Client <=> step[u] \in Client
        BY <2>1, <2>3
      <3>2. QED
        BY <2>1, <3>1, Unseen
    <2>4. QED
      BY <2>2, <2>3
  <1>35. CASE Open(t)
    <2>1. \A u \in Tab : step'[u] \in Client <=> step[u] \in Client
      BY <1>35 DEF Open
    <2>2. QED
      BY <1>35, <2>1, Unseen DEF Open
  <1>36. QED
    BY <1>1, <1>2, <1>3, <1>4, <1>5, <1>6, <1>7, <1>8, <1>9, <1>10,
           <1>11, <1>12, <1>13, <1>14, <1>15, <1>16, <1>17, <1>18, <1>19,
           <1>17a, <1>17b,
           <1>20, <1>21, <1>22, <1>23, <1>24, <1>25, <1>26, <1>27, <1>28,
           <1>29, <1>30, <1>31, <1>32, <1>33, <1>34, <1>35 DEF Progress,
           Choice

\* The vault implements VaultPromise.
THEOREM VaultImplementsPromise == Spec => PromiseKept
  <1>1. IInv /\ IInv' /\ [Next]_vars => [Promise!Next]_(Promise!vars)
    <2>1. ASSUME IInv, IInv', NEW d \in doomed, LateDelete(d)
          PROVE  Promise!Next \/ UNCHANGED Promise!vars
      <3>1. UNCHANGED <<record, step>> /\ dbs' \subseteq dbs
        BY <2>1 DEF LateDelete, tabs
      <3>2. record.kind \notin {"locked", "corrupt"}
        BY <2>1 DEF IInv, Covered
      <3>3. QED
        BY <2>1, <3>1, <3>2, Removed DEF Promise!Next
    <2>2. ASSUME UNCHANGED vars PROVE UNCHANGED Promise!vars
      BY <2>2 DEF vars, tabs, Promise!vars, Phase, Holder
    <2>3. QED
      BY <2>1, <2>2, StepPromise DEF Next
  <1>2. QED
    BY <1>1, InitPromise, Invariance, PTL DEF Spec, PromiseKept, Promise!Spec
=============================================================================
