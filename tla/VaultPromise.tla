---------------------------- MODULE VaultPromise ----------------------------
(***************************************************************************)
(* What the session vault promises to the rest of the application, without *)
(* its transactions, locks, leases and cleanup markers: a browser holds at *)
(* most one sealed session and runs at most one client for it; a session   *)
(* leaves by being retired, never by being overwritten; its databases are  *)
(* removed after that and not before; and the vault is empty again only    *)
(* when none of them is left.                                              *)
(***************************************************************************)
CONSTANTS
    Tab,        \* the windows of this browser
    NoTab       \* the client of a vault nobody has open

VARIABLES
    phase,      \* "empty", "unsealed", "sealed" or "retired"
    client,     \* the tab whose client is running
    left        \* whether a database of a session is left

vars == <<phase, client, left>>

Init ==
    /\ client = NoTab
    /\ \/ phase = "empty" /\ left = FALSE
       \/ phase = "unsealed" /\ left \in BOOLEAN

(* A login is sealed, or the session of an older release is. *)
Seal ==
    /\ phase \in {"empty", "unsealed"}
    /\ phase' = "sealed"
    /\ UNCHANGED <<client, left>>

Start(t) ==
    /\ phase = "sealed"
    /\ client = NoTab
    /\ client' = t
    /\ UNCHANGED <<phase, left>>

Store(t) ==
    /\ client = t
    /\ left' = TRUE
    /\ UNCHANGED <<phase, client>>

(* A client that closes may have created its store just before. *)
Close(t) ==
    /\ client = t
    /\ client' = NoTab
    /\ left' \in {left, TRUE}
    /\ UNCHANGED phase

(* The session is given up, by its client or with no client running. *)
Retire(t) ==
    /\ client \in {NoTab, t}
    /\ phase' = "retired"
    /\ client' = NoTab
    /\ UNCHANGED left

Remove ==
    /\ phase = "retired"
    /\ left' = FALSE
    /\ UNCHANGED <<phase, client>>

Clear ==
    /\ phase = "retired"
    /\ left = FALSE
    /\ phase' = "empty"
    /\ UNCHANGED <<client, left>>

Next ==
    \/ Seal \/ Remove \/ Clear
    \/ \E t \in Tab : Start(t) \/ Store(t) \/ Close(t) \/ Retire(t)

Spec == Init /\ [][Next]_vars
=============================================================================
