----------------------------- MODULE PushWorker -----------------------------
(***************************************************************************)
(* The service worker's side of notifications, public/sw.js: its stored    *)
(* configuration, the queue all changes of it go through, and the push     *)
(* events it handles meanwhile.                                            *)
(*                                                                         *)
(* The queue is the promise chain pushConfigMutation: one operation runs   *)
(* at a time, one step of it per wait.  A push handler reads on its own    *)
(* and puts into the queue what must not be overtaken by a change.  The    *)
(* browser may end the worker at any moment; the configuration stays.      *)
(*                                                                         *)
(* A configuration is a capability of PushLifecycle with its generation:   *)
(* the one drawn with it ("own"), or, for a capability from before there   *)
(* were generations, none ("legacy") until migration gives it the hash of  *)
(* its management key ("canonical").                                       *)
(***************************************************************************)
EXTENDS Naturals, Sequences, FiniteSets

CONSTANTS
    Capability,     \* the capabilities pages configure and pushes are for
    Legacy,         \* those drawn before there were generations
    None,           \* nothing stored, nothing shown
    Push,           \* push events handled at the same time
    MaxPosted       \* bound on the queue while messages are accepted

ASSUME LegacyAssumption == Legacy \subseteq Capability
ASSUME NoneAssumption ==
    None \notin [cap : Capability, form : {"own", "legacy", "canonical"}] \union Push
ASSUME PushAssumption == IsFiniteSet(Push)
ASSUME BoundAssumption == MaxPosted \in Nat

VARIABLES
    config,         \* the record in the sub-etha-push database
    queue,          \* operations queued, the first one running
    step,           \* the running operation's next step
    read,           \* the configuration the running operation has read
    push,           \* push[p]: a push handler
    shown,          \* shown[tag]: the configuration a notification is for
    badge,          \* the configuration the badge counts for
    interrupted     \* an operation did not end, and no clearing since

running == <<step, read>>
visible == <<shown, badge>>
vars == <<config, queue, running, push, visible, interrupted>>

Config == [cap : Legacy, form : {"legacy", "canonical"}]
             \union [cap : Capability \ Legacy, form : {"own"}]
MaybeConfig == Config \union {None}
Tag == {"room", "test"}

(* matrix and test pushes name an event; a ping carries a count only, a    *)
(* challenge asks the worker to confirm a registration.                    *)
Kind == {"matrix", "test", "ping", "challenge"}

Waiting  == {"showing", "badging", "cleaning"}
Handling == {"setup", "matching", "reading", "checking", "fallback",
             "pinging", "closing"} \union Waiting
Settled  == {"seen", "unseen", "lost"}

Handler == [at : Handling \union Settled, kind : Kind,
            config : MaybeConfig, displayed : BOOLEAN]

Done(how) == [at |-> how, kind |-> "ping", config |-> None, displayed |-> TRUE]

(* The operation a waiting handler waits for. *)
AwaitedBy == [showing |-> "show", badging |-> "badge", cleaning |-> "stale"]

(* A handler waits exactly while its one operation is queued or running:   *)
(* each end of an operation hands on to its handler, a failed one too.     *)
TypeOK ==
    /\ config \in MaybeConfig /\ read \in MaybeConfig
    /\ push \in [Push -> Handler]
    /\ shown \in [Tag -> MaybeConfig] /\ badge \in MaybeConfig
    /\ interrupted \in BOOLEAN
    /\ Len(queue) <= MaxPosted + Cardinality(Push)
    /\ \A p \in Push :
          LET waits == {i \in DOMAIN queue : queue[i].push = p} IN
          IF push[p].at \in Waiting
          THEN \E i \in waits : waits = {i} /\ queue[i].op = AwaitedBy[push[p].at]
          ELSE waits = {}

Init ==
    /\ config = None
    /\ queue = <<>>
    /\ step = "start" /\ read = None
    /\ push = [p \in Push |-> Done("seen")]
    /\ shown = [t \in Tag |-> None] /\ badge = None
    /\ interrupted = FALSE

-----------------------------------------------------------------------------
(* The queue. *)

Op(name, c, p) == [op |-> name, config |-> c, push |-> p]

Queue(op) == queue' = Append(queue, op)

At(name, s) == queue # <<>> /\ Head(queue).op = name /\ step = s

StepTo(s) == step' = s /\ UNCHANGED queue

Ends == queue' = Tail(queue) /\ step' = "start" /\ read' = None

(* The handler that waits for the running operation goes on. *)
Resume(s) == push' = [push EXCEPT ![Head(queue).push].at = s]

Settle(p) ==
    push' = [push EXCEPT ![p] = Done(IF push[p].displayed THEN "seen" ELSE "unseen")]

(* The end of the handler that waits, which has displayed something. *)
ResumeToEnd == Settle(Head(queue).push)

-----------------------------------------------------------------------------
(* Operations on the configuration. *)

SetReads ==
    /\ At("set", "start")
    /\ read' = config
    /\ StepTo("write")
    /\ UNCHANGED <<config, push, visible, interrupted>>

\* Faulty variant: what the previous account showed stays.
SetWritesOnly ==
    /\ At("set", "write")
    /\ config' = Head(queue).config
    /\ Ends
    /\ UNCHANGED <<push, visible, interrupted>>

(* A configuration that replaces another one inherits nothing of it. *)
SetWrites ==
    /\ At("set", "write")
    /\ config' = Head(queue).config
    /\ IF read \in {None, Head(queue).config} THEN Ends
       ELSE StepTo("dismiss") /\ UNCHANGED read
    /\ UNCHANGED <<push, visible, interrupted>>

Dismissed(c) == [t \in Tag |-> IF shown[t] = c THEN None ELSE shown[t]]

SetDismisses ==
    /\ At("set", "dismiss")
    /\ shown' = Dismissed(read)
    /\ StepTo("unbadge")
    /\ UNCHANGED <<config, read, push, badge, interrupted>>

SetUnbadges ==
    /\ At("set", "unbadge")
    /\ badge' = None
    /\ Ends
    /\ UNCHANGED <<config, push, shown, interrupted>>

(* A clearing names a generation, and a delivery key for a configuration   *)
(* that has no generation yet.                                             *)
Matched(c) ==
    \/ config = None
    \/ config = c
    \/ config.form = "legacy" /\ config.cap = c.cap

ClearTakes ==
    /\ At("clear", "start")
    /\ IF Matched(Head(queue).config)
       THEN config' = None /\ StepTo("dismiss") /\ UNCHANGED read
       ELSE Ends /\ UNCHANGED config
    /\ UNCHANGED <<push, visible, interrupted>>

ClearDismisses ==
    /\ At("clear", "dismiss")
    /\ shown' = [t \in Tag |-> None]
    /\ StepTo("unbadge")
    /\ UNCHANGED <<config, read, push, badge, interrupted>>

ClearUnbadges ==
    /\ At("clear", "unbadge")
    /\ badge' = None
    /\ interrupted' = FALSE
    /\ Ends
    /\ UNCHANGED <<config, push, shown>>

(* A legacy configuration of this capability gets its generation. *)
MigrateReads ==
    /\ At("migrate", "start")
    /\ IF config = [cap |-> Head(queue).config.cap, form |-> "legacy"]
       THEN read' = config /\ StepTo("migrate")
       ELSE Ends
    /\ UNCHANGED <<config, push, visible, interrupted>>

Migrated == [read EXCEPT !.form = "canonical"]

MigrateWrites ==
    /\ At("migrate", "migrate")
    /\ config' = Migrated
    /\ Ends
    /\ UNCHANGED <<push, visible, interrupted>>

DismissRoom ==
    /\ At("dismiss", "start")
    /\ shown' = [shown EXCEPT !["room"] = None]
    /\ Ends
    /\ UNCHANGED <<config, push, badge, interrupted>>

(* pushsubscriptionchange holds the queue from its first read to its last; *)
(* a legacy configuration is migrated on the way, inside the operation.    *)
RenewalReads ==
    /\ At("renew", "start")
    /\ IF config = None THEN Ends
       ELSE /\ read' = config
            /\ StepTo(IF config.form = "legacy" THEN "migrate" ELSE "register")
    /\ UNCHANGED <<config, push, visible, interrupted>>

\* Faulty variant: the migration of its own is queued and waited for.
RenewalQueuesMigration ==
    /\ At("renew", "migrate")
    /\ queue' = Append(queue, Op("migrate", read, None))
    /\ step' = "waiting"
    /\ UNCHANGED <<config, read, push, visible, interrupted>>

RenewalMigrates ==
    /\ At("renew", "migrate")
    /\ config' = Migrated
    /\ read' = Migrated
    /\ StepTo("register")
    /\ UNCHANGED <<push, visible, interrupted>>

(* Subscribes, reads again, registers, reads again; what a configuration   *)
(* that is gone got registered is taken back.                              *)
RenewalRegisters ==
    /\ At("renew", "register")
    /\ Ends
    /\ UNCHANGED <<config, push, visible, interrupted>>

-----------------------------------------------------------------------------
(* Operations of push handlers: nothing is done for a configuration that   *)
(* is no longer the stored one.                                            *)

Owner == push[Head(queue).push].config
TagOf(p) == IF push[p].kind = "test" THEN "test" ELSE "room"

\* Faulty variant: the reading before the queue is relied on.
ShowUnread ==
    /\ At("show", "start")
    /\ StepTo("show")
    /\ UNCHANGED <<config, read, push, visible, interrupted>>

ShowReads ==
    /\ At("show", "start")
    /\ IF config = Owner THEN StepTo("show") /\ UNCHANGED <<read, push>>
       ELSE Ends /\ Resume("fallback")
    /\ UNCHANGED <<config, visible, interrupted>>

Shows ==
    LET p == Head(queue).push IN
    /\ At("show", "show")
    /\ shown' = [shown EXCEPT ![TagOf(p)] = Owner]
    /\ push' = [push EXCEPT ![p].displayed = TRUE, ![p].at =
                   IF push[p].kind = "test" THEN "closing" ELSE "badging"]
    /\ queue' = IF push[p].kind = "test" THEN Tail(queue)
                ELSE Append(Tail(queue), Op("badge", None, p))
    /\ step' = "start"
    /\ UNCHANGED <<config, read, badge, interrupted>>

(* After the badge a ping is done; a message is looked at again. *)
AfterBadge ==
    IF push[Head(queue).push].kind = "ping" THEN ResumeToEnd
    ELSE Resume("closing")

\* Faulty variant: a handler whose badge is stale is forgotten.
BadgeForgets ==
    /\ At("badge", "start")
    /\ IF config = Owner THEN StepTo("badge") /\ UNCHANGED read ELSE Ends
    /\ UNCHANGED <<config, push, visible, interrupted>>

BadgeReads ==
    /\ At("badge", "start")
    /\ IF config = Owner THEN StepTo("badge") /\ UNCHANGED <<read, push>>
       ELSE Ends /\ AfterBadge
    /\ UNCHANGED <<config, visible, interrupted>>

BadgeSets ==
    /\ At("badge", "badge")
    /\ badge' \in {Owner, None}
    /\ StepTo("recheck")
    /\ UNCHANGED <<config, read, push, shown, interrupted>>

BadgeRechecks ==
    /\ At("badge", "recheck")
    /\ badge' = IF config = None THEN None ELSE badge
    /\ Ends /\ AfterBadge
    /\ UNCHANGED <<config, shown, interrupted>>

StaleReads ==
    /\ At("stale", "start")
    /\ IF config = Owner THEN Ends /\ ResumeToEnd
       ELSE StepTo("dismiss") /\ UNCHANGED <<read, push>>
    /\ UNCHANGED <<config, visible, interrupted>>

StaleDismisses ==
    LET t == TagOf(Head(queue).push) IN
    /\ At("stale", "dismiss")
    /\ shown' = [shown EXCEPT ![t] = IF shown[t] = Owner THEN None ELSE shown[t]]
    /\ Ends /\ ResumeToEnd
    /\ UNCHANGED <<config, badge, interrupted>>

(* The database or the browser refuses something; the queue goes on.  The  *)
(* badge is never in the way.                                              *)
OperationFails ==
    LET name == Head(queue).op IN
    /\ queue # <<>>
    /\ step \in {"start", "write", "dismiss", "migrate", "register", "show", "recheck"}
    /\ Ends
    /\ interrupted' = (interrupted \/ step = "dismiss" \/ name \in {"badge", "stale"})
    /\ CASE name = "show" -> Resume("fallback")
         [] name \in {"badge", "stale"} -> ResumeToEnd
         [] OTHER -> UNCHANGED push
    /\ UNCHANGED <<config, visible>>

-----------------------------------------------------------------------------
(* Push handlers. *)

Go(p, s) == push' = [push EXCEPT ![p].at = s]

Receive(p) ==
    /\ push[p].at \in Settled
    /\ \E kind \in Kind :
          push' = [push EXCEPT ![p] =
                      [at |-> IF kind = "challenge" THEN "setup" ELSE "reading",
                       kind |-> kind, config |-> None,
                       displayed |-> FALSE]]
    /\ UNCHANGED <<config, queue, running, visible, interrupted>>

(* A challenge is shown before anything is read, and confirmed when it is  *)
(* for the stored generation.                                              *)
ShowSetup(p) ==
    /\ push[p].at = "setup"
    /\ push' = [push EXCEPT ![p].displayed = TRUE, ![p].at = "matching"]
    /\ UNCHANGED <<config, queue, running, visible, interrupted>>

Confirm(p) ==
    /\ push[p].at = "matching"
    /\ Settle(p)
    /\ UNCHANGED <<config, queue, running, visible, interrupted>>

ReadConfig(p) ==
    /\ push[p].at = "reading"
    /\ push' = IF config = None \/ config.form = "legacy"
               THEN [push EXCEPT ![p].at = "fallback"]
               ELSE [push EXCEPT ![p].at = "checking", ![p].config = config]
    /\ UNCHANGED <<config, queue, running, visible, interrupted>>

(* The configuration is read a second time, and the push must name its     *)
(* delivery key as its owner: it does, or is for another account.          *)
CheckOwner(p) ==
    /\ push[p].at = "checking"
    /\ \/ Go(p, "fallback") /\ UNCHANGED queue
       \/ /\ config = push[p].config
          /\ IF push[p].kind = "ping"
             THEN Go(p, "pinging") /\ UNCHANGED queue
             ELSE Go(p, "showing") /\ Queue(Op("show", None, p))
    /\ UNCHANGED <<config, running, visible, interrupted>>

ReadFails(p) ==
    /\ push[p].at = "reading"
    /\ Go(p, "fallback")
    /\ UNCHANGED <<config, queue, running, visible, interrupted>>

Fallback(p) ==
    /\ push[p].at = "fallback"
    /\ push' = [push EXCEPT ![p] = Done("seen")]
    /\ UNCHANGED <<config, queue, running, visible, interrupted>>

Ping(p) ==
    /\ push[p].at = "pinging"
    /\ push' = [push EXCEPT ![p].displayed = TRUE, ![p].at = "badging"]
    /\ Queue(Op("badge", None, p))
    /\ UNCHANGED <<config, running, visible, interrupted>>

Close(p) ==
    /\ push[p].at = "closing"
    /\ IF config = push[p].config THEN Settle(p) /\ UNCHANGED queue
       ELSE Go(p, "cleaning") /\ Queue(Op("stale", None, p))
    /\ UNCHANGED <<config, running, visible, interrupted>>

CloseFails(p) ==
    /\ push[p].at = "closing"
    /\ Settle(p)
    /\ interrupted' = TRUE
    /\ UNCHANGED <<config, queue, running, visible>>

-----------------------------------------------------------------------------
(* The pages and the browser. *)

(* Any page may post any message at any time. *)
Post ==
    /\ Len(queue) < MaxPosted
    /\ \/ \E c \in Config : \/ Queue(Op("set", c, None))
                            \/ c.form # "legacy" /\ Queue(Op("clear", c, None))
                            \/ c.form = "canonical" /\ Queue(Op("migrate", c, None))
       \/ Queue(Op("dismiss", None, None))
       \/ Queue(Op("renew", None, None))
    /\ UNCHANGED <<config, running, push, visible, interrupted>>

(* The registration is removed, and with it what it shows; a page clears   *)
(* the badge and deletes the database while the worker still handles what  *)
(* it has begun.                                                           *)
Unregister ==
    /\ config # None
    /\ config' = None
    /\ shown' = [t \in Tag |-> None]
    /\ badge' = None
    /\ UNCHANGED <<queue, running, push, interrupted>>

(* The browser ends the worker: what is queued or being handled is lost. *)
Terminate ==
    /\ queue # <<>> \/ \E p \in Push : push[p].at \in Handling
    /\ queue' = <<>> /\ step' = "start" /\ read' = None
    /\ push' = [p \in Push |-> IF push[p].at \in Handling
                               THEN Done("lost") ELSE push[p]]
    /\ interrupted' = TRUE
    /\ UNCHANGED <<config, visible>>

(* A click closes its notification and leads to its room, if it is for the *)
(* stored configuration, or to the start page.                             *)
Click(t) ==
    /\ shown[t] # None
    /\ shown' = [shown EXCEPT ![t] = None]
    /\ UNCHANGED <<config, queue, running, push, badge, interrupted>>

-----------------------------------------------------------------------------
Operate ==
    \/ SetReads \/ SetWrites \/ SetDismisses \/ SetUnbadges
    \/ ClearTakes \/ ClearDismisses \/ ClearUnbadges
    \/ MigrateReads \/ MigrateWrites \/ DismissRoom
    \/ RenewalReads \/ RenewalMigrates \/ RenewalRegisters
    \/ ShowReads \/ Shows \/ BadgeReads \/ BadgeSets \/ BadgeRechecks
    \/ StaleReads \/ StaleDismisses \/ OperationFails

Handle(p) ==
    \/ ShowSetup(p) \/ Confirm(p) \/ ReadConfig(p) \/ CheckOwner(p)
    \/ ReadFails(p) \/ Fallback(p) \/ Ping(p) \/ Close(p) \/ CloseFails(p)

Next ==
    \/ Operate
    \/ \E p \in Push : Receive(p) \/ Handle(p)
    \/ Post \/ Unregister \/ Terminate
    \/ \E t \in Tag : Click(t)

Spec == Init /\ [][Next]_vars

(* The worker's event loop runs what is ready. *)
FairSpec == Spec /\ WF_vars(Operate) /\ \A p \in Push : WF_vars(Handle(p))

-----------------------------------------------------------------------------
(* A notification that carries a generation, and a badge, are for the      *)
(* account that is configured, whenever the worker is at rest: whatever    *)
(* pushes were being handled while one account replaced another, or left.  *)
(* A worker that was stopped half-way, or a failing database, is excepted  *)
(* until the next clearing.                                                *)
NothingStale ==
    /\ queue = <<>>
    /\ \A p \in Push : push[p].at \in Settled
    /\ ~interrupted
    => /\ \A t \in Tag : shown[t] \in {None, config}
       /\ badge \in {None, config}

(* No account's message is ever shown while another one is configured, not *)
(* even for a moment: what a handler read before its turn in the queue     *)
(* does not count.  (A configuration that was deleted from outside the     *)
(* worker is dealt with afterwards.)                                       *)
ShownForConfigured ==
    [][\A t \in Tag : shown'[t] \notin {None, shown[t]}
                         => config \in {None, shown'[t]}]_vars

(* Every push is eventually settled, and visibly, as a userVisibleOnly     *)
(* subscription requires, unless the browser ended the worker: no handler  *)
(* waits for an operation that waits for it.                               *)
PushSettles ==
    \A p \in Push : push[p].at \in Handling ~> push[p].at \in {"seen", "lost"}
=============================================================================
