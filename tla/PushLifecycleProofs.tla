------------------------ MODULE PushLifecycleProofs ------------------------
(***************************************************************************)
(* Theorems about PushLifecycle, for every set of windows and capabilities *)
(* and every number of late requests and queued messages.                  *)
(*                                                                         *)
(* The inductive invariant IInv has five parts.  Shapes: the types.        *)
(* Holding: who has the lock, and what it then knows.  Awaited: an answer  *)
(* that is still listened for finds its window where it was asked from,    *)
(* and no message to the worker comes after such a one.  Drawn: no         *)
(* capability appears anywhere before it was drawn.  Safe: what the        *)
(* windows share (Shared) and what a window at each place may rely on      *)
(* (Phase).  Of Safe, these carry the weight: Undone, what a journal no    *)
(* longer lists is really off and stays off; Recalls, a window whose epoch *)
(* is current was started with the credentials that are stored; Whole,     *)
(* while every capability could be stored, what is drawn is recorded or    *)
(* revoked, and an enrolment is complete with nothing on its way against   *)
(* it.                                                                     *)
(***************************************************************************)
EXTENDS PushLifecycle, SequenceTheorems, TLAPS

Choosing   == {"subscribing", "subscribed"}
Configured == {"registering", "confirming", "reregistering", "pushing",
               "checking", "committed", "rotated"}
Journaled  == Configured \union {"configuring"}
Stranded   == {"undoing", "unconfiguring"}

Places == Enrolling \union Undoing \union Cleaning \union {"idle", "forgetting"}
Page == [at : Places, cap : Stored, found : BOOLEAN, orphan : BOOLEAN,
         work : Journal \union {None}]
Sender  == Tab \union {NoTab}
Message == [op : {"set", "clear"}, cap : Stored, tab : Sender]
Sent    == [op : {"post", "delete", "setPusher", "removePusher"},
            cap : Capability, tab : Sender]

Shapes ==
    /\ creds \in Stored /\ config \in Stored /\ renewal \in Stored
    /\ journal \in Journal \union {None}
    /\ fallback \subseteq Capability
    /\ intent \in BOOLEAN /\ undurable \in BOOLEAN
    /\ registered \in BOOLEAN /\ subscribed \in BOOLEAN
    /\ knows \subseteq Tab
    /\ lock \in Tab \union {NoTab}
    /\ gateway \in [Capability -> {"none", "pending", "active", "revoked"}]
    /\ pushers \subseteq Capability
    /\ page \in [Tab -> Page]
    /\ posted \in Seq(Message)
    /\ \A i \in 1..Len(posted) : posted[i].op = "set" => posted[i].cap # None
    /\ flight \subseteq Sent
    /\ used \subseteq Capability
    /\ asked \subseteq Tab \union Capability

Holds(t) ==
    /\ page[t].at \in Choosing \union Journaled \union Stranded \union Cleaning
          => lock = t
    /\ page[t].at \in {"idle", "forgetting", "asked"} => lock # t
    /\ page[t].at \in Cleaning => page[t].work # None
    /\ page[t].at \in Journaled \union Stranded => page[t].cap # None

Holding == \A t \in Tab : Holds(t)

PostedFor(m, p) ==
    \/ m.op = "set" /\ p.at = "configuring" /\ m.cap = p.cap
    \/ m.op = "clear" /\ p.at = "unconfiguring" /\ m.cap = p.cap
    \/ m.op = "clear" /\ p.at = "cleaning" /\ m.cap = p.work.primary

SentFor(m, p) ==
    \/ m.op = "post" /\ p.at \in {"registering", "reregistering"} /\ m.cap = p.cap
    \/ m.op = "setPusher" /\ p.at = "pushing" /\ m.cap = p.cap
    \/ m.op \in {"delete", "removePusher"} /\ p.at \in {"undoing", "cleaning"}

Awaited ==
    /\ \A i \in 1..Len(posted) :
          posted[i].tab # NoTab =>
             i = Len(posted) /\ PostedFor(posted[i], page[posted[i].tab])
    /\ \A m \in flight : m.tab # NoTab => SentFor(m, page[m.tab])

-----------------------------------------------------------------------------
(* Journals *)

LEMMA JournalForTyped ==
    ASSUME NEW c \in Stored
    PROVE  JournalFor(c) \in Journal
  BY DEF JournalFor, Journal, Stored

LEMMA WithTargetsTyped ==
    ASSUME NEW j \in Journal, NEW extra \in SUBSET Capability
    PROVE  /\ WithTargets(j, extra) \in Journal
           /\ WithTargets(j, extra).primary = j.primary
           /\ WithTargets(j, extra).targets = j.targets \union extra
           /\ WithTargets(j, extra).gateway = j.gateway \union (extra \ j.targets)
           /\ WithTargets(j, extra).pusher = j.pusher \union (extra \ j.targets)
           /\ WithTargets(j, extra).worker = j.worker
           /\ WithTargets(j, extra).subscription = TRUE
  BY DEF WithTargets, Journal

LEMMA FirstJournalTyped ==
    ASSUME Shapes, NEW p \in fallback \union {None}
    PROVE  FirstJournal(p) \in Journal
  <1>1. JournalFor(p) \in Journal /\ JournalFor(creds) \in Journal
    BY JournalForTyped DEF Shapes, Stored
  <1>2. CASE journal # None
    BY <1>2, WithTargetsTyped DEF FirstJournal, Shapes
  <1>3. CASE journal = None
    BY <1>1, <1>3, WithTargetsTyped DEF FirstJournal, Shapes
  <1>4. QED
    BY <1>2, <1>3

LEMMA AdoptedTyped ==
    ASSUME Shapes, NEW j \in Journal
    PROVE  /\ Adopted(j) \in Journal
           /\ Adopted(j).primary \in {j.primary, config}
           /\ j.primary # None => Adopted(j) = j
           /\ j.targets \subseteq Adopted(j).targets
           /\ Adopted(j).targets \ Adopted(j).gateway \subseteq j.targets \ j.gateway
           /\ j.gateway \subseteq Adopted(j).gateway
           /\ Adopted(j).targets \subseteq j.targets \union ({config} \ {None})
           /\ Adopted(j).gateway \subseteq j.gateway \union ({config} \ {None})
           /\ Adopted(j).pusher \subseteq j.pusher \union ({config} \ {None})
           /\ Adopted(j).worker = j.worker
           /\ Adopted(j).subscription \in {j.subscription, TRUE}
           /\ j.primary = None => Adopted(j).primary = config
  <1>1. CASE config = None \/ j.primary # None
    BY <1>1 DEF Adopted, Journal
  <1>2. CASE config # None /\ j.primary = None
    <2> DEFINE w == WithTargets(j, {config})
    <2>1. {config} \in SUBSET Capability
      BY <1>2 DEF Shapes, Stored
    <2>0. /\ w \in Journal /\ w.primary = j.primary
          /\ w.targets = j.targets \union {config}
          /\ w.gateway = j.gateway \union ({config} \ j.targets)
          /\ w.pusher = j.pusher \union ({config} \ j.targets)
          /\ w.worker = j.worker /\ w.subscription = TRUE
      BY <2>1, WithTargetsTyped
    <2>2. Adopted(j) = [w EXCEPT !.primary = config]
      BY <1>2 DEF Adopted
    <2> HIDE DEF w
    <2>3. /\ Adopted(j) \in Journal
          /\ Adopted(j).primary = config /\ Adopted(j).targets = w.targets
          /\ Adopted(j).gateway = w.gateway /\ Adopted(j).pusher = w.pusher
          /\ Adopted(j).worker = w.worker /\ Adopted(j).subscription = w.subscription
      BY <2>0, <2>2 DEF Journal, Shapes
    <2>4. QED
      BY <1>2, <2>0, <2>3
  <1>3. QED
    BY <1>1, <1>2

LEMMA RecoveredTyped ==
    ASSUME Shapes, NEW j \in Journal
    PROVE  /\ Recovered(j) \in Journal
           /\ Recovered(j).primary \in {j.primary, config}
           /\ j.primary # None => Recovered(j).primary = j.primary
           /\ j.targets \subseteq Recovered(j).targets
           /\ Recovered(j).targets \ Recovered(j).gateway \subseteq j.targets \ j.gateway
           /\ j.gateway \subseteq Recovered(j).gateway
           /\ Recovered(j).targets \subseteq j.targets \union ({config} \ {None})
           /\ Recovered(j).gateway \subseteq j.gateway \union ({config} \ {None})
           /\ Recovered(j).pusher \subseteq j.pusher \union ({config} \ {None})
           /\ config # None => Recovered(j).worker /\ Recovered(j).subscription
           /\ j.primary = None => Recovered(j).primary = config
  <1>1. CASE config = None
    BY <1>1 DEF Recovered, Journal
  <1>2. CASE config # None
    <2> DEFINE w == WithTargets(j, {config} \ {j.primary})
               a == Adopted(w)
    <2>1. {config} \ {j.primary} \in SUBSET Capability
      BY <1>2 DEF Shapes, Stored
    <2>2. /\ w \in Journal /\ w.primary = j.primary
          /\ w.targets = j.targets \union ({config} \ {j.primary})
          /\ w.gateway = j.gateway \union (({config} \ {j.primary}) \ j.targets)
          /\ w.pusher = j.pusher \union (({config} \ {j.primary}) \ j.targets)
      BY <2>1, WithTargetsTyped
    <2> HIDE DEF w
    <2>3. /\ a \in Journal
          /\ a.primary \in {w.primary, config}
          /\ w.primary # None => a = w
          /\ w.targets \subseteq a.targets
          /\ a.targets \ a.gateway \subseteq w.targets \ w.gateway
          /\ w.gateway \subseteq a.gateway
          /\ a.targets \subseteq w.targets \union ({config} \ {None})
          /\ a.gateway \subseteq w.gateway \union ({config} \ {None})
          /\ a.pusher \subseteq w.pusher \union ({config} \ {None})
          /\ w.primary = None => a.primary = config
      BY <2>2, AdoptedTyped
    <2> HIDE DEF a
    <2>4. Recovered(j) = [a EXCEPT !.worker = TRUE, !.subscription = TRUE]
      BY <1>2 DEF Recovered, Merged, a, w
    <2>5. /\ Recovered(j) \in Journal
          /\ Recovered(j).primary = a.primary /\ Recovered(j).targets = a.targets
          /\ Recovered(j).gateway = a.gateway /\ Recovered(j).pusher = a.pusher
          /\ Recovered(j).worker /\ Recovered(j).subscription
      BY <2>3, <2>4 DEF Journal
    <2>6. QED
      BY <1>2, <2>2, <2>3, <2>5
  <1>3. QED
    BY <1>1, <1>2

\* What a cleanup that begins with b may work off: at least that, and what is
\* left out is off already.
Opens(b, j) ==
    /\ j.primary \in {b.primary, config}
    /\ b.primary # None => j.primary = b.primary
    /\ b.targets \subseteq j.targets /\ b.gateway \subseteq j.gateway
    /\ j.targets \ j.gateway \subseteq b.targets \ b.gateway
    /\ j.targets \subseteq b.targets \union ({config} \ {None})
    /\ j.gateway \subseteq b.gateway \union ({config} \ {None})
    /\ j.pusher \subseteq b.pusher \union ({config} \ {None})
    /\ j.worker \/ ~b.worker \/ (~registered /\ config = None)
    /\ j.subscription \/ ~b.subscription \/ (~registered /\ config = None)
    /\ j.worker => j.subscription \/ (b.worker /\ ~b.subscription)

BeginsWith(t, p, service, j, orphan) ==
    /\ journal = None /\ fallback # {} => p \in fallback
    /\ journal # None \/ fallback = {} => p = None
    /\ Opens(FirstJournal(p), j)
    /\ \/ journal' = j
       \/ journal # None /\ journal' = journal /\ j = WithTargets(journal, fallback)
    /\ creds' = Without(FirstJournal(p).primary)
    /\ page' = [page EXCEPT ![t] =
                   [at |-> "cleaning", cap |-> None, found |-> registered,
                    orphan |-> orphan, work |-> j]]
    /\ orphan => ~registered
    /\ posted' = IF j.worker THEN Posted("clear", j.primary, t) ELSE posted
    /\ flight' = flight
          \union {Request("delete", c, t) : c \in j.gateway}
          \union {Request("removePusher", c, t) :
                     c \in IF service THEN j.pusher ELSE {}}

LEMMA BeginsSomehow ==
    ASSUME Shapes, NEW t \in Tab, BeginCleanup(t)
    PROVE  \E p \in fallback \union {None}, service \in BOOLEAN, j \in Journal,
              orphan \in BOOLEAN : BeginsWith(t, p, service, j, orphan)
  <1>1. PICK p \in IF journal = None /\ fallback # {} THEN fallback ELSE {None},
             service \in BOOLEAN, inspected \in BOOLEAN :
          LET begun == FirstJournal(p)
              j     == IF registered THEN Adopted(begun)
                       ELSE IF inspected THEN Recovered(begun) ELSE begun
              kept  == journal # None /\ j = WithTargets(journal, fallback)
          IN  /\ journal' = IF kept THEN journal ELSE j
              /\ creds' = Without(begun.primary)
              /\ page' = [page EXCEPT ![t] =
                     [at |-> "cleaning", cap |-> None, found |-> registered,
                      orphan |-> ~registered /\ inspected /\ config # None,
                      work |-> j]]
              /\ posted' = IF j.worker THEN Posted("clear", j.primary, t)
                           ELSE posted
              /\ flight' = flight
                    \union {Request("delete", c, t) : c \in j.gateway}
                    \union {Request("removePusher", c, t) :
                               c \in IF service THEN j.pusher ELSE {}}
    BY Zenon DEF BeginCleanup
  <1> DEFINE begun  == FirstJournal(p)
             j      == IF registered THEN Adopted(begun)
                       ELSE IF inspected THEN Recovered(begun) ELSE begun
             orphan == ~registered /\ inspected /\ config # None
  <1>2. p \in fallback \union {None}
    BY <1>1
  <1>3. begun \in Journal
    BY <1>2, FirstJournalTyped
  <1>4. /\ Adopted(begun) \in Journal /\ Recovered(begun) \in Journal
        /\ j \in Journal
    BY <1>3, AdoptedTyped, RecoveredTyped
  <1>5. Opens(begun, j)
    <2>1. CASE registered
      <3>1. j = Adopted(begun)
        BY <2>1
      <3> HIDE DEF begun, j
      <3>2. Opens(begun, Adopted(begun))
        BY <1>3, AdoptedTyped DEF Opens, Journal
      <3>3. QED
        BY <3>1, <3>2
    <2>2. CASE ~registered /\ inspected
      <3>1. j = Recovered(begun)
        BY <2>2
      <3>0. config = None => ~Recovered(begun).worker /\ ~Recovered(begun).subscription
        BY <1>3 DEF Recovered, Journal
      <3> HIDE DEF begun, j
      <3>2. Opens(begun, Recovered(begun))
        BY <1>3, <2>2, <3>0, RecoveredTyped DEF Opens
      <3>3. QED
        BY <3>1, <3>2
    <2>3. CASE ~registered /\ ~inspected
      <3>1. j = begun
        BY <2>3
      <3> HIDE DEF begun, j
      <3>2. Opens(begun, begun)
        BY <1>3 DEF Opens, Journal
      <3>3. QED
        BY <3>1, <3>2
    <2>4. QED
      BY <2>1, <2>2, <2>3
  <1>7. BeginsWith(t, p, service, j, orphan)
    <2> HIDE DEF begun, j, orphan
    <2>1. /\ journal' = (IF journal # None /\ j = WithTargets(journal, fallback)
                          THEN journal ELSE j)
          /\ creds' = Without(begun.primary)
          /\ page' = [page EXCEPT ![t] =
                         [at |-> "cleaning", cap |-> None, found |-> registered,
                          orphan |-> orphan, work |-> j]]
          /\ posted' = IF j.worker THEN Posted("clear", j.primary, t) ELSE posted
          /\ flight' = flight
                \union {Request("delete", c, t) : c \in j.gateway}
                \union {Request("removePusher", c, t) :
                           c \in IF service THEN j.pusher ELSE {}}
      BY <1>1, Zenon DEF begun, j, orphan
    <2>0. /\ journal = None /\ fallback # {} => p \in fallback
          /\ journal # None \/ fallback = {} => p = None
      BY <1>1
    <2>2. /\ \/ journal' = j
             \/ journal # None /\ journal' = journal /\ j = WithTargets(journal, fallback)
          /\ orphan => ~registered
      BY <2>1 DEF orphan
    <2>3. /\ Opens(FirstJournal(p), j)
          /\ creds' = Without(FirstJournal(p).primary)
      BY <1>5, <2>1 DEF begun
    <2>5. QED
      BY <2>0, <2>1, <2>2, <2>3, Zenon DEF BeginsWith
  <1>8. orphan \in BOOLEAN
    OBVIOUS
  <1>9. QED
    BY <1>2, <1>4, <1>7, <1>8

-----------------------------------------------------------------------------
(* Messages *)

\* Muting keeps the queue as it is but for who listens.
LEMMA MutedKeeps ==
    ASSUME posted \in Seq(Message), NEW t \in Tab
    PROVE  /\ Muted(t) \in Seq(Message)
           /\ Len(Muted(t)) = Len(posted)
           /\ \A i \in 1..Len(posted) :
                 /\ Muted(t)[i].op = posted[i].op
                 /\ Muted(t)[i].cap = posted[i].cap
                 /\ Muted(t)[i].tab = IF posted[i].tab = t THEN NoTab ELSE posted[i].tab
  <1> DEFINE n == Len(posted)
             q == Muted(t)
  <1>1. /\ n \in Nat /\ posted \in [1..n -> Message] /\ DOMAIN posted = 1..n
    BY LenProperties
  <1>2. \A i \in 1..n :
           /\ q[i] \in Message
           /\ q[i].op = posted[i].op /\ q[i].cap = posted[i].cap
           /\ q[i].tab = IF posted[i].tab = t THEN NoTab ELSE posted[i].tab
    <2> SUFFICES ASSUME NEW i \in 1..n
                 PROVE  /\ q[i] \in Message
                        /\ q[i].op = posted[i].op /\ q[i].cap = posted[i].cap
                        /\ q[i].tab = IF posted[i].tab = t THEN NoTab ELSE posted[i].tab
      OBVIOUS
    <2>1. posted[i] \in Message
      BY <1>1
    <2>2. q[i] = IF posted[i].tab = t THEN [posted[i] EXCEPT !.tab = NoTab] ELSE posted[i]
      BY <1>1 DEF Muted
    <2>3. QED
      BY <2>1, <2>2 DEF Message, Sender
  <1>3. q \in [1..n -> Message]
    <2>1. q = [i \in 1..n |-> q[i]]
      BY <1>1 DEF Muted
    <2>2. QED
      BY <1>2, <2>1
  <1>4. q \in Seq(Message)
    BY <1>1, <1>3, SeqDef
  <1>5. Len(q) = n
    <2>1. DOMAIN q = 1..n /\ DOMAIN q = 1..Len(q) /\ Len(q) \in Nat
      BY <1>3, <1>4, LenProperties
    <2>2. QED
      BY <1>1, <2>1
  <1>6. QED
    BY <1>2, <1>4, <1>5

LEMMA PostedExtends ==
    ASSUME posted \in Seq(Message), NEW op \in {"set", "clear"}, NEW c \in Stored,
           NEW t \in Tab
    PROVE  LET q == Posted(op, c, t) IN
           /\ q \in Seq(Message)
           /\ ~registered => q = posted
           /\ registered => Len(q) = Len(posted) + 1
           /\ \A i \in 1..Len(q) :
                 \/ i \in 1..Len(posted) /\ q[i] = posted[i]
                 \/ /\ registered /\ i = Len(q)
                    /\ q[i] = [op |-> op, cap |-> c, tab |-> t]
  <1> DEFINE m == [op |-> op, cap |-> c, tab |-> t]
  <1>1. m \in Message
    BY DEF Message, Sender
  <1>2. Posted(op, c, t) = IF registered THEN Append(posted, m) ELSE posted
    BY DEF Posted, Request
  <1>3. Len(posted) \in Nat
    BY LenProperties
  <1>4. /\ Append(posted, m) \in Seq(Message)
        /\ Len(Append(posted, m)) = Len(posted) + 1
        /\ \A i \in 1..Len(posted) : Append(posted, m)[i] = posted[i]
        /\ Append(posted, m)[Len(posted) + 1] = m
    BY <1>1, AppendProperties
  <1>5. \A i \in 1..Len(posted) + 1 : i \in 1..Len(posted) \/ i = Len(posted) + 1
    BY <1>3
  <1> HIDE DEF m
  <1>6. QED
    BY <1>2, <1>4, <1>5 DEF m

LEMMA PostedShrinks ==
    ASSUME posted \in Seq(Message), posted # <<>>
    PROVE  /\ Tail(posted) \in Seq(Message)
           /\ Head(posted) \in Message /\ Head(posted) = posted[1]
           /\ Len(posted) \in Nat \ {0}
           /\ Len(Tail(posted)) = Len(posted) - 1
           /\ \A i \in 1..Len(Tail(posted)) : Tail(posted)[i] = posted[i + 1]
  BY HeadTailProperties, EmptySeq

\* A request that is given up loses its sender at most.
LEMMA LateKeeps ==
    ASSUME flight \subseteq Sent, NEW t \in Tab, LateRequests(t)
    PROVE  /\ flight' \subseteq Sent
           /\ \A m \in flight' :
                 \/ m \in flight /\ m.tab # t
                 \/ /\ m.tab = NoTab
                    /\ \E k \in flight : k.op = m.op /\ k.cap = m.cap
  <1> DEFINE own == {m \in flight : m.tab = t}
             late == {m \in flight : m.tab = NoTab}
  <1>1. PICK kept \in SUBSET {m \in own : ~Refused(m)} :
           flight' = (flight \ (own \union late))
                        \union late \union {[m EXCEPT !.tab = NoTab] : m \in kept}
    BY Zenon DEF LateRequests
  <1>2. ASSUME NEW m \in kept
        PROVE  LET k == [m EXCEPT !.tab = NoTab] IN
               k \in Sent /\ k.tab = NoTab /\ k.op = m.op /\ k.cap = m.cap /\ m \in flight
    BY DEF Sent, Sender
  <1>3. \A m \in late : m \in flight /\ m.tab = NoTab
    OBVIOUS
  <1>4. \A m \in flight' :
            \/ m \in flight /\ m.tab # t
            \/ m \in late
            \/ \E k \in kept : m = [k EXCEPT !.tab = NoTab]
    BY <1>1
  <1> HIDE DEF late, own
  <1>5. ASSUME NEW m \in flight'
        PROVE  \/ m \in flight /\ m.tab # t
               \/ /\ m.tab = NoTab
                  /\ \E k \in flight : k.op = m.op /\ k.cap = m.cap
    <2>1. CASE m \in late
      BY <1>3, <2>1
    <2>2. CASE \E k \in kept : m = [k EXCEPT !.tab = NoTab]
      BY <1>2, <2>2
    <2>3. QED
      BY <1>4, <2>1, <2>2
  <1>6. flight' \subseteq Sent
    BY <1>2, <1>3, <1>4
  <1>7. QED
    BY <1>5, <1>6
-----------------------------------------------------------------------------
(* Types *)

LEMMA ShapesInit == Init => Shapes
  <1> SUFFICES ASSUME Init PROVE Shapes
    OBVIOUS
  <1>1. page \in [Tab -> Page]
    BY DEF Init, Idle, Page, Places, Enrolling, Undoing, Cleaning, Stored
  <1>2. posted \in Seq(Message) /\ Len(posted) = 0
    BY EmptySeq DEF Init
  <1>3. gateway \in [Capability -> {"none", "pending", "active", "revoked"}]
    BY DEF Init
  <1>4. \A i \in 1..Len(posted) : posted[i].op = "set" => posted[i].cap # None
    BY <1>2
  <1>5. QED
    BY <1>1, <1>2, <1>3, <1>4, Zenon DEF Init, Shapes, Stored

LEMMA PlacesNamed ==
    /\ Enrolling \subseteq Places /\ Undoing \subseteq Places
    /\ Cleaning \subseteq Places /\ {"idle", "forgetting"} \subseteq Places
  BY DEF Places

(* A window that goes to a place stays a window of its kind.               *)
LEMMA GoShapes ==
    ASSUME page \in [Tab -> Page], NEW t \in Tab, NEW s \in Places, Go(t, s)
    PROVE  page' \in [Tab -> Page]
  <1>1. [page[t] EXCEPT !.at = s] \in Page
    BY DEF Page
  <1>2. page' = [page EXCEPT ![t] = [page[t] EXCEPT !.at = s]]
    BY DEF Go
  <1>3. QED
    BY <1>1, <1>2

LEMMA ShapesWindow ==
    ASSUME Shapes, Holding, NEW t \in Tab, Window(t)
    PROVE  Shapes'
  <1> USE DEF Shapes, Stored
  <1>0. page[t] \in Page /\ page[t].cap \in Stored
    BY DEF Page
  <1>1. CASE StartSetup(t)
    <2>0. PICK c \in {None, creds} :
             page' = [page EXCEPT ![t] = [Idle EXCEPT !.at = "asked", !.cap = c]]
      BY <1>1 DEF StartSetup
    <2>1. page' \in [Tab -> Page]
      <3>1. [Idle EXCEPT !.at = "asked", !.cap = c] \in Page
        BY DEF Idle, Page, Places, Enrolling
      <3>2. QED
        BY <2>0, <3>1
    <2>2. QED
      BY <1>1, <2>1 DEF StartSetup, servers
  <1>2. CASE TakeForSetup(t)
    <2>1. page' \in [Tab -> Page]
      <3>1. PICK s \in {"failing", "subscribing"} : Go(t, s)
        BY <1>2 DEF TakeForSetup
      <3>2. s \in Places
        BY PlacesNamed DEF Enrolling, Undoing
      <3>3. QED
        BY <3>1, <3>2, GoShapes
    <2>2. QED
      BY <1>2, <2>1 DEF TakeForSetup, storage, worker, servers, history
  <1>3. CASE Subscribe(t)
    <2>1. page' \in [Tab -> Page]
      <3>1. "subscribed" \in Places
        BY PlacesNamed DEF Enrolling
      <3>2. QED
        BY <1>3, <3>1, GoShapes DEF Subscribe
    <2>2. QED
      BY <1>3, <2>1 DEF Subscribe, storage, servers, history
  <1>4. CASE QueueSetup(t)
    <2>1. PICK c \in Chosen(t) :
             /\ journal' = [JournalFor(c) EXCEPT
                    !.worker = creds \in {None, c}, !.subscription = creds \in {None, c}]
             /\ creds' = Without(c)
             /\ page' = [page EXCEPT ![t].at = "configuring", ![t].cap = c]
             /\ posted' = Posted("set", c, t)
             /\ used' = used \union {c}
      <3>1. PICK c \in Chosen(t) :
               LET other == creds \notin {None, c} IN
               /\ journal' = [JournalFor(c) EXCEPT !.worker = ~other,
                                 !.subscription = ~other]
               /\ creds' = Without(c)
               /\ page' = [page EXCEPT ![t].at = "configuring", ![t].cap = c]
               /\ posted' = Posted("set", c, t)
               /\ used' = used \union {c}
        BY <1>4, Zenon DEF QueueSetup
      <3>2. (~(creds \notin {None, c})) = (creds \in {None, c})
        OBVIOUS
      <3>3. QED
        BY <3>1, <3>2, Zenon
    <2>2. c \in Capability
      BY <1>0 DEF Chosen
    <2>3. page' \in [Tab -> Page]
      <3>1. [page[t] EXCEPT !.at = "configuring", !.cap = c] \in Page
        BY <1>0, <2>2 DEF Page, Places, Enrolling
      <3>2. QED
        BY <2>1, <3>1
    <2>4. /\ posted' \in Seq(Message)
          /\ \A i \in 1..Len(posted') : posted'[i].op = "set" => posted'[i].cap # None
      <3>1. posted' = Posted("set", c, t) /\ "set" \in {"set", "clear"} /\ c \in Stored
        BY <2>1, <2>2
      <3>2. /\ posted' \in Seq(Message)
            /\ \A i \in 1..Len(posted') :
                  \/ i \in 1..Len(posted) /\ posted'[i] = posted[i]
                  \/ posted'[i] = [op |-> "set", cap |-> c, tab |-> t]
        BY <3>1, PostedExtends
      <3>3. QED
        BY <2>2, <3>2, NoneAssumption
    <2>5. journal' \in Journal
      <3>1. JournalFor(c) \in Journal
        BY <2>2, JournalForTyped
      <3>2. (creds \in {None, c}) \in BOOLEAN
        OBVIOUS
      <3>3. QED
        BY <2>1, <3>1, <3>2 DEF Journal
    <2>6. creds' \in Stored
      BY <2>1 DEF Without
    <2>7. QED
      BY <1>4, <2>1, <2>2, <2>3, <2>4, <2>5, <2>6 DEF QueueSetup, servers
  <1>5. CASE QueueFails(t)
    <2>1. PICK c \in Chosen(t) :
             /\ \/ FallbackKeeps(c) /\ UNCHANGED undurable
                \/ undurable' = TRUE /\ UNCHANGED fallback
             /\ page' = [page EXCEPT ![t].at = "undoing", ![t].cap = c]
             /\ flight' = flight \union
                   {Request("delete", c, t), Request("removePusher", c, t)}
             /\ used' = used \union {c}
      BY <1>5 DEF QueueFails
    <2>2. c \in Capability
      BY <1>0 DEF Chosen
    <2>3. page' \in [Tab -> Page]
      <3>1. [page[t] EXCEPT !.at = "undoing", !.cap = c] \in Page
        BY <1>0, <2>2 DEF Page, Places, Undoing
      <3>2. QED
        BY <2>1, <3>1
    <2>4. flight' \subseteq Sent
      BY <2>1, <2>2 DEF Sent, Sender, Request
    <2>5. fallback' \subseteq Capability /\ undurable' \in BOOLEAN
      BY <2>1, <2>2 DEF FallbackKeeps
    <2>7. QED
      BY <1>5, <2>1, <2>2, <2>3, <2>4, <2>5 DEF QueueFails, worker
  <1>6. CASE UndoWorker(t)
    <2>1. page' \in [Tab -> Page]
      <3>1. PICK s \in {"failing", "unconfiguring"} : Go(t, s)
        BY <1>6 DEF UndoWorker
      <3>2. s \in Places
        BY PlacesNamed DEF Undoing
      <3>3. QED
        BY <3>1, <3>2, GoShapes
    <2>2. /\ posted' \in Seq(Message)
          /\ \A i \in 1..Len(posted') : posted'[i].op = "set" => posted'[i].cap # None
      <3>1. posted' = posted \/ posted' = Posted("clear", page[t].cap, t)
        BY <1>6 DEF UndoWorker
      <3>2. CASE posted' = posted
        BY <3>2
      <3>3. CASE posted' = Posted("clear", page[t].cap, t)
        <4>1. /\ posted' \in Seq(Message)
              /\ \A i \in 1..Len(posted') :
                    \/ i \in 1..Len(posted) /\ posted'[i] = posted[i]
                    \/ posted'[i] = [op |-> "clear", cap |-> page[t].cap, tab |-> t]
          BY <1>0, <3>3, PostedExtends
        <4>2. QED
          BY <4>1
      <3>4. QED
        BY <3>1, <3>2, <3>3
    <2>3. flight' \subseteq Sent
      BY <1>6, LateKeeps DEF UndoWorker
    <2>4. QED
      BY <1>6, <2>1, <2>2, <2>3 DEF UndoWorker, storage, history
  <1>7. CASE UndoFails(t)
    <2>1. page' \in [Tab -> Page]
      BY <1>7 DEF UndoFails, Go, Page, Places, Undoing
    <2>2. /\ posted' \in Seq(Message)
          /\ \A i \in 1..Len(posted') : posted'[i].op = "set" => posted'[i].cap # None
      <3>1. posted' = Muted(t)
        BY <1>7 DEF UndoFails, Orphan
      <3>2. QED
        BY <3>1, MutedKeeps
    <2>3. flight' \subseteq Sent
      BY <1>7, LateKeeps DEF UndoFails, Orphan
    <2>4. creds' \in Stored
      BY <1>7 DEF UndoFails, Without
    <2>5. QED
      BY <1>7, <2>1, <2>2, <2>3, <2>4 DEF UndoFails, history
  <1>8. CASE Reregister(t)
    <2>0. page[t].cap # None
      BY <1>8 DEF Reregister, Holding, Holds, Journaled, Configured
    <2>1. page' \in [Tab -> Page]
      <3>1. PICK s \in {"reregistering"} : Go(t, s)
        BY <1>8 DEF Reregister
      <3>2. s \in Places
        BY PlacesNamed DEF Enrolling
      <3>3. QED
        BY <3>1, <3>2, GoShapes
    <2>2. flight' \subseteq Sent
      BY <1>0, <1>8, <2>0 DEF Reregister, Sent, Sender, Request
    <2>3. QED
      BY <1>8, <2>1, <2>2 DEF Reregister, storage, worker, history
  <1>9. CASE CommitCredentials(t)
    <2>1. page' \in [Tab -> Page]
      <3>1. PICK s \in {"committed"} : Go(t, s)
        BY <1>9 DEF CommitCredentials
      <3>2. s \in Places
        BY PlacesNamed DEF Enrolling
      <3>3. QED
        BY <3>1, <3>2, GoShapes
    <2>2. page[t].cap \in Capability
      BY <1>0, <1>9 DEF CommitCredentials, Holding, Holds, Journaled, Configured
    <2>3. QED
      BY <1>0, <1>9, <2>1, <2>2 DEF CommitCredentials, worker, servers
  <1>10. CASE RotateEpoch(t)
    <2>1. page' \in [Tab -> Page]
      BY <1>10 DEF RotateEpoch, Go, Page, Places, Enrolling
    <2>2. QED
      BY <1>10, <2>1 DEF RotateEpoch, worker, servers, history
  <1>11. CASE EndSetup(t)
    <2>1. page' \in [Tab -> Page]
      BY <1>11 DEF EndSetup, Idle, Page, Places
    <2>2. QED
      BY <1>11, <2>1 DEF EndSetup, Release, worker, servers
  <1>12. CASE SetupFails(t)
    <2>1. page' \in [Tab -> Page]
      <3>1. "failing" \in Places
        BY PlacesNamed DEF Undoing
      <3>2. QED
        BY <1>12, <3>1, GoShapes DEF SetupFails
    <2>2. /\ posted' \in Seq(Message)
          /\ \A i \in 1..Len(posted') : posted'[i].op = "set" => posted'[i].cap # None
      <3>1. posted' = Muted(t)
        BY <1>12 DEF SetupFails, Orphan
      <3>2. QED
        BY <3>1, MutedKeeps
    <2>3. flight' \subseteq Sent
      BY <1>12, LateKeeps DEF SetupFails, Orphan
    <2>4. QED
      BY <1>12, <2>1, <2>2, <2>3 DEF SetupFails, storage
  <1>13. CASE Forget(t)
    <2>1. page' \in [Tab -> Page]
      BY <1>13 DEF Forget, Demand, Idle, Page, Places
    <2>2. QED
      BY <1>13, <2>1 DEF Forget, Demand, worker, servers
  <1>14. CASE EndFailedSetup(t)
    <2>1. page' \in [Tab -> Page]
      <3>1. Idle \in Page /\ [Idle EXCEPT !.at = "forgetting"] \in Page
        BY DEF Idle, Page, Places
      <3>2. page' = [page EXCEPT ![t] = Idle]
               \/ page' = [page EXCEPT ![t] = [Idle EXCEPT !.at = "forgetting"]]
        BY <1>14 DEF EndFailedSetup, Demand
      <3>3. QED
        BY <3>1, <3>2
    <2>2. /\ intent' \in BOOLEAN /\ knows' \subseteq Tab
          /\ asked' \subseteq Tab \union Capability
      BY <1>14 DEF EndFailedSetup, Demand
    <2>3. QED
      BY <1>14, <2>1, <2>2 DEF EndFailedSetup, Release, worker, servers
  <1>15. CASE LockTimeout(t)
    <2>1. page' \in [Tab -> Page]
      BY <1>15 DEF LockTimeout, Idle, Page, Places
    <2>2. QED
      BY <1>15, <2>1 DEF LockTimeout, storage, worker, servers, history
  <1>16. CASE BeginCleanup(t)
    <2>1. PICK p \in fallback \union {None}, service \in BOOLEAN, j \in Journal,
               orphan \in BOOLEAN : BeginsWith(t, p, service, j, orphan)
      BY <1>16, BeginsSomehow
    <2>2. page' \in [Tab -> Page]
      <3>1. [at |-> "cleaning", cap |-> None, found |-> registered,
             orphan |-> orphan, work |-> j] \in Page
        BY DEF Page, Places, Cleaning
      <3>2. QED
        BY <2>1, <3>1 DEF BeginsWith
    <2>3. /\ posted' \in Seq(Message)
          /\ \A i \in 1..Len(posted') : posted'[i].op = "set" => posted'[i].cap # None
      <3>1. CASE posted' = posted
        BY <3>1
      <3>2. CASE posted' = Posted("clear", j.primary, t)
        <4>0. j.primary \in Stored
          BY DEF Journal
        <4>1. /\ posted' \in Seq(Message)
              /\ \A i \in 1..Len(posted') :
                    \/ i \in 1..Len(posted) /\ posted'[i] = posted[i]
                    \/ posted'[i] = [op |-> "clear", cap |-> j.primary, tab |-> t]
          BY <3>2, <4>0, PostedExtends
        <4>2. QED
          BY <4>1
      <3>3. QED
        BY <2>1, <3>1, <3>2 DEF BeginsWith
    <2>4. flight' \subseteq Sent
      <3>1. j.gateway \subseteq Capability /\ j.pusher \subseteq Capability
        BY DEF Journal
      <3>2. \A c \in Capability : Request("delete", c, t) \in Sent
                                  /\ Request("removePusher", c, t) \in Sent
        BY DEF Request, Sent, Sender
      <3>3. QED
        BY <2>1, <3>1, <3>2 DEF BeginsWith
    <2>5. creds' \in Stored /\ journal' \in Journal \union {None}
      BY <2>1 DEF BeginsWith, Without
    <2>6. QED
      BY <1>16, <2>2, <2>3, <2>4, <2>5 DEF BeginCleanup
  <1>17. CASE Settle(t)
    <2>0. page[t].work \in Journal
      BY <1>0, <1>17 DEF Settle, Holding, Holds, Cleaning, Page
    <2>1. PICK left \in Journal, drop \in BOOLEAN :
             /\ config' = IF drop THEN None ELSE config
             /\ page' = [page EXCEPT ![t].at = "unsubscribing",
                     ![t].work = IF drop THEN [left EXCEPT !.worker = FALSE,
                                                  !.subscription = FALSE]
                                 ELSE left]
      <3>1. PICK warned \in BOOLEAN, deleted \in BOOLEAN :
              LET work  == page[t].work
                  leave == work.gateway = {} /\ work.pusher # {} /\ warned
                  left  == IF leave THEN [work EXCEPT !.pusher = {}] ELSE work
                  drop  == /\ page[t].orphan /\ deleted
                           /\ left.gateway = {} /\ left.pusher = {}
              IN  /\ config' = IF drop THEN None ELSE config
                  /\ page' = [page EXCEPT ![t].at = "unsubscribing",
                         ![t].work = IF drop THEN [left EXCEPT !.worker = FALSE,
                                                      !.subscription = FALSE]
                                     ELSE left]
        BY <1>17, Zenon DEF Settle
      <3> DEFINE work  == page[t].work
                 leave == work.gateway = {} /\ work.pusher # {} /\ warned
                 left  == IF leave THEN [work EXCEPT !.pusher = {}] ELSE work
                 drop  == /\ page[t].orphan /\ deleted
                          /\ left.gateway = {} /\ left.pusher = {}
      <3>2. left \in Journal /\ drop \in BOOLEAN
        BY <1>0, <2>0 DEF Journal, Page
      <3>3. QED
        BY <3>1, <3>2, Zenon
    <2>2. page' \in [Tab -> Page]
      <3> DEFINE w == IF drop THEN [left EXCEPT !.worker = FALSE, !.subscription = FALSE]
                      ELSE left
      <3>1. w \in Journal
        BY DEF Journal
      <3>2. page' = [page EXCEPT ![t].at = "unsubscribing", ![t].work = w]
        BY <2>1
      <3> HIDE DEF w
      <3>3. [page[t] EXCEPT !.at = "unsubscribing", !.work = w] \in Page
        BY <1>0, <3>1 DEF Page, Places, Cleaning
      <3>4. QED
        BY <3>2, <3>3
    <2>3. /\ posted' \in Seq(Message)
          /\ \A i \in 1..Len(posted') : posted'[i].op = "set" => posted'[i].cap # None
      <3>1. posted' = Muted(t)
        BY <1>17 DEF Settle, Orphan
      <3>2. QED
        BY <3>1, MutedKeeps
    <2>4. flight' \subseteq Sent
      BY <1>17, LateKeeps DEF Settle, Orphan
    <2>5. config' \in Stored
      BY <2>1
    <2>6. QED
      BY <1>17, <2>2, <2>3, <2>4, <2>5 DEF Settle, history
  <1>18. CASE EndCleanup(t)
    <2>0. page[t].work \in Journal
      BY <1>0, <1>18 DEF EndCleanup, Holding, Holds, Cleaning, Page
    <2>1. PICK done \in Journal :
             /\ subscribed' \in BOOLEAN
             /\ journal' \in {done, None} /\ lock' \in {lock, NoTab}
             /\ page' \in {[page EXCEPT ![t].at = "finishing"], [page EXCEPT ![t] = Idle]}
      <3>1. PICK removed \in BOOLEAN :
              LET work == page[t].work
                  go   == removed /\ page[t].found /\ MayUnsubscribe(work)
                  done == [work EXCEPT !.subscription = @ /\ ~go]
              IN  /\ subscribed' = (subscribed /\ ~go)
                  /\ IF Complete(done)
                     THEN /\ journal' = None
                          /\ Go(t, "finishing")
                          /\ UNCHANGED lock
                     ELSE /\ journal' = done
                          /\ page' = [page EXCEPT ![t] = Idle]
                          /\ Release(t)
        BY <1>18, Zenon DEF EndCleanup
      <3> DEFINE go == removed /\ page[t].found /\ MayUnsubscribe(page[t].work)
                 done == [page[t].work EXCEPT !.subscription = @ /\ ~go]
      <3>2. go \in BOOLEAN /\ done \in Journal
        BY <1>0, <2>0 DEF MayUnsubscribe, Journal, Page
      <3>3. /\ subscribed' \in BOOLEAN
            /\ journal' \in {done, None} /\ lock' \in {lock, NoTab}
            /\ page' \in {[page EXCEPT ![t].at = "finishing"], [page EXCEPT ![t] = Idle]}
        <4> HIDE DEF done
        <4>1. QED
          BY <3>1, <3>2 DEF Go, Release, done
      <3>4. QED
        BY <3>2, <3>3
    <2>2. page' \in [Tab -> Page]
      <3>1. [page[t] EXCEPT !.at = "finishing"] \in Page /\ Idle \in Page
        BY <1>0 DEF Idle, Page, Places, Cleaning
      <3>2. QED
        BY <2>1, <3>1
    <2>3. QED
      BY <1>18, <2>1, <2>2 DEF EndCleanup, servers, history
  <1>19. CASE FinishCleanup(t)
    <2>1. page' \in [Tab -> Page]
      BY <1>19 DEF FinishCleanup, Idle, Page, Places
    <2>2. QED
      BY <1>19, <2>1 DEF FinishCleanup, Release, worker, servers, history
  <1>20. CASE Crash(t)
    <2>1. page' \in [Tab -> Page]
      BY <1>20 DEF Crash, Idle, Page, Places
    <2>2. /\ posted' \in Seq(Message)
          /\ \A i \in 1..Len(posted') : posted'[i].op = "set" => posted'[i].cap # None
      <3>1. posted' = Muted(t)
        BY <1>20 DEF Crash, Orphan
      <3>2. QED
        BY <3>1, MutedKeeps
    <2>3. flight' \subseteq Sent
      BY <1>20, LateKeeps DEF Crash, Orphan
    <2>4. QED
      BY <1>20, <2>1, <2>2, <2>3 DEF Crash, Release
  <1> QED
    BY <1>1, <1>2, <1>3, <1>4, <1>5, <1>6, <1>7, <1>8, <1>9, <1>10, <1>11, <1>12,
       <1>13, <1>14, <1>15, <1>16, <1>17, <1>18, <1>19, <1>20 DEF Window

LEMMA ShapesWorker ==
    ASSUME Shapes, Holding, Awaited, Worker
    PROVE  Shapes'
  <1> USE DEF Shapes
  <1>1. CASE SetConfig
    <2> DEFINE m == Head(posted)
    <2>1. posted # <<>> /\ m.op = "set"
      BY <1>1 DEF SetConfig
    <2>2. /\ posted' \in Seq(Message)
          /\ \A i \in 1..Len(posted') : posted'[i].op = "set" => posted'[i].cap # None
      BY <1>1, <2>1, PostedShrinks DEF SetConfig
    <2>3. m \in Message /\ m.cap \in Capability
      BY <2>1, PostedShrinks DEF Message, Stored
    <2>4. page' \in [Tab -> Page] /\ flight' \subseteq Sent
      <3>1. CASE m.tab = NoTab
        BY <1>1, <3>1 DEF SetConfig
      <3>2. CASE m.tab # NoTab
        <4>1. m.tab \in Tab
          BY <2>3, <3>2 DEF Message, Sender
        <4>2. /\ page' = [page EXCEPT ![m.tab].at = IF Owned(m.tab) THEN "registering" ELSE "failing"]
              /\ flight' \subseteq flight \union {Request("post", m.cap, m.tab)}
          BY <1>1, <3>2 DEF SetConfig, Continue, Go
        <4>3. Request("post", m.cap, m.tab) \in Sent
          BY <2>3, <4>1 DEF Request, Sent, Sender
        <4>4. page' \in [Tab -> Page]
          BY <4>1, <4>2 DEF Page, Places, Enrolling, Undoing
        <4>5. QED
          BY <4>2, <4>3, <4>4
      <3>3. QED
        BY <3>1, <3>2
    <2>5. config' \in Stored
      BY <1>1, <2>3 DEF SetConfig, Stored
    <2>6. QED
      BY <1>1, <2>2, <2>4, <2>5 DEF SetConfig, storage, history
  <1>2. CASE ClearConfig
    <2> DEFINE m == Head(posted)
               t == m.tab
    <2>1. posted # <<>> /\ m.op = "clear"
      BY <1>2 DEF ClearConfig
    <2>2. /\ posted' \in Seq(Message)
          /\ \A i \in 1..Len(posted') : posted'[i].op = "set" => posted'[i].cap # None
      BY <1>2, <2>1, PostedShrinks DEF ClearConfig
    <2>3. m \in Message /\ m = posted[1] /\ Len(posted) \in Nat \ {0}
      BY <2>1, PostedShrinks
    <2>4. page' \in [Tab -> Page]
      <3>1. CASE page' = page
        BY <3>1
      <3>2. CASE t # NoTab /\ page' = [page EXCEPT ![t].at = "failing"]
        <4>1. t \in Tab
          BY <2>3, <3>2 DEF Message, Sender
        <4>2. QED
          BY <3>2, <4>1 DEF Page, Places, Undoing
      <3>3. CASE /\ t # NoTab /\ page[t].at # "unconfiguring"
                 /\ page' = [page EXCEPT ![t].work.worker = FALSE]
        <4>1. t \in Tab
          BY <2>3, <3>3 DEF Message, Sender
        <4>2. page[t].at = "cleaning"
          BY <2>1, <2>3, <3>3 DEF Awaited, PostedFor
        <4>3. page[t].work \in Journal /\ page[t] \in Page
          BY <4>1, <4>2 DEF Holding, Holds, Cleaning, Page
        <4>4. [page[t].work EXCEPT !.worker = FALSE] \in Journal
          BY <4>3 DEF Journal
        <4>5. [page[t] EXCEPT !.work = [page[t].work EXCEPT !.worker = FALSE]] \in Page
          BY <4>3, <4>4 DEF Page
        <4>6. page' = [page EXCEPT ![t] =
                 [page[t] EXCEPT !.work = [page[t].work EXCEPT !.worker = FALSE]]]
          BY <3>3
        <4>7. QED
          BY <4>5, <4>6
      <3>4. QED
        BY <1>2, <3>1, <3>2, <3>3 DEF ClearConfig
    <2>5. config' \in Stored /\ creds' \in Stored /\ subscribed' \in BOOLEAN
      BY <1>2 DEF ClearConfig, Without, Stored
    <2>6. QED
      BY <1>2, <2>2, <2>4, <2>5 DEF ClearConfig, servers, history
  <1>3. CASE SubscriptionChange
    BY <1>3 DEF SubscriptionChange, storage, servers, history
  <1>4. CASE EndRenewal
    <2>1. renewal' \in Stored /\ subscribed' \in BOOLEAN
      BY <1>4 DEF EndRenewal, Stored
    <2>2. gateway' \in [Capability -> {"none", "pending", "active", "revoked"}]
      BY <1>4 DEF EndRenewal, Begun, Stored
    <2>3. QED
      BY <1>4, <2>1, <2>2 DEF EndRenewal, storage, history
  <1>5. CASE WorkerDies
    <2>1. posted' \in Seq(Message) /\ Len(posted') = 0
      BY <1>5, EmptySeq DEF WorkerDies
    <2>2. \A i \in 1..Len(posted') : posted'[i].op = "set" => posted'[i].cap # None
      BY <2>1
    <2>3. QED
      BY <1>5, <2>1, <2>2 DEF WorkerDies, storage, servers, history, Stored
  <1>6. CASE Unregister
    <2>1. posted' \in Seq(Message) /\ Len(posted') = 0
      BY <1>6, EmptySeq DEF Unregister
    <2>2. \A i \in 1..Len(posted') : posted'[i].op = "set" => posted'[i].cap # None
      BY <2>1
    <2>3. QED
      BY <1>6, <2>1, <2>2 DEF Unregister, storage, servers, history, Stored
  <1> QED
    BY <1>1, <1>2, <1>3, <1>4, <1>5, <1>6 DEF Worker

LEMMA ShapesServer ==
    ASSUME Shapes, Holding, Awaited, Server
    PROVE  Shapes'
  <1> USE DEF Shapes
  <1>1. ASSUME NEW c \in Capability, Confirm(c)
        PROVE  Shapes'
    <2>1. gateway' \in [Capability -> {"none", "pending", "active", "revoked"}]
      BY <1>1 DEF Confirm
    <2>2. QED
      BY <1>1, <2>1 DEF Confirm, storage, worker, history
  <1>2. ASSUME NEW m \in flight, ServePost(m)
        PROVE  Shapes'
    <2>0. m \in Sent
      OBVIOUS
    <2>1. gateway' \in [Capability -> {"none", "pending", "active", "revoked"}]
      BY <1>2, <2>0 DEF ServePost, Begun, Sent
    <2>2. page' \in [Tab -> Page] /\ flight' \subseteq Sent
      <3>1. CASE m.tab = NoTab
        BY <1>2, <3>1 DEF ServePost
      <3>2. CASE m.tab # NoTab
        <4>1. m.tab \in Tab /\ m.cap \in Capability
          BY <2>0, <3>2 DEF Sent, Sender
        <4>2. PICK s \in {"pushing", "confirming", "failing"} :
                 page' = [page EXCEPT ![m.tab].at = s]
          BY <1>2, <3>2 DEF ServePost, Go
        <4>3. flight' \subseteq flight \union {Request("setPusher", m.cap, m.tab)}
          BY <1>2, <3>2 DEF ServePost
        <4>4. Request("setPusher", m.cap, m.tab) \in Sent
          BY <4>1 DEF Request, Sent, Sender
        <4>5. page' \in [Tab -> Page]
          BY <4>1, <4>2 DEF Page, Places, Enrolling, Undoing
        <4>6. QED
          BY <4>3, <4>4, <4>5
      <3>3. QED
        BY <3>1, <3>2
    <2>3. QED
      BY <1>2, <2>1, <2>2 DEF ServePost, storage, worker, history
  <1>3. ASSUME NEW m \in flight, ServeDelete(m)
        PROVE  Shapes'
    <2>0. m \in Sent
      OBVIOUS
    <2>1. gateway' \in [Capability -> {"none", "pending", "active", "revoked"}]
      BY <1>3, <2>0 DEF ServeDelete, Sent
    <2>2. page' \in [Tab -> Page]
      <3>1. CASE page' = page
        BY <3>1
      <3>2. CASE /\ m.tab # NoTab /\ page[m.tab].at = "cleaning"
                 /\ page' = [page EXCEPT ![m.tab].work.gateway = @ \ {m.cap}]
        <4>1. m.tab \in Tab
          BY <2>0, <3>2 DEF Sent, Sender
        <4>2. page[m.tab].work \in Journal /\ page[m.tab] \in Page
          BY <3>2, <4>1 DEF Holding, Holds, Cleaning, Page
        <4>3. [page[m.tab].work EXCEPT !.gateway = @ \ {m.cap}] \in Journal
          BY <4>2 DEF Journal
        <4>4. [page[m.tab] EXCEPT !.work = [page[m.tab].work EXCEPT !.gateway = @ \ {m.cap}]] \in Page
          BY <4>2, <4>3 DEF Page
        <4>5. page' = [page EXCEPT ![m.tab] =
                 [page[m.tab] EXCEPT !.work = [page[m.tab].work EXCEPT !.gateway = @ \ {m.cap}]]]
          BY <3>2
        <4>6. QED
          BY <4>4, <4>5
      <3>3. QED
        BY <1>3, <3>1, <3>2 DEF ServeDelete
    <2>3. flight' \subseteq Sent
      BY <1>3 DEF ServeDelete
    <2>4. QED
      BY <1>3, <2>1, <2>2, <2>3 DEF ServeDelete, storage, worker, history
  <1>4. ASSUME NEW m \in flight, ServeSetPusher(m)
        PROVE  Shapes'
    <2>0. m \in Sent
      OBVIOUS
    <2>1. page' \in [Tab -> Page]
      <3>1. CASE m.tab = NoTab
        BY <1>4, <3>1 DEF ServeSetPusher
      <3>2. CASE m.tab # NoTab
        <4>1. m.tab \in Tab
          BY <2>0, <3>2 DEF Sent, Sender
        <4>2. PICK s \in {"checking", "failing"} : Go(m.tab, s)
          BY <1>4, <3>2 DEF ServeSetPusher
        <4>3. s \in Places
          BY PlacesNamed DEF Enrolling, Undoing
        <4>4. QED
          BY <4>1, <4>2, <4>3, GoShapes
      <3>3. QED
        BY <3>1, <3>2
    <2>2. pushers' \subseteq Capability /\ flight' \subseteq Sent
      BY <1>4, <2>0 DEF ServeSetPusher, Sent
    <2>3. QED
      BY <1>4, <2>1, <2>2 DEF ServeSetPusher, storage, worker, history
  <1>5. ASSUME NEW m \in flight, ServeRemovePusher(m)
        PROVE  Shapes'
    <2>0. m \in Sent
      OBVIOUS
    <2>2. page' \in [Tab -> Page]
      <3>1. CASE page' = page
        BY <3>1
      <3>2. CASE /\ m.tab # NoTab /\ page[m.tab].at = "cleaning"
                 /\ page' = [page EXCEPT ![m.tab].work.pusher = @ \ {m.cap}]
        <4>1. m.tab \in Tab
          BY <2>0, <3>2 DEF Sent, Sender
        <4>2. page[m.tab].work \in Journal /\ page[m.tab] \in Page
          BY <3>2, <4>1 DEF Holding, Holds, Cleaning, Page
        <4>3. [page[m.tab].work EXCEPT !.pusher = @ \ {m.cap}] \in Journal
          BY <4>2 DEF Journal
        <4>4. [page[m.tab] EXCEPT !.work = [page[m.tab].work EXCEPT !.pusher = @ \ {m.cap}]] \in Page
          BY <4>2, <4>3 DEF Page
        <4>5. page' = [page EXCEPT ![m.tab] =
                 [page[m.tab] EXCEPT !.work = [page[m.tab].work EXCEPT !.pusher = @ \ {m.cap}]]]
          BY <3>2
        <4>6. QED
          BY <4>4, <4>5
      <3>3. QED
        BY <1>5, <3>1, <3>2 DEF ServeRemovePusher
    <2>3. flight' \subseteq Sent /\ pushers' \subseteq Capability
      BY <1>5 DEF ServeRemovePusher
    <2>4. QED
      BY <1>5, <2>2, <2>3 DEF ServeRemovePusher, storage, worker, history
  <1> QED
    BY <1>1, <1>2, <1>3, <1>4, <1>5 DEF Server

-----------------------------------------------------------------------------
(* The lock *)

LEMMA HoldingInit == Init => Holding
  BY NoTabAssumption DEF Init, Holding, Holds, Idle, Choosing, Journaled, Configured, Stranded,
     Cleaning

LEMMA HoldingFrom ==
    ASSUME Shapes, Holding, NEW t \in Tab,
           \A u \in Tab \ {t} : page'[u] = page[u],
           \/ lock' = lock
           \/ lock = NoTab /\ lock' = t
           \/ lock = t /\ lock' = NoTab,
           Holds(t)'
    PROVE  Holding'
  <1> SUFFICES ASSUME NEW u \in Tab, u # t PROVE Holds(u)'
    BY DEF Holding
  <1>1. Holds(u) /\ page'[u] = page[u]
    BY DEF Holding
  <1>2. (lock' = u) <=> (lock = u)
    BY NoTabAssumption
  <1>3. QED
    BY <1>1, <1>2 DEF Holds

LEMMA HoldingWindow ==
    ASSUME Shapes, Holding, NEW t \in Tab, Window(t)
    PROVE  Holding'
  <1> USE DEF Choosing, Journaled, Configured, Stranded, Cleaning, Enrolling, Undoing
  <1>0. /\ page \in [Tab -> Page] /\ page[t] \in Page /\ Holds(t)
        /\ NoTab \notin Tab
    BY NoTabAssumption DEF Shapes, Holding
  <1>1. CASE StartSetup(t)
    <2>1. page[t].at = "idle" /\ lock' = lock
      BY <1>1 DEF StartSetup
    <2>2. PICK c \in {None, creds} :
             page' = [page EXCEPT ![t] = [Idle EXCEPT !.at = "asked", !.cap = c]]
      BY <1>1 DEF StartSetup
    <2>3. page'[t].at = "asked" /\ \A u \in Tab \ {t} : page'[u] = page[u]
      BY <1>0, <2>2 DEF Idle
    <2>4. Holds(t)'
      BY <1>0, <2>1, <2>3 DEF Holds
    <2>5. QED
      BY <2>1, <2>3, <2>4, HoldingFrom
  <1>2. CASE TakeForSetup(t)
    <2>1. lock = NoTab /\ lock' = t
      BY <1>2 DEF TakeForSetup, Unlocked
    <2>2. /\ page'[t].at \in {"failing", "subscribing"}
          /\ \A u \in Tab \ {t} : page'[u] = page[u]
      BY <1>0, <1>2 DEF TakeForSetup, Go, Page
    <2>3. Holds(t)'
      BY <2>1, <2>2 DEF Holds
    <2>4. QED
      BY <2>1, <2>2, <2>3, HoldingFrom
  <1>3. CASE Subscribe(t) \/ Reregister(t) \/ CommitCredentials(t) \/ RotateEpoch(t)
    <2>1. lock' = lock
      BY <1>3 DEF Subscribe, Reregister, CommitCredentials, RotateEpoch
    <2>2. /\ page'[t].at \in Choosing \union Journaled /\ page'[t].cap = page[t].cap
          /\ page[t].at \in Choosing \union Journaled
          /\ page'[t].at \in Journaled => page[t].at \in Journaled
          /\ \A u \in Tab \ {t} : page'[u] = page[u]
      BY <1>0, <1>3 DEF Subscribe, Reregister, CommitCredentials, RotateEpoch, Go, Page
    <2>3. Holds(t)'
      BY <1>0, <2>1, <2>2 DEF Holds
    <2>4. QED
      BY <2>1, <2>2, <2>3, HoldingFrom
  <1>4. CASE QueueSetup(t) \/ QueueFails(t)
    <2>1. lock' = lock /\ page[t].at = "subscribed"
      BY <1>4 DEF QueueSetup, QueueFails
    <2>2. PICK c \in Chosen(t), s \in {"configuring", "undoing"} :
             page' = [page EXCEPT ![t].at = s, ![t].cap = c]
      BY <1>4, Zenon DEF QueueSetup, QueueFails
    <2>3. c # None
      BY NoneAssumption DEF Chosen, Shapes, Stored, Page
    <2>4. /\ page'[t].at \in {"configuring", "undoing"} /\ page'[t].cap = c
          /\ \A u \in Tab \ {t} : page'[u] = page[u]
      BY <1>0, <2>2 DEF Page
    <2>5. Holds(t)'
      BY <1>0, <2>1, <2>3, <2>4 DEF Holds
    <2>6. QED
      BY <2>1, <2>4, <2>5, HoldingFrom
  <1>5. CASE UndoWorker(t) \/ UndoFails(t) \/ SetupFails(t)
    <2>1. lock' = lock
      BY <1>5 DEF UndoWorker, UndoFails, SetupFails
    <2>2. /\ page'[t].at \in {"failing", "unconfiguring"}
          /\ page'[t].cap = page[t].cap
          /\ page'[t].at = "unconfiguring" => page[t].at = "undoing"
          /\ \A u \in Tab \ {t} : page'[u] = page[u]
      BY <1>0, <1>5 DEF UndoWorker, UndoFails, SetupFails, Go, Page
    <2>3. Holds(t)'
      BY <1>0, <2>1, <2>2 DEF Holds
    <2>4. QED
      BY <2>1, <2>2, <2>3, HoldingFrom
  <1>6. CASE EndSetup(t) \/ LockTimeout(t) \/ FinishCleanup(t) \/ Crash(t)
    <2>1. \/ lock = t /\ lock' = NoTab
          \/ lock # t /\ lock' = lock
      BY <1>0, <1>6 DEF EndSetup, LockTimeout, FinishCleanup, Crash, Release, Holds
    <2>2. page'[t].at = "idle" /\ \A u \in Tab \ {t} : page'[u] = page[u]
      BY <1>0, <1>6 DEF EndSetup, LockTimeout, FinishCleanup, Crash, Idle
    <2>3. Holds(t)'
      BY <1>0, <2>1, <2>2 DEF Holds
    <2>4. QED
      BY <2>1, <2>2, <2>3, HoldingFrom
  <1>7. CASE Forget(t) \/ EndFailedSetup(t)
    <2>1. \/ lock = t /\ lock' = NoTab
          \/ lock # t /\ lock' = lock
      BY <1>0, <1>7 DEF Forget, EndFailedSetup, Release, Holds
    <2>2. /\ page'[t].at \in {"idle", "forgetting"}
          /\ \A u \in Tab \ {t} : page'[u] = page[u]
      BY <1>0, <1>7 DEF Forget, EndFailedSetup, Demand, Idle
    <2>3. Holds(t)'
      BY <1>0, <2>1, <2>2 DEF Holds
    <2>4. QED
      BY <2>1, <2>2, <2>3, HoldingFrom
  <1>8. CASE BeginCleanup(t)
    <2>1. PICK p \in fallback \union {None}, service \in BOOLEAN, j \in Journal,
               orphan \in BOOLEAN : BeginsWith(t, p, service, j, orphan)
      BY <1>8, BeginsSomehow
    <2>2. lock = NoTab /\ lock' = t
      BY <1>8 DEF BeginCleanup, Unlocked
    <2>3. /\ page'[t].at = "cleaning" /\ page'[t].work # None
          /\ \A u \in Tab \ {t} : page'[u] = page[u]
      BY <1>0, <2>1, JournalAssumption DEF BeginsWith
    <2>4. Holds(t)'
      BY <2>2, <2>3 DEF Holds
    <2>5. QED
      BY <2>2, <2>3, <2>4, HoldingFrom
  <1>9. CASE Settle(t)
    <2>1. lock' = lock /\ page[t].at = "cleaning"
      BY <1>9 DEF Settle
    <2>2. page' \in [Tab -> Page]
      BY <1>9, ShapesWindow DEF Window, Shapes
    <2>3. page[t].work \in Journal
      BY <1>0, <2>1 DEF Holds, Page
    <2>4. PICK w \in Journal : page' = [page EXCEPT ![t].at = "unsubscribing", ![t].work = w]
      <3>1. PICK warned \in BOOLEAN, deleted \in BOOLEAN :
              LET work  == page[t].work
                  leave == work.gateway = {} /\ work.pusher # {} /\ warned
                  left  == IF leave THEN [work EXCEPT !.pusher = {}] ELSE work
                  drop  == /\ page[t].orphan /\ deleted
                           /\ left.gateway = {} /\ left.pusher = {}
              IN  page' = [page EXCEPT ![t].at = "unsubscribing",
                         ![t].work = IF drop THEN [left EXCEPT !.worker = FALSE,
                                                      !.subscription = FALSE]
                                     ELSE left]
        BY <1>9, Zenon DEF Settle
      <3> DEFINE left == IF page[t].work.gateway = {} /\ page[t].work.pusher # {} /\ warned
                         THEN [page[t].work EXCEPT !.pusher = {}] ELSE page[t].work
                 drop == /\ page[t].orphan /\ deleted
                         /\ left.gateway = {} /\ left.pusher = {}
                 w    == IF drop THEN [left EXCEPT !.worker = FALSE, !.subscription = FALSE]
                         ELSE left
      <3>2. w \in Journal
        BY <2>3 DEF Journal
      <3>3. page' = [page EXCEPT ![t].at = "unsubscribing", ![t].work = w]
        BY <3>1, Zenon
      <3>4. QED
        BY <3>2, <3>3
    <2>5. /\ page'[t].at = "unsubscribing" /\ page'[t].work = w
          /\ \A u \in Tab \ {t} : page'[u] = page[u]
      BY <1>0, <2>4 DEF Page
    <2>6. Holds(t)'
      BY <1>0, <2>1, <2>5, JournalAssumption DEF Holds
    <2>7. QED
      BY <2>1, <2>5, <2>6, HoldingFrom
  <1>10. CASE EndCleanup(t)
    <2>1. page[t].at = "unsubscribing"
      BY <1>10 DEF EndCleanup
    <2>2. /\ \/ /\ lock' = lock
                /\ page' = [page EXCEPT ![t].at = "finishing"]
             \/ /\ lock = t => lock' = NoTab
                /\ page' = [page EXCEPT ![t] = Idle]
      BY <1>0, <1>10, <2>1, Zenon DEF EndCleanup, Release, Go
    <2>3. lock = t
      BY <1>0, <2>1 DEF Holds
    <2>4. /\ \A u \in Tab \ {t} : page'[u] = page[u]
          /\ \/ lock' = lock /\ page'[t].at = "finishing" /\ page'[t].work = page[t].work
             \/ lock' = NoTab /\ page'[t].at = "idle"
      BY <1>0, <2>2, <2>3 DEF Page, Idle
    <2>5. Holds(t)'
      BY <1>0, <2>1, <2>3, <2>4 DEF Holds
    <2>6. QED
      BY <2>3, <2>4, <2>5, HoldingFrom
  <1> QED
    BY <1>1, <1>2, <1>3, <1>4, <1>5, <1>6, <1>7, <1>8, <1>9, <1>10 DEF Window

\* An answer only moves the window that waits for it, and that holds the lock.
MovesTo(t, places) ==
    /\ page'[t].at \in places
    /\ page'[t].cap = page[t].cap
    /\ page'[t].work = page[t].work
    /\ page'[t].orphan = page[t].orphan
    /\ page'[t].found = page[t].found
    /\ \A u \in Tab \ {t} : page'[u] = page[u]

LEMMA MovesBy ==
    ASSUME Shapes, NEW t \in Tab, NEW places, NEW s \in places,
           page' = [page EXCEPT ![t].at = s]
    PROVE  MovesTo(t, places) /\ page'[t].at = s
  <1>1. page \in [Tab -> Page] /\ page[t] \in Page
    BY DEF Shapes
  <1>2. QED
    BY <1>1 DEF MovesTo, Page

\* The gateway's answers shrink what a cleanup still has to do.
WorksOff(t) ==
    /\ page[t].at = "cleaning" /\ page[t].work \in Journal
    /\ page'[t].at = "cleaning"
    /\ page'[t].cap = page[t].cap /\ page'[t].orphan = page[t].orphan
    /\ page'[t].found = page[t].found
    /\ page'[t].work \in Journal
    /\ page'[t].work.primary = page[t].work.primary
    /\ page'[t].work.targets = page[t].work.targets
    /\ page'[t].work.gateway \subseteq page[t].work.gateway
    /\ page'[t].work.pusher \subseteq page[t].work.pusher
    /\ page'[t].work.worker => page[t].work.worker
    /\ page'[t].work.subscription = page[t].work.subscription
    /\ \A u \in Tab \ {t} : page'[u] = page[u]

LEMMA WorkerMoves ==
    ASSUME Shapes, Holding, Awaited, Worker
    PROVE  \/ UNCHANGED <<page, flight>>
           \/ \E t \in Tab :
                 /\ posted # <<>> /\ posted[1].tab = t /\ Len(posted) = 1
                 /\ \/ /\ SetConfig /\ page[t].at = "configuring"
                       /\ posted[1].cap = page[t].cap
                       /\ MovesTo(t, {"registering", "failing"})
                       /\ flight' = IF page'[t].at = "registering"
                                    THEN flight \union {Request("post", posted[1].cap, t)}
                                    ELSE flight
                    \/ /\ ClearConfig /\ page[t].at = "unconfiguring"
                       /\ posted[1].cap = page[t].cap
                       /\ MovesTo(t, {"failing"})
                    \/ /\ ClearConfig /\ WorksOff(t) /\ Cleared(posted[1].cap)
                       /\ posted[1].cap = page[t].work.primary
                       /\ page'[t].work.gateway = page[t].work.gateway
  <1>0. page \in [Tab -> Page] /\ posted \in Seq(Message)
    BY DEF Shapes
  <1>1. CASE SetConfig
    <2> DEFINE m == Head(posted)
    <2>1. /\ posted # <<>> /\ m.op = "set" /\ m = posted[1] /\ m \in Message
          /\ Len(posted) \in Nat \ {0}
      BY <1>0, <1>1, PostedShrinks DEF SetConfig
    <2>2. CASE m.tab = NoTab
      BY <1>1, <2>2 DEF SetConfig
    <2>3. CASE m.tab # NoTab
      <3>1. m.tab \in Tab
        BY <2>1, <2>3 DEF Message, Sender
      <3>2. Len(posted) = 1 /\ PostedFor(m, page[m.tab])
        <4>1. 1 \in 1..Len(posted) /\ posted[1].tab # NoTab
          BY <2>1, <2>3
        <4>2. 1 = Len(posted) /\ PostedFor(posted[1], page[posted[1].tab])
          BY <4>1 DEF Awaited
        <4>3. QED
          BY <2>1, <4>2
      <3>3. PICK s \in {"registering", "failing"} :
               /\ page' = [page EXCEPT ![m.tab].at = s]
               /\ flight' = IF s = "registering"
                            THEN flight \union {Request("post", m.cap, m.tab)} ELSE flight
        BY <1>1, <2>3 DEF SetConfig, Continue, Go
      <3>4. MovesTo(m.tab, {"registering", "failing"}) /\ page'[m.tab].at = s
        BY <3>1, <3>3, MovesBy
      <3>5. QED
        BY <1>1, <2>1, <3>1, <3>2, <3>3, <3>4 DEF PostedFor
    <2>4. QED
      BY <2>2, <2>3
  <1>2. CASE ClearConfig
    <2> DEFINE m == Head(posted)
               t == m.tab
    <2>1. /\ posted # <<>> /\ m.op = "clear" /\ m = posted[1] /\ m \in Message
          /\ Len(posted) \in Nat \ {0}
      BY <1>0, <1>2, PostedShrinks DEF ClearConfig
    <2>2. CASE t = NoTab \/ ~Cleared(m.cap)
      BY <1>2, <2>2 DEF ClearConfig, servers
    <2>3. CASE t # NoTab /\ Cleared(m.cap)
      <3>1. t \in Tab
        BY <2>1, <2>3 DEF Message, Sender
      <3>2. Len(posted) = 1 /\ PostedFor(m, page[t])
        <4>1. 1 \in 1..Len(posted) /\ posted[1].tab # NoTab
          BY <2>1, <2>3
        <4>2. 1 = Len(posted) /\ PostedFor(posted[1], page[posted[1].tab])
          BY <4>1 DEF Awaited
        <4>3. QED
          BY <2>1, <4>2
      <3>3. CASE page[t].at = "unconfiguring"
        <4>1. page' = [page EXCEPT ![t].at = "failing"]
          BY <1>2, <2>3, <3>3 DEF ClearConfig
        <4>2. MovesTo(t, {"failing"})
          BY <3>1, <4>1, MovesBy
        <4>3. QED
          BY <1>2, <2>1, <3>1, <3>2, <3>3, <4>2 DEF PostedFor
      <3>4. CASE page[t].at # "unconfiguring"
        <4>1. page' = [page EXCEPT ![t].work.worker = FALSE]
          BY <1>2, <2>3, <3>4 DEF ClearConfig
        <4>2. /\ page[t].at = "cleaning" /\ m.cap = page[t].work.primary
              /\ page[t] \in Page /\ page[t].work \in Journal
          BY <1>0, <2>1, <3>1, <3>2, <3>4 DEF PostedFor, Holding, Holds, Cleaning, Page
        <4>3. /\ page'[t] = [page[t] EXCEPT !.work = [page[t].work EXCEPT !.worker = FALSE]]
              /\ \A u \in Tab \ {t} : page'[u] = page[u]
          BY <1>0, <3>1, <4>1
        <4> DEFINE w == [page[t].work EXCEPT !.worker = FALSE]
        <4>6. /\ w \in Journal /\ w.primary = page[t].work.primary
              /\ w.targets = page[t].work.targets /\ w.gateway = page[t].work.gateway
              /\ w.pusher = page[t].work.pusher /\ w.worker = FALSE
              /\ w.subscription = page[t].work.subscription
          BY <4>2 DEF Journal
        <4> HIDE DEF w
        <4>7. /\ page'[t].work = w /\ page'[t].at = page[t].at
              /\ page'[t].cap = page[t].cap /\ page'[t].found = page[t].found
              /\ page'[t].orphan = page[t].orphan
              /\ \A u \in Tab \ {t} : page'[u] = page[u]
          BY <4>2, <4>3 DEF w, Page
        <4>4. WorksOff(t) /\ page'[t].work.gateway = page[t].work.gateway
          BY <4>2, <4>6, <4>7 DEF WorksOff
        <4>5. QED
          BY <1>2, <2>1, <2>3, <3>1, <3>2, <4>2, <4>4
      <3>5. QED
        BY <3>3, <3>4
    <2>4. QED
      BY <2>2, <2>3
  <1>3. CASE SubscriptionChange \/ EndRenewal \/ WorkerDies \/ Unregister
    BY <1>3 DEF SubscriptionChange, EndRenewal, WorkerDies, Unregister, servers
  <1> QED
    BY <1>1, <1>2, <1>3 DEF Worker

LEMMA ServerMoves ==
    ASSUME Shapes, Holding, Awaited, Server
    PROVE  \/ UNCHANGED page /\ flight' \subseteq flight
           \/ \E m \in flight :
                 LET t == m.tab IN
                 /\ t \in Tab
                 /\ \/ /\ ServePost(m) /\ page[t].at \in {"registering", "reregistering"}
                       /\ m.cap = page[t].cap
                       /\ MovesTo(t, {"pushing", "confirming", "failing"})
                       /\ flight' = (flight \ {m}) \union
                             IF page'[t].at = "pushing" THEN {Request("setPusher", m.cap, t)}
                             ELSE {}
                    \/ /\ ServeSetPusher(m) /\ page[t].at = "pushing"
                       /\ m.cap = page[t].cap
                       /\ MovesTo(t, {"checking", "failing"})
                    \/ /\ ServeDelete(m) /\ WorksOff(t)
                       /\ page'[t].work.gateway = page[t].work.gateway \ {m.cap}
                       /\ page'[t].work.worker = page[t].work.worker
                    \/ /\ ServeRemovePusher(m) /\ WorksOff(t)
                       /\ page'[t].work.gateway = page[t].work.gateway
                       /\ page'[t].work.worker = page[t].work.worker
  <1>0. page \in [Tab -> Page] /\ flight \subseteq Sent
    BY DEF Shapes
  <1>1. ASSUME NEW c \in Capability, Confirm(c)
        PROVE  UNCHANGED <<page, flight>>
    BY <1>1 DEF Confirm
  <1>2. ASSUME NEW m \in flight, ServePost(m), m.tab # NoTab
        PROVE  /\ m.tab \in Tab /\ page[m.tab].at \in {"registering", "reregistering"}
               /\ m.cap = page[m.tab].cap
               /\ MovesTo(m.tab, {"pushing", "confirming", "failing"})
               /\ flight' = (flight \ {m}) \union
                     IF page'[m.tab].at = "pushing" THEN {Request("setPusher", m.cap, m.tab)}
                     ELSE {}
    <2>1. m.tab \in Tab /\ m.op = "post"
      BY <1>0, <1>2 DEF Sent, Sender, ServePost
    <2>2. SentFor(m, page[m.tab])
      BY <1>2 DEF Awaited
    <2>3. PICK s \in {"pushing", "confirming", "failing"} :
             /\ page' = [page EXCEPT ![m.tab].at = s]
             /\ flight' = (flight \ {m}) \union
                   IF s = "pushing" THEN {Request("setPusher", m.cap, m.tab)} ELSE {}
      BY <1>2 DEF ServePost, Go
    <2>4. MovesTo(m.tab, {"pushing", "confirming", "failing"}) /\ page'[m.tab].at = s
      BY <2>1, <2>3, MovesBy
    <2>5. QED
      BY <2>1, <2>2, <2>3, <2>4 DEF SentFor
  <1>3. ASSUME NEW m \in flight, ServeSetPusher(m), m.tab # NoTab
        PROVE  /\ m.tab \in Tab /\ page[m.tab].at = "pushing"
               /\ m.cap = page[m.tab].cap
               /\ MovesTo(m.tab, {"checking", "failing"})
    <2>1. m.tab \in Tab /\ m.op = "setPusher"
      BY <1>0, <1>3 DEF Sent, Sender, ServeSetPusher
    <2>2. SentFor(m, page[m.tab])
      BY <1>3 DEF Awaited
    <2>3. PICK s \in {"checking", "failing"} : page' = [page EXCEPT ![m.tab].at = s]
      BY <1>3 DEF ServeSetPusher, Go
    <2>4. MovesTo(m.tab, {"checking", "failing"})
      BY <2>1, <2>3, MovesBy
    <2>5. QED
      BY <2>1, <2>2, <2>4 DEF SentFor
  <1>4. ASSUME NEW m \in flight, ServeDelete(m), page' # page
        PROVE  /\ m.tab \in Tab /\ WorksOff(m.tab)
               /\ page'[m.tab].work.gateway = page[m.tab].work.gateway \ {m.cap}
               /\ page'[m.tab].work.worker = page[m.tab].work.worker
    <2>1. /\ m.tab # NoTab /\ page[m.tab].at = "cleaning"
          /\ page' = [page EXCEPT ![m.tab].work.gateway = @ \ {m.cap}]
      BY <1>4 DEF ServeDelete
    <2>2. m.tab \in Tab
      BY <1>0, <2>1 DEF Sent, Sender
    <2>3. page[m.tab] \in Page /\ page[m.tab].work \in Journal
      BY <1>0, <2>1, <2>2 DEF Holding, Holds, Cleaning, Page
    <2>4. /\ page'[m.tab] = [page[m.tab] EXCEPT
                !.work = [page[m.tab].work EXCEPT !.gateway = @ \ {m.cap}]]
          /\ \A u \in Tab \ {m.tab} : page'[u] = page[u]
      BY <1>0, <2>1, <2>2
    <2> DEFINE left == [page[m.tab].work EXCEPT !.gateway = @ \ {m.cap}]
    <2>5. /\ left \in Journal /\ left.primary = page[m.tab].work.primary
          /\ left.targets = page[m.tab].work.targets
          /\ left.gateway = page[m.tab].work.gateway \ {m.cap}
          /\ left.pusher = page[m.tab].work.pusher
          /\ left.worker = page[m.tab].work.worker
          /\ left.subscription = page[m.tab].work.subscription
      BY <2>3 DEF Journal
    <2>6. /\ page'[m.tab].at = page[m.tab].at /\ page'[m.tab].cap = page[m.tab].cap
          /\ page'[m.tab].orphan = page[m.tab].orphan
          /\ page'[m.tab].found = page[m.tab].found
          /\ page'[m.tab].work = left
      BY <2>3, <2>4 DEF Page
    <2> HIDE DEF left
    <2>7. QED
      BY <2>1, <2>2, <2>3, <2>4, <2>5, <2>6 DEF WorksOff
  <1>5. ASSUME NEW m \in flight, ServeRemovePusher(m), page' # page
        PROVE  /\ m.tab \in Tab /\ WorksOff(m.tab)
               /\ page'[m.tab].work.gateway = page[m.tab].work.gateway
               /\ page'[m.tab].work.worker = page[m.tab].work.worker
    <2>1. /\ m.tab # NoTab /\ page[m.tab].at = "cleaning"
          /\ page' = [page EXCEPT ![m.tab].work.pusher = @ \ {m.cap}]
      BY <1>5 DEF ServeRemovePusher
    <2>2. m.tab \in Tab
      BY <1>0, <2>1 DEF Sent, Sender
    <2>3. page[m.tab] \in Page /\ page[m.tab].work \in Journal
      BY <1>0, <2>1, <2>2 DEF Holding, Holds, Cleaning, Page
    <2>4. /\ page'[m.tab] = [page[m.tab] EXCEPT
                !.work = [page[m.tab].work EXCEPT !.pusher = @ \ {m.cap}]]
          /\ \A u \in Tab \ {m.tab} : page'[u] = page[u]
      BY <1>0, <2>1, <2>2
    <2> DEFINE left == [page[m.tab].work EXCEPT !.pusher = @ \ {m.cap}]
    <2>5. /\ left \in Journal /\ left.primary = page[m.tab].work.primary
          /\ left.targets = page[m.tab].work.targets
          /\ left.gateway = page[m.tab].work.gateway
          /\ left.pusher = page[m.tab].work.pusher \ {m.cap}
          /\ left.worker = page[m.tab].work.worker
          /\ left.subscription = page[m.tab].work.subscription
      BY <2>3 DEF Journal
    <2>6. /\ page'[m.tab].at = page[m.tab].at /\ page'[m.tab].cap = page[m.tab].cap
          /\ page'[m.tab].orphan = page[m.tab].orphan
          /\ page'[m.tab].found = page[m.tab].found
          /\ page'[m.tab].work = left
      BY <2>3, <2>4 DEF Page
    <2> HIDE DEF left
    <2>7. QED
      BY <2>1, <2>2, <2>3, <2>4, <2>5, <2>6 DEF WorksOff
  <1>6. ASSUME NEW m \in flight, ServePost(m) \/ ServeSetPusher(m), m.tab = NoTab
        PROVE  UNCHANGED page /\ flight' = flight \ {m}
    BY <1>6 DEF ServePost, ServeSetPusher
  <1>7. ASSUME NEW m \in flight, ServeDelete(m) \/ ServeSetPusher(m) \/ ServeRemovePusher(m)
        PROVE  flight' = flight \ {m}
    BY <1>7 DEF ServeDelete, ServeSetPusher, ServeRemovePusher
  <1> QED
    BY <1>1, <1>2, <1>3, <1>4, <1>5, <1>6, <1>7 DEF Server

LEMMA HoldingElsewhere ==
    ASSUME Shapes, Holding, Awaited, Worker \/ Server
    PROVE  Holding'
  <1> USE DEF Choosing, Journaled, Configured, Stranded, Cleaning
  <1>1. lock' = lock
    <2>1. ASSUME NEW m \in flight,
                 ServePost(m) \/ ServeDelete(m) \/ ServeSetPusher(m) \/ ServeRemovePusher(m)
          PROVE  lock' = lock
      BY <2>1 DEF ServePost, ServeDelete, ServeSetPusher, ServeRemovePusher
    <2>2. ASSUME NEW c \in Capability, Confirm(c)
          PROVE  lock' = lock
      BY <2>2 DEF Confirm
    <2>3. Worker => lock' = lock
      BY DEF Worker, SetConfig, ClearConfig, SubscriptionChange, EndRenewal,
             WorkerDies, Unregister
    <2>4. QED
      BY <2>1, <2>2, <2>3 DEF Server
  <1>2. CASE UNCHANGED page
    BY <1>1, <1>2 DEF Holding, Holds
  <1>3. ASSUME NEW t \in Tab,
               \/ /\ page[t].at \in Journaled
                  /\ MovesTo(t, {"registering", "pushing", "confirming", "checking", "failing"})
               \/ page[t].at = "unconfiguring" /\ MovesTo(t, {"failing"})
        PROVE  Holding'
    <2>1. Holds(t)
      BY DEF Holding
    <2>2. Holds(t)'
      BY <1>1, <1>3, <2>1 DEF MovesTo, Holds
    <2>3. QED
      BY <1>1, <1>3, <2>2, HoldingFrom DEF MovesTo
  <1>4. ASSUME NEW t \in Tab, WorksOff(t)
        PROVE  Holding'
    <2>1. Holds(t)
      BY DEF Holding
    <2>2. Holds(t)'
      BY <1>1, <1>4, <2>1, JournalAssumption DEF WorksOff, Holds
    <2>3. QED
      BY <1>1, <1>4, <2>2, HoldingFrom DEF WorksOff
  <1>5. CASE Worker
    BY <1>2, <1>3, <1>4, <1>5, WorkerMoves DEF MovesTo
  <1>6. CASE Server
    BY <1>2, <1>3, <1>4, <1>6, ServerMoves DEF MovesTo
  <1> QED
    BY <1>5, <1>6

LEMMA OthersStay ==
    ASSUME Shapes, NEW t \in Tab, Window(t)
    PROVE  \A u \in Tab \ {t} : page'[u] = page[u]
  <1>0. page \in [Tab -> Page]
    BY DEF Shapes
  <1>1. CASE BeginCleanup(t)
    BY <1>0, <1>1, BeginsSomehow DEF BeginsWith
  <1>2. ASSUME NEW p, page' = [page EXCEPT ![t] = p]
        PROVE  \A u \in Tab \ {t} : page'[u] = page[u]
    BY <1>0, <1>2
  <1>3. ASSUME NEW s, page' = [page EXCEPT ![t].at = s]
        PROVE  \A u \in Tab \ {t} : page'[u] = page[u]
    BY <1>0, <1>3
  <1>4. ASSUME NEW s, NEW c, page' = [page EXCEPT ![t].at = s, ![t].cap = c]
        PROVE  \A u \in Tab \ {t} : page'[u] = page[u]
    BY <1>0, <1>4
  <1>5. CASE Settle(t)
    <2>1. \E s, w : page' = [page EXCEPT ![t].at = s, ![t].work = w]
      BY <1>5, Zenon DEF Settle
    <2>2. QED
      BY <1>0, <2>1
  <1>6. CASE StartSetup(t)
    BY <1>2, <1>6, Zenon DEF StartSetup
  <1>7. CASE QueueSetup(t) \/ QueueFails(t)
    BY <1>4, <1>7, Zenon DEF QueueSetup, QueueFails
  <1>8. CASE EndCleanup(t)
    BY <1>2, <1>3, <1>8, Zenon DEF EndCleanup, Go
  <1>9. CASE TakeForSetup(t) \/ Subscribe(t) \/ UndoWorker(t) \/ UndoFails(t)
             \/ Reregister(t) \/ CommitCredentials(t) \/ RotateEpoch(t) \/ SetupFails(t)
    BY <1>3, <1>9, Zenon
    DEF TakeForSetup, Subscribe, UndoWorker, UndoFails, Reregister, CommitCredentials,
        RotateEpoch, SetupFails, Go
  <1>10. CASE EndSetup(t) \/ Forget(t) \/ EndFailedSetup(t) \/ LockTimeout(t)
              \/ FinishCleanup(t) \/ Crash(t)
    BY <1>2, <1>10, Zenon
    DEF EndSetup, Forget, EndFailedSetup, LockTimeout, FinishCleanup, Crash, Demand
  <1> QED
    BY <1>1, <1>5, <1>6, <1>7, <1>8, <1>9, <1>10 DEF Window

-----------------------------------------------------------------------------
(* Answers *)

LEMMA AwaitedInit == Init => Awaited
  BY EmptySeq DEF Init, Awaited

LEMMA NotAwaiting ==
    ASSUME Shapes, Awaited, NEW t \in Tab
    PROVE  /\ page[t].at \notin {"configuring", "unconfiguring", "cleaning"}
                => \A i \in 1..Len(posted) : posted[i].tab # t
           /\ page[t].at \notin {"registering", "reregistering", "pushing", "undoing",
                                 "cleaning"}
                => \A m \in flight : m.tab # t
  BY NoTabAssumption DEF Awaited, PostedFor, SentFor

LEMMA OnlyHolder ==
    ASSUME Shapes, Holding, Awaited, NEW t \in Tab, lock \in {t, NoTab}
    PROVE  /\ \A i \in 1..Len(posted) : posted[i].tab \in {t, NoTab}
           /\ \A m \in flight : m.tab \in {t, NoTab}
  <1>1. ASSUME NEW u \in Tab, u # t
        PROVE  page[u].at \notin {"configuring", "unconfiguring", "cleaning", "registering",
                                  "reregistering", "pushing", "undoing"}
    BY <1>1, NoTabAssumption DEF Holding, Holds, Journaled, Configured, Stranded, Cleaning
  <1>2. \A i \in 1..Len(posted) : posted[i].tab \in Sender
    <2>1. \A i \in 1..Len(posted) : posted[i] \in Message
      BY ElementOfSeq DEF Shapes
    <2>2. QED
      BY <2>1 DEF Message
  <1>3. \A m \in flight : m.tab \in Sender
    BY DEF Shapes, Sent
  <1>4. QED
    BY <1>1, <1>2, <1>3, NotAwaiting DEF Sender

LEMMA AwaitedOrphan ==
    ASSUME Shapes, Awaited, NEW t \in Tab, Orphan(t),
           \A u \in Tab \ {t} : page'[u] = page[u]
    PROVE  Awaited'
  <1>1. posted' = Muted(t) /\ LateRequests(t)
    BY DEF Orphan
  <1>2. posted \in Seq(Message) /\ flight \subseteq Sent
    BY DEF Shapes
  <1>3. ASSUME NEW i \in 1..Len(posted'), posted'[i].tab # NoTab
        PROVE  i = Len(posted') /\ PostedFor(posted'[i], page'[posted'[i].tab])
    <2>1. /\ Len(posted') = Len(posted) /\ i \in 1..Len(posted)
          /\ posted'[i].op = posted[i].op /\ posted'[i].cap = posted[i].cap
          /\ posted'[i].tab = posted[i].tab /\ posted[i].tab # t
      BY <1>1, <1>2, <1>3, MutedKeeps
    <2>2. i = Len(posted) /\ PostedFor(posted[i], page[posted[i].tab])
      BY <1>3, <2>1 DEF Awaited
    <2>3. posted[i].tab \in Tab \ {t}
      <3>1. posted[i] \in Message
        BY <1>2, <2>1, ElementOfSeq
      <3>2. QED
        BY <1>3, <2>1, <3>1 DEF Message, Sender
    <2>4. QED
      BY <2>1, <2>2, <2>3 DEF PostedFor
  <1>4. ASSUME NEW m \in flight', m.tab # NoTab
        PROVE  SentFor(m, page'[m.tab])
    <2>1. m \in flight /\ m.tab # t
      BY <1>1, <1>2, <1>4, LateKeeps
    <2>2. m.tab \in Tab \ {t}
      BY <1>2, <1>4, <2>1 DEF Sent, Sender
    <2>3. SentFor(m, page[m.tab])
      BY <1>4, <2>1 DEF Awaited
    <2>4. QED
      BY <2>2, <2>3
  <1>5. QED
    BY <1>3, <1>4 DEF Awaited

LEMMA AwaitedWindow ==
    ASSUME Shapes, Holding, Awaited, NEW t \in Tab, Window(t)
    PROVE  Awaited'
  <1>0. /\ page \in [Tab -> Page] /\ page[t] \in Page /\ Holds(t)
        /\ posted \in Seq(Message) /\ flight \subseteq Sent
        /\ \A u \in Tab \ {t} : page'[u] = page[u]
        /\ \A i \in 1..Len(posted) : posted[i] \in Message
    BY OthersStay, ElementOfSeq DEF Shapes, Holding
  <1>1. CASE /\ page[t].at \notin {"configuring", "unconfiguring", "cleaning", "registering",
                                   "reregistering", "pushing", "undoing"}
             /\ UNCHANGED <<posted, flight>>
    <2>1. /\ \A i \in 1..Len(posted) : posted[i].tab # t
          /\ \A m \in flight : m.tab # t
      BY <1>1, NotAwaiting
    <2>2. /\ \A i \in 1..Len(posted) : posted[i].tab \in Tab \union {NoTab}
          /\ \A m \in flight : m.tab \in Tab \union {NoTab}
      BY <1>0 DEF Message, Sent, Sender
    <2>3. QED
      BY <1>0, <1>1, <2>1, <2>2 DEF Awaited
  <1>2. CASE StartSetup(t) \/ TakeForSetup(t) \/ Subscribe(t) \/ CommitCredentials(t)
             \/ RotateEpoch(t) \/ EndSetup(t) \/ Forget(t) \/ EndFailedSetup(t)
             \/ LockTimeout(t) \/ EndCleanup(t) \/ FinishCleanup(t)
    BY <1>1, <1>2
    DEF StartSetup, TakeForSetup, Subscribe, CommitCredentials, RotateEpoch, EndSetup,
        Forget, EndFailedSetup, LockTimeout, EndCleanup, FinishCleanup, worker, servers
  <1>3. CASE UndoFails(t) \/ SetupFails(t) \/ Settle(t) \/ Crash(t)
    BY <1>0, <1>3, AwaitedOrphan DEF UndoFails, SetupFails, Settle, Crash
  <1>4. CASE QueueSetup(t)
    <2>1. page[t].at = "subscribed" /\ lock = t
      BY <1>0, <1>4 DEF QueueSetup, Holds, Choosing
    <2>2. /\ \A i \in 1..Len(posted) : posted[i].tab = NoTab
          /\ \A m \in flight : m.tab = NoTab
      BY <2>1, OnlyHolder, NotAwaiting
    <2>3. PICK c \in Chosen(t) :
             /\ page' = [page EXCEPT ![t].at = "configuring", ![t].cap = c]
             /\ posted' = Posted("set", c, t)
      BY <1>4, Zenon DEF QueueSetup
    <2>4. page'[t].at = "configuring" /\ page'[t].cap = c
      BY <1>0, <2>3 DEF Page
    <2>5. c \in Stored
      BY <1>0 DEF Chosen, Stored, Shapes, Page
    <2>6. \A i \in 1..Len(posted') :
                  \/ i \in 1..Len(posted) /\ posted'[i] = posted[i]
                  \/ i = Len(posted') /\ posted'[i] = [op |-> "set", cap |-> c, tab |-> t]
      BY <1>0, <2>3, <2>5, PostedExtends
    <2>7. flight' = flight
      BY <1>4 DEF QueueSetup, servers
    <2>8. QED
      BY <2>2, <2>4, <2>6, <2>7 DEF Awaited, PostedFor
  <1>5. CASE QueueFails(t)
    <2>1. page[t].at = "subscribed" /\ lock = t
      BY <1>0, <1>5 DEF QueueFails, Holds, Choosing
    <2>2. /\ \A i \in 1..Len(posted) : posted[i].tab = NoTab
          /\ \A m \in flight : m.tab = NoTab
      BY <2>1, OnlyHolder, NotAwaiting
    <2>3. PICK c \in Chosen(t) :
             /\ page' = [page EXCEPT ![t].at = "undoing", ![t].cap = c]
             /\ flight' = flight \union
                   {Request("delete", c, t), Request("removePusher", c, t)}
      BY <1>5 DEF QueueFails
    <2>4. page'[t].at = "undoing"
      BY <1>0, <2>3 DEF Page
    <2>5. posted' = posted
      BY <1>5 DEF QueueFails, worker
    <2>6. \A m \in flight' : m.tab # NoTab =>
             m.tab = t /\ m.op \in {"delete", "removePusher"}
      BY <2>2, <2>3 DEF Request
    <2>7. QED
      BY <2>2, <2>4, <2>5, <2>6 DEF Awaited, SentFor
  <1>6. CASE UndoWorker(t)
    <2>1. page[t].at = "undoing" /\ lock = t
      BY <1>0, <1>6 DEF UndoWorker, Holds, Stranded
    <2>2. /\ \A i \in 1..Len(posted) : posted[i].tab = NoTab
          /\ \A m \in flight : m.tab \in {t, NoTab}
      BY <2>1, OnlyHolder, NotAwaiting
    <2>3. \A m \in flight' : m.tab = NoTab
      BY <1>0, <1>6, <2>2, LateKeeps DEF UndoWorker
    <2>4. CASE posted' = posted
      BY <2>2, <2>3, <2>4 DEF Awaited
    <2>5. CASE posted' = Posted("clear", page[t].cap, t) /\ Go(t, "unconfiguring")
      <3>1. page'[t].at = "unconfiguring" /\ page'[t].cap = page[t].cap
        BY <1>0, <2>5 DEF Go, Page
      <3>2. \A i \in 1..Len(posted') :
                  \/ i \in 1..Len(posted) /\ posted'[i] = posted[i]
                  \/ i = Len(posted')
                     /\ posted'[i] = [op |-> "clear", cap |-> page[t].cap, tab |-> t]
        BY <1>0, <2>5, PostedExtends DEF Page
      <3>3. QED
        BY <2>2, <2>3, <3>1, <3>2 DEF Awaited, PostedFor
    <2>6. QED
      BY <1>6, <2>4, <2>5 DEF UndoWorker
  <1>7. CASE Reregister(t)
    <2>1. page[t].at = "confirming" /\ lock = t
      BY <1>0, <1>7 DEF Reregister, Holds, Journaled, Configured
    <2>2. /\ \A i \in 1..Len(posted) : posted[i].tab = NoTab
          /\ \A m \in flight : m.tab = NoTab
      BY <2>1, OnlyHolder, NotAwaiting
    <2>3. page'[t].at = "reregistering" /\ page'[t].cap = page[t].cap
      BY <1>0, <1>7 DEF Reregister, Go, Page
    <2>4. posted' = posted /\ flight' = flight \union {Request("post", page[t].cap, t)}
      BY <1>7 DEF Reregister, worker
    <2>5. \A m \in flight' : m.tab # NoTab =>
             m.tab = t /\ m.op = "post" /\ m.cap = page[t].cap
      BY <2>2, <2>4 DEF Request
    <2>6. QED
      BY <2>2, <2>3, <2>4, <2>5 DEF Awaited, SentFor
  <1>8. CASE BeginCleanup(t)
    <2>1. PICK p \in fallback \union {None}, service \in BOOLEAN, j \in Journal,
               orphan \in BOOLEAN : BeginsWith(t, p, service, j, orphan)
      BY <1>8, BeginsSomehow
    <2>2. page[t].at = "forgetting" /\ lock = NoTab
      BY <1>8 DEF BeginCleanup, Unlocked
    <2>3. /\ \A i \in 1..Len(posted) : posted[i].tab = NoTab
          /\ \A m \in flight : m.tab = NoTab
      BY <2>2, OnlyHolder, NotAwaiting
    <2>4. page'[t].at = "cleaning" /\ page'[t].work = j
      BY <1>0, <2>1 DEF BeginsWith
    <2>5. \A m \in flight' : m.tab # NoTab =>
             m.tab = t /\ m.op \in {"delete", "removePusher"}
      BY <2>1, <2>3 DEF BeginsWith, Request
    <2>6. \A i \in 1..Len(posted') :
                  \/ i \in 1..Len(posted) /\ posted'[i] = posted[i]
                  \/ i = Len(posted')
                     /\ posted'[i] = [op |-> "clear", cap |-> j.primary, tab |-> t]
      <3>1. CASE posted' = posted
        BY <3>1
      <3>2. CASE posted' = Posted("clear", j.primary, t)
        BY <1>0, <3>2, PostedExtends DEF Journal
      <3>3. QED
        BY <2>1, <3>1, <3>2 DEF BeginsWith
    <2>7. QED
      BY <2>3, <2>4, <2>5, <2>6 DEF Awaited, PostedFor, SentFor
  <1> QED
    BY <1>2, <1>3, <1>4, <1>5, <1>6, <1>7, <1>8 DEF Window

LEMMA AwaitedElsewhere ==
    ASSUME Shapes, Holding, Awaited, Worker \/ Server
    PROVE  Awaited'
  <1>0. /\ page \in [Tab -> Page] /\ posted \in Seq(Message) /\ flight \subseteq Sent
        /\ \A i \in 1..Len(posted) : posted[i] \in Message
    BY ElementOfSeq DEF Shapes
  <1>1. CASE Worker
    <2>1. \A i \in 1..Len(posted') :
             \/ i \in 1..Len(posted) /\ posted'[i] = posted[i] /\ Len(posted') = Len(posted)
             \/ /\ i + 1 \in 1..Len(posted) /\ posted'[i] = posted[i + 1]
                /\ Len(posted') = Len(posted) - 1 /\ Len(posted) \in Nat
      <3>1. CASE posted' = posted
        BY <3>1
      <3>2. CASE posted' = <<>>
        BY <3>2, EmptySeq
      <3>3. CASE posted # <<>> /\ posted' = Tail(posted)
        <4>1. /\ Len(posted) \in Nat \ {0} /\ Len(posted') = Len(posted) - 1
              /\ \A i \in 1..Len(posted') : posted'[i] = posted[i + 1]
          BY <1>0, <3>3, PostedShrinks
        <4>2. QED
          BY <4>1
      <3>4. QED
        BY <1>1, <3>1, <3>2, <3>3
        DEF Worker, SetConfig, ClearConfig, SubscriptionChange, EndRenewal, WorkerDies, Unregister
    <2>2. CASE UNCHANGED <<page, flight>>
      <3>1. ASSUME NEW i \in 1..Len(posted'), posted'[i].tab # NoTab
            PROVE  i = Len(posted') /\ PostedFor(posted'[i], page[posted'[i].tab])
        BY <2>1, <3>1 DEF Awaited
      <3>2. QED
        BY <2>2, <3>1 DEF Awaited
    <2>3. CASE \E t \in Tab : posted # <<>> /\ Len(posted) = 1 /\ (SetConfig \/ ClearConfig)
      <3>1. Len(posted') = 0
        BY <1>0, <2>3, PostedShrinks DEF SetConfig, ClearConfig
      <3>2. ASSUME NEW m \in flight', m.tab # NoTab
            PROVE  SentFor(m, page'[m.tab])
        <4>1. CASE UNCHANGED <<page, flight>>
          BY <3>2, <4>1 DEF Awaited
        <4>2. ASSUME NEW t \in Tab, page[t].at = "configuring",
                     MovesTo(t, {"registering", "failing"}), posted[1].cap = page[t].cap,
                     flight' = IF page'[t].at = "registering"
                               THEN flight \union {Request("post", posted[1].cap, t)}
                               ELSE flight
              PROVE  SentFor(m, page'[m.tab])
          <5>1. CASE m \in flight
            BY <1>0, <3>2, <4>2, <5>1, NotAwaiting DEF MovesTo, Awaited, Sent, Sender
          <5>2. CASE m \notin flight
            BY <4>2, <5>2 DEF MovesTo, SentFor, Request
          <5>3. QED
            BY <5>1, <5>2
        <4>3. ASSUME NEW t \in Tab, flight' = flight,
                     page[t].at = "unconfiguring" /\ MovesTo(t, {"failing"})
              PROVE  SentFor(m, page'[m.tab])
          BY <1>0, <3>2, <4>3, NotAwaiting DEF MovesTo, Awaited, Sent, Sender
        <4>4. ASSUME NEW t \in Tab, flight' = flight, WorksOff(t)
              PROVE  SentFor(m, page'[m.tab])
          BY <1>0, <3>2, <4>4 DEF WorksOff, Awaited, Sent, Sender, SentFor
        <4>5. ClearConfig => flight' = flight
          BY DEF ClearConfig, servers
        <4>6. QED
          BY <1>1, <4>1, <4>2, <4>3, <4>4, <4>5, WorkerMoves
      <3>3. QED
        BY <3>1, <3>2 DEF Awaited
    <2>4. QED
      BY <1>1, <2>2, <2>3, WorkerMoves
  <1>2. CASE Server
    <2>0. posted' = posted
      <3>1. ASSUME NEW m \in flight,
                   ServePost(m) \/ ServeDelete(m) \/ ServeSetPusher(m) \/ ServeRemovePusher(m)
            PROVE  posted' = posted
        BY <3>1 DEF ServePost, ServeDelete, ServeSetPusher, ServeRemovePusher, worker
      <3>2. ASSUME NEW c \in Capability, Confirm(c)
            PROVE  posted' = posted
        BY <3>2 DEF Confirm, worker
      <3>3. QED
        BY <1>2, <3>1, <3>2 DEF Server
    <2>1. CASE UNCHANGED page /\ flight' \subseteq flight
      BY <2>0, <2>1 DEF Awaited
    <2>2. ASSUME NEW m \in flight, NEW t \in Tab, t = m.tab,
                 page[t].at \in {"registering", "reregistering", "pushing"},
                 m.cap = page[t].cap,
                 MovesTo(t, {"pushing", "confirming", "checking", "failing"}),
                 flight' = (flight \ {m}) \union
                     IF page'[t].at = "pushing" THEN {Request("setPusher", m.cap, t)} ELSE {}
          PROVE  Awaited'
      <3>1. \A i \in 1..Len(posted) : posted[i].tab # t
        BY <2>2, NotAwaiting
      <3>2. \A k \in flight : k.tab = t => k = m
        <4> SUFFICES ASSUME NEW k \in flight, k.tab = t PROVE k = m
          OBVIOUS
        <4>1. SentFor(k, page[t]) /\ SentFor(m, page[t])
          BY <2>2, NoTabAssumption DEF Awaited
        <4>2. k.op = m.op /\ k.cap = m.cap
          BY <2>2, <4>1 DEF SentFor
        <4>3. QED
          BY <1>0, <2>2, <4>2 DEF Sent
      <3>3. ASSUME NEW i \in 1..Len(posted), posted[i].tab # NoTab
            PROVE  i = Len(posted) /\ PostedFor(posted[i], page'[posted[i].tab])
        BY <1>0, <2>2, <3>1, <3>3 DEF Awaited, MovesTo, Message, Sender
      <3>4. ASSUME NEW k \in flight', k.tab # NoTab
            PROVE  SentFor(k, page'[k.tab])
        <4>1. CASE k \in flight \ {m}
          <5>1. k.tab \in Tab \ {t}
            BY <1>0, <3>2, <3>4, <4>1 DEF Sent, Sender
          <5>2. QED
            BY <2>2, <3>4, <4>1, <5>1 DEF Awaited, MovesTo
        <4>2. CASE k \notin flight \ {m}
          BY <2>2, <4>2 DEF MovesTo, SentFor, Request
        <4>3. QED
          BY <4>1, <4>2
      <3>5. QED
        BY <2>0, <3>3, <3>4 DEF Awaited
    <2>3. ASSUME NEW t \in Tab, WorksOff(t), flight' \subseteq flight
          PROVE  Awaited'
      <3>3. ASSUME NEW i \in 1..Len(posted), posted[i].tab # NoTab
            PROVE  i = Len(posted) /\ PostedFor(posted[i], page'[posted[i].tab])
        BY <1>0, <2>3, <3>3 DEF Awaited, WorksOff, Message, Sender, PostedFor
      <3>4. ASSUME NEW k \in flight, k.tab # NoTab
            PROVE  SentFor(k, page'[k.tab])
        BY <1>0, <2>3, <3>4 DEF Awaited, WorksOff, Sent, Sender, SentFor
      <3>5. QED
        BY <2>0, <2>3, <3>3, <3>4 DEF Awaited
    <2>4. ASSUME NEW m \in flight, ServeDelete(m) \/ ServeSetPusher(m) \/ ServeRemovePusher(m)
          PROVE  flight' = flight \ {m}
      BY <2>4 DEF ServeDelete, ServeSetPusher, ServeRemovePusher
    <2>5. ASSUME NEW m \in flight, NEW t \in Tab, t = m.tab,
                 \/ /\ ServePost(m) /\ page[t].at \in {"registering", "reregistering"}
                    /\ m.cap = page[t].cap
                    /\ MovesTo(t, {"pushing", "confirming", "failing"})
                    /\ flight' = (flight \ {m}) \union
                          IF page'[t].at = "pushing" THEN {Request("setPusher", m.cap, t)}
                          ELSE {}
                 \/ /\ ServeSetPusher(m) /\ page[t].at = "pushing"
                    /\ m.cap = page[t].cap
                    /\ MovesTo(t, {"checking", "failing"})
          PROVE  Awaited'
      BY <2>2, <2>4, <2>5 DEF MovesTo
    <2>6. QED
      BY <1>2, <2>1, <2>3, <2>4, <2>5, ServerMoves
  <1> QED
    BY <1>1, <1>2

-----------------------------------------------------------------------------
(* What the queue and the requests on their way can still do *)

\* The capabilities the worker is still going to be configured with.
Sets == {c \in Stored : \E i \in 1..Len(posted) : posted[i].op = "set" /\ posted[i].cap = c}

\* The capabilities something on its way takes back.
Doomed == {c \in Capability :
              \E m \in flight : m.op \in {"delete", "removePusher"} /\ m.cap = c}

LEMMA SetsStay ==
    ASSUME posted \in Seq(Message), NEW t \in Tab, NEW c \in Stored,
           posted' \in {posted, Muted(t), Posted("clear", c, t)}
    PROVE  Sets' = Sets
  <1>1. CASE posted' = posted
    BY <1>1 DEF Sets
  <1>2. CASE posted' = Muted(t)
    <2>1. /\ Len(posted') = Len(posted)
          /\ \A i \in 1..Len(posted) : posted'[i].op = posted[i].op /\ posted'[i].cap = posted[i].cap
      BY <1>2, MutedKeeps
    <2>2. QED
      BY <2>1 DEF Sets
  <1>3. CASE posted' = Posted("clear", c, t)
    <2>1. posted' \in Seq(Message) /\ Len(posted) \in Nat
          /\ (~registered => posted' = posted)
          /\ (registered => Len(posted') = Len(posted) + 1)
          /\ \A i \in 1..Len(posted') :
                 \/ i \in 1..Len(posted) /\ posted'[i] = posted[i]
                 \/ registered /\ i = Len(posted') /\ posted'[i] = [op |-> "clear", cap |-> c, tab |-> t]
      BY <1>3, PostedExtends, LenProperties
    <2>2. CASE ~registered
      BY <2>1, <2>2 DEF Sets
    <2>3. CASE registered
      <3>1. \A i \in 1..Len(posted) : posted'[i] = posted[i] /\ i \in 1..Len(posted')
        BY <2>1, <2>3
      <3>2. ASSUME NEW i \in 1..Len(posted'), posted'[i].op = "set"
            PROVE  i \in 1..Len(posted) /\ posted'[i] = posted[i]
        BY <2>1, <3>2
      <3>3. QED
        BY <3>1, <3>2 DEF Sets
    <2>4. QED
      BY <2>2, <2>3
  <1>4. QED
    BY <1>1, <1>2, <1>3

LEMMA SetsGrow ==
    ASSUME posted \in Seq(Message), NEW t \in Tab, NEW c \in Stored,
           posted' = Posted("set", c, t)
    PROVE  Sets' \subseteq Sets \union {c}
  <1>1. \A i \in 1..Len(posted') :
            \/ i \in 1..Len(posted) /\ posted'[i] = posted[i]
            \/ posted'[i] = [op |-> "set", cap |-> c, tab |-> t]
    BY PostedExtends
  <1>2. QED
    BY <1>1 DEF Sets

LEMMA SetsShrink ==
    ASSUME posted \in Seq(Message), posted # <<>>, posted' = Tail(posted)
    PROVE  /\ Sets' \subseteq Sets
           /\ posted[1].op = "set" /\ posted[1].cap \in Stored => posted[1].cap \in Sets
  <1>1. /\ Len(posted) \in Nat \ {0} /\ Len(posted') = Len(posted) - 1
        /\ \A i \in 1..Len(posted') : posted'[i] = posted[i + 1]
    BY PostedShrinks
  <1>2. \A i \in 1..Len(posted') : i + 1 \in 1..Len(posted) /\ posted'[i] = posted[i + 1]
    BY <1>1
  <1>3. 1 \in 1..Len(posted)
    BY <1>1
  <1>4. QED
    BY <1>2, <1>3 DEF Sets

LEMMA SetsEmpty ==
    ASSUME posted \in Seq(Message)
    PROVE  /\ posted = <<>> => Sets = {}
           /\ posted = <<>> <=> Len(posted) = 0
  BY EmptySeq DEF Sets

\* What an orphaned setup or cleanup leaves behind.
LEMMA Orphaned ==
    ASSUME Shapes, NEW t \in Tab, Orphan(t)
    PROVE  /\ Sets' = Sets /\ Doomed' \subseteq Doomed
           /\ posted = <<>> => posted' = <<>>
           /\ \A m \in flight' : \E k \in flight : k.op = m.op /\ k.cap = m.cap
  <1>1. posted \in Seq(Message) /\ flight \subseteq Sent /\ posted' = Muted(t) /\ None \in Stored
    BY DEF Shapes, Orphan, Stored
  <1>2. Sets' = Sets
    BY <1>1, SetsStay
  <1>3. posted = <<>> => posted' = <<>>
    BY <1>1, MutedKeeps, EmptySeq
  <1>4. \A m \in flight' : \E k \in flight : k.op = m.op /\ k.cap = m.cap
    BY <1>1, LateKeeps DEF Orphan
  <1>5. QED
    BY <1>2, <1>3, <1>4 DEF Doomed

-----------------------------------------------------------------------------
(* What was drawn *)

UsedBy(j) ==
    j # None => /\ j.primary \in used \union {None}
                /\ j.targets \subseteq used /\ j.gateway \subseteq used
                /\ j.pusher \subseteq used

Drawn ==
    /\ {creds, config, renewal} \subseteq used \union {None}
    /\ fallback \subseteq used
    /\ UsedBy(journal)
    /\ \A t \in Tab : page[t].cap \in used \union {None} /\ UsedBy(page[t].work)
    /\ Sets \subseteq used
    /\ \A m \in flight : m.cap \in used
    /\ pushers \subseteq used
    /\ \A c \in Capability \ used : gateway[c] = "none"

LEMMA DrawnInit == Init => Drawn
  <1> SUFFICES ASSUME Init PROVE Drawn
    OBVIOUS
  <1>1. Sets = {}
    BY EmptySeq DEF Init, Sets
  <1>2. \A t \in Tab : page[t].cap = None /\ page[t].work = None
    BY DEF Init, Idle
  <1>3. QED
    BY <1>1, <1>2 DEF Init, Drawn, UsedBy

\* The window's own part, when nothing else but what was drawn changes.
LEMMA DrawnPages ==
    ASSUME Drawn, NEW t \in Tab, \A u \in Tab \ {t} : page'[u] = page[u],
           used \subseteq used', page'[t].cap \in used' \union {None}, UsedBy(page[t].work)'
    PROVE  \A u \in Tab : page'[u].cap \in used' \union {None} /\ UsedBy(page[u].work)'
  BY DEF Drawn, UsedBy

LEMMA SettlesSomehow ==
    ASSUME Shapes, Holding, NEW t \in Tab, Settle(t)
    PROVE  /\ page[t].at = "cleaning" /\ lock = t /\ page[t].work \in Journal
           /\ \A u \in Tab \ {t} : page'[u] = page[u]
           /\ page'[t].at = "unsubscribing" /\ page'[t].cap = page[t].cap
           /\ page'[t].orphan = page[t].orphan
           /\ page'[t].work \in Journal
           /\ page'[t].work.primary = page[t].work.primary
           /\ page'[t].work.targets = page[t].work.targets
           /\ page'[t].work.gateway = page[t].work.gateway
           /\ page'[t].work.pusher \subseteq page[t].work.pusher
           /\ \/ /\ config' = config
                 /\ page'[t].work.worker = page[t].work.worker
                 /\ page'[t].work.subscription = page[t].work.subscription
              \/ /\ page[t].orphan /\ config' = None
                 /\ ~page'[t].work.worker /\ ~page'[t].work.subscription
  <1>0. page \in [Tab -> Page] /\ page[t] \in Page /\ Holds(t)
    BY DEF Shapes, Holding
  <1>1. page[t].at = "cleaning" /\ lock = t /\ page[t].work \in Journal
    BY <1>0 DEF Settle, Holds, Cleaning, Page
  <1>2. PICK warned \in BOOLEAN, deleted \in BOOLEAN :
          LET work  == page[t].work
              leave == work.gateway = {} /\ work.pusher # {} /\ warned
              left  == IF leave THEN [work EXCEPT !.pusher = {}] ELSE work
              drop  == /\ page[t].orphan /\ deleted
                       /\ left.gateway = {} /\ left.pusher = {}
          IN  /\ config' = IF drop THEN None ELSE config
              /\ page' = [page EXCEPT ![t].at = "unsubscribing",
                     ![t].work = IF drop THEN [left EXCEPT !.worker = FALSE,
                                                  !.subscription = FALSE]
                                 ELSE left]
    BY Zenon DEF Settle
  <1> DEFINE left == IF page[t].work.gateway = {} /\ page[t].work.pusher # {} /\ warned
                     THEN [page[t].work EXCEPT !.pusher = {}] ELSE page[t].work
             drop == /\ page[t].orphan /\ deleted
                     /\ left.gateway = {} /\ left.pusher = {}
             w    == IF drop THEN [left EXCEPT !.worker = FALSE, !.subscription = FALSE]
                     ELSE left
  <1>3. /\ left \in Journal /\ left.primary = page[t].work.primary
        /\ left.targets = page[t].work.targets /\ left.gateway = page[t].work.gateway
        /\ left.pusher \subseteq page[t].work.pusher
        /\ left.worker = page[t].work.worker
        /\ left.subscription = page[t].work.subscription
    BY <1>1 DEF Journal
  <1>4. /\ page' = [page EXCEPT ![t].at = "unsubscribing", ![t].work = w]
        /\ config' = IF drop THEN None ELSE config
    BY <1>2, Zenon
  <1> HIDE DEF left
  <1>5. /\ w \in Journal /\ w.primary = page[t].work.primary
        /\ w.targets = page[t].work.targets /\ w.gateway = page[t].work.gateway
        /\ w.pusher \subseteq page[t].work.pusher
        /\ IF drop THEN ~w.worker /\ ~w.subscription
           ELSE /\ w.worker = page[t].work.worker
                /\ w.subscription = page[t].work.subscription
    BY <1>3 DEF Journal
  <1>6. drop => page[t].orphan
    OBVIOUS
  <1> HIDE DEF w, drop
  <1>7. /\ page'[t].at = "unsubscribing" /\ page'[t].cap = page[t].cap
        /\ page'[t].orphan = page[t].orphan /\ page'[t].work = w
        /\ \A u \in Tab \ {t} : page'[u] = page[u]
    BY <1>0, <1>4 DEF Page
  <1>8. QED
    BY <1>1, <1>4, <1>5, <1>6, <1>7

\* How a cleanup leaves off with what is done of its journal.
EndsWith(t, done, go) ==
    /\ done.primary = page[t].work.primary /\ done.targets = page[t].work.targets
    /\ done.gateway = page[t].work.gateway /\ done.pusher = page[t].work.pusher
    /\ done.worker = page[t].work.worker
    /\ done.subscription = (page[t].work.subscription /\ ~go)
    /\ subscribed' = (subscribed /\ ~go)
    /\ go => ~done.worker
    /\ \/ /\ Complete(done) /\ journal' = None /\ lock' = lock
          /\ page'[t].at = "finishing" /\ page'[t].cap = page[t].cap
          /\ page'[t].work = page[t].work
       \/ /\ journal' = done /\ lock' = NoTab
          /\ page'[t].at = "idle" /\ page'[t].cap = None /\ page'[t].work = None

LEMMA EndsSomehow ==
    ASSUME Shapes, Holding, NEW t \in Tab, EndCleanup(t)
    PROVE  /\ page[t].at = "unsubscribing" /\ lock = t /\ page[t].work \in Journal
           /\ \A u \in Tab \ {t} : page'[u] = page[u]
           /\ \E done \in Journal, go \in BOOLEAN : EndsWith(t, done, go)
  <1>0. page \in [Tab -> Page] /\ page[t] \in Page /\ Holds(t) /\ subscribed \in BOOLEAN
    BY DEF Shapes, Holding
  <1>1. page[t].at = "unsubscribing" /\ lock = t /\ page[t].work \in Journal
    BY <1>0 DEF EndCleanup, Holds, Cleaning, Page
  <1>2. PICK removed \in BOOLEAN :
          LET work == page[t].work
              go   == removed /\ page[t].found /\ MayUnsubscribe(work)
              done == [work EXCEPT !.subscription = @ /\ ~go]
          IN  /\ subscribed' = (subscribed /\ ~go)
              /\ IF Complete(done)
                 THEN /\ journal' = None
                      /\ Go(t, "finishing")
                      /\ UNCHANGED lock
                 ELSE /\ journal' = done
                      /\ page' = [page EXCEPT ![t] = Idle]
                      /\ Release(t)
    BY Zenon DEF EndCleanup
  <1> DEFINE go   == removed /\ page[t].found /\ MayUnsubscribe(page[t].work)
             done == [page[t].work EXCEPT !.subscription = @ /\ ~go]
  <1>3. /\ done \in Journal
        /\ done.primary = page[t].work.primary /\ done.targets = page[t].work.targets
        /\ done.gateway = page[t].work.gateway /\ done.pusher = page[t].work.pusher
        /\ done.worker = page[t].work.worker
        /\ done.subscription = (page[t].work.subscription /\ ~go)
    BY <1>1 DEF Journal
  <1>4. go \in BOOLEAN /\ (go => ~page[t].work.worker)
    BY DEF MayUnsubscribe
  <1>5. /\ subscribed' = (subscribed /\ ~go)
        /\ IF Complete(done)
           THEN journal' = None /\ page' = [page EXCEPT ![t].at = "finishing"] /\ lock' = lock
           ELSE journal' = done /\ page' = [page EXCEPT ![t] = Idle] /\ Release(t)
    BY <1>2, Zenon DEF Go
  <1> HIDE DEF go, done
  <1>6. CASE Complete(done)
    <2>1. /\ page'[t].at = "finishing" /\ page'[t].cap = page[t].cap
          /\ page'[t].work = page[t].work /\ \A u \in Tab \ {t} : page'[u] = page[u]
      BY <1>0, <1>5, <1>6 DEF Page
    <2>2. EndsWith(t, done, go)
      BY <1>3, <1>4, <1>5, <1>6, <2>1 DEF EndsWith
    <2>3. QED
      BY <1>1, <1>3, <1>4, <2>1, <2>2
  <1>7. CASE ~Complete(done)
    <2>1. /\ page'[t].at = "idle" /\ page'[t].cap = None
          /\ page'[t].work = None /\ \A u \in Tab \ {t} : page'[u] = page[u]
          /\ lock' = NoTab
      BY <1>0, <1>1, <1>5, <1>7 DEF Idle, Release
    <2>2. EndsWith(t, done, go)
      BY <1>3, <1>4, <1>5, <1>7, <2>1 DEF EndsWith
    <2>3. QED
      BY <1>1, <1>3, <1>4, <2>1, <2>2
  <1>8. QED
    BY <1>6, <1>7

LEMMA DrawnWindow ==
    ASSUME Shapes, Holding, Awaited, Drawn, NEW t \in Tab, Window(t)
    PROVE  Drawn'
  <1>0. /\ page \in [Tab -> Page] /\ page[t] \in Page /\ Holds(t)
        /\ posted \in Seq(Message) /\ flight \subseteq Sent
        /\ \A u \in Tab \ {t} : page'[u] = page[u]
        /\ page[t].cap \in used \union {None} /\ UsedBy(page[t].work)
    BY OthersStay DEF Shapes, Holding, Drawn
  <1> DEFINE Own == page'[t].cap \in used' \union {None} /\ UsedBy(page[t].work)'
             Rest == /\ used' = used /\ Sets' \subseteq Sets
                     /\ \A m \in flight' : m.cap \in used
                     /\ pushers' = pushers /\ gateway' = gateway
                     /\ creds' \in {None, creds, page[t].cap}
                     /\ config' \in {None, config} /\ renewal' = renewal
                     /\ fallback' \subseteq fallback
                     /\ UsedBy(journal)'
  <1>a. ASSUME Own, Rest
        PROVE  Drawn'
    BY <1>0, <1>a, DrawnPages DEF Drawn
  <1>b. ASSUME posted' = posted
        PROVE  Sets' \subseteq Sets
    BY <1>b DEF Sets
  <1>c. ASSUME Orphan(t)
        PROVE  Sets' \subseteq Sets /\ \A m \in flight' : m.cap \in used
    BY <1>c, Orphaned DEF Drawn
  <1>d. ASSUME NEW s, page' = [page EXCEPT ![t].at = s], used' = used
        PROVE  Own
    BY <1>0, <1>d DEF UsedBy, Page
  <1>e. ASSUME NEW s, NEW c \in {None, creds}, used' = used,
               \/ page' = [page EXCEPT ![t] = Idle]
               \/ page' = [page EXCEPT ![t] = [Idle EXCEPT !.at = s]]
               \/ page' = [page EXCEPT ![t] = [Idle EXCEPT !.at = s, !.cap = c]]
        PROVE  Own
    <2>1. page'[t].cap \in {None, creds} /\ page'[t].work = None
      <3>1. CASE page' = [page EXCEPT ![t] = Idle]
        BY <1>0, <3>1 DEF Idle
      <3>2. CASE page' = [page EXCEPT ![t] = [Idle EXCEPT !.at = s]]
        BY <1>0, <3>2 DEF Idle
      <3>3. CASE page' = [page EXCEPT ![t] = [Idle EXCEPT !.at = s, !.cap = c]]
        BY <1>0, <3>3 DEF Idle
      <3>4. QED
        BY <1>e, <3>1, <3>2, <3>3
    <2>2. QED
      BY <1>e, <2>1 DEF UsedBy, Drawn
  <1>f. ASSUME UNCHANGED <<journal, used>>
        PROVE  UsedBy(journal)'
    BY <1>f DEF Drawn, UsedBy
  <1>g. ASSUME UNCHANGED flight
        PROVE  \A m \in flight' : m.cap \in used
    BY <1>g DEF Drawn
  <1> HIDE DEF Own
  <1>1. CASE StartSetup(t)
    <2>1. Own
      <3>1. PICK c \in {None, creds} :
               page' = [page EXCEPT ![t] = [Idle EXCEPT !.at = "asked", !.cap = c]]
        BY <1>1 DEF StartSetup
      <3>2. used' = used
        BY <1>1 DEF StartSetup
      <3>3. QED
        BY <1>e, <3>1, <3>2
    <2>2. Rest
      BY <1>1, <1>b, <1>f, <1>g DEF StartSetup, servers
    <2>3. QED
      BY <1>a, <2>1, <2>2
  <1>2. CASE TakeForSetup(t) \/ Subscribe(t) \/ CommitCredentials(t) \/ RotateEpoch(t)
    <2>1. \E s : page' = [page EXCEPT ![t].at = s]
      BY <1>2, Zenon DEF TakeForSetup, Subscribe, CommitCredentials, RotateEpoch, Go
    <2>2. Rest
      BY <1>2, <1>b, <1>f, <1>g
      DEF TakeForSetup, Subscribe, CommitCredentials, RotateEpoch, storage, worker, servers, history
    <2>3. QED
      BY <1>a, <1>d, <2>1, <2>2
  <1>3. CASE QueueSetup(t)
    <2>1. PICK c \in Chosen(t) :
             /\ \E b \in BOOLEAN : journal' = [JournalFor(c) EXCEPT !.worker = b, !.subscription = b]
             /\ creds' = Without(c)
             /\ page' = [page EXCEPT ![t].at = "configuring", ![t].cap = c]
             /\ posted' = Posted("set", c, t)
             /\ used' = used \union {c}
      <3>1. PICK c \in Chosen(t) :
               LET other == creds \notin {None, c} IN
               /\ journal' = [JournalFor(c) EXCEPT !.worker = ~other,
                                 !.subscription = ~other]
               /\ creds' = Without(c)
               /\ page' = [page EXCEPT ![t].at = "configuring", ![t].cap = c]
               /\ posted' = Posted("set", c, t)
               /\ used' = used \union {c}
        BY <1>3, Zenon DEF QueueSetup
      <3>2. (~(creds \notin {None, c})) \in BOOLEAN
        OBVIOUS
      <3>3. QED
        BY <3>1, <3>2, Zenon
    <2>2. c \in Stored
      BY <1>0 DEF Chosen, Shapes, Stored, Page
    <2>3. UsedBy(journal)'
      BY <2>1 DEF UsedBy, JournalFor
    <2>4. Sets' \subseteq used'
      BY <1>0, <2>1, <2>2, SetsGrow DEF Drawn
    <2>5. page'[t].cap = c /\ page'[t].work = page[t].work
      BY <1>0, <2>1 DEF Page
    <2>6. \A u \in Tab : page'[u].cap \in used' \union {None} /\ UsedBy(page[u].work)'
      BY <1>0, <2>1, <2>5 DEF Drawn, UsedBy
    <2>7. QED
      BY <1>3, <2>1, <2>3, <2>4, <2>6 DEF QueueSetup, Drawn, Without, servers
  <1>4. CASE QueueFails(t)
    <2>1. PICK c \in Chosen(t) :
             /\ fallback' \subseteq fallback \union {c}
             /\ page' = [page EXCEPT ![t].at = "undoing", ![t].cap = c]
             /\ flight' = flight \union
                   {Request("delete", c, t), Request("removePusher", c, t)}
             /\ used' = used \union {c}
      BY <1>4 DEF QueueFails, FallbackKeeps
    <2>5. page'[t].cap = c /\ page'[t].work = page[t].work
      BY <1>0, <2>1 DEF Page
    <2>6. \A u \in Tab : page'[u].cap \in used' \union {None} /\ UsedBy(page[u].work)'
      BY <1>0, <2>1, <2>5 DEF Drawn, UsedBy
    <2>7. \A m \in flight' : m.cap \in used'
      BY <2>1 DEF Drawn, Request
    <2>8. Sets' \subseteq Sets /\ (UsedBy(journal)' \/ journal = None)
      BY <1>4, <1>b, <2>1 DEF QueueFails, worker, Drawn, UsedBy
    <2>9. /\ {creds, config, renewal}' \subseteq used' \union {None}
          /\ fallback' \subseteq used' /\ pushers' \subseteq used'
          /\ \A k \in Capability \ used' : gateway'[k] = "none"
      BY <1>4, <2>1 DEF QueueFails, Drawn, worker
    <2>10. UsedBy(journal)'
      BY <1>4, <2>8 DEF QueueFails, UsedBy
    <2>11. Sets' \subseteq used'
      BY <2>1, <2>8 DEF Drawn
    <2>12. QED
      BY <2>6, <2>7, <2>9, <2>10, <2>11 DEF Drawn
  <1>5. CASE UndoWorker(t)
    <2>1. \E s : page' = [page EXCEPT ![t].at = s]
      BY <1>5, Zenon DEF UndoWorker, Go
    <2>2. Sets' \subseteq Sets
      BY <1>0, <1>5, SetsStay DEF UndoWorker, Page
    <2>3. \A m \in flight' : m.cap \in used
      BY <1>0, <1>5, LateKeeps DEF UndoWorker, Drawn
    <2>4. Rest
      BY <1>5, <1>f, <2>2, <2>3 DEF UndoWorker, storage, history
    <2>5. QED
      BY <1>5, <1>a, <1>d, <2>1, <2>4 DEF UndoWorker, history
  <1>6. CASE UndoFails(t) \/ SetupFails(t)
    <2>1. \E s : page' = [page EXCEPT ![t].at = s]
      BY <1>6, Zenon DEF UndoFails, SetupFails, Go
    <2>2. Rest
      BY <1>6, <1>c, <1>f DEF UndoFails, SetupFails, storage, history, Without
    <2>5. QED
      BY <1>6, <1>a, <1>d, <2>1, <2>2 DEF UndoFails, SetupFails, history
  <1>7. CASE Reregister(t)
    <2>1. \E s : page' = [page EXCEPT ![t].at = s]
      BY <1>7, Zenon DEF Reregister, Go
    <2>2. \A m \in flight' : m.cap \in used
      <3>1. page[t].cap # None
        BY <1>0, <1>7 DEF Reregister, Holds, Journaled, Configured
      <3>2. QED
        BY <1>0, <1>7, <3>1 DEF Reregister, Request, Drawn
    <2>3. Rest
      BY <1>7, <1>b, <1>f, <2>2 DEF Reregister, storage, worker, history
    <2>5. QED
      BY <1>7, <1>a, <1>d, <2>1, <2>3 DEF Reregister, history
  <1>8. CASE EndSetup(t) \/ Forget(t) \/ EndFailedSetup(t) \/ LockTimeout(t) \/ FinishCleanup(t)
    <2>1. used' = used
      BY <1>8 DEF EndSetup, Forget, EndFailedSetup, LockTimeout, FinishCleanup, history
    <2>2. \/ page' = [page EXCEPT ![t] = Idle]
          \/ page' = [page EXCEPT ![t] = [Idle EXCEPT !.at = "forgetting"]]
      BY <1>8, Zenon DEF EndSetup, Forget, EndFailedSetup, LockTimeout, FinishCleanup, Demand
    <2>3. Own
      BY <1>e, <2>1, <2>2
    <2>4. UsedBy(journal)'
      BY <1>8, <1>f, <2>1
      DEF EndSetup, Forget, EndFailedSetup, LockTimeout, FinishCleanup, UsedBy, storage
    <2>5. Rest
      BY <1>8, <1>b, <1>g, <2>4
      DEF EndSetup, Forget, EndFailedSetup, LockTimeout, FinishCleanup, storage, worker, servers,
          history
    <2>6. QED
      BY <1>a, <2>3, <2>5
  <1>9. CASE Crash(t)
    <2>1. Own
      BY <1>9, <1>e DEF Crash
    <2>2. Rest
      BY <1>9, <1>c, <1>f DEF Crash
    <2>3. QED
      BY <1>a, <2>1, <2>2
  <1>10. CASE BeginCleanup(t)
    <2>1. PICK p \in fallback \union {None}, service \in BOOLEAN, j \in Journal,
               orphan \in BOOLEAN : BeginsWith(t, p, service, j, orphan)
      BY <1>10, BeginsSomehow
    <2> DEFINE b == FirstJournal(p)
    <2>2. /\ b.primary \in used \union {None}
          /\ b.targets \subseteq used /\ b.gateway \subseteq used /\ b.pusher \subseteq used
      <3>1. JournalFor(p) \in Journal /\ fallback \in SUBSET Capability
        BY JournalForTyped DEF Shapes, Stored
      <3>2. CASE journal # None
        <4>1. /\ journal \in Journal
              /\ b = IF fallback = {} THEN journal ELSE WithTargets(journal, fallback)
          BY <3>2 DEF FirstJournal, Shapes
        <4>2. /\ journal.primary \in used \union {None} /\ fallback \subseteq used
              /\ journal.targets \subseteq used /\ journal.gateway \subseteq used
              /\ journal.pusher \subseteq used
          BY <3>2 DEF Drawn, UsedBy
        <4> HIDE DEF b
        <4>3. CASE fallback = {}
          BY <4>1, <4>2, <4>3
        <4>4. CASE fallback # {}
          <5>1. /\ b.primary = journal.primary
                /\ b.targets = journal.targets \union fallback
                /\ b.gateway = journal.gateway \union (fallback \ journal.targets)
                /\ b.pusher = journal.pusher \union (fallback \ journal.targets)
            BY <3>1, <4>1, <4>4, WithTargetsTyped
          <5>2. QED
            BY <4>2, <5>1
        <4>5. QED
          BY <4>3, <4>4
      <3>3. CASE journal = None /\ fallback # {}
        <4>1. b = WithTargets(JournalFor(p), fallback)
          BY <3>3 DEF FirstJournal
        <4>2. /\ JournalFor(p).primary = p /\ JournalFor(p).targets = {p} \ {None}
              /\ JournalFor(p).gateway = {p} \ {None} /\ JournalFor(p).pusher = {p} \ {None}
          BY DEF JournalFor
        <4>3. p \in used \union {None} /\ fallback \subseteq used
          BY DEF Drawn
        <4> DEFINE f == JournalFor(p)
        <4>5. /\ f \in Journal /\ f.primary = p /\ f.targets = {p} \ {None}
              /\ f.gateway = {p} \ {None} /\ f.pusher = {p} \ {None}
              /\ b = WithTargets(f, fallback)
          BY <3>1, <4>1, <4>2
        <4> HIDE DEF b, f
        <4>6. /\ b.primary = f.primary
              /\ b.targets = f.targets \union fallback
              /\ b.gateway = f.gateway \union (fallback \ f.targets)
              /\ b.pusher = f.pusher \union (fallback \ f.targets)
          BY <3>1, <4>5, WithTargetsTyped
        <4>7. p \in fallback
          BY <2>1, <3>3 DEF BeginsWith
        <4>4. QED
          BY <4>3, <4>5, <4>6, <4>7
      <3>4. CASE journal = None /\ fallback = {}
        BY <3>4 DEF FirstJournal, Drawn, JournalFor
      <3>5. QED
        BY <3>2, <3>3, <3>4
    <2> HIDE DEF b
    <2>3. /\ j.primary \in used \union {None}
          /\ j.targets \subseteq used /\ j.gateway \subseteq used /\ j.pusher \subseteq used
      BY <2>1, <2>2 DEF BeginsWith, Opens, Drawn, b
    <2>4. used' = used
      BY <1>10 DEF BeginCleanup
    <2>5. UsedBy(journal)'
      BY <2>1, <2>3, <2>4 DEF BeginsWith, UsedBy, Drawn
    <2>6. page'[t].cap = None /\ page'[t].work = j
      BY <1>0, <2>1 DEF BeginsWith
    <2>7. Own
      BY <2>3, <2>4, <2>6 DEF Own, UsedBy
    <2>8. Sets' \subseteq Sets
      BY <1>0, <2>1, SetsStay DEF BeginsWith, Journal
    <2>9. \A m \in flight' : m.cap \in used
      BY <2>1, <2>3 DEF BeginsWith, Request, Drawn
    <2>10. creds' \in {None, creds}
      BY <2>1 DEF BeginsWith, Without
    <2>11. QED
      BY <1>10, <1>a, <2>4, <2>5, <2>7, <2>8, <2>9, <2>10 DEF BeginCleanup
  <1>11. CASE Settle(t)
    <2>1. Own
      BY <1>0, <1>11, SettlesSomehow, JournalAssumption DEF Own, UsedBy, Settle, history
    <2>2. Rest
      BY <1>11, <1>c, <1>f DEF Settle, history
    <2>3. QED
      BY <1>a, <2>1, <2>2
  <1>12. CASE EndCleanup(t)
    <2>1. PICK done \in Journal, go \in BOOLEAN : EndsWith(t, done, go)
      BY <1>12, EndsSomehow
    <2>2. used' = used /\ page[t].work \in Journal
      BY <1>12, EndsSomehow DEF EndCleanup, history
    <2>3. Own
      BY <1>0, <2>1, <2>2 DEF Own, UsedBy, EndsWith
    <2>4. UsedBy(journal)'
      BY <1>0, <2>1, <2>2, JournalAssumption DEF EndsWith, UsedBy
    <2>5. Rest
      BY <1>12, <1>b, <1>g, <2>2, <2>4 DEF EndCleanup, servers
    <2>6. QED
      BY <1>a, <2>3, <2>5
  <1> QED
    BY <1>1, <1>2, <1>3, <1>4, <1>5, <1>6, <1>7, <1>8, <1>9, <1>10, <1>11, <1>12 DEF Window

LEMMA DrawnElsewhere ==
    ASSUME Shapes, Holding, Awaited, Drawn, Worker \/ Server
    PROVE  Drawn'
  <1>0. /\ page \in [Tab -> Page] /\ posted \in Seq(Message) /\ flight \subseteq Sent
        /\ gateway \in [Capability -> {"none", "pending", "active", "revoked"}]
        /\ used \subseteq Capability
    BY DEF Shapes
  <1>1. used' = used /\ UNCHANGED <<journal, fallback>> /\ creds' \in {None, creds}
    <2>1. ASSUME NEW m \in flight,
                 ServePost(m) \/ ServeDelete(m) \/ ServeSetPusher(m) \/ ServeRemovePusher(m)
          PROVE  UNCHANGED <<used, journal, fallback, creds>>
      BY <2>1 DEF ServePost, ServeDelete, ServeSetPusher, ServeRemovePusher, storage, history
    <2>2. ASSUME NEW c \in Capability, Confirm(c)
          PROVE  UNCHANGED <<used, journal, fallback, creds>>
      BY <2>2 DEF Confirm, storage, history
    <2>3. ASSUME Worker
          PROVE  UNCHANGED <<used, journal, fallback>> /\ creds' \in {None, creds}
      BY <2>3 DEF Worker, SetConfig, ClearConfig, SubscriptionChange, EndRenewal,
                  WorkerDies, Unregister, Without, storage, history
    <2>4. QED
      BY <2>1, <2>2, <2>3 DEF Server
  <1>2. \A u \in Tab : page'[u].cap \in used \union {None} /\ UsedBy(page[u].work)'
    <2>1. ASSUME NEW t \in Tab, NEW places, MovesTo(t, places)
          PROVE  \A u \in Tab : page'[u].cap \in used \union {None} /\ UsedBy(page[u].work)'
      BY <1>1, <2>1 DEF MovesTo, Drawn, UsedBy
    <2>2. ASSUME NEW t \in Tab, WorksOff(t)
          PROVE  \A u \in Tab : page'[u].cap \in used \union {None} /\ UsedBy(page[u].work)'
      BY <1>1, <2>2, JournalAssumption DEF WorksOff, Drawn, UsedBy
    <2>3. CASE UNCHANGED page
      BY <1>1, <2>3 DEF Drawn, UsedBy
    <2>4. CASE Worker
      BY <2>1, <2>2, <2>3, <2>4, WorkerMoves
    <2>5. CASE Server
      BY <2>1, <2>2, <2>3, <2>5, ServerMoves
    <2>6. QED
      BY <2>4, <2>5
  <1>3. CASE SetConfig \/ ClearConfig
    <2>1. posted # <<>> /\ posted' = Tail(posted) /\ posted[1] = Head(posted) /\ posted[1] \in Message
      BY <1>0, <1>3, PostedShrinks DEF SetConfig, ClearConfig
    <2>2. Sets' \subseteq Sets
      BY <1>0, <2>1, SetsShrink
    <2>3. config' \in used \union {None} /\ UNCHANGED <<renewal, gateway, pushers>>
      BY <1>0, <1>3, <2>1, SetsShrink DEF SetConfig, ClearConfig, Drawn, Message, servers
    <2>4. \A m \in flight' : m.cap \in used
      <3>1. CASE flight' = flight
        BY <3>1 DEF Drawn
      <3>2. CASE SetConfig /\ flight' # flight
        <4>1. flight' \subseteq flight \union {Request("post", posted[1].cap, posted[1].tab)}
          BY <2>1, <3>2 DEF SetConfig, Continue
        <4>2. posted[1].cap \in Sets
          BY <1>0, <2>1, <3>2, SetsShrink DEF SetConfig, Message
        <4>3. QED
          BY <4>1, <4>2 DEF Drawn, Request
      <3>3. QED
        BY <1>3, <3>1, <3>2 DEF ClearConfig, servers
    <2>5. QED
      BY <1>1, <1>2, <2>2, <2>3, <2>4 DEF Drawn, UsedBy
  <1>4. CASE SubscriptionChange \/ WorkerDies \/ Unregister
    <2>1. Sets' \subseteq Sets
      <3>1. CASE posted' = posted
        BY <3>1 DEF Sets
      <3>2. CASE posted' = <<>>
        BY <3>2, EmptySeq DEF Sets
      <3>3. QED
        BY <1>4, <3>1, <3>2 DEF SubscriptionChange, WorkerDies, Unregister
    <2>2. /\ UNCHANGED <<config, flight, gateway, pushers>> /\ renewal' \in {None, config}
      BY <1>4 DEF SubscriptionChange, WorkerDies, Unregister, servers
    <2>3. QED
      BY <1>1, <1>2, <2>1, <2>2 DEF Drawn, UsedBy
  <1>5. CASE EndRenewal
    <2>1. /\ UNCHANGED <<config, flight, pushers, posted>> /\ renewal' = None /\ renewal \in used
          /\ gateway' \in {gateway, [gateway EXCEPT ![renewal] = Begun(@)]}
      BY <1>5 DEF EndRenewal, Drawn
    <2>2. Sets' = Sets
      BY <2>1 DEF Sets
    <2>3. \A c \in Capability \ used : gateway'[c] = gateway[c]
      BY <1>0, <2>1
    <2>4. QED
      BY <1>1, <1>2, <2>1, <2>2, <2>3 DEF Drawn, UsedBy
  <1>6. CASE Server
    <2>1. ASSUME NEW c \in Capability, Confirm(c)
          PROVE  /\ pushers' = pushers /\ \A k \in flight' : k.cap \in used
                 /\ \A k \in Capability \ used : gateway'[k] = "none"
                 /\ UNCHANGED <<config, renewal, posted>>
      BY <1>0, <2>1 DEF Confirm, Drawn, worker
    <2>2. ASSUME NEW m \in flight,
                 ServePost(m) \/ ServeDelete(m) \/ ServeSetPusher(m) \/ ServeRemovePusher(m)
          PROVE  /\ pushers' \subseteq used /\ \A k \in flight' : k.cap \in used
                 /\ \A k \in Capability \ used : gateway'[k] = "none"
                 /\ UNCHANGED <<config, renewal, posted>>
      <3>1. m.cap \in used /\ m.cap \in Capability
        BY <1>0 DEF Drawn, Sent
      <3>2. pushers' \subseteq used /\ UNCHANGED <<config, renewal, posted>>
        BY <2>2, <3>1
        DEF ServePost, ServeDelete, ServeSetPusher, ServeRemovePusher, Drawn, worker
      <3>3. flight' \subseteq flight \union {Request("setPusher", m.cap, m.tab)}
        BY <2>2 DEF ServePost, ServeDelete, ServeSetPusher, ServeRemovePusher
      <3>4. \A k \in Capability \ {m.cap} : gateway'[k] = gateway[k]
        BY <1>0, <2>2 DEF ServePost, ServeDelete, ServeSetPusher, ServeRemovePusher
      <3>5. QED
        BY <3>1, <3>2, <3>3, <3>4 DEF Drawn, Request
    <2>3. /\ pushers' \subseteq used /\ \A k \in flight' : k.cap \in used
          /\ \A k \in Capability \ used : gateway'[k] = "none"
          /\ UNCHANGED <<config, renewal, posted>>
      BY <1>6, <2>1, <2>2 DEF Server, Drawn
    <2>4. Sets' = Sets
      BY <2>3 DEF Sets
    <2>5. QED
      BY <1>1, <1>2, <2>3, <2>4 DEF Drawn, UsedBy
  <1> QED
    BY <1>3, <1>4, <1>5, <1>6 DEF Worker

-----------------------------------------------------------------------------
(* The places of setup and cleanup, and what the windows share *)

\* No configuration, and nothing that could bring one.
Off == config = None /\ renewal = None /\ Sets = {}

\* What a journal no longer lists is undone.
Undone(j) ==
    /\ ~j.worker => Off
    /\ ~j.subscription => ~subscribed /\ ~j.worker
    /\ \A c \in j.targets \ j.gateway : gateway[c] = "revoked"

\* Nothing takes c back, now or later.
Quiet(c) == gateway[c] # "revoked" /\ c \notin Doomed

\* A window whose epoch is current saw the credentials it was started with.
Recalls(t) ==
    t \in knows /\ page[t].at \in {"asked"} \union Choosing /\ page[t].cap # None =>
        /\ creds \in {None, page[t].cap}
        /\ undurable \/ creds = page[t].cap \/ fallback # {} \/ journal # None

Chooses(t) == page[t].at \in Choosing => journal = None /\ fallback = {}

\* From the journal to the commit the journal is the window's own.
Enrols(t) ==
    LET p == page[t] IN
    /\ p.at \in Journaled =>
          /\ journal # None /\ journal.primary = p.cap
          /\ journal.gateway = {p.cap} /\ journal.targets = {p.cap}
          /\ fallback = {} /\ knows \subseteq {t}
          /\ creds = IF p.at \in {"committed", "rotated"} THEN p.cap ELSE None
          /\ undurable \/ Quiet(p.cap)
    /\ p.at \in Configured => posted = <<>> /\ config = p.cap
    /\ p.at \in {"checking", "committed", "rotated"} => undurable \/ p.cap \in pushers
    /\ p.at = "rotated" => knows = {}

Strands(t) ==
    page[t].at \in Stranded =>
        /\ journal = None /\ creds \in {None, page[t].cap}
        /\ undurable \/ page[t].cap \in fallback

Cleans(t) ==
    LET p == page[t] IN
    /\ p.at \in Cleaning => creds = None /\ asked \intersect Capability = {}
    /\ p.at \in {"cleaning", "unsubscribing"} =>
          /\ journal # None /\ journal.primary = p.work.primary
          /\ knows = {} /\ (p.orphan => ~registered)
          /\ fallback \subseteq p.work.targets /\ Undone(p.work)
          /\ \A c \in journal.gateway \ p.work.gateway : gateway[c] = "revoked"
    /\ p.at = "finishing" =>
          /\ journal = None /\ Off /\ ~subscribed
          /\ \A c \in fallback : gateway[c] = "revoked"

Phase(t) == Recalls(t) /\ Chooses(t) /\ Enrols(t) /\ Strands(t) /\ Cleans(t)

Gone == ~registered => ~subscribed /\ posted = <<>> /\ renewal = None

Fits == \A c \in Sets : journal # None /\ journal.primary = c

Pends ==
    journal # None =>
        /\ creds \in {None, journal.primary}
        /\ creds = None \/ creds \in journal.gateway
        /\ Undone(journal)

Saves == \A c \in fallback : creds \in {None, c}

Asks ==
    /\ asked \intersect knows = {}
    /\ asked \intersect Capability # {} => intent

\* Everything is recorded, and what is enrolled is whole.
Whole ==
    ~undurable =>
        /\ \A c \in used : Recorded(c) \/ gateway[c] = "revoked"
        /\ config # None =>
              \/ creds = config \/ config \in fallback
              \/ journal # None /\ journal.primary \in {config, None}
        /\ creds # None /\ journal = None /\ fallback = {} =>
              Quiet(creds) /\ config = creds /\ creds \in pushers /\ posted = <<>>

Shared == Gone /\ Fits /\ Pends /\ Saves /\ Asks /\ Whole

Safe == Shared /\ \A t \in Tab : Phase(t)

LEMMA SafeInit == Init => Safe
  <1> SUFFICES ASSUME Init PROVE Safe
    OBVIOUS
  <1>1. Sets = {}
    BY EmptySeq DEF Init, Sets
  <1>2. Shared
    BY <1>1 DEF Init, Shared, Gone, Fits, Pends, Saves, Asks, Whole
  <1>3. \A t \in Tab : page[t].at = "idle"
    BY DEF Init, Idle
  <1>4. \A t \in Tab : Phase(t)
    BY <1>3 DEF Phase, Recalls, Chooses, Enrols, Strands, Cleans, Choosing, Journaled,
                Configured, Stranded, Cleaning
  <1>5. QED
    BY <1>2, <1>4 DEF Safe

\* What a step that touches none of it leaves as it is.
Calm ==
    /\ UNCHANGED <<creds, journal, fallback, config, renewal, gateway, pushers,
                   undurable, registered, subscribed>>
    /\ Sets' = Sets /\ Doomed' \subseteq Doomed
    /\ posted = <<>> => posted' = <<>>

LEMMA PhaseKept ==
    ASSUME NEW u \in Tab, Phase(u), Calm, page'[u] = page[u], knows' \subseteq knows,
           asked' \intersect Capability \subseteq asked \union ({creds} \ {None})
    PROVE  Phase(u)'
  <1>1. Off' = Off
    BY DEF Calm, Off
  <1>3. Recalls(u)' /\ Chooses(u)' /\ Strands(u)'
    BY DEF Phase, Calm, Recalls, Chooses, Strands
  <1>4. Enrols(u)'
    BY DEF Phase, Calm, Enrols, Quiet
  <1>5. Cleans(u)'
    <2>1. Undone(page[u].work)' = Undone(page[u].work)
      BY <1>1 DEF Calm, Undone
    <2>2. QED
      BY <1>1, <2>1 DEF Phase, Calm, Cleans
  <1>6. QED
    BY <1>3, <1>4, <1>5 DEF Phase

LEMMA SharedKept ==
    ASSUME Shared, Calm, used' = used, Asks'
    PROVE  Shared'
  <1>1. Off' = Off
    BY DEF Calm, Off
  <1>2. Undone(journal)' = Undone(journal)
    BY <1>1 DEF Calm, Undone
  <1>3. Gone' /\ Fits' /\ Pends' /\ Saves'
    BY <1>2 DEF Shared, Calm, Gone, Fits, Pends, Saves
  <1>4. Whole'
    BY DEF Shared, Calm, Whole, Quiet, Recorded
  <1>5. QED
    BY <1>3, <1>4 DEF Shared

\* Only the holder of the lock has more to rely on than its memory.
LEMMA PhaseElsewhere ==
    ASSUME Holding, NEW t \in Tab, lock \in {t, NoTab}, NEW u \in Tab \ {t},
           page'[u] = page[u], Recalls(u)'
    PROVE  Phase(u)'
  <1>1. page'[u].at \notin Choosing \union Journaled \union Stranded \union Cleaning
    BY NoTabAssumption DEF Holding, Holds
  <1>2. QED
    BY <1>1 DEF Phase, Chooses, Enrols, Strands, Cleans, Choosing, Journaled,
                Configured, Stranded, Cleaning

\* A window out of setup and cleanup relies on nothing.
LEMMA PhaseAtRest ==
    ASSUME NEW t \in Tab, page'[t].at \in {"idle", "forgetting", "failing"}
    PROVE  Phase(t)'
  BY DEF Phase, Recalls, Chooses, Enrols, Strands, Cleans, Choosing, Journaled,
         Configured, Stranded, Cleaning

LEMMA SafeCalm ==
    ASSUME Shapes, Holding, Awaited, Drawn, Safe, NEW t \in Tab,
           \/ TakeForSetup(t) \/ Reregister(t) \/ RotateEpoch(t) \/ SetupFails(t)
           \/ Forget(t) \/ EndFailedSetup(t) \/ LockTimeout(t) \/ Crash(t)
    PROVE  Safe'
  <1>0. /\ page \in [Tab -> Page] /\ page[t] \in Page /\ Holds(t) /\ Phase(t)
        /\ \A u \in Tab \ {t} : page'[u] = page[u]
        /\ creds \in Stored /\ asked \subseteq Tab \union Capability /\ Shared
        /\ knows \subseteq Tab
    BY OthersStay DEF Shapes, Holding, Safe, Window
  <1>1. Calm
    <2>1. UNCHANGED <<creds, journal, fallback, config, renewal, gateway, pushers,
                      undurable, registered, subscribed>>
      BY DEF TakeForSetup, Reregister, RotateEpoch, SetupFails, Forget, EndFailedSetup,
             LockTimeout, Crash, storage, worker, servers, history
    <2>2. CASE SetupFails(t) \/ Crash(t)
      BY <2>1, <2>2, Orphaned DEF SetupFails, Crash, Calm
    <2>3. CASE UNCHANGED <<posted, flight>>
      BY <2>1, <2>3 DEF Calm, Sets, Doomed
    <2>4. CASE Reregister(t)
      <3>1. posted' = posted /\ flight' = flight \union {Request("post", page[t].cap, t)}
        BY <2>4 DEF Reregister, worker
      <3>2. Doomed' \subseteq Doomed
        BY <3>1 DEF Doomed, Request
      <3>3. Sets' = Sets
        BY <3>1 DEF Sets
      <3>4. QED
        BY <2>1, <3>1, <3>2, <3>3 DEF Calm
    <2>5. QED
      BY <2>2, <2>3, <2>4
      DEF TakeForSetup, RotateEpoch, Forget, EndFailedSetup, LockTimeout, worker, servers
  <1>2. /\ knows' \subseteq knows /\ used' = used
        /\ asked' \intersect Capability \subseteq asked \union ({creds} \ {None})
        /\ Asks'
    <2>1. CASE UNCHANGED <<asked, intent>> /\ knows' \in {knows, {}} /\ used' = used
      BY <1>0, <2>1 DEF Shared, Asks
    <2>2. CASE knows' = knows \ {t} /\ asked' = asked \ {t} /\ intent' = intent /\ used' = used
      BY <1>0, <2>2 DEF Shared, Asks
    <2>3. CASE /\ intent' = TRUE /\ knows' = {} /\ used' = used
               /\ asked' = asked \union {u \in Tab \ {t} : page[u].at \in Enrolling}
                                 \union ({creds} \ {None})
      BY <1>0, <2>3, TabAssumption DEF Asks
    <2>4. used' = used
      BY DEF TakeForSetup, Reregister, RotateEpoch, SetupFails, Forget, EndFailedSetup,
             LockTimeout, Crash, history
    <2>5. Demand(t) => \/ /\ intent' = TRUE /\ knows' = {}
                          /\ asked' = asked \union {u \in Tab \ {t} : page[u].at \in Enrolling}
                                            \union ({creds} \ {None})
                       \/ knows' = knows \ {t} /\ asked' = asked \ {t} /\ intent' = intent
      BY DEF Demand
    <2>6. CASE Forget(t) \/ EndFailedSetup(t)
      BY <2>2, <2>3, <2>4, <2>5, <2>6 DEF Forget, EndFailedSetup
    <2>7. CASE TakeForSetup(t) \/ Reregister(t) \/ RotateEpoch(t) \/ SetupFails(t) \/ LockTimeout(t)
      BY <2>1, <2>4, <2>7
      DEF TakeForSetup, Reregister, RotateEpoch, SetupFails, LockTimeout, storage, history
    <2>8. CASE Crash(t)
      BY <2>2, <2>4, <2>8 DEF Crash
    <2>9. QED
      BY <2>6, <2>7, <2>8
  <1>3. Shared'
    BY <1>0, <1>1, <1>2, SharedKept
  <1>4. \A u \in Tab \ {t} : Phase(u)'
    BY <1>0, <1>1, <1>2, PhaseKept DEF Safe
  <1>5. Phase(t)'
    <2>1. CASE SetupFails(t) \/ Forget(t) \/ EndFailedSetup(t) \/ LockTimeout(t) \/ Crash(t)
      <3>1. page'[t].at \in {"idle", "forgetting", "failing"}
        BY <1>0, <2>1
        DEF SetupFails, Forget, EndFailedSetup, LockTimeout, Crash, Demand, Go, Idle, Page
      <3>2. QED
        BY <3>1, PhaseAtRest
    <2>2. CASE TakeForSetup(t)
      <3>1. CASE PendingCleanup \/ ~Current(t)
        <4>1. page'[t].at = "failing"
          BY <1>0, <2>2, <3>1 DEF TakeForSetup, Go, Page
        <4>2. QED
          BY <4>1, PhaseAtRest
      <3>2. CASE ~PendingCleanup
        <4>1. /\ page[t].at = "asked" /\ page'[t].at \in {"subscribing", "failing"}
              /\ page'[t].cap = page[t].cap
          BY <1>0, <2>2 DEF TakeForSetup, Go, Page
        <4>2. journal = None /\ fallback = {}
          BY <3>2 DEF PendingCleanup
        <4>3. UNCHANGED <<creds, journal, fallback, undurable>>
          BY <1>1 DEF Calm
        <4>4. QED
          BY <1>0, <1>2, <4>1, <4>2, <4>3
          DEF Phase, Recalls, Chooses, Enrols, Strands, Cleans, Choosing, Journaled,
              Configured, Stranded, Cleaning
      <3>3. QED
        BY <3>1, <3>2
    <2>3. CASE Reregister(t) \/ RotateEpoch(t)
      <3>1. /\ page'[t].cap = page[t].cap
            /\ \/ page[t].at = "confirming" /\ page'[t].at = "reregistering"
               \/ page[t].at = "committed" /\ page'[t].at = "rotated" /\ knows' = {}
        BY <1>0, <2>3 DEF Reregister, RotateEpoch, Go, Page
      <3>2. Enrols(t)'
        BY <1>0, <1>1, <1>2, <3>1 DEF Phase, Enrols, Calm, Journaled, Configured, Quiet
      <3>3. QED
        BY <3>1, <3>2 DEF Phase, Recalls, Chooses, Strands, Cleans, Choosing, Stranded, Cleaning
    <2>4. QED
      BY <2>1, <2>2, <2>3
  <1>6. QED
    BY <1>3, <1>4, <1>5 DEF Safe

LEMMA SafeEnrols ==
    ASSUME Shapes, Holding, Awaited, Drawn, Safe, NEW t \in Tab,
           \/ StartSetup(t) \/ Subscribe(t) \/ CommitCredentials(t) \/ EndSetup(t)
    PROVE  Safe'
  <1>0. /\ page \in [Tab -> Page] /\ page[t] \in Page /\ Holds(t) /\ Phase(t)
        /\ \A u \in Tab \ {t} : page'[u] = page[u] /\ Phase(u)
        /\ creds \in Stored /\ asked \subseteq Tab \union Capability /\ Shared
        /\ knows \subseteq Tab
    BY OthersStay DEF Shapes, Holding, Safe, Window
  <1>1. CASE StartSetup(t)
    <2>1. /\ journal = None /\ fallback = {} /\ ~intent
          /\ UNCHANGED <<creds, journal, fallback, intent, config, renewal, gateway, pushers,
                         undurable, subscribed, posted, flight, used>>
          /\ knows' = knows \union {t} /\ asked' = asked \ {t} /\ registered' = TRUE
      BY <1>1 DEF StartSetup, PendingCleanup, servers
    <2>2. Sets' = Sets /\ Doomed' = Doomed
      BY <2>1 DEF Sets, Doomed
    <2>3. PICK c \in {None, creds} :
             page' = [page EXCEPT ![t] = [Idle EXCEPT !.at = "asked", !.cap = c]]
      BY <1>1 DEF StartSetup
    <2>4. page'[t].at = "asked" /\ page'[t].cap = c
      BY <1>0, <2>3 DEF Idle
    <2>5. Shared'
      <3>1. Gone' /\ Fits' /\ Pends' /\ Saves'
        BY <1>0, <2>1, <2>2 DEF Shared, Gone, Fits, Pends, Saves
      <3>2. Asks'
        BY <1>0, <2>1 DEF Shared, Asks
      <3>3. Whole'
        BY <1>0, <2>1, <2>2 DEF Shared, Whole, Quiet, Recorded
      <3>4. QED
        BY <3>1, <3>2, <3>3 DEF Shared
    <2>6. Phase(t)'
      BY <2>1, <2>3, <2>4 DEF Phase, Recalls, Chooses, Enrols, Strands, Cleans, Choosing,
             Journaled, Configured, Stranded, Cleaning
    <2>7. ASSUME NEW u \in Tab \ {t}
          PROVE  Phase(u)'
      <3>1. /\ page'[u] = page[u] /\ Phase(u)
            /\ page[u].at \notin Journaled \union {"cleaning", "unsubscribing"}
        BY <1>0, <2>1 DEF Phase, Enrols, Cleans
      <3>2. Off' = Off
        BY <2>1, <2>2 DEF Off
      <3>3. Recalls(u)' /\ Chooses(u)' /\ Strands(u)'
        BY <2>1, <3>1 DEF Phase, Recalls, Chooses, Strands
      <3>4. Enrols(u)' /\ Cleans(u)'
        BY <2>1, <3>1, <3>2 DEF Phase, Enrols, Cleans, Journaled, Configured
      <3>5. QED
        BY <3>3, <3>4 DEF Phase
    <2>8. QED
      BY <2>5, <2>6, <2>7 DEF Safe
  <1>2. CASE Subscribe(t)
    <2>1. /\ registered /\ subscribed' = TRUE
          /\ UNCHANGED <<creds, journal, fallback, intent, knows, lock, registered, config,
                         posted, renewal, gateway, pushers, flight, used, asked, undurable>>
      BY <1>2 DEF Subscribe, storage, servers, history
    <2>2. Sets' = Sets /\ Doomed' = Doomed
      BY <2>1 DEF Sets, Doomed
    <2>3. /\ page[t].at = "subscribing" /\ page'[t].at = "subscribed"
          /\ page'[t].cap = page[t].cap
      BY <1>0, <1>2 DEF Subscribe, Go, Page
    <2>4. lock = t /\ journal = None /\ fallback = {}
      BY <1>0, <2>3 DEF Holds, Phase, Chooses, Choosing
    <2>5. Shared'
      <3>1. Gone' /\ Fits' /\ Pends' /\ Saves' /\ Asks'
        BY <1>0, <2>1, <2>2, <2>4 DEF Shared, Gone, Fits, Pends, Saves, Asks
      <3>2. Whole'
        BY <1>0, <2>1, <2>2 DEF Shared, Whole, Quiet, Recorded
      <3>3. QED
        BY <3>1, <3>2 DEF Shared
    <2>6. Phase(t)'
      BY <1>0, <2>1, <2>3, <2>4
      DEF Phase, Recalls, Chooses, Enrols, Strands, Cleans, Choosing, Journaled, Configured,
          Stranded, Cleaning
    <2>7. ASSUME NEW u \in Tab \ {t}
          PROVE  Phase(u)'
      <3>1. Recalls(u)' /\ page'[u] = page[u]
        BY <1>0, <2>1 DEF Phase, Recalls
      <3>2. QED
        BY <2>4, <3>1, PhaseElsewhere
    <2>8. QED
      BY <2>5, <2>6, <2>7 DEF Safe
  <1>3. CASE CommitCredentials(t)
    <2>1. /\ t \in knows /\ ~intent /\ creds' = page[t].cap
          /\ asked' = (IF t \in asked THEN asked \union {page[t].cap} ELSE asked)
          /\ UNCHANGED <<journal, fallback, intent, knows, lock, registered, subscribed,
                         config, posted, renewal, gateway, pushers, flight, used, undurable>>
      BY <1>3 DEF CommitCredentials, Owned, Current, worker, servers
    <2>2. Sets' = Sets /\ Doomed' = Doomed
      BY <2>1 DEF Sets, Doomed
    <2>3. /\ page[t].at = "checking" /\ page'[t].at = "committed"
          /\ page'[t].cap = page[t].cap
      BY <1>0, <1>3 DEF CommitCredentials, Go, Page
    <2>4. /\ lock = t /\ journal # None /\ journal.primary = page[t].cap
          /\ journal.gateway = {page[t].cap} /\ journal.targets = {page[t].cap}
          /\ fallback = {} /\ knows \subseteq {t} /\ creds = None
          /\ posted = <<>> /\ config = page[t].cap
          /\ undurable \/ Quiet(page[t].cap)
          /\ undurable \/ page[t].cap \in pushers
      BY <1>0, <2>3 DEF Holds, Phase, Enrols, Journaled, Configured
    <2>5. asked' = asked
      BY <1>0, <2>1 DEF Shared, Asks
    <2>6. Undone(journal)' = Undone(journal)
      BY <2>1, <2>2 DEF Undone, Off
    <2>7. Shared'
      <3>1. Gone' /\ Fits' /\ Pends' /\ Saves' /\ Asks'
        BY <1>0, <2>1, <2>2, <2>4, <2>5, <2>6 DEF Shared, Gone, Fits, Pends, Saves, Asks
      <3>2. Whole'
        <4>1. None \notin used
          BY NoneAssumption DEF Shapes
        <4>2. QED
          BY <1>0, <2>1, <2>2, <2>4, <4>1 DEF Shared, Whole, Quiet, Recorded
      <3>3. QED
        BY <3>1, <3>2 DEF Shared
    <2>8. Phase(t)'
      <3>1. Enrols(t)'
        BY <2>1, <2>2, <2>3, <2>4 DEF Enrols, Quiet, Journaled, Configured
      <3>2. QED
        BY <2>3, <3>1 DEF Phase, Recalls, Chooses, Strands, Cleans, Choosing, Stranded, Cleaning
    <2>9. ASSUME NEW u \in Tab \ {t}
          PROVE  Phase(u)'
      <3>1. Recalls(u)' /\ page'[u] = page[u]
        BY <1>0, <2>1, <2>4 DEF Recalls
      <3>2. QED
        BY <2>4, <3>1, PhaseElsewhere
    <2>10. QED
      BY <2>7, <2>8, <2>9 DEF Safe
  <1>4. CASE EndSetup(t)
    <2>1. /\ page[t].at = "rotated" /\ journal' = None /\ asked' = asked \ {t}
          /\ UNCHANGED <<creds, fallback, intent, knows, registered, subscribed,
                         config, posted, renewal, gateway, pushers, flight, used, undurable>>
      BY <1>4 DEF EndSetup, worker, servers
    <2>2. Sets' = Sets /\ Doomed' = Doomed
      BY <2>1 DEF Sets, Doomed
    <2>3. page'[t].at = "idle"
      BY <1>0, <1>4 DEF EndSetup, Idle
    <2>4. /\ lock = t /\ journal # None /\ journal.primary = page[t].cap
          /\ journal.gateway = {page[t].cap}
          /\ fallback = {} /\ knows = {} /\ creds = page[t].cap
          /\ posted = <<>> /\ config = page[t].cap
          /\ undurable \/ Quiet(page[t].cap)
          /\ undurable \/ page[t].cap \in pushers
      BY <1>0, <2>1 DEF Holds, Phase, Enrols, Journaled, Configured
    <2>5. posted \in Seq(Message) /\ Sets = {}
      BY <2>4, SetsEmpty DEF Shapes
    <2>7. Shared'
      <3>1. Gone' /\ Fits' /\ Pends' /\ Saves' /\ Asks'
        BY <1>0, <2>1, <2>2, <2>4, <2>5 DEF Shared, Gone, Fits, Pends, Saves, Asks
      <3>2. ASSUME ~undurable, NEW c \in used
            PROVE  Recorded(c)' \/ gateway[c] = "revoked"
        <4>1. Recorded(c) \/ gateway[c] = "revoked"
          BY <1>0, <3>2 DEF Shared, Whole
        <4>2. QED
          BY <2>1, <2>4, <4>1 DEF Recorded
      <3>3. Whole'
        BY <2>1, <2>2, <2>4, <3>2 DEF Whole, Quiet
      <3>4. QED
        BY <3>1, <3>3 DEF Shared
    <2>8. Phase(t)'
      BY <2>3, PhaseAtRest
    <2>9. ASSUME NEW u \in Tab \ {t}
          PROVE  Phase(u)'
      <3>1. Recalls(u)' /\ page'[u] = page[u]
        BY <1>0, <2>1, <2>4 DEF Recalls
      <3>2. QED
        BY <2>4, <3>1, PhaseElsewhere
    <2>10. QED
      BY <2>7, <2>8, <2>9 DEF Safe
  <1> QED
    BY <1>1, <1>2, <1>3, <1>4

\* What a setup chooses is what is stored, or new.
LEMMA ChosenIsSound ==
    ASSUME Shapes, Holding, Drawn, Safe, NEW t \in Tab, page[t].at = "subscribed", t \in knows,
           NEW c \in Chosen(t)
    PROVE  /\ c \in Capability /\ lock = t /\ creds \in {None, c}
           /\ journal = None /\ fallback = {} /\ Sets = {}
           /\ undurable \/ Quiet(c)
  <1>0. /\ page[t] \in Page /\ Holds(t) /\ Phase(t) /\ creds \in Stored /\ Shared
    BY DEF Shapes, Holding, Safe
  <1>1. c \in Capability /\ c # None
    BY <1>0, NoneAssumption DEF Chosen, Page, Stored
  <1>2. lock = t /\ journal = None /\ fallback = {}
    BY <1>0 DEF Holds, Phase, Chooses, Choosing
  <1>3. Sets = {}
    BY <1>0, <1>2 DEF Shared, Fits
  <1>4. c \notin used => Quiet(c) /\ creds \in {None, c}
    <2>1. c \notin used => gateway[c] = "none" /\ c \notin Doomed
      BY <1>1 DEF Drawn, Doomed
    <2>2. CASE page[t].cap # None
      BY <1>0, <2>1, <2>2 DEF Chosen, Drawn, Quiet
    <2>3. CASE page[t].cap = None
      BY <1>0, <2>1, <2>3 DEF Chosen, Quiet
    <2>4. QED
      BY <2>2, <2>3
  <1>5. c \in used => creds \in {None, c} /\ (undurable \/ creds = c)
    <2>1. CASE page[t].cap # None
      BY <1>0, <1>2, <2>1 DEF Chosen, Phase, Recalls, Choosing
    <2>2. CASE page[t].cap = None
      BY <2>2 DEF Chosen
    <2>3. QED
      BY <2>1, <2>2
  <1>6. creds = c /\ ~undurable => Quiet(c)
    BY <1>0, <1>1, <1>2 DEF Shared, Whole
  <1>7. QED
    BY <1>1, <1>2, <1>3, <1>4, <1>5, <1>6

LEMMA SafeQueues ==
    ASSUME Shapes, Holding, Awaited, Drawn, Safe, NEW t \in Tab, QueueSetup(t)
    PROVE  Safe'
  <1>0. /\ page \in [Tab -> Page] /\ page[t] \in Page /\ Holds(t) /\ Phase(t)
        /\ \A u \in Tab \ {t} : page'[u] = page[u] /\ Phase(u)
        /\ creds \in Stored /\ asked \subseteq Tab \union Capability /\ Shared
        /\ posted \in Seq(Message) /\ used \subseteq Capability
    BY OthersStay DEF Shapes, Holding, Safe, Window
  <1>1. PICK c \in Chosen(t) :
           /\ journal' = [JournalFor(c) EXCEPT
                  !.worker = creds \in {None, c}, !.subscription = creds \in {None, c}]
           /\ creds' = Without(c)
           /\ page' = [page EXCEPT ![t].at = "configuring", ![t].cap = c]
           /\ posted' = Posted("set", c, t)
           /\ used' = used \union {c}
    <2>1. PICK c \in Chosen(t) :
             LET other == creds \notin {None, c} IN
             /\ journal' = [JournalFor(c) EXCEPT !.worker = ~other,
                               !.subscription = ~other]
             /\ creds' = Without(c)
             /\ page' = [page EXCEPT ![t].at = "configuring", ![t].cap = c]
             /\ posted' = Posted("set", c, t)
             /\ used' = used \union {c}
      BY Zenon DEF QueueSetup
    <2>2. (~(creds \notin {None, c})) = (creds \in {None, c})
      OBVIOUS
    <2>3. QED
      BY <2>1, <2>2, Zenon
  <1>2. /\ page[t].at = "subscribed" /\ t \in knows
        /\ knows' = {t} /\ asked' = asked \intersect Tab
        /\ UNCHANGED <<fallback, intent, lock, registered, subscribed, config, renewal,
                       gateway, pushers, flight, undurable>>
    BY DEF QueueSetup, Current, servers
  <1>3. /\ c \in Capability /\ lock = t /\ creds \in {None, c}
        /\ journal = None /\ fallback = {} /\ Sets = {}
        /\ undurable \/ Quiet(c)
    BY <1>2, ChosenIsSound
  <1>4. c # None
    BY <1>3, NoneAssumption
  <1>5. /\ page'[t].at = "configuring" /\ page'[t].cap = c
    BY <1>0, <1>1 DEF Page
  <1>6. /\ journal' # None /\ journal'.primary = c /\ journal'.targets = {c}
        /\ journal'.gateway = {c} /\ journal'.worker /\ journal'.subscription
    <2> DEFINE b == creds \in {None, c}
               f == JournalFor(c)
    <2>1. /\ f \in Journal /\ f.primary = c /\ f.targets = {c} /\ f.gateway = {c}
          /\ b = TRUE
      BY <1>3, <1>4, JournalForTyped DEF JournalFor, Stored
    <2>2. journal' = [f EXCEPT !.worker = b, !.subscription = b]
      BY <1>1
    <2> HIDE DEF b, f
    <2>3. /\ journal' \in Journal /\ journal'.primary = c /\ journal'.targets = {c}
          /\ journal'.gateway = {c} /\ journal'.worker /\ journal'.subscription
      BY <2>1, <2>2 DEF Journal
    <2>4. QED
      BY <2>3, JournalAssumption
  <1>7. creds' = None
    BY <1>1, <1>3 DEF Without
  <1>8. Sets' \subseteq {c} /\ Doomed' = Doomed
    BY <1>0, <1>1, <1>2, <1>3, SetsGrow DEF Doomed, Stored
  <1>9. Undone(journal)'
    BY <1>6 DEF Undone
  <1>10. Shared'
    <2>1. Gone'
      BY <1>0, <1>1, <1>2 DEF Shared, Gone, Posted
    <2>2. Fits' /\ Pends' /\ Saves'
      BY <1>2, <1>3, <1>6, <1>7, <1>8, <1>9 DEF Fits, Pends, Saves
    <2>3. Asks'
      BY <1>0, <1>2, TabAssumption DEF Shared, Asks
    <2>4. Whole'
      BY <1>0, <1>1, <1>2, <1>3, <1>4, <1>6, <1>7, NoneAssumption DEF Shared, Whole, Recorded
    <2>5. QED
      BY <2>1, <2>2, <2>3, <2>4 DEF Shared
  <1>11. Phase(t)'
    <2>1. Enrols(t)'
      BY <1>2, <1>3, <1>5, <1>6, <1>7, <1>8 DEF Enrols, Journaled, Configured, Quiet
    <2>2. QED
      BY <1>5, <2>1 DEF Phase, Recalls, Chooses, Strands, Cleans, Choosing, Stranded, Cleaning
  <1>12. ASSUME NEW u \in Tab \ {t}
         PROVE  Phase(u)'
    <2>1. Recalls(u)' /\ page'[u] = page[u]
      BY <1>0, <1>2 DEF Recalls
    <2>2. QED
      BY <1>3, <2>1, PhaseElsewhere
  <1>13. QED
    BY <1>10, <1>11, <1>12 DEF Safe

LEMMA SafeStrands ==
    ASSUME Shapes, Holding, Awaited, Drawn, Safe, NEW t \in Tab,
           QueueFails(t) \/ UndoWorker(t) \/ UndoFails(t)
    PROVE  Safe'
  <1>0. /\ page \in [Tab -> Page] /\ page[t] \in Page /\ Holds(t) /\ Phase(t)
        /\ \A u \in Tab \ {t} : page'[u] = page[u] /\ Phase(u)
        /\ creds \in Stored /\ asked \subseteq Tab \union Capability /\ Shared
        /\ posted \in Seq(Message) /\ used \subseteq Capability /\ flight \subseteq Sent
    BY OthersStay DEF Shapes, Holding, Safe, Window
  <1>1. CASE QueueFails(t)
    <2>1. PICK c \in Chosen(t) :
             /\ \/ fallback' = fallback \union {c} /\ undurable' = undurable
                \/ undurable' = TRUE /\ fallback' = fallback
             /\ page' = [page EXCEPT ![t].at = "undoing", ![t].cap = c]
             /\ used' = used \union {c}
      BY <1>1 DEF QueueFails, FallbackKeeps
    <2>2. /\ page[t].at = "subscribed" /\ t \in knows
          /\ UNCHANGED <<creds, journal, intent, knows, lock, registered, subscribed,
                         config, posted, renewal, gateway, pushers, asked>>
      BY <1>1 DEF QueueFails, Current, worker
    <2>3. /\ c \in Capability /\ lock = t /\ creds \in {None, c}
          /\ journal = None /\ fallback = {} /\ Sets = {}
      BY <2>2, ChosenIsSound
    <2>5. page'[t].at = "undoing" /\ page'[t].cap = c
      BY <1>0, <2>1 DEF Page
    <2>6. Sets' = {}
      BY <2>2, <2>3 DEF Sets
    <2>7. Shared'
      <3>1. Gone' /\ Fits' /\ Pends' /\ Saves' /\ Asks'
        BY <1>0, <2>1, <2>2, <2>3, <2>6 DEF Shared, Gone, Fits, Pends, Saves, Asks
      <3>2. Whole'
        BY <1>0, <2>1, <2>2, <2>3 DEF Shared, Whole, Recorded
      <3>3. QED
        BY <3>1, <3>2 DEF Shared
    <2>8. Phase(t)'
      BY <2>1, <2>2, <2>3, <2>5
      DEF Phase, Recalls, Chooses, Enrols, Strands, Cleans, Choosing, Journaled, Configured,
          Stranded, Cleaning
    <2>9. ASSUME NEW u \in Tab \ {t}
          PROVE  Phase(u)'
      <3>1. Recalls(u)' /\ page'[u] = page[u]
        BY <1>0, <2>1, <2>2 DEF Phase, Recalls
      <3>2. QED
        BY <2>3, <3>1, PhaseElsewhere
    <2>10. QED
      BY <2>7, <2>8, <2>9 DEF Safe
  <1>2. CASE UndoWorker(t) \/ UndoFails(t)
    <2>1. /\ page[t].at \in Stranded /\ creds' \in {creds, Without(page[t].cap)}
          /\ UNCHANGED <<journal, fallback, intent, knows, lock, registered, subscribed,
                         config, renewal, gateway, pushers, used, asked, undurable>>
      BY <1>2 DEF UndoWorker, UndoFails, Stranded, storage, history
    <2>2. /\ lock = t /\ journal = None /\ creds \in {None, page[t].cap}
          /\ undurable \/ page[t].cap \in fallback
          /\ page[t].cap # None /\ page[t].cap \in Stored
      BY <1>0, <2>1 DEF Holds, Phase, Strands, Page
    <2>3. creds' \in {None, creds}
      BY <2>1 DEF Without
    <2>4. /\ page'[t].cap = page[t].cap /\ page'[t].at \in {"failing", "unconfiguring"}
      BY <1>0, <1>2 DEF UndoWorker, UndoFails, Go, Page
    <2>5. Sets' = Sets /\ (~registered /\ posted = <<>> => posted' = <<>>)
      <3>1. CASE UndoFails(t)
        BY <3>1, Orphaned DEF UndoFails
      <3>2. CASE UndoWorker(t)
        <4>1. posted' \in {posted, Posted("clear", page[t].cap, t)}
          BY <3>2 DEF UndoWorker
        <4>2. QED
          BY <1>0, <2>2, <4>1, SetsStay DEF Posted
      <3>3. QED
        BY <1>2, <3>1, <3>2
    <2>7. Shared'
      <3>1. Gone' /\ Fits' /\ Pends' /\ Saves' /\ Asks'
        BY <1>0, <2>1, <2>2, <2>3, <2>5 DEF Shared, Gone, Fits, Pends, Saves, Asks
      <3>2. Whole'
        <4>1. None \notin used
          BY <1>0, NoneAssumption
        <4>2. QED
          BY <1>0, <2>1, <2>2, <2>3, <4>1 DEF Shared, Whole, Recorded
      <3>3. QED
        BY <3>1, <3>2 DEF Shared
    <2>8. Phase(t)'
      BY <2>1, <2>2, <2>3, <2>4
      DEF Phase, Recalls, Chooses, Enrols, Strands, Cleans, Choosing, Journaled, Configured,
          Stranded, Cleaning
    <2>9. ASSUME NEW u \in Tab \ {t}
          PROVE  Phase(u)'
      <3>1. Recalls(u)' /\ page'[u] = page[u]
        BY <1>0, <2>1, <2>2, <2>3 DEF Phase, Recalls
      <3>2. QED
        BY <2>2, <3>1, PhaseElsewhere
    <2>10. QED
      BY <2>7, <2>8, <2>9 DEF Safe
  <1>3. QED
    BY <1>1, <1>2

\* What a cleanup begins with lists everything that is stored.
LEMMA FirstIsSound ==
    ASSUME Shapes, Drawn, Shared, NEW p \in fallback \union {None},
           journal = None /\ fallback # {} => p \in fallback,
           journal # None \/ fallback = {} => p = None
    PROVE  LET b == FirstJournal(p) IN
           /\ b \in Journal /\ Without(b.primary) = None
           /\ fallback \subseteq b.targets
           /\ journal # None => b.primary = journal.primary /\ journal.gateway \subseteq b.gateway
           /\ journal = None => b.worker /\ b.subscription
           /\ ~b.worker => Off
           /\ ~b.subscription => ~subscribed /\ ~b.worker
           /\ \A c \in b.targets \ b.gateway : gateway[c] = "revoked"
           /\ journal = None /\ fallback = {} => b.primary = creds
           /\ journal = None /\ fallback # {} => b.primary \in fallback
           /\ journal = None /\ creds # None => creds \in b.gateway
           /\ journal = None => \A c \in fallback : c \in b.gateway
  <1> DEFINE b == FirstJournal(p)
  <1>0. fallback \in SUBSET Capability /\ creds \in Stored /\ journal \in Journal \union {None}
    BY DEF Shapes
  <1>1. CASE journal # None
    <2>1. /\ journal \in Journal /\ Undone(journal) /\ creds \in {None, journal.primary}
          /\ b = IF fallback = {} THEN journal ELSE WithTargets(journal, fallback)
      BY <1>0, <1>1 DEF Shared, Pends, FirstJournal
    <2> HIDE DEF b
    <2>2. /\ b \in Journal /\ b.primary = journal.primary
          /\ b.targets = journal.targets \union fallback
          /\ b.gateway = journal.gateway \union (fallback \ journal.targets)
          /\ b.worker = journal.worker
          /\ b.subscription = journal.subscription \/ b.subscription = TRUE
      <3>1. CASE fallback = {}
        BY <2>1, <3>1
      <3>2. CASE fallback # {}
        BY <1>0, <2>1, <3>2, WithTargetsTyped
      <3>3. QED
        BY <3>1, <3>2
    <2>3. Without(b.primary) = None
      BY <2>1, <2>2 DEF Without
    <2>4. /\ ~b.worker => Off
          /\ ~b.subscription => ~subscribed /\ ~b.worker
          /\ \A c \in b.targets \ b.gateway : gateway[c] = "revoked"
      BY <2>1, <2>2 DEF Undone, Journal
    <2>5. QED
      BY <1>1, <2>2, <2>3, <2>4 DEF b
  <1>2. CASE journal = None /\ fallback # {}
    <2> DEFINE f == JournalFor(p)
    <2>0. p \in fallback /\ p # None /\ p \in Stored /\ creds \in {None, p}
      BY <1>0, <1>2, NoneAssumption DEF Stored, Shared, Saves
    <2>1. /\ f \in Journal /\ f.primary = p /\ f.targets = {p} /\ f.gateway = {p}
          /\ f.worker = TRUE
          /\ b = WithTargets(f, fallback)
      BY <1>2, <2>0, JournalForTyped DEF JournalFor, FirstJournal
    <2> HIDE DEF b, f
    <2>5. /\ b \in Journal /\ b.primary = f.primary
          /\ b.targets = f.targets \union fallback
          /\ b.gateway = f.gateway \union (fallback \ f.targets)
          /\ b.worker = f.worker /\ b.subscription = TRUE
      BY <1>0, <2>1, WithTargetsTyped
    <2>2. /\ b \in Journal /\ b.primary = p
          /\ b.targets = {p} \union fallback
          /\ b.gateway = {p} \union (fallback \ {p})
          /\ b.worker = TRUE /\ b.subscription = TRUE
      BY <2>1, <2>5
    <2>3. Without(b.primary) = None
      BY <2>0, <2>2 DEF Without
    <2>4. QED
      BY <1>2, <2>0, <2>2, <2>3 DEF b
  <1>3. CASE journal = None /\ fallback = {}
    <2>1. b = JournalFor(creds)
      BY <1>3 DEF FirstJournal
    <2>2. /\ b \in Journal /\ b.primary = creds
          /\ b.targets = {creds} \ {None} /\ b.gateway = {creds} \ {None}
          /\ b.worker = TRUE /\ b.subscription = TRUE
      BY <1>0, <2>1, JournalForTyped DEF JournalFor
    <2> HIDE DEF b
    <2>3. Without(b.primary) = None
      BY <2>2 DEF Without
    <2>4. QED
      BY <1>3, <2>2, <2>3 DEF b
  <1>4. QED
    BY <1>1, <1>2, <1>3

LEMMA SafeBegins ==
    ASSUME Shapes, Holding, Awaited, Drawn, Safe, NEW t \in Tab, BeginCleanup(t)
    PROVE  Safe'
  <1>0. /\ page \in [Tab -> Page] /\ page[t] \in Page /\ Holds(t) /\ Phase(t)
        /\ \A u \in Tab \ {t} : page'[u] = page[u] /\ Phase(u)
        /\ creds \in Stored /\ config \in Stored /\ asked \subseteq Tab \union Capability
        /\ Shared
        /\ posted \in Seq(Message) /\ used \subseteq Capability
        /\ journal \in Journal \union {None} /\ fallback \in SUBSET Capability
        /\ registered \in BOOLEAN
    BY OthersStay DEF Shapes, Holding, Safe, Window
  <1>1. PICK p \in fallback \union {None}, service \in BOOLEAN, j \in Journal,
             orphan \in BOOLEAN : BeginsWith(t, p, service, j, orphan)
    BY BeginsSomehow
  <1> DEFINE b == FirstJournal(p)
  <1>2. /\ lock = NoTab /\ knows' = {} /\ asked' = asked \intersect Tab
        /\ UNCHANGED <<fallback, intent, registered, subscribed, config, renewal,
                       gateway, pushers, used, undurable>>
    BY DEF BeginCleanup, Unlocked
  <1>3. /\ b \in Journal /\ Without(b.primary) = None
        /\ fallback \subseteq b.targets
        /\ journal # None => b.primary = journal.primary /\ journal.gateway \subseteq b.gateway
        /\ journal = None => b.worker /\ b.subscription
        /\ ~b.worker => Off
        /\ ~b.subscription => ~subscribed /\ ~b.worker
        /\ \A c \in b.targets \ b.gateway : gateway[c] = "revoked"
        /\ journal = None /\ fallback = {} => b.primary = creds
        /\ journal = None /\ fallback # {} => b.primary \in fallback
        /\ journal = None /\ creds # None => creds \in b.gateway
        /\ journal = None => \A c \in fallback : c \in b.gateway
    BY <1>0, <1>1, FirstIsSound DEF BeginsWith
  <1>4. Opens(b, j) /\ creds' = None
    BY <1>1, <1>3 DEF BeginsWith
  <1>5. \/ journal' = j
        \/ journal # None /\ journal' = journal /\ j = WithTargets(journal, fallback)
    BY <1>1 DEF BeginsWith
  <1> HIDE DEF b
  <1>6. Sets' = Sets
    BY <1>0, <1>1, SetsStay DEF BeginsWith, Journal
  <1>7. ~registered => posted' = <<>>
    <2>1. ~registered => posted = <<>>
      BY <1>0 DEF Shared, Gone
    <2>2. ~registered => posted' = posted
      BY <1>1 DEF BeginsWith, Posted
    <2>3. QED
      BY <2>1, <2>2
  <1>8. ~registered /\ config = None => Off
    <2>1. ~registered => posted = <<>> /\ renewal = None
      BY <1>0 DEF Shared, Gone
    <2>2. QED
      BY <1>0, <2>1, SetsEmpty DEF Off
  <1>9. Off' = Off
    BY <1>2, <1>6 DEF Off
  <1>10. /\ fallback \subseteq j.targets
         /\ ~j.worker => Off
         /\ ~j.subscription => ~subscribed /\ ~j.worker
         /\ \A c \in j.targets \ j.gateway : gateway[c] = "revoked"
    <2>1. ~registered => ~subscribed
      BY <1>0 DEF Shared, Gone
    <2>2. fallback \subseteq j.targets
      BY <1>3, <1>4 DEF Opens
    <2>3. ~j.worker => Off
      BY <1>3, <1>4, <1>8 DEF Opens
    <2>4. ~j.subscription => ~subscribed /\ ~j.worker
      BY <1>3, <1>4, <2>1 DEF Opens
    <2>5. \A c \in j.targets \ j.gateway : gateway[c] = "revoked"
      BY <1>3, <1>4 DEF Opens
    <2>6. QED
      BY <2>2, <2>3, <2>4, <2>5
  <1>11. Undone(j)'
    BY <1>2, <1>9, <1>10 DEF Undone
  <1>12. /\ journal' # None /\ journal'.primary = j.primary
         /\ journal'.gateway \subseteq j.gateway
         /\ Undone(journal)'
    <2>1. CASE journal' = j
      BY <1>11, <2>1, JournalAssumption DEF Undone
    <2>2. CASE journal # None /\ journal' = journal /\ j = WithTargets(journal, fallback)
      <3>1. j.primary = journal.primary /\ j.gateway = journal.gateway \union (fallback \ journal.targets)
        BY <1>0, <2>2, WithTargetsTyped
      <3>2. Undone(journal)
        BY <1>0, <2>2 DEF Shared, Pends
      <3>3. Undone(journal)'
        BY <1>2, <1>9, <2>2, <3>2 DEF Undone
      <3>4. QED
        BY <2>2, <3>1, <3>3
    <2>3. QED
      BY <1>5, <2>1, <2>2
  <1>13. /\ page'[t].at = "cleaning" /\ page'[t].work = j /\ (page'[t].orphan => ~registered)
    BY <1>0, <1>1 DEF BeginsWith
  <1>14. Shared'
    <2>1. Gone' /\ Pends' /\ Saves'
      BY <1>0, <1>2, <1>4, <1>7, <1>12 DEF Shared, Gone, Pends, Saves
    <2>2. Fits'
      <3>1. ASSUME NEW c \in Sets
            PROVE  journal # None /\ journal.primary = c /\ c # None
        BY <1>0, <3>1, NoneAssumption DEF Shared, Fits, Drawn
      <3>2. QED
        BY <1>3, <1>4, <1>6, <1>12, <3>1 DEF Fits, Opens
    <2>3. Asks'
      BY <1>0, <1>2, TabAssumption DEF Shared, Asks
    <2>4. ASSUME ~undurable, NEW c \in used
          PROVE  Recorded(c)' \/ gateway'[c] = "revoked"
      <3>1. CASE gateway[c] = "revoked" \/ c \in fallback
        BY <1>2, <3>1 DEF Recorded
      <3>2. CASE gateway[c] # "revoked" /\ c \notin fallback
        <4>1. creds = c \/ (journal # None /\ c \in journal.gateway)
          BY <1>0, <2>4, <3>2 DEF Shared, Whole, Recorded
        <4>2. c # None
          BY <1>0, NoneAssumption
        <4>3. CASE journal = None
          BY <1>3, <1>4, <1>5, <1>12, <4>1, <4>2, <4>3 DEF Recorded, Opens
        <4>4. CASE journal # None
          <5>1. c \in journal.gateway
            BY <1>0, <4>1, <4>2, <4>4 DEF Shared, Pends
          <5>2. QED
            BY <1>3, <1>4, <1>5, <1>12, <4>4, <5>1 DEF Recorded, Opens
        <4>5. QED
          BY <4>3, <4>4
      <3>3. QED
        BY <3>1, <3>2
    <2>5. ASSUME ~undurable, config # None, config \notin fallback
          PROVE  journal'.primary \in {config, None}
      <3>1. \/ creds = config
            \/ journal # None /\ journal.primary \in {config, None}
        BY <1>0, <2>5 DEF Shared, Whole
      <3>2. CASE journal # None
        <4>1. creds = config => journal.primary = config
          BY <1>0, <2>5, <3>2 DEF Shared, Pends
        <4>2. QED
          BY <1>3, <1>4, <1>12, <3>1, <3>2, <4>1 DEF Opens
      <3>3. CASE journal = None
        <4>1. creds = config
          BY <3>1, <3>3
        <4>2. fallback = {}
          BY <1>0, <2>5, <4>1 DEF Shared, Saves
        <4>3. QED
          BY <1>3, <1>4, <1>12, <3>3, <4>1, <4>2 DEF Opens
      <3>4. QED
        BY <3>2, <3>3
    <2>6. Whole'
      BY <1>2, <1>4, <1>12, <2>4, <2>5 DEF Whole
    <2>7. QED
      BY <2>1, <2>2, <2>3, <2>6 DEF Shared
  <1>15. Phase(t)'
    <2>1. asked' \intersect Capability = {}
      BY <1>2, TabAssumption
    <2>2. Undone(page[t].work)'
      BY <1>11, <1>13 DEF Undone
    <2>3. Cleans(t)'
      BY <1>2, <1>4, <1>10, <1>12, <1>13, <2>1, <2>2 DEF Cleans, Cleaning
    <2>4. QED
      BY <1>13, <2>3 DEF Phase, Recalls, Chooses, Enrols, Strands, Choosing, Journaled,
          Configured, Stranded
  <1>16. ASSUME NEW u \in Tab \ {t}
         PROVE  Phase(u)'
    <2>1. Recalls(u)' /\ page'[u] = page[u]
      BY <1>0, <1>2 DEF Recalls
    <2>2. QED
      BY <1>2, <2>1, PhaseElsewhere
  <1>17. QED
    BY <1>14, <1>15, <1>16 DEF Safe

LEMMA SafeCleans ==
    ASSUME Shapes, Holding, Awaited, Drawn, Safe, NEW t \in Tab,
           Settle(t) \/ EndCleanup(t) \/ FinishCleanup(t)
    PROVE  Safe'
  <1>0. /\ page \in [Tab -> Page] /\ page[t] \in Page /\ Holds(t) /\ Phase(t)
        /\ \A u \in Tab \ {t} : page'[u] = page[u] /\ Phase(u)
        /\ asked \subseteq Tab \union Capability /\ Shared
        /\ posted \in Seq(Message) /\ used \subseteq Capability
    BY OthersStay DEF Shapes, Holding, Safe, Window
  <1>1. CASE Settle(t)
    <2>1. /\ page[t].at = "cleaning" /\ lock = t /\ page[t].work \in Journal
          /\ page'[t].at = "unsubscribing"
          /\ page'[t].orphan = page[t].orphan
          /\ page'[t].work \in Journal
          /\ page'[t].work.primary = page[t].work.primary
          /\ page'[t].work.targets = page[t].work.targets
          /\ page'[t].work.gateway = page[t].work.gateway
          /\ \/ /\ config' = config
                /\ page'[t].work.worker = page[t].work.worker
                /\ page'[t].work.subscription = page[t].work.subscription
             \/ /\ page[t].orphan /\ config' = None
                /\ ~page'[t].work.worker /\ ~page'[t].work.subscription
      BY <1>1, SettlesSomehow
    <2>2. UNCHANGED <<creds, journal, fallback, intent, knows, lock, registered,
                     subscribed, renewal, gateway, pushers, used, asked, undurable>>
      BY <1>1 DEF Settle, history
    <2>3. Sets' = Sets /\ (posted = <<>> => posted' = <<>>)
      BY <1>1, Orphaned DEF Settle
    <2>4. /\ creds = None /\ asked \intersect Capability = {}
          /\ journal # None /\ journal.primary = page[t].work.primary
          /\ knows = {} /\ (page[t].orphan => ~registered)
          /\ fallback \subseteq page[t].work.targets /\ Undone(page[t].work)
          /\ \A c \in journal.gateway \ page[t].work.gateway : gateway[c] = "revoked"
      BY <1>0, <2>1 DEF Phase, Cleans, Cleaning
    <2>5. page[t].orphan => Sets = {} /\ renewal = None /\ ~subscribed
      BY <1>0, <2>4, SetsEmpty DEF Shared, Gone
    <2>6. Off /\ config' \in {None, config} => Off'
      BY <2>2, <2>3 DEF Off
    <2>7. config' \in {None, config}
      BY <2>1
    <2>8. Undone(journal)'
      BY <1>0, <2>2, <2>4, <2>6, <2>7 DEF Shared, Pends, Undone
    <2>9. Undone(page[t].work)'
      BY <2>1, <2>2, <2>3, <2>4, <2>5, <2>6 DEF Undone, Off
    <2>10. Shared'
      <3>1. Gone' /\ Fits' /\ Pends' /\ Saves' /\ Asks'
        BY <1>0, <2>2, <2>3, <2>4, <2>8 DEF Shared, Gone, Fits, Pends, Saves, Asks
      <3>2. Whole'
        BY <1>0, <2>2, <2>4, <2>7 DEF Shared, Whole, Recorded
      <3>3. QED
        BY <3>1, <3>2 DEF Shared
    <2>11. Phase(t)'
      <3>1. Cleans(t)'
        BY <2>1, <2>2, <2>4, <2>9 DEF Cleans, Cleaning
      <3>2. QED
        BY <2>1, <3>1 DEF Phase, Recalls, Chooses, Enrols, Strands, Choosing, Journaled,
            Configured, Stranded
    <2>12. ASSUME NEW u \in Tab \ {t}
           PROVE  Phase(u)'
      <3>1. Recalls(u)' /\ page'[u] = page[u]
        BY <1>0, <2>2, <2>4 DEF Recalls
      <3>2. QED
        BY <2>1, <3>1, PhaseElsewhere
    <2>13. QED
      BY <2>10, <2>11, <2>12 DEF Safe
  <1>2. CASE EndCleanup(t)
    <2>1. page[t].at = "unsubscribing" /\ lock = t /\ page[t].work \in Journal
      BY <1>2, EndsSomehow
    <2> PICK done \in Journal, go \in BOOLEAN : EndsWith(t, done, go)
      BY <1>2, EndsSomehow
    <2>2. UNCHANGED <<creds, fallback, intent, knows, registered, config, posted, renewal,
                     gateway, pushers, flight, used, asked, undurable>>
      BY <1>2 DEF EndCleanup, servers, history
    <2>3. Sets' = Sets /\ Doomed' = Doomed /\ Off' = Off
      BY <2>2 DEF Sets, Doomed, Off
    <2>4. /\ creds = None /\ asked \intersect Capability = {}
          /\ journal # None /\ journal.primary = page[t].work.primary
          /\ knows = {} /\ fallback \subseteq page[t].work.targets /\ Undone(page[t].work)
          /\ \A c \in journal.gateway \ page[t].work.gateway : gateway[c] = "revoked"
      BY <1>0, <2>1 DEF Phase, Cleans, Cleaning
    <2>5. /\ done.primary = journal.primary /\ fallback \subseteq done.targets
          /\ subscribed' => subscribed
          /\ ~done.worker => Off
          /\ ~done.subscription => ~subscribed' /\ ~done.worker
          /\ \A c \in done.targets \ done.gateway : gateway[c] = "revoked"
          /\ \A c \in journal.gateway \ done.gateway : gateway[c] = "revoked"
      BY <2>1, <2>4 DEF EndsWith, Undone, Journal
    <2>6. ASSUME Complete(done), journal' = None, page'[t].at = "finishing"
          PROVE  Shared' /\ Phase(t)'
      <3>1. /\ Off /\ ~subscribed' /\ \A c \in fallback : gateway[c] = "revoked"
            /\ \A c \in journal.gateway : gateway[c] = "revoked"
        BY <2>5, <2>6 DEF Complete
      <3>2. Sets = {} /\ config = None
        BY <3>1 DEF Off
      <3>3. Gone' /\ Fits' /\ Pends' /\ Saves' /\ Asks'
        BY <1>0, <2>2, <2>3, <2>4, <2>6, <3>1, <3>2
        DEF Shared, Gone, Fits, Pends, Saves, Asks
      <3>4. None \notin used
        BY <1>0, NoneAssumption
      <3>5. Whole'
        BY <1>0, <2>2, <2>4, <2>6, <3>1, <3>2, <3>4 DEF Shared, Whole, Recorded
      <3>6. Phase(t)'
        BY <2>2, <2>3, <2>4, <2>6, <3>1
        DEF Phase, Recalls, Chooses, Enrols, Strands, Cleans, Choosing, Journaled,
            Configured, Stranded, Cleaning
      <3>7. QED
        BY <3>3, <3>5, <3>6 DEF Shared
    <2>7. ASSUME journal' = done, page'[t].at = "idle"
          PROVE  Shared' /\ Phase(t)'
      <3>1. Undone(journal)'
        BY <2>2, <2>3, <2>5, <2>7 DEF Undone
      <3>2. journal' # None
        BY <2>7, JournalAssumption
      <3>3. Gone' /\ Fits' /\ Pends' /\ Saves' /\ Asks'
        BY <1>0, <2>2, <2>3, <2>4, <2>5, <2>7, <3>1, <3>2
        DEF Shared, Gone, Fits, Pends, Saves, Asks
      <3>4. None \notin used
        BY <1>0, NoneAssumption
      <3>5. Whole'
        BY <1>0, <2>2, <2>4, <2>5, <2>7, <3>2, <3>4 DEF Shared, Whole, Recorded
      <3>6. Phase(t)'
        BY <2>7, PhaseAtRest
      <3>7. QED
        BY <3>3, <3>5, <3>6 DEF Shared
    <2>8. Shared' /\ Phase(t)'
      BY <2>6, <2>7 DEF EndsWith
    <2>9. ASSUME NEW u \in Tab \ {t}
          PROVE  Phase(u)'
      <3>1. Recalls(u)' /\ page'[u] = page[u]
        BY <1>0, <2>2, <2>4 DEF Recalls
      <3>2. QED
        BY <2>1, <3>1, PhaseElsewhere
    <2>10. QED
      BY <2>8, <2>9 DEF Safe
  <1>3. CASE FinishCleanup(t)
    <2>1. /\ page[t].at = "finishing" /\ fallback' = {} /\ intent' = FALSE /\ knows' = {}
          /\ UNCHANGED <<creds, journal, registered, subscribed, config, posted, renewal,
                         gateway, pushers, flight, used, asked, undurable>>
      BY <1>3 DEF FinishCleanup, worker, servers, history
    <2>2. page'[t].at = "idle" /\ lock = t
      BY <1>0, <1>3, <2>1 DEF FinishCleanup, Idle, Holds, Cleaning
    <2>3. /\ creds = None /\ asked \intersect Capability = {}
          /\ journal = None /\ Off /\ ~subscribed
          /\ \A c \in fallback : gateway[c] = "revoked"
      BY <1>0, <2>1 DEF Phase, Cleans, Cleaning
    <2>4. Sets' = Sets
      BY <2>1 DEF Sets
    <2>5. Sets = {} /\ config = None
      BY <2>3 DEF Off
    <2>6. Shared'
      <3>1. Gone' /\ Fits' /\ Pends' /\ Saves' /\ Asks'
        BY <1>0, <2>1, <2>3, <2>4, <2>5 DEF Shared, Gone, Fits, Pends, Saves, Asks
      <3>2. None \notin used
        BY <1>0, NoneAssumption
      <3>3. Whole'
        BY <1>0, <2>1, <2>3, <2>5, <3>2 DEF Shared, Whole, Recorded
      <3>4. QED
        BY <3>1, <3>3 DEF Shared
    <2>7. Phase(t)'
      BY <2>2, PhaseAtRest
    <2>8. ASSUME NEW u \in Tab \ {t}
          PROVE  Phase(u)'
      <3>1. Recalls(u)' /\ page'[u] = page[u]
        BY <1>0, <2>1 DEF Recalls
      <3>2. QED
        BY <2>2, <3>1, PhaseElsewhere
    <2>9. QED
      BY <2>6, <2>7, <2>8 DEF Safe
  <1>4. QED
    BY <1>1, <1>2, <1>3

-----------------------------------------------------------------------------
(* The worker, the gateway and the homeserver *)

\* A step that records nothing and brings nothing back.
Eases ==
    /\ UNCHANGED <<creds, journal, fallback, intent, knows, asked, used, undurable>>
    /\ Sets' \subseteq Sets /\ Doomed' \subseteq Doomed
    /\ posted = <<>> => posted' = <<>>
    /\ Off => Off' /\ (~subscribed => ~subscribed')
    /\ registered' => registered
    /\ \A c \in Capability : gateway[c] = "revoked" => gateway'[c] = "revoked"
    /\ \A c \in Capability \ Doomed :
          /\ gateway[c] # "revoked" => gateway'[c] # "revoked"
          /\ c \in pushers => c \in pushers'
    /\ \/ config' = config
       \/ config' = None /\ posted # <<>>

LEMMA UndoneEases ==
    ASSUME Shapes, Eases, NEW j \in Journal, Undone(j)
    PROVE  /\ ~j.worker => Off'
           /\ ~j.subscription => ~subscribed' /\ ~j.worker
           /\ \A c \in j.targets \ j.gateway : gateway'[c] = "revoked"
  BY DEF Eases, Undone, Journal

LEMMA SharedEases ==
    ASSUME Shapes, Shared, Eases, Gone'
    PROVE  Shared'
  <1>1. Fits' /\ Saves' /\ Asks'
    BY DEF Shared, Eases, Fits, Saves, Asks
  <1>2. Pends'
    <2> SUFFICES ASSUME journal # None PROVE Pends'
      BY DEF Eases, Pends
    <2>1. journal \in Journal /\ Undone(journal)
      BY DEF Shapes, Shared, Pends
    <2>2. Undone(journal)'
      BY <2>1, UndoneEases DEF Undone, Eases
    <2>3. QED
      BY <2>2 DEF Shared, Eases, Pends
  <1>3. Whole'
    <2> SUFFICES ASSUME ~undurable PROVE Whole'
      BY DEF Eases, Whole
    <2>1. \A c \in used : (Recorded(c) \/ gateway[c] = "revoked")'
      BY DEF Shapes, Shared, Whole, Eases, Recorded
    <2>2. config' # None =>
              \/ creds' = config' \/ config' \in fallback'
              \/ journal' # None /\ journal'.primary \in {config', None}
      BY DEF Shared, Whole, Eases
    <2>3. ASSUME creds # None, journal = None, fallback = {}
          PROVE  Quiet(creds)' /\ config' = creds /\ creds \in pushers' /\ posted' = <<>>
      <3>1. /\ Quiet(creds) /\ config = creds /\ creds \in pushers /\ posted = <<>>
            /\ creds \in Capability
        BY <2>3 DEF Shapes, Stored, Shared, Whole
      <3>2. creds' = creds
        BY DEF Eases
      <3>3. QED
        BY <3>1, <3>2 DEF Eases, Quiet
    <2>4. QED
      BY <2>1, <2>2, <2>3 DEF Whole, Eases
  <1>4. QED
    BY <1>1, <1>2, <1>3 DEF Shared

LEMMA PhaseEases ==
    ASSUME Shapes, Holding, Eases, NEW u \in Tab, Phase(u),
           \/ page'[u] = page[u]
           \/ /\ page[u].at \in Configured \ {"committed", "rotated"}
              /\ page'[u].at \in Configured \ {"committed", "rotated"}
              /\ page'[u].at = "checking" => page[u].at = "checking" \/ page[u].cap \in pushers'
              /\ page'[u].cap = page[u].cap
    PROVE  Phase(u)'
  <1>0. page[u] \in Page /\ Holds(u)
    BY DEF Shapes, Holding
  <1>1. page[u].at \in Journaled => page[u].cap \in Capability
    BY <1>0 DEF Holds, Page, Stored
  <1>2. page[u].at \in Journaled /\ ~undurable => Quiet(page[u].cap) /\ Quiet(page[u].cap)'
    BY <1>1 DEF Eases, Phase, Enrols, Quiet
  <1>3. CASE page'[u] = page[u]
    <2>1. Recalls(u)' /\ Chooses(u)' /\ Strands(u)'
      BY <1>3 DEF Phase, Eases, Recalls, Chooses, Strands
    <2>2. Enrols(u)'
      <3>1. page[u].at \in Configured => posted' = <<>> /\ config' = page[u].cap
        BY DEF Phase, Enrols, Eases
      <3>2. page[u].at \in {"checking", "committed", "rotated"} =>
               undurable \/ page[u].cap \in pushers'
        BY <1>1, <1>2 DEF Phase, Enrols, Eases, Quiet, Journaled, Configured
      <3>3. /\ page[u].at \in Journaled =>
                  /\ journal # None /\ journal.primary = page[u].cap
                  /\ journal.gateway = {page[u].cap} /\ journal.targets = {page[u].cap}
                  /\ fallback = {} /\ knows \subseteq {u}
                  /\ creds = IF page[u].at \in {"committed", "rotated"} THEN page[u].cap ELSE None
            /\ page[u].at = "rotated" => knows = {}
        BY DEF Phase, Enrols
      <3>4. UNCHANGED <<creds, journal, fallback, knows, undurable>>
        BY DEF Eases
      <3>5. QED
        BY <1>2, <1>3, <3>1, <3>2, <3>3, <3>4 DEF Enrols
    <2>3. Cleans(u)'
      <3>1. page[u].at \in Cleaning => page[u].work \in Journal
        BY <1>0 DEF Holds, Page
      <3>2. ASSUME page[u].at \in {"cleaning", "unsubscribing"}
            PROVE  Undone(page[u].work)'
        <4>1. page[u].work \in Journal /\ Undone(page[u].work)
          BY <3>1, <3>2 DEF Phase, Cleans, Cleaning
        <4>2. QED
          BY <1>3, <4>1, UndoneEases DEF Undone
      <3>3. \A c \in journal.gateway : journal # None => c \in Capability
        BY DEF Shapes, Journal
      <3>4. QED
        BY <1>3, <3>2, <3>3 DEF Phase, Eases, Cleans, Shapes
    <2>4. QED
      BY <2>1, <2>2, <2>3 DEF Phase
  <1>4. CASE page'[u] # page[u]
    <2>1. Enrols(u)'
      BY <1>1, <1>2, <1>4 DEF Phase, Enrols, Eases, Quiet, Journaled, Configured
    <2>2. QED
      BY <1>4, <2>1 DEF Phase, Recalls, Chooses, Strands, Cleans, Choosing, Stranded,
          Cleaning, Configured
  <1>5. QED
    BY <1>3, <1>4

LEMMA PhaseWorksOff ==
    ASSUME Shapes, Holding, Eases, NEW t \in Tab, Phase(t), WorksOff(t),
           page'[t].work.worker = page[t].work.worker \/ Off',
           \A c \in page[t].work.gateway \ page'[t].work.gateway : gateway'[c] = "revoked"
    PROVE  Phase(t)'
  <1> DEFINE w == page[t].work
             v == page'[t].work
  <1>1. /\ w \in Journal /\ v \in Journal /\ v.primary = w.primary /\ v.targets = w.targets
        /\ v.subscription = w.subscription /\ (v.worker => w.worker)
        /\ page[t].at = "cleaning" /\ page'[t].at = "cleaning"
        /\ page'[t].orphan = page[t].orphan
    BY DEF WorksOff
  <1>2. /\ creds = None /\ asked \intersect Capability = {}
        /\ journal # None /\ journal.primary = w.primary
        /\ knows = {} /\ (page[t].orphan => ~registered)
        /\ fallback \subseteq w.targets /\ Undone(w)
        /\ \A c \in journal.gateway \ w.gateway : gateway[c] = "revoked"
    BY <1>1 DEF Phase, Cleans, Cleaning
  <1>3. /\ ~w.worker => Off'
        /\ ~w.subscription => ~subscribed' /\ ~w.worker
        /\ \A c \in w.targets \ w.gateway : gateway'[c] = "revoked"
    BY <1>1, <1>2, UndoneEases
  <1> HIDE DEF w
  <1>4. /\ ~v.worker => Off'
        /\ ~v.subscription => ~subscribed' /\ ~v.worker
        /\ \A c \in v.targets \ v.gateway : gateway'[c] = "revoked"
    BY <1>1, <1>3 DEF w
  <1>5. \A c \in journal.gateway \ v.gateway : gateway'[c] = "revoked"
    <2>1. journal.gateway \subseteq Capability
      BY <1>2 DEF Shapes, Journal
    <2>2. QED
      BY <1>2, <2>1 DEF Eases, w
  <1>6. UNCHANGED <<creds, journal, fallback, knows, asked>> /\ (registered' => registered)
    BY DEF Eases
  <1>7. Cleans(t)'
    BY <1>1, <1>2, <1>4, <1>5, <1>6 DEF Cleans, Cleaning, Undone, w
  <1>8. QED
    BY <1>1, <1>7 DEF Phase, Recalls, Chooses, Enrols, Strands, Choosing, Journaled, Configured,
       Stranded

\* The worker handles a message: its queue gets shorter.
LEMMA Handled ==
    ASSUME Shapes, SetConfig \/ ClearConfig
    PROVE  /\ posted # <<>> /\ posted[1] \in Message /\ Head(posted) = posted[1]
           /\ Sets' \subseteq Sets
           /\ posted[1].op = "set" => posted[1].cap \in Sets
           /\ Len(posted) = 1 => posted' = <<>> /\ Sets' = {}
           /\ Gone => registered
           /\ renewal = None
  <1>1. /\ posted \in Seq(Message) /\ posted # <<>> /\ posted' = Tail(posted)
        /\ renewal = None
    BY DEF Shapes, SetConfig, ClearConfig
  <1>2. /\ posted[1] \in Message /\ Head(posted) = posted[1] /\ posted' \in Seq(Message)
        /\ Len(posted') = Len(posted) - 1
    BY <1>1, PostedShrinks
  <1>3. Sets' \subseteq Sets /\ (posted[1].op = "set" => posted[1].cap \in Sets)
    BY <1>1, <1>2, SetsShrink DEF Message
  <1>4. Len(posted) = 1 => posted' = <<>> /\ Sets' = {}
    <2>1. posted' = <<>> => Sets' = {}
      BY EmptySeq DEF Sets
    <2>2. QED
      BY <1>2, <2>1, EmptySeq
  <1>5. QED
    BY <1>1, <1>2, <1>3, <1>4 DEF Gone

LEMMA SafeSetConfig ==
    ASSUME Shapes, Holding, Awaited, Drawn, Safe, SetConfig
    PROVE  Safe'
  <1>0. /\ page \in [Tab -> Page] /\ Shared /\ \A u \in Tab : Phase(u) /\ page[u] \in Page /\ Holds(u)
        /\ flight \subseteq Sent
    BY DEF Shapes, Holding, Safe
  <1> DEFINE c == posted[1].cap
  <1>1. /\ posted # <<>> /\ posted[1] \in Message /\ Head(posted) = posted[1]
        /\ Sets' \subseteq Sets /\ c \in Sets
        /\ Len(posted) = 1 => posted' = <<>>
        /\ registered /\ config' = c
    BY <1>0, Handled DEF SetConfig, Shared
  <1>2. /\ UNCHANGED <<creds, journal, fallback, intent, knows, lock, registered, subscribed,
                       renewal, gateway, pushers, used, asked, undurable>>
    BY DEF SetConfig, storage, history
  <1>3. ~Off /\ journal # None /\ journal.primary = c
    BY <1>0, <1>1 DEF Off, Shared, Fits
  <1>4. Doomed' = Doomed
    <2>1. flight' \subseteq flight \union {Request("post", c, posted[1].tab)} /\ flight \subseteq flight'
      BY <1>1 DEF SetConfig, Continue
    <2>2. QED
      BY <2>1 DEF Doomed, Request
  <1>5. \A j \in Journal : Undone(j) => Undone(j)'
    BY <1>2, <1>3 DEF Undone, Journal
  <1>6. Shared'
    <2>1. Gone' /\ Fits' /\ Saves' /\ Asks'
      BY <1>0, <1>1, <1>2, <1>3 DEF Shared, Gone, Fits, Saves, Asks
    <2>2. Pends'
      <3>1. journal \in Journal /\ Undone(journal)
        BY <1>0, <1>3 DEF Shapes, Shared, Pends
      <3>2. Undone(journal)'
        BY <1>2, <1>3, <3>1 DEF Undone, Journal
      <3>3. QED
        BY <1>0, <1>2, <3>2 DEF Shared, Pends
    <2>3. Whole'
      BY <1>0, <1>1, <1>2, <1>3 DEF Shared, Whole, Recorded
    <2>4. QED
      BY <2>1, <2>2, <2>3 DEF Shared
  <1>7. ASSUME NEW u \in Tab, page'[u] = page[u]
        PROVE  Phase(u)'
    <2>1. page[u].at \notin Configured \union {"finishing"}
      BY <1>0, <1>1, <1>3 DEF Phase, Enrols, Cleans
    <2>2. Recalls(u)' /\ Chooses(u)' /\ Strands(u)'
      BY <1>0, <1>2, <1>7 DEF Phase, Recalls, Chooses, Strands
    <2>3. Enrols(u)'
      BY <1>0, <1>2, <1>4, <1>7, <2>1 DEF Phase, Enrols, Quiet, Configured
    <2>4. Cleans(u)'
      <3>1. ASSUME page[u].at \in {"cleaning", "unsubscribing"}
            PROVE  Undone(page[u].work)'
        <4>1. page[u].work \in Journal /\ Undone(page[u].work)
          BY <1>0, <3>1 DEF Phase, Cleans, Cleaning, Holds, Page
        <4>2. QED
          BY <1>2, <1>3, <1>7, <4>1 DEF Undone, Journal
      <3>2. QED
        BY <1>0, <1>2, <1>7, <2>1, <3>1 DEF Phase, Cleans
    <2>5. QED
      BY <2>2, <2>3, <2>4 DEF Phase
  <1>8. ASSUME NEW t \in Tab, Len(posted) = 1, page[t].at = "configuring", c = page[t].cap,
               MovesTo(t, {"registering", "failing"})
        PROVE  Phase(t)'
    <2>1. CASE page'[t].at = "failing"
      BY <2>1, PhaseAtRest
    <2>2. CASE page'[t].at = "registering"
      <3>1. page'[t].cap = page[t].cap
        BY <1>8 DEF MovesTo
      <3>2. Enrols(t)'
        BY <1>0, <1>1, <1>2, <1>4, <1>8, <2>2, <3>1 DEF Phase, Enrols, Quiet, Journaled, Configured
      <3>3. QED
        BY <2>2, <3>2 DEF Phase, Recalls, Chooses, Strands, Cleans, Choosing, Stranded, Cleaning
    <2>3. QED
      BY <1>8, <2>1, <2>2 DEF MovesTo
  <1>9. posted[1].op = "set" /\ (SetConfig => ~ClearConfig)
    BY <1>1 DEF SetConfig, ClearConfig
  <1>10. CASE UNCHANGED page
    BY <1>6, <1>7, <1>10 DEF Safe
  <1>11. CASE \E t \in Tab : /\ Len(posted) = 1 /\ page[t].at = "configuring" /\ c = page[t].cap
                             /\ MovesTo(t, {"registering", "failing"})
    BY <1>6, <1>7, <1>8, <1>11 DEF Safe, MovesTo
  <1>12. QED
    BY <1>9, <1>10, <1>11, WorkerMoves DEF Worker

LEMMA SafeClearConfig ==
    ASSUME Shapes, Holding, Awaited, Drawn, Safe, ClearConfig
    PROVE  Safe'
  <1>0. /\ page \in [Tab -> Page] /\ Shared /\ \A u \in Tab : Phase(u) /\ page[u] \in Page /\ Holds(u)
        /\ creds \in Stored /\ used \subseteq Capability
    BY DEF Shapes, Holding, Safe
  <1> DEFINE c == posted[1].cap
  <1>1. /\ posted # <<>> /\ posted[1] \in Message /\ Head(posted) = posted[1]
        /\ Sets' \subseteq Sets
        /\ Len(posted) = 1 => posted' = <<>> /\ Sets' = {}
        /\ registered /\ renewal = None
    BY <1>0, Handled DEF Shared
  <1>2. /\ UNCHANGED <<journal, fallback, intent, knows, lock, registered,
                       renewal, gateway, pushers, flight, used, asked, undurable>>
        /\ config' = (IF Cleared(c) THEN None ELSE config)
        /\ (~subscribed => ~subscribed')
        /\ creds' \in {creds, Without(c)}
    BY <1>1 DEF ClearConfig, servers, history
  <1>3. Doomed' = Doomed
    BY <1>2 DEF Doomed
  <1>4. Off => Off'
    BY <1>1, <1>2 DEF Off
  <1>5. creds' = creds => Eases
    BY <1>1, <1>2, <1>3, <1>4 DEF Eases
  <1>6. Gone'
    BY <1>1, <1>2 DEF Gone
  <1>7. ASSUME NEW t \in Tab, page[t].at = "unconfiguring", c = page[t].cap,
               MovesTo(t, {"failing"})
        PROVE  Safe'
    <2>1. /\ lock = t /\ journal = None /\ creds \in {None, c}
          /\ undurable \/ c \in fallback
          /\ c # None
      BY <1>0, <1>7 DEF Holds, Phase, Strands, Stranded
    <2>2. creds' \in {None, creds}
      BY <1>2 DEF Without
    <2>3. Shared'
      <3>1. Fits' /\ Pends' /\ Saves' /\ Asks'
        BY <1>0, <1>1, <1>2, <2>1, <2>2 DEF Shared, Fits, Pends, Saves, Asks
      <3>2. None \notin used
        BY <1>0, NoneAssumption
      <3>3. Whole'
        BY <1>0, <1>2, <2>1, <2>2, <3>2 DEF Shared, Whole, Recorded
      <3>4. QED
        BY <1>6, <3>1, <3>3 DEF Shared
    <2>4. Phase(t)'
      BY <1>7, PhaseAtRest DEF MovesTo
    <2>5. ASSUME NEW u \in Tab \ {t}
          PROVE  Phase(u)'
      <3>1. Recalls(u)' /\ page'[u] = page[u]
        BY <1>0, <1>2, <1>7, <2>1, <2>2 DEF Phase, Recalls, MovesTo
      <3>2. QED
        BY <2>1, <3>1, PhaseElsewhere
    <2>6. QED
      BY <2>3, <2>4, <2>5 DEF Safe
  <1>8. CASE UNCHANGED page
    <2>1. creds' = creds
      <3> DEFINE t == posted[1].tab
      <3>1. SUFFICES ASSUME creds' # creds PROVE FALSE
        OBVIOUS
      <3>2. /\ t # NoTab /\ page[t].at = "unconfiguring" /\ Cleared(c)
            /\ page' = [page EXCEPT ![t].at = "failing"]
        BY <1>1, <3>1 DEF ClearConfig
      <3>3. t \in Tab
        BY <1>1, <3>2 DEF Message, Sender
      <3>4. page'[t].at = "failing"
        BY <1>0, <3>2, <3>3 DEF Page
      <3>5. QED
        BY <1>8, <3>2, <3>4
    <2>2. Eases
      BY <1>5, <2>1
    <2>3. Shared'
      BY <1>0, <1>6, <2>2, SharedEases
    <2>4. \A u \in Tab : Phase(u)'
      BY <1>0, <1>8, <2>2, PhaseEases
    <2>5. QED
      BY <2>3, <2>4 DEF Safe
  <1>9. ASSUME NEW t \in Tab, Len(posted) = 1, WorksOff(t), Cleared(c), posted[1].tab = t,
               page'[t].work.gateway = page[t].work.gateway
        PROVE  Safe'
    <2>1. creds' = creds
      BY <1>1, <1>9 DEF ClearConfig, WorksOff
    <2>2. Eases
      BY <1>5, <2>1
    <2>3. Off'
      BY <1>1, <1>2, <1>9 DEF Off
    <2>4. Shared'
      BY <1>0, <1>6, <2>2, SharedEases
    <2>5. Phase(t)'
      BY <1>0, <1>9, <2>2, <2>3, PhaseWorksOff
    <2>6. \A u \in Tab \ {t} : Phase(u)'
      BY <1>0, <1>9, <2>2, PhaseEases DEF WorksOff
    <2>7. QED
      BY <2>4, <2>5, <2>6 DEF Safe
  <1>10. ~SetConfig
    BY <1>1 DEF SetConfig, ClearConfig
  <1>11. QED
    BY <1>7, <1>8, <1>9, <1>10, WorkerMoves DEF Worker

LEMMA SafeBrowser ==
    ASSUME Shapes, Holding, Awaited, Drawn, Safe,
           SubscriptionChange \/ EndRenewal \/ WorkerDies \/ Unregister
    PROVE  Safe'
  <1>0. /\ Shared /\ \A u \in Tab : Phase(u)
        /\ gateway \in [Capability -> {"none", "pending", "active", "revoked"}]
        /\ registered \in BOOLEAN /\ posted \in Seq(Message)
    BY DEF Shapes, Safe
  <1>1. UNCHANGED <<page, creds, journal, fallback, intent, knows, asked, used, undurable,
                    config, pushers, flight>>
    BY DEF SubscriptionChange, EndRenewal, WorkerDies, Unregister, storage, servers, history
  <1>2. Doomed' = Doomed
    BY <1>1 DEF Doomed
  <1>3. posted' \in {posted, <<>>}
    BY DEF SubscriptionChange, EndRenewal, WorkerDies, Unregister
  <1>4. Sets' \subseteq Sets
    BY <1>3, EmptySeq DEF Sets
  <1>5. Gone'
    BY <1>0 DEF Shared, Gone, SubscriptionChange, EndRenewal, WorkerDies, Unregister
  <1>6. Off => Off'
    BY <1>1, <1>4 DEF Off, SubscriptionChange, EndRenewal, WorkerDies, Unregister
  <1>7. CASE SubscriptionChange \/ WorkerDies \/ Unregister
    <2>1. Eases
      BY <1>1, <1>2, <1>3, <1>4, <1>6, <1>7
      DEF Eases, SubscriptionChange, WorkerDies, Unregister, servers
    <2>2. Shared'
      BY <1>0, <1>5, <2>1, SharedEases
    <2>3. \A u \in Tab : Phase(u)'
      BY <1>0, <1>1, <2>1, PhaseEases
    <2>4. QED
      BY <2>2, <2>3 DEF Safe
  <1>8. CASE EndRenewal
    <2>1. /\ renewal # None /\ ~Off
          /\ UNCHANGED <<posted, registered>> /\ Sets' = Sets
      BY <1>8 DEF EndRenewal, Off, Sets
    <2>2. \A c \in Capability : gateway[c] = "revoked" <=> gateway'[c] = "revoked"
      BY <1>0, <1>8 DEF EndRenewal, Begun
    <2>3. \A c : Quiet(c) /\ c \in Capability => Quiet(c)'
      BY <1>2, <2>2 DEF Quiet
    <2>4. Shared'
      <3>1. Fits' /\ Saves' /\ Asks'
        BY <1>0, <1>1, <2>1 DEF Shared, Fits, Saves, Asks
      <3>2. Pends'
        <4> SUFFICES ASSUME journal # None PROVE Pends'
          BY <1>1 DEF Pends
        <4>1. journal \in Journal /\ Undone(journal)
          BY <1>0 DEF Shapes, Shared, Pends
        <4>2. Undone(journal)'
          BY <1>1, <2>1, <2>2, <4>1 DEF Undone, Journal
        <4>3. QED
          BY <1>0, <1>1, <4>2 DEF Shared, Pends
      <3>3. Whole'
        <4>1. used \subseteq Capability /\ creds \in Stored
          BY DEF Shapes
        <4>2. QED
          BY <1>0, <1>1, <1>2, <2>1, <2>2, <4>1 DEF Shared, Whole, Quiet, Recorded, Stored
      <3>4. QED
        BY <1>5, <3>1, <3>2, <3>3 DEF Shared
    <2>5. ASSUME NEW u \in Tab
          PROVE  Phase(u)'
      <3>1. Phase(u) /\ page[u] \in Page /\ Holds(u)
        BY <1>0 DEF Shapes, Holding
      <3>2. Recalls(u)' /\ Chooses(u)' /\ Strands(u)'
        BY <1>1, <3>1 DEF Phase, Recalls, Chooses, Strands
      <3>3. Enrols(u)'
        <4>1. page[u].at \in Journaled => page[u].cap \in Capability
          BY <3>1 DEF Holds, Page, Stored
        <4>2. QED
          BY <1>1, <1>2, <2>1, <2>2, <3>1, <4>1 DEF Phase, Enrols, Quiet
      <3>4. Cleans(u)'
        <4>1. ASSUME page[u].at \in {"cleaning", "unsubscribing"}
              PROVE  Undone(page[u].work)'
          <5>1. page[u].work \in Journal /\ Undone(page[u].work)
            BY <3>1, <4>1 DEF Phase, Cleans, Cleaning, Holds, Page
          <5>2. QED
            BY <1>1, <2>1, <2>2, <5>1 DEF Undone, Journal
        <4>2. page[u].at # "finishing"
          BY <2>1, <3>1 DEF Phase, Cleans
        <4>3. journal # None => journal.gateway \subseteq Capability
          BY DEF Shapes, Journal
        <4>4. QED
          BY <1>1, <2>1, <2>2, <3>1, <4>1, <4>2, <4>3 DEF Phase, Cleans
      <3>5. QED
        BY <3>2, <3>3, <3>4 DEF Phase
    <2>6. QED
      BY <2>4, <2>5 DEF Safe
  <1>9. QED
    BY <1>7, <1>8

LEMMA SafeServer ==
    ASSUME Shapes, Holding, Awaited, Drawn, Safe, Server
    PROVE  Safe'
  <1>0. /\ Shared /\ \A u \in Tab : Phase(u) /\ page[u] \in Page /\ Holds(u)
        /\ gateway \in [Capability -> {"none", "pending", "active", "revoked"}]
        /\ flight \subseteq Sent
    BY DEF Shapes, Holding, Safe
  <1>1. UNCHANGED <<creds, journal, fallback, intent, knows, asked, used, undurable,
                    registered, subscribed, config, posted, renewal>>
    <2>1. ASSUME NEW m \in flight,
                 ServePost(m) \/ ServeDelete(m) \/ ServeSetPusher(m) \/ ServeRemovePusher(m)
          PROVE  UNCHANGED <<creds, journal, fallback, intent, knows, asked, used, undurable,
                             registered, subscribed, config, posted, renewal>>
      BY <2>1 DEF ServePost, ServeDelete, ServeSetPusher, ServeRemovePusher, storage, worker, history
    <2>2. ASSUME NEW c \in Capability, Confirm(c)
          PROVE  UNCHANGED <<creds, journal, fallback, intent, knows, asked, used, undurable,
                             registered, subscribed, config, posted, renewal>>
      BY <2>2 DEF Confirm, storage, worker, history
    <2>3. QED
      BY <2>1, <2>2 DEF Server
  <1>2. Sets' = Sets /\ Off' = Off
    BY <1>1 DEF Sets, Off
  <1>3. Eases
    <2>1. ASSUME NEW c \in Capability, Confirm(c)
          PROVE  Eases
      <3>1. flight' = flight /\ pushers' = pushers
        BY <2>1 DEF Confirm
      <3>2. \A k \in Capability : gateway[k] = "revoked" <=> gateway'[k] = "revoked"
        BY <1>0, <2>1 DEF Confirm
      <3>3. QED
        BY <1>1, <1>2, <3>1, <3>2 DEF Eases, Doomed
    <2>2. ASSUME NEW m \in flight, ServePost(m) \/ ServeSetPusher(m)
          PROVE  Eases
      <3>1. flight' \subseteq flight \union {Request("setPusher", m.cap, m.tab)}
        BY <2>2 DEF ServePost, ServeSetPusher
      <3>2. Doomed' \subseteq Doomed
        BY <3>1 DEF Doomed, Request
      <3>3. \A k \in Capability : gateway[k] = "revoked" <=> gateway'[k] = "revoked"
        BY <1>0, <2>2 DEF ServePost, ServeSetPusher, Begun, Sent
      <3>4. pushers \subseteq pushers'
        BY <2>2 DEF ServePost, ServeSetPusher
      <3>5. QED
        BY <1>1, <1>2, <3>2, <3>3, <3>4 DEF Eases
    <2>3. ASSUME NEW m \in flight, ServeDelete(m) \/ ServeRemovePusher(m)
          PROVE  Eases
      <3>1. m.cap \in Doomed /\ m.cap \in Capability
        BY <1>0, <2>3 DEF ServeDelete, ServeRemovePusher, Doomed, Sent
      <3>2. flight' \subseteq flight
        BY <2>3 DEF ServeDelete, ServeRemovePusher
      <3>3. Doomed' \subseteq Doomed
        BY <3>2 DEF Doomed
      <3>4. /\ \A k \in Capability : gateway[k] = "revoked" => gateway'[k] = "revoked"
            /\ \A k \in Capability \ {m.cap} : gateway'[k] = gateway[k]
            /\ pushers \ {m.cap} \subseteq pushers'
        BY <1>0, <2>3, <3>1 DEF ServeDelete, ServeRemovePusher
      <3>5. QED
        BY <1>1, <1>2, <3>1, <3>3, <3>4 DEF Eases
    <2>4. QED
      BY <2>1, <2>2, <2>3 DEF Server
  <1>4. Shared'
    <2>1. Gone'
      BY <1>0, <1>1 DEF Shared, Gone
    <2>2. QED
      BY <1>0, <1>3, <2>1, SharedEases
  <1>5. ASSUME NEW u \in Tab, page'[u] = page[u]
        PROVE  Phase(u)'
    BY <1>0, <1>3, <1>5, PhaseEases
  <1>6. ASSUME NEW t \in Tab, MovesTo(t, {"pushing", "confirming", "checking", "failing"}),
               page[t].at \in {"registering", "reregistering", "pushing"},
               page'[t].at = "checking" => page[t].cap \in pushers'
        PROVE  Phase(t)'
    <2>1. CASE page'[t].at = "failing"
      BY <2>1, PhaseAtRest
    <2>2. CASE page'[t].at # "failing"
      <3>1. /\ page[t].at \in Configured \ {"committed", "rotated"}
            /\ page'[t].at \in Configured \ {"committed", "rotated"}
            /\ page'[t].cap = page[t].cap
        BY <1>6, <2>2 DEF MovesTo, Configured
      <3>2. QED
        BY <1>0, <1>3, <1>6, <3>1, PhaseEases
    <2>3. QED
      BY <2>1, <2>2
  <1>7. ASSUME NEW m \in flight, NEW t \in Tab, WorksOff(t),
               page'[t].work.worker = page[t].work.worker,
               \/ page'[t].work.gateway = page[t].work.gateway
               \/ /\ ServeDelete(m)
                  /\ page'[t].work.gateway = page[t].work.gateway \ {m.cap}
        PROVE  Phase(t)'
    <2>1. ServeDelete(m) => gateway'[m.cap] = "revoked"
      BY <1>0 DEF ServeDelete, Sent
    <2>2. \A c \in page[t].work.gateway \ page'[t].work.gateway : gateway'[c] = "revoked"
      BY <1>7, <2>1
    <2>3. QED
      BY <1>0, <1>3, <1>7, <2>2, PhaseWorksOff
  <1>8. ASSUME NEW m \in flight, ServeSetPusher(m)
        PROVE  m.cap \in pushers'
    BY <1>8 DEF ServeSetPusher
  <1>9. ASSUME NEW t \in Tab, Phase(t)', \A u \in Tab \ {t} : page'[u] = page[u]
        PROVE  Safe'
    BY <1>4, <1>5, <1>9 DEF Safe
  <1>10. ASSUME NEW m \in flight, NEW t \in Tab,
                \/ /\ ServePost(m) /\ page[t].at \in {"registering", "reregistering"}
                   /\ m.cap = page[t].cap
                   /\ MovesTo(t, {"pushing", "confirming", "failing"})
                \/ /\ ServeSetPusher(m) /\ page[t].at = "pushing"
                   /\ m.cap = page[t].cap
                   /\ MovesTo(t, {"checking", "failing"})
         PROVE  Safe'
    BY <1>6, <1>8, <1>9, <1>10 DEF MovesTo
  <1>11. ASSUME NEW m \in flight, NEW t \in Tab, WorksOff(t),
                page'[t].work.worker = page[t].work.worker,
                \/ page'[t].work.gateway = page[t].work.gateway
                \/ /\ ServeDelete(m)
                   /\ page'[t].work.gateway = page[t].work.gateway \ {m.cap}
         PROVE  Safe'
    BY <1>7, <1>9, <1>11 DEF WorksOff
  <1>12. CASE UNCHANGED page
    BY <1>4, <1>5, <1>12 DEF Safe
  <1>13. QED
    BY <1>10, <1>11, <1>12, ServerMoves

-----------------------------------------------------------------------------
(* Theorems *)

IInv == Shapes /\ Holding /\ Awaited /\ Drawn /\ Safe

LEMMA IInvInit == Init => IInv
  BY ShapesInit, HoldingInit, AwaitedInit, DrawnInit, SafeInit DEF IInv

LEMMA IInvStays ==
    ASSUME IInv, UNCHANGED vars
    PROVE  IInv'
  <1> USE DEF vars, storage, worker, servers, history
  <1>1. Shapes' /\ Holding' /\ Awaited'
    BY DEF IInv, Shapes, Holding, Holds, Awaited
  <1>2. Sets' = Sets /\ Doomed' = Doomed
    BY DEF Sets, Doomed
  <1>3. Drawn'
    BY <1>2 DEF IInv, Drawn, UsedBy
  <1>4. Calm /\ Asks'
    BY <1>2 DEF Calm, IInv, Safe, Shared, Asks
  <1>5. Shared' /\ \A u \in Tab : Phase(u)'
    <2>1. Shared'
      BY <1>4, SharedKept DEF IInv, Safe
    <2>2. ASSUME NEW u \in Tab
          PROVE  Phase(u)'
      BY <1>4, PhaseKept DEF IInv, Safe
    <2>3. QED
      BY <2>1, <2>2
  <1>6. QED
    BY <1>1, <1>3, <1>5 DEF IInv, Safe

LEMMA IInvStep ==
    ASSUME IInv, [Next]_vars
    PROVE  IInv'
  <1>1. ASSUME NEW t \in Tab, Window(t)
        PROVE  IInv'
    <2>1. Shapes' /\ Holding' /\ Awaited' /\ Drawn'
      BY <1>1, ShapesWindow, HoldingWindow, AwaitedWindow, DrawnWindow DEF IInv
    <2>2. Safe'
      BY <1>1, SafeCalm, SafeEnrols, SafeQueues, SafeStrands, SafeBegins, SafeCleans
      DEF IInv, Window
    <2>3. QED
      BY <2>1, <2>2 DEF IInv
  <1>2. CASE Worker \/ Server
    <2>1. Shapes'
      BY <1>2, ShapesWorker, ShapesServer DEF IInv
    <2>2. Holding' /\ Awaited' /\ Drawn'
      BY <1>2, HoldingElsewhere, AwaitedElsewhere, DrawnElsewhere DEF IInv
    <2>3. Safe'
      BY <1>2, SafeSetConfig, SafeClearConfig, SafeBrowser, SafeServer DEF IInv, Worker
    <2>4. QED
      BY <2>1, <2>2, <2>3 DEF IInv
  <1>3. CASE UNCHANGED vars
    BY <1>3, IInvStays
  <1>4. QED
    BY <1>1, <1>2, <1>3 DEF Next

LEMMA Invariance == Spec => []IInv
  <1>1. Init => IInv
    BY IInvInit
  <1>2. IInv /\ [Next]_vars => IInv'
    BY IInvStep
  <1>3. QED
    BY <1>1, <1>2, PTL DEF Spec

(* The types hold, and whatever the windows share, from the subscription   *)
(* to the commit and all through a cleanup, is only changed by the holder  *)
(* of the lock.                                                            *)
THEOREM TypeCorrect == Spec => []TypeOK
  <1>1. IInv => TypeOK
    <2> SUFFICES ASSUME IInv PROVE TypeOK
      OBVIOUS
    <2>1. ASSUME NEW t \in Tab
          PROVE  /\ page[t].at \in Places /\ page[t].work \in Journal \union {None}
                 /\ (page[t].at \in Cleaning \/ page[t].at \in Enrolling \ {"asked"})
                       => lock = t
      BY DEF IInv, Shapes, Page, Holding, Holds, Choosing, Journaled, Configured, Stranded,
             Cleaning, Enrolling
    <2>2. QED
      BY <2>1 DEF IInv, Shapes, TypeOK, Places
  <1>2. QED
    BY <1>1, Invariance, PTL

(* Whatever is live, a registration at the gateway, a pusher it still      *)
(* serves or a configuration of the worker, is known to somebody who can   *)
(* end it, whichever windows die or give up, and whatever they sent still  *)
(* arrives.                                                                *)
THEOREM LiveIsRecorded == Spec => []CapabilityRecorded
  <1>1. IInv => CapabilityRecorded
    <2> SUFFICES ASSUME IInv, ~undurable PROVE CapabilityRecorded
      BY DEF CapabilityRecorded
    <2>1. /\ Whole /\ pushers \subseteq used
          /\ \A c \in Capability \ used : gateway[c] = "none"
      BY DEF IInv, Safe, Shared, Drawn
    <2>2. ASSUME NEW c \in Capability,
                 \/ gateway[c] \in {"pending", "active"}
                 \/ c \in pushers /\ gateway[c] # "revoked"
          PROVE  Recorded(c)
      BY <2>1, <2>2 DEF Whole
    <2>3. QED
      BY <2>1, <2>2 DEF CapabilityRecorded, Whole
  <1>2. QED
    BY <1>1, Invariance, PTL

(* A cleanup that reports that it is complete left nothing: no             *)
(* credentials, no configuration, no subscription and no registration,     *)
(* even though what earlier windows sent may still arrive.                 *)
THEOREM CleanupIsComplete == Spec => []CleanupLeavesNothing
  <1>1. IInv => CleanupLeavesNothing
    <2> SUFFICES ASSUME IInv, NEW t \in Tab, page[t].at = "finishing", ~undurable
                 PROVE  /\ creds = None /\ config = None /\ ~subscribed
                        /\ \A c \in Capability : gateway[c] \in {"none", "revoked"}
      BY DEF CleanupLeavesNothing
    <2>1. /\ creds = None /\ journal = None /\ Off /\ ~subscribed
          /\ \A c \in fallback : gateway[c] = "revoked"
      BY DEF IInv, Safe, Phase, Cleans, Cleaning
    <2>2. ASSUME NEW c \in Capability
          PROVE  gateway[c] \in {"none", "revoked"}
      <3>1. c \notin used => gateway[c] = "none"
        BY DEF IInv, Drawn
      <3>2. c \in used => Recorded(c) \/ gateway[c] = "revoked"
        BY DEF IInv, Safe, Shared, Whole
      <3>3. c # None
        BY NoneAssumption
      <3>4. QED
        BY <2>1, <3>1, <3>2, <3>3 DEF Recorded
    <2>3. QED
      BY <2>1, <2>2 DEF Off
  <1>2. QED
    BY <1>1, Invariance, PTL

(* Notifications that are on are on everywhere: the worker has the same    *)
(* capability, the homeserver pushes to it and the gateway has not revoked *)
(* it, and nothing that would is on its way.                               *)
THEOREM EnrolmentIsWhole == Spec => []EnrolledIsWhole
  <1>1. IInv => EnrolledIsWhole
    BY DEF IInv, Safe, Shared, Whole, EnrolledIsWhole, PendingCleanup, Quiet
  <1>2. QED
    BY <1>1, Invariance, PTL

(* A setup or an enrolment from before a recorded request to clean up does *)
(* not outlive it: the request stands until the credentials are gone.      *)
THEOREM RequestStands == Spec => []SignOutSticks
  <1>1. IInv => SignOutSticks
    <2> SUFFICES ASSUME IInv, creds \in asked PROVE intent
      BY DEF SignOutSticks
    <2>1. creds \in Stored /\ asked \subseteq Tab \union Capability /\ Asks
      BY DEF IInv, Shapes, Safe, Shared
    <2>2. creds \in Capability
      BY <2>1, NoneAssumption, TabAssumption DEF Stored
    <2>3. QED
      BY <2>1, <2>2 DEF Asks
  <1>2. QED
    BY <1>1, Invariance, PTL
=============================================================================
