-------------------------- MODULE PushWorkerProofs --------------------------
(***************************************************************************)
(* Theorems about PushWorker, for every set of accounts and any number of  *)
(* pushes handled at the same time.                                        *)
(*                                                                         *)
(* The inductive invariant IInv has five parts.  Shapes: the types.        *)
(* Lined: each operation of a handler in the queue is the one its handler  *)
(* waits for, and each waiting handler has one.  Informs: what a handler   *)
(* knows.  Relies: what the running operation has read is still stored,    *)
(* unless a page deleted the database meanwhile.  Owed: whatever is shown, *)
(* or counted by the badge, for another configuration than the stored one  *)
(* is going to be dismissed, by the operation that runs or by the handler  *)
(* that has shown it.                                                      *)
(***************************************************************************)
EXTENDS PushWorker, FiniteSetTheorems, TLAPS

\* What a push handler can show something for, or set a badge for.
Current == {c \in Config : c.form # "legacy"}

Names == {"set", "clear", "migrate", "dismiss", "renew", "show", "badge", "stale"}
Operation ==
    {o \in [op : Names, config : MaybeConfig, push : Push \union {None}] :
        /\ o.op \in {"show", "badge", "stale"} <=> o.push # None
        /\ o.op \in {"set", "clear", "migrate"} => o.config \in Config
        /\ o.op = "migrate" => o.config.form = "canonical"}

Shapes ==
    /\ config \in MaybeConfig /\ read \in MaybeConfig
    /\ queue \in Seq(Operation)
    /\ push \in [Push -> Handler]
    /\ shown \in [Tag -> Current \union {None}] /\ badge \in Current \union {None}
    /\ interrupted \in BOOLEAN
    /\ queue = <<>> => step = "start"

(* The queue q and the handlers h fit: an operation of a handler is the    *)
(* one it waits for, and pages never push the queue beyond the bound.      *)
Line(q, h) ==
    /\ \A i \in 1..Len(q) :
          IF q[i].push = None THEN i <= MaxPosted
          ELSE /\ h[q[i].push].at \in Waiting
               /\ q[i].op = AwaitedBy[h[q[i].push].at]
    /\ \A i, j \in 1..Len(q) : q[i].push = q[j].push => i = j \/ q[i].push = None
    /\ \A p \in Push : h[p].at \in Waiting => \E i \in 1..Len(q) : q[i].push = p

Lined == Line(queue, push)

Informed == {"checking", "pinging", "closing"} \union Waiting

Informs ==
    \A p \in Push :
       /\ push[p].at \in Informed => push[p].config \in Current
       /\ push[p].at = "showing" => push[p].kind # "ping"

-----------------------------------------------------------------------------
LEMMA ShrinkFacts ==
    ASSUME NEW S, NEW q \in Seq(S), q # <<>>
    PROVE  /\ Tail(q) \in Seq(S) /\ Len(q) \in Nat /\ Len(q) > 0
           /\ Len(Tail(q)) = Len(q) - 1 /\ Head(q) = q[1] /\ Head(q) \in S
           /\ \A i \in 1..Len(q) - 1 : Tail(q)[i] = q[i + 1]
  OBVIOUS

LEMMA GrowFacts ==
    ASSUME NEW S, NEW q \in Seq(S), NEW o \in S
    PROVE  /\ Append(q, o) \in Seq(S) /\ Len(q) \in Nat
           /\ Append(q, o) # <<>> /\ Len(Append(q, o)) = Len(q) + 1
           /\ \A i \in 1..Len(q) : Append(q, o)[i] = q[i]
           /\ Append(q, o)[Len(q) + 1] = o
           /\ q # <<>> => Head(Append(q, o)) = Head(q)
  <1>1. /\ Append(q, o) \in Seq(S) /\ Len(q) \in Nat
        /\ Len(Append(q, o)) = Len(q) + 1
        /\ \A i \in 1..Len(q) : Append(q, o)[i] = q[i]
        /\ Append(q, o)[Len(q) + 1] = o
    OBVIOUS
  <1>2. Append(q, o) # <<>> /\ Head(Append(q, o)) = Append(q, o)[1]
    BY <1>1
  <1>3. q # <<>> => 1 \in 1..Len(q) /\ Head(q) = q[1]
    OBVIOUS
  <1>4. QED
    BY <1>1, <1>2, <1>3

(* The operation at the head ends, and its handler no longer waits.        *)
LEMMA LineShrinks ==
    ASSUME NEW q \in Seq(Operation), q # <<>>,
           NEW h \in [Push -> Handler], NEW k \in [Push -> Handler],
           Line(q, h),
           \A p \in Push : p # Head(q).push => k[p].at = h[p].at,
           Head(q).push # None => k[Head(q).push].at \notin Waiting
    PROVE  Line(Tail(q), k)
  <1>1. /\ Tail(q) \in Seq(Operation) /\ Len(q) \in Nat /\ Len(q) > 0
        /\ Len(Tail(q)) = Len(q) - 1 /\ Head(q) = q[1] /\ Head(q) \in Operation
        /\ \A i \in 1..Len(q) - 1 : Tail(q)[i] = q[i + 1]
    BY ShrinkFacts
  <1>2. \A i \in 1..Len(q) : q[i] \in Operation
    OBVIOUS
  <1>3. \A i \in 1..Len(q) : q[i].push \in Push \union {None}
    BY <1>2 DEF Operation
  <1>4. ASSUME NEW i \in 1..Len(Tail(q))
        PROVE  IF Tail(q)[i].push = None THEN i <= MaxPosted
               ELSE /\ k[Tail(q)[i].push].at \in Waiting
                    /\ Tail(q)[i].op = AwaitedBy[k[Tail(q)[i].push].at]
    <2>1. i + 1 \in 1..Len(q) /\ 1 \in 1..Len(q) /\ i + 1 # 1 /\ Tail(q)[i] = q[i + 1]
      BY <1>1
    <2>2. CASE q[i + 1].push = None
      <3>1. i + 1 <= MaxPosted
        BY <2>1, <2>2 DEF Line
      <3>2. QED
        BY <2>1, <2>2, <3>1, BoundAssumption
    <2>3. CASE q[i + 1].push # None
      <3>1. q[i + 1].push # Head(q).push
        BY <1>1, <2>1, <2>3 DEF Line
      <3>2. k[q[i + 1].push].at = h[q[i + 1].push].at
        BY <1>3, <2>1, <2>3, <3>1
      <3>3. QED
        BY <2>1, <2>3, <3>2 DEF Line
    <2>4. QED
      BY <2>2, <2>3
  <1>5. ASSUME NEW i \in 1..Len(Tail(q)), NEW j \in 1..Len(Tail(q)),
               Tail(q)[i].push = Tail(q)[j].push
        PROVE  i = j \/ Tail(q)[i].push = None
    <2>1. i + 1 \in 1..Len(q) /\ j + 1 \in 1..Len(q)
          /\ Tail(q)[i] = q[i + 1] /\ Tail(q)[j] = q[j + 1]
      BY <1>1
    <2>2. i + 1 = j + 1 \/ q[i + 1].push = None
      BY <1>5, <2>1 DEF Line
    <2>3. QED
      BY <1>1, <2>1, <2>2
  <1>6. ASSUME NEW p \in Push, k[p].at \in Waiting
        PROVE  \E i \in 1..Len(Tail(q)) : Tail(q)[i].push = p
    <2>1. p # Head(q).push
      BY <1>6, NoneAssumption
    <2>2. PICK i \in 1..Len(q) : q[i].push = p
      BY <1>6, <2>1 DEF Line
    <2>3. i # 1 /\ i - 1 \in 1..Len(Tail(q)) /\ Tail(q)[i - 1] = q[i]
      BY <1>1, <2>1, <2>2
    <2>4. QED
      BY <2>2, <2>3
  <1>7. QED
    BY <1>4, <1>5, <1>6 DEF Line

(* A page posts an operation, or a handler queues the one it will wait for. *)
LEMMA LineGrows ==
    ASSUME NEW q \in Seq(Operation), NEW o \in Operation,
           NEW h \in [Push -> Handler], NEW k \in [Push -> Handler],
           Line(q, h),
           \A p \in Push : p # o.push => k[p].at = h[p].at,
           o.push = None => Len(q) < MaxPosted,
           o.push # None => /\ h[o.push].at \notin Waiting
                            /\ k[o.push].at \in Waiting
                            /\ o.op = AwaitedBy[k[o.push].at]
    PROVE  Line(Append(q, o), k)
  <1> DEFINE r == Append(q, o)
  <1>1. /\ Len(q) \in Nat /\ Len(r) = Len(q) + 1
        /\ \A i \in 1..Len(q) : r[i] = q[i]
        /\ r[Len(q) + 1] = o
    BY GrowFacts
  <1>2. \A i \in 1..Len(q) : q[i] \in Operation
    OBVIOUS
  <1>3. /\ \A i \in 1..Len(q) : q[i].push \in Push \union {None}
        /\ o.push \in Push \union {None}
    BY <1>2 DEF Operation
  <1> HIDE DEF r
  <1>4. ASSUME NEW i \in 1..Len(q), q[i].push # None
        PROVE  q[i].push # o.push /\ k[q[i].push].at = h[q[i].push].at
    <2>1. h[q[i].push].at \in Waiting
      BY <1>4 DEF Line
    <2>2. q[i].push # o.push
      BY <1>4, <2>1
    <2>3. QED
      BY <1>3, <1>4, <2>2
  <1>5. ASSUME NEW i \in 1..Len(r)
        PROVE  IF r[i].push = None THEN i <= MaxPosted
               ELSE k[r[i].push].at \in Waiting /\ r[i].op = AwaitedBy[k[r[i].push].at]
    <2>1. CASE i \in 1..Len(q)
      BY <1>1, <1>4, <2>1 DEF Line
    <2>2. CASE i = Len(q) + 1
      BY <1>1, <2>2, BoundAssumption
    <2>3. QED
      BY <1>1, <2>1, <2>2
  <1>6. ASSUME NEW i \in 1..Len(r), NEW j \in 1..Len(r), r[i].push = r[j].push
        PROVE  i = j \/ r[i].push = None
    <2>1. CASE i \in 1..Len(q) /\ j \in 1..Len(q)
      BY <1>1, <1>6, <2>1 DEF Line
    <2>2. CASE i = Len(q) + 1 /\ j = Len(q) + 1
      BY <2>2
    <2>3. CASE i = Len(q) + 1 /\ j \in 1..Len(q)
      BY <1>1, <1>4, <1>6, <2>3
    <2>4. CASE j = Len(q) + 1 /\ i \in 1..Len(q)
      BY <1>1, <1>4, <1>6, <2>4
    <2>5. QED
      BY <1>1, <2>1, <2>2, <2>3, <2>4
  <1>7. ASSUME NEW p \in Push, k[p].at \in Waiting
        PROVE  \E i \in 1..Len(r) : r[i].push = p
    <2>1. CASE p = o.push
      <3>1. Len(q) + 1 \in 1..Len(r)
        BY <1>1
      <3>2. QED
        BY <1>1, <2>1, <3>1
    <2>2. CASE p # o.push
      <3>1. PICK i \in 1..Len(q) : q[i].push = p
        BY <1>7, <2>2 DEF Line
      <3>2. i \in 1..Len(r) /\ r[i].push = p
        BY <1>1, <3>1
      <3>3. QED
        BY <3>2
    <2>3. QED
      BY <2>1, <2>2
  <1>8. Line(r, k)
    BY <1>5, <1>6, <1>7 DEF Line
  <1>9. QED
    BY <1>8 DEF r

(* Handlers that do not wait, before or after, do not matter to the line.  *)
LEMMA LineStays ==
    ASSUME NEW q \in Seq(Operation),
           NEW h \in [Push -> Handler], NEW k \in [Push -> Handler],
           Line(q, h),
           \A p \in Push : k[p].at = h[p].at \/ {k[p].at, h[p].at} \intersect Waiting = {}
    PROVE  Line(q, k)
  <1>1. \A i \in 1..Len(q) : q[i] \in Operation
    OBVIOUS
  <1>2. \A i \in 1..Len(q) : q[i].push \in Push \union {None}
    BY <1>1 DEF Operation
  <1>3. QED
    BY <1>2 DEF Line

-----------------------------------------------------------------------------
LEMMA InformedConfigs ==
    /\ None \notin Config /\ None \notin Push
    /\ Current \subseteq Config
    /\ \A c \in Config : /\ c.cap \in Capability /\ c.form \in {"own", "legacy", "canonical"}
                         /\ c = [cap |-> c.cap, form |-> c.form]
                         /\ c.form # "own" => c.cap \in Legacy
  <1>1. ASSUME NEW c \in Config
        PROVE  /\ c.cap \in Capability /\ c.form \in {"own", "legacy", "canonical"}
               /\ c = [cap |-> c.cap, form |-> c.form]
               /\ c.form # "own" => c.cap \in Legacy
               /\ c \in [cap : Capability, form : {"own", "legacy", "canonical"}]
    BY LegacyAssumption DEF Config
  <1>2. QED
    BY <1>1, NoneAssumption DEF Current

LEMMA FormGiven ==
    ASSUME read \in Config, read.form = "legacy"
    PROVE  Migrated \in Current
  <1>1. read.cap \in Legacy /\ read = [cap |-> read.cap, form |-> read.form]
    BY InformedConfigs
  <1>2. Migrated = [cap |-> read.cap, form |-> "canonical"]
    BY <1>1 DEF Migrated
  <1>3. QED
    BY <1>1, <1>2 DEF Current, Config

(* What the operation at the head is for.                                  *)
LEMMA HeadFacts ==
    ASSUME Shapes, Lined, queue # <<>>
    PROVE  /\ Head(queue) \in Operation /\ Tail(queue) \in Seq(Operation)
           /\ Head(queue).op \in Names /\ Head(queue).push \in Push \union {None}
           /\ Head(queue).op \in {"set", "clear", "migrate"} => Head(queue).config \in Config
           /\ Head(queue).op = "migrate" => Head(queue).config.form = "canonical"
           /\ Head(queue).push # None <=> Head(queue).op \in {"show", "badge", "stale"}
           /\ Head(queue).push # None =>
                /\ Head(queue).push \in Push
                /\ push[Head(queue).push].at \in Waiting
                /\ Head(queue).op = AwaitedBy[push[Head(queue).push].at]
           /\ Head(queue).op = "show" => push[Head(queue).push].at = "showing"
           /\ Head(queue).op = "badge" => push[Head(queue).push].at = "badging"
           /\ Head(queue).op = "stale" => push[Head(queue).push].at = "cleaning"
  <1>1. /\ Tail(queue) \in Seq(Operation) /\ Len(queue) \in Nat /\ Len(queue) > 0
        /\ Head(queue) = queue[1] /\ Head(queue) \in Operation
    BY ShrinkFacts DEF Shapes
  <1>2. /\ Head(queue).op \in Names /\ Head(queue).push \in Push \union {None}
        /\ Head(queue).op \in {"set", "clear", "migrate"} => Head(queue).config \in Config
        /\ Head(queue).op = "migrate" => Head(queue).config.form = "canonical"
        /\ Head(queue).push # None <=> Head(queue).op \in {"show", "badge", "stale"}
    BY <1>1 DEF Operation
  <1>3. Head(queue).push # None =>
           /\ Head(queue).push \in Push
           /\ push[Head(queue).push].at \in Waiting
           /\ Head(queue).op = AwaitedBy[push[Head(queue).push].at]
    BY <1>1, <1>2 DEF Lined, Line
  <1>4. \A w \in Waiting : AwaitedBy[w] = CASE w = "showing" -> "show"
                                            [] w = "badging" -> "badge"
                                            [] w = "cleaning" -> "stale"
    BY DEF Waiting, AwaitedBy
  <1>5. Head(queue).push # None =>
           /\ Head(queue).op = "show" => push[Head(queue).push].at = "showing"
           /\ Head(queue).op = "badge" => push[Head(queue).push].at = "badging"
           /\ Head(queue).op = "stale" => push[Head(queue).push].at = "cleaning"
    BY <1>3, <1>4 DEF Waiting
  <1>6. QED
    BY <1>1, <1>2, <1>3, <1>5

(* The bound on the queue that the types state.                            *)
LEMMA QueueBounded ==
    ASSUME Shapes, Lined
    PROVE  Len(queue) <= MaxPosted + Cardinality(Push)
  <1> DEFINE n == Len(queue)
             rest == (MaxPosted + 1)..n
             owner == [i \in rest |-> queue[i].push]
  <1>1. n \in Nat /\ MaxPosted \in Nat /\ Cardinality(Push) \in Nat
    BY PushAssumption, BoundAssumption, FS_CardinalityType DEF Shapes
  <1>2. CASE n <= MaxPosted
    BY <1>1, <1>2
  <1>3. CASE n > MaxPosted
    <2>1. rest \subseteq 1..n
      BY <1>1
    <2>2. ASSUME NEW i \in rest
          PROVE  queue[i].push \in Push
      <3>1. i \in 1..n /\ i > MaxPosted
        BY <1>1
      <3>2. queue[i] \in Operation
        BY <3>1 DEF Shapes
      <3>3. queue[i].push \in Push \union {None}
        BY <3>2 DEF Operation
      <3>4. queue[i].push # None
        BY <1>1, <3>1 DEF Lined, Line
      <3>5. QED
        BY <3>3, <3>4
    <2>3. owner \in [rest -> Push]
      BY <2>2
    <2>4. ASSUME NEW i \in rest, NEW j \in rest, owner[i] = owner[j]
          PROVE  i = j
      <3>1. queue[i].push = queue[j].push /\ queue[i].push # None
        BY <2>2, <2>4, NoneAssumption
      <3>2. QED
        BY <2>1, <3>1 DEF Lined, Line
    <2>5. owner \in Injection(rest, Push)
      BY <2>3, <2>4 DEF Injection, IsInjective
    <2>6. Cardinality(rest) <= Cardinality(Push)
      BY <2>5, FS_Injection, PushAssumption
    <2>7. Cardinality(rest) = n - MaxPosted
      <3>1. MaxPosted + 1 \in Int /\ n \in Int /\ MaxPosted + 1 <= n
        BY <1>1, <1>3
      <3>2. Cardinality(rest) = n - (MaxPosted + 1) + 1
        BY <3>1, FS_Interval
      <3>3. QED
        BY <1>1, <3>2
    <2>8. QED
      BY <1>1, <2>6, <2>7
  <1>4. QED
    BY <1>1, <1>2, <1>3

-----------------------------------------------------------------------------
(* Steps by what they do to the queue and to the handlers.                 *)

\* A step inside the running operation.
Inside == queue # <<>> /\ UNCHANGED <<queue, push>>

\* The running operation ends, and with it its handler's wait.
Over ==
    /\ queue # <<>>
    /\ queue' = Tail(queue) /\ step' = "start" /\ read' = None
    /\ push' \in [Push -> Handler]
    /\ \A p \in Push : p # Head(queue).push => push'[p] = push[p]
    /\ Head(queue).push # None => push'[Head(queue).push].at \notin Waiting

\* A handler or a page puts an operation into the queue.
Put(o) ==
    /\ o \in Operation
    /\ queue' = Append(queue, o) /\ UNCHANGED step
    /\ push' \in [Push -> Handler]
    /\ \A p \in Push : p # o.push => push'[p] = push[p]
    /\ o.push = None => Len(queue) < MaxPosted
    /\ o.push # None => /\ push[o.push].at \notin Waiting
                        /\ push'[o.push].at \in Waiting
                        /\ o.op = AwaitedBy[push'[o.push].at]

\* A handler goes on by itself.
Alone(p) ==
    /\ UNCHANGED <<queue, step>>
    /\ push' \in [Push -> Handler]
    /\ \A q \in Push : q # p => push'[q] = push[q]
    /\ push[p].at \notin Waiting /\ push'[p].at \notin Waiting

LEMMA LinedKept ==
    ASSUME Shapes, Lined,
           \/ Inside \/ Over
           \/ \E o \in Operation : Put(o)
           \/ \E p \in Push : Alone(p)
           \/ UNCHANGED <<queue, push>>
    PROVE  Lined'
  <1>1. queue \in Seq(Operation) /\ push \in [Push -> Handler]
    BY DEF Shapes
  <1>2. CASE Inside \/ UNCHANGED <<queue, push>>
    BY <1>2 DEF Inside, Lined
  <1>3. CASE Over
    <2>1. \A p \in Push : p # Head(queue).push => push'[p].at = push[p].at
      BY <1>3 DEF Over
    <2>2. Line(Tail(queue), push')
      BY <1>1, <1>3, <2>1, LineShrinks DEF Over, Lined
    <2>3. QED
      BY <1>3, <2>2 DEF Over, Lined
  <1>4. ASSUME NEW o \in Operation, Put(o)
        PROVE  Lined'
    <2>1. \A p \in Push : p # o.push => push'[p].at = push[p].at
      BY <1>4 DEF Put
    <2>2. Line(Append(queue, o), push')
      BY <1>1, <1>4, <2>1, LineGrows DEF Put, Lined
    <2>3. QED
      BY <1>4, <2>2 DEF Put, Lined
  <1>5. ASSUME NEW p \in Push, Alone(p)
        PROVE  Lined'
    <2>1. \A q \in Push : push'[q].at = push[q].at
                           \/ {push'[q].at, push[q].at} \intersect Waiting = {}
      BY <1>5 DEF Alone
    <2>2. Line(queue, push')
      BY <1>1, <1>5, <2>1, LineStays DEF Alone, Lined
    <2>3. QED
      BY <1>5, <2>2 DEF Alone, Lined
  <1>6. QED
    BY <1>2, <1>3, <1>4, <1>5

-----------------------------------------------------------------------------
(* What the running operation may rely on while nothing else changes the   *)
(* configuration, except a page that deletes the database.                 *)
Relies ==
    /\ At("set", "write") => config \in {read, None}
    /\ At("migrate", "migrate") \/ At("renew", "migrate") =>
          read \in Config /\ read.form = "legacy" /\ config \in {read, None}
    /\ At("show", "show") \/ At("badge", "badge") \/ At("badge", "recheck") =>
          config \in {Owner, None}
    /\ At("badge", "recheck") => badge \in {Owner, None}
    /\ At("clear", "dismiss") \/ At("clear", "unbadge") => config = None
    /\ At("clear", "unbadge") => \A t \in Tag : shown[t] = None

\* The handler p has shown what is under t, and looks at it again.
Follows(p, t) ==
    /\ push[p].at \in {"badging", "closing", "cleaning"} /\ push[p].kind # "ping"
    /\ push[p].config = shown[t] /\ TagOf(p) = t

Dismissing(t) ==
    \/ At("set", "dismiss") /\ read = shown[t]
    \/ At("clear", "dismiss")
    \/ \E p \in Push : Follows(p, t)

Unbadging ==
    \/ At("set", "dismiss") \/ At("set", "unbadge")
    \/ At("clear", "dismiss") \/ At("clear", "unbadge")
    \/ At("badge", "recheck")

(* What is shown for another configuration than the stored one is going to *)
(* be dismissed by somebody.                                               *)
Owed ==
    ~interrupted =>
        /\ \A t \in Tag : shown[t] \notin {None, config} => Dismissing(t)
        /\ badge \notin {None, config} => Unbadging

IInv == Shapes /\ Lined /\ Informs /\ Relies /\ Owed

LEMMA IInvInit == Init => IInv
  <1> SUFFICES ASSUME Init PROVE IInv
    OBVIOUS
  <1>1. None \in MaybeConfig /\ \A h \in {"seen", "unseen", "lost"} : Done(h) \in Handler
    BY DEF MaybeConfig, Done, Handler, Settled, Kind
  <1>2. queue = <<>> /\ queue \in Seq(Operation) /\ Len(queue) = 0
    BY DEF Init
  <1>3. /\ push \in [Push -> Handler] /\ shown \in [Tag -> Current \union {None}]
        /\ \A p \in Push : push[p].at = "seen"
    BY <1>1 DEF Init, Done
  <1>4. Shapes
    BY <1>1, <1>2, <1>3 DEF Init, Shapes
  <1>5. Lined
    BY <1>2, <1>3 DEF Lined, Line, Waiting
  <1>6. Informs
    BY <1>3 DEF Informs, Informed, Waiting
  <1>7. Relies
    BY <1>2 DEF Relies, At
  <1>8. Owed
    BY DEF Init, Owed
  <1>9. QED
    BY <1>4, <1>5, <1>6, <1>7, <1>8 DEF IInv

-----------------------------------------------------------------------------
\* Handler p goes to s and keeps what it knows.
Goes(p, s) ==
    /\ push' \in [Push -> Handler]
    /\ \A q \in Push : q # p => push'[q] = push[q]
    /\ push'[p].at = s
    /\ push'[p].kind = push[p].kind /\ push'[p].config = push[p].config

\* Handler p is done.
Ended(p) ==
    /\ push' \in [Push -> Handler]
    /\ \A q \in Push : q # p => push'[q] = push[q]
    /\ push'[p].at \in Settled

LEMMA Going ==
    ASSUME Shapes, NEW p \in Push, NEW s \in Handling \union Settled,
           \/ push' = [push EXCEPT ![p].at = s]
           \/ push' = [push EXCEPT ![p].displayed = TRUE, ![p].at = s]
    PROVE  Goes(p, s)
  <1>1. push \in [Push -> Handler] /\ push[p] \in Handler
    BY DEF Shapes
  <1>2. /\ [push[p] EXCEPT !.at = s] \in Handler
        /\ [push[p] EXCEPT !.displayed = TRUE, !.at = s] \in Handler
    BY <1>1 DEF Handler
  <1>3. CASE push' = [push EXCEPT ![p].at = s]
    <2>1. push' = [push EXCEPT ![p] = [push[p] EXCEPT !.at = s]]
      BY <1>1, <1>3
    <2>2. push' \in [Push -> Handler] /\ push'[p] = [push[p] EXCEPT !.at = s]
      BY <1>1, <1>2, <2>1
    <2>3. QED
      BY <1>1, <2>1, <2>2 DEF Goes, Handler
  <1>4. CASE push' = [push EXCEPT ![p].displayed = TRUE, ![p].at = s]
    <2>1. push' = [push EXCEPT ![p] = [push[p] EXCEPT !.displayed = TRUE, !.at = s]]
      BY <1>1, <1>4
    <2>2. push' \in [Push -> Handler] /\ push'[p] = [push[p] EXCEPT !.displayed = TRUE, !.at = s]
      BY <1>1, <1>2, <2>1
    <2>3. QED
      BY <1>1, <2>1, <2>2 DEF Goes, Handler
  <1>5. QED
    BY <1>3, <1>4

LEMMA Ending ==
    ASSUME Shapes, NEW p \in Push,
           \/ Settle(p)
           \/ push' = [push EXCEPT ![p] = Done("seen")]
    PROVE  Ended(p)
  <1>1. push \in [Push -> Handler]
    BY DEF Shapes
  <1>2. /\ Done("seen") \in Handler /\ Done("unseen") \in Handler
        /\ Done("seen").at = "seen" /\ Done("unseen").at = "unseen"
    BY DEF Done, Handler, Settled, Kind, MaybeConfig
  <1>3. PICK d \in {Done("seen"), Done("unseen")} : push' = [push EXCEPT ![p] = d]
    BY DEF Settle
  <1>4. QED
    BY <1>1, <1>2, <1>3 DEF Ended, Settled

LEMMA InformsGoes ==
    ASSUME Informs, NEW p \in Push, NEW s, Goes(p, s),
           s \in Informed => push[p].config \in Current,
           s = "showing" => push[p].kind # "ping"
    PROVE  Informs'
  BY DEF Informs, Goes

LEMMA InformsEnded ==
    ASSUME Informs, NEW p \in Push, Ended(p)
    PROVE  Informs'
  BY DEF Informs, Ended, Settled, Informed, Waiting

LEMMA InformsStays ==
    ASSUME Informs, UNCHANGED push
    PROVE  Informs'
  BY DEF Informs

\* At the start of an operation nothing is relied on.
LEMMA ReliesAtStart ==
    ASSUME step' = "start"
    PROVE  Relies'
  BY DEF Relies, At

\* What is put into the queue does not change what runs.
LEMMA HeadKept ==
    ASSUME Shapes, queue # <<>>, UNCHANGED queue \/ \E o \in Operation : queue' = Append(queue, o)
    PROVE  queue' # <<>> /\ Head(queue') = Head(queue)
  <1>1. ASSUME NEW o \in Operation, queue' = Append(queue, o)
        PROVE  queue' # <<>> /\ Head(queue') = Head(queue)
    BY <1>1, GrowFacts DEF Shapes
  <1>2. QED
    BY <1>1

LEMMA AtKept ==
    ASSUME Shapes, UNCHANGED step,
           UNCHANGED queue \/ \E o \in Operation : queue' = Append(queue, o),
           NEW name, NEW s, s # "start"
    PROVE  At(name, s)' <=> At(name, s)
  <1>1. CASE queue = <<>>
    BY <1>1 DEF At, Shapes
  <1>2. CASE queue # <<>>
    BY <1>2, HeadKept DEF At
  <1>3. QED
    BY <1>1, <1>2

(* What a handler that does not wait does is nothing to the running        *)
(* operation.                                                              *)
LEMMA ReliesKept ==
    ASSUME Shapes, Lined, Relies, UNCHANGED <<config, step, read, visible>>,
           UNCHANGED queue \/ \E o \in Operation : queue' = Append(queue, o),
           \A q \in Push : push[q].at \in Waiting => push'[q] = push[q]
    PROVE  Relies'
  <1>1. \A name, s : s # "start" => (At(name, s)' <=> At(name, s))
    BY AtKept
  <1>2. ASSUME queue # <<>>, Head(queue).op \in {"show", "badge"}
        PROVE  Owner' = Owner
    <2>1. Head(queue).push \in Push /\ push[Head(queue).push].at \in Waiting
      BY <1>2, HeadFacts
    <2>2. Head(queue') = Head(queue)
      BY <1>2, HeadKept
    <2>3. QED
      BY <2>1, <2>2 DEF Owner
  <1>3. At("show", "show") \/ At("badge", "badge") \/ At("badge", "recheck") => Owner' = Owner
    BY <1>2 DEF At
  <1>4. /\ "show" # "start" /\ "badge" # "start" /\ "recheck" # "start" /\ "write" # "start"
        /\ "migrate" # "start" /\ "dismiss" # "start" /\ "unbadge" # "start"
    OBVIOUS
  <1>5. /\ At("set", "write")' <=> At("set", "write")
        /\ At("migrate", "migrate")' <=> At("migrate", "migrate")
        /\ At("renew", "migrate")' <=> At("renew", "migrate")
        /\ At("show", "show")' <=> At("show", "show")
        /\ At("badge", "badge")' <=> At("badge", "badge")
        /\ At("badge", "recheck")' <=> At("badge", "recheck")
        /\ At("clear", "dismiss")' <=> At("clear", "dismiss")
        /\ At("clear", "unbadge")' <=> At("clear", "unbadge")
    BY <1>1, <1>4
  <1>6. config' = config /\ read' = read /\ badge' = badge /\ shown' = shown
    BY DEF visible
  <1>7. QED
    BY <1>3, <1>5, <1>6 DEF Relies

(* A follower stays one while it waits or goes from one wait to the next.  *)
LEMMA FollowsStays ==
    ASSUME NEW p \in Push, NEW t \in Tag, Follows(p, t), shown'[t] = shown[t],
           push'[p].at \in {"badging", "closing", "cleaning"},
           push'[p].kind = push[p].kind, push'[p].config = push[p].config
    PROVE  Follows(p, t)'
  BY DEF Follows, TagOf

LEMMA OwedKept ==
    ASSUME Shapes, Owed, UNCHANGED <<config, step, read, visible>>,
           interrupted' \/ ~interrupted,
           UNCHANGED queue \/ \E o \in Operation : queue' = Append(queue, o),
           \A p \in Push, t \in Tag :
              Follows(p, t) /\ shown[t] # config => interrupted' \/ Follows(p, t)'
    PROVE  Owed'
  <1>1. \A name, s : s # "start" => (At(name, s)' <=> At(name, s))
    BY AtKept
  <1>2. "recheck" # "start" /\ "dismiss" # "start" /\ "unbadge" # "start"
    OBVIOUS
  <1>3. /\ At("set", "dismiss")' <=> At("set", "dismiss")
        /\ At("set", "unbadge")' <=> At("set", "unbadge")
        /\ At("clear", "dismiss")' <=> At("clear", "dismiss")
        /\ At("clear", "unbadge")' <=> At("clear", "unbadge")
        /\ At("badge", "recheck")' <=> At("badge", "recheck")
    BY <1>1, <1>2
  <1>4. config' = config /\ read' = read /\ badge' = badge /\ shown' = shown
    BY DEF visible
  <1>5. Unbadging' <=> Unbadging
    BY <1>3 DEF Unbadging
  <1>6. ASSUME ~interrupted', NEW t \in Tag, shown[t] # config, Dismissing(t)
        PROVE  Dismissing(t)'
    BY <1>3, <1>4, <1>6 DEF Dismissing
  <1>7. QED
    BY <1>4, <1>5, <1>6 DEF Owed

-----------------------------------------------------------------------------
(* A step of a handler that queues nothing.                                *)
LEMMA HandlerAlone ==
    ASSUME IInv, NEW p \in Push, UNCHANGED <<config, queue, running, visible>>,
           push[p].at \notin Waiting,
           interrupted' = interrupted \/ interrupted' = TRUE,
           interrupted' \/ push[p].at # "closing" \/ push[p].config = config,
           \/ Ended(p)
           \/ /\ push' \in [Push -> Handler] /\ push'[p].at \notin Waiting
              /\ \A q \in Push : q # p => push'[q] = push[q]
              /\ push'[p].at \in Informed => push'[p].config \in Current
    PROVE  IInv'
  <1>1. /\ push' \in [Push -> Handler] /\ push'[p].at \notin Waiting
        /\ \A q \in Push : q # p => push'[q] = push[q]
    BY DEF Ended, Settled, Waiting
  <1>2. Shapes'
    BY <1>1 DEF IInv, Shapes, running, visible
  <1>3. Alone(p)
    BY <1>1 DEF Alone, running
  <1>4. Lined'
    BY <1>3, LinedKept DEF IInv
  <1>5. Informs'
    <2>1. push'[p].at # "showing"
      BY <1>1 DEF Waiting
    <2>2. push'[p].at \in Informed => push'[p].config \in Current
      BY DEF Ended, Settled, Informed, Waiting
    <2>3. QED
      BY <1>1, <2>1, <2>2 DEF IInv, Informs
  <1>6. \A q \in Push : push[q].at \in Waiting => push'[q] = push[q]
    BY <1>1
  <1>7. Relies'
    BY <1>6, ReliesKept DEF IInv, running
  <1>8. ASSUME NEW q \in Push, NEW t \in Tag, Follows(q, t), shown[t] # config, ~interrupted'
        PROVE  Follows(q, t)'
    <2>1. CASE q = p
      BY <1>8, <2>1 DEF Follows, Waiting
    <2>2. CASE q # p
      <3>1. push'[q] = push[q] /\ shown' = shown
        BY <1>1, <2>2 DEF visible
      <3>2. QED
        BY <1>8, <3>1, FollowsStays DEF Follows
    <2>3. QED
      BY <2>1, <2>2
  <1>9. Owed'
    <2>1. interrupted' \/ ~interrupted \/ Owed'
      BY DEF Owed
    <2>2. UNCHANGED <<config, step, read, visible>> /\ UNCHANGED queue
      BY DEF running
    <2>3. QED
      BY <1>8, <2>1, <2>2, OwedKept DEF IInv
  <1>10. QED
    BY <1>2, <1>4, <1>5, <1>7, <1>9 DEF IInv

(* A handler puts into the queue what it then waits for.                   *)
LEMMA HandlerPuts ==
    ASSUME IInv, NEW p \in Push, NEW w \in Waiting,
           UNCHANGED <<config, running, visible, interrupted>>,
           push[p].at \in {"checking", "pinging", "closing"},
           Goes(p, w), Queue(Op(AwaitedBy[w], None, p)),
           w = "showing" => push[p].kind # "ping",
           push[p].at = "closing" => w = "cleaning"
    PROVE  IInv'
  <1> DEFINE o == Op(AwaitedBy[w], None, p)
  <1>1. AwaitedBy[w] \in {"show", "badge", "stale"}
    BY DEF AwaitedBy, Waiting
  <1>2. o.op = AwaitedBy[w] /\ o.push = p /\ o.config = None
        /\ o \in [op : Names, config : MaybeConfig, push : Push \union {None}]
    BY <1>1 DEF Op, Names, MaybeConfig
  <1>3. o \in Operation /\ o.push # None
    BY <1>1, <1>2, NoneAssumption DEF Operation
  <1>4. queue' = Append(queue, o)
    BY DEF Queue
  <1> HIDE DEF o
  <1>5. push[p].at \notin Waiting
    BY DEF Waiting
  <1>6. Put(o)
    BY <1>2, <1>3, <1>4, <1>5 DEF Put, Goes, running
  <1>7. Shapes'
    <2>1. queue' \in Seq(Operation) /\ queue' # <<>>
      BY <1>3, <1>4, GrowFacts DEF IInv, Shapes
    <2>2. QED
      BY <2>1 DEF IInv, Shapes, running, visible, Goes
  <1>8. Lined'
    BY <1>3, <1>6, LinedKept DEF IInv
  <1>9. Informs'
    <2>1. push[p].config \in Current
      BY DEF IInv, Informs, Informed
    <2>2. QED
      BY <2>1, InformsGoes DEF IInv
  <1>10. \A q \in Push : push[q].at \in Waiting => push'[q] = push[q]
    BY <1>5 DEF Goes
  <1>11. Relies'
    BY <1>3, <1>4, <1>10, ReliesKept DEF IInv, running
  <1>12. ASSUME NEW q \in Push, NEW t \in Tag, Follows(q, t)
         PROVE  Follows(q, t)'
    <2>1. shown' = shown
      BY DEF visible
    <2>2. CASE q = p
      <3>1. push'[p].at = "cleaning" /\ push'[p].kind = push[p].kind
            /\ push'[p].config = push[p].config
        BY <1>12, <2>2 DEF Follows, Goes
      <3>2. QED
        BY <1>12, <2>1, <2>2, <3>1, FollowsStays
    <2>3. CASE q # p
      <3>1. push'[q] = push[q]
        BY <2>3 DEF Goes
      <3>2. QED
        BY <1>12, <2>1, <3>1, FollowsStays DEF Follows
    <2>4. QED
      BY <2>2, <2>3
  <1>13. Owed'
    <2>1. UNCHANGED <<config, step, read, visible>> /\ (interrupted' \/ ~interrupted \/ Owed')
      BY DEF running, Owed
    <2>2. QED
      BY <1>3, <1>4, <1>12, <2>1, OwedKept DEF IInv
  <1>14. QED
    BY <1>7, <1>8, <1>9, <1>11, <1>13 DEF IInv

LEMMA IInvHandle ==
    ASSUME IInv, NEW p \in Push, Handle(p) \/ Receive(p)
    PROVE  IInv'
  <1>1. /\ Shapes /\ push \in [Push -> Handler] /\ push[p] \in Handler
        /\ Waiting \subseteq Handling
        /\ None \in MaybeConfig /\ Config \subseteq MaybeConfig
    BY DEF IInv, Shapes, Handling, MaybeConfig
  <1>2. /\ "setup" \notin Waiting /\ "matching" \notin Waiting /\ "reading" \notin Waiting
        /\ "checking" \notin Waiting /\ "fallback" \notin Waiting /\ "pinging" \notin Waiting
        /\ "closing" \notin Waiting
        /\ "setup" \notin Informed /\ "matching" \notin Informed /\ "reading" \notin Informed
        /\ "fallback" \notin Informed
        /\ {"setup", "matching", "reading", "checking", "fallback", "pinging", "closing"}
              \subseteq Handling
        /\ "showing" \in Waiting /\ "badging" \in Waiting /\ "cleaning" \in Waiting
        /\ AwaitedBy["showing"] = "show" /\ AwaitedBy["badging"] = "badge"
        /\ AwaitedBy["cleaning"] = "stale"
    BY DEF Waiting, Informed, Handling, AwaitedBy
  <1>3. CASE Receive(p)
    <2>1. PICK kind \in Kind :
             push' = [push EXCEPT ![p] =
                         [at |-> IF kind = "challenge" THEN "setup" ELSE "reading",
                          kind |-> kind, config |-> None, displayed |-> FALSE]]
      BY <1>3 DEF Receive
    <2>2. PICK s \in {"setup", "reading"} :
             push' = [push EXCEPT ![p] = [at |-> s, kind |-> kind, config |-> None,
                                          displayed |-> FALSE]]
      BY <2>1
    <2>3. [at |-> s, kind |-> kind, config |-> None, displayed |-> FALSE] \in Handler
      BY <1>1, <1>2 DEF Handler
    <2>4. /\ push' \in [Push -> Handler] /\ push'[p].at = s
          /\ \A q \in Push : q # p => push'[q] = push[q]
      BY <1>1, <2>2, <2>3
    <2>5. push[p].at \notin Waiting /\ push[p].at # "closing"
      BY <1>3 DEF Receive, Settled, Waiting
    <2>6. UNCHANGED <<config, queue, running, visible>> /\ interrupted' = interrupted
      BY <1>3 DEF Receive
    <2>7. QED
      BY <1>2, <2>4, <2>5, <2>6, HandlerAlone
  <1>4. CASE ShowSetup(p)
    <2>1. Goes(p, "matching")
      BY <1>1, <1>2, <1>4, Going DEF ShowSetup
    <2>2. QED
      BY <1>2, <1>4, <2>1, HandlerAlone DEF ShowSetup, Goes
  <1>5. CASE Confirm(p) \/ Fallback(p)
    <2>1. Ended(p)
      BY <1>1, <1>5, Ending DEF Confirm, Fallback
    <2>2. QED
      BY <1>2, <1>5, <2>1, HandlerAlone DEF Confirm, Fallback
  <1>6. CASE ReadConfig(p)
    <2>1. CASE config = None \/ config.form = "legacy"
      <3>1. Goes(p, "fallback")
        BY <1>1, <1>2, <1>6, <2>1, Going DEF ReadConfig
      <3>2. QED
        BY <1>2, <1>6, <3>1, HandlerAlone DEF ReadConfig, Goes
    <2>2. CASE ~(config = None \/ config.form = "legacy")
      <3>1. push' = [push EXCEPT ![p].at = "checking", ![p].config = config]
        BY <1>6, <2>2 DEF ReadConfig
      <3>2. push' = [push EXCEPT ![p] = [push[p] EXCEPT !.at = "checking", !.config = config]]
        BY <1>1, <3>1
      <3>3. config \in Current /\ config \in MaybeConfig
        BY <1>1, <2>2 DEF IInv, Shapes, MaybeConfig, Current
      <3>4. [push[p] EXCEPT !.at = "checking", !.config = config] \in Handler
        BY <1>1, <1>2, <3>3 DEF Handler
      <3>5. /\ push' \in [Push -> Handler]
            /\ push'[p] = [push[p] EXCEPT !.at = "checking", !.config = config]
            /\ \A q \in Push : q # p => push'[q] = push[q]
        BY <1>1, <3>2, <3>4
      <3>6. push'[p].at = "checking" /\ push'[p].config = config
        BY <1>1, <3>5 DEF Handler
      <3>7. UNCHANGED <<config, queue, running, visible, interrupted>>
        BY <1>6 DEF ReadConfig
      <3>8. QED
        <4>1. push[p].at \notin Waiting /\ push[p].at # "closing" /\ "checking" \notin Waiting
          BY <1>6 DEF ReadConfig, Waiting
        <4>2. QED
          BY <1>1, <3>3, <3>5, <3>6, <3>7, <4>1, HandlerAlone
    <2>3. QED
      BY <2>1, <2>2
  <1>7. CASE ReadFails(p)
    <2>1. Goes(p, "fallback")
      BY <1>1, <1>2, <1>7, Going DEF ReadFails, Go
    <2>2. QED
      BY <1>2, <1>7, <2>1, HandlerAlone DEF ReadFails, Goes
  <1>8. CASE CheckOwner(p)
    <2>1. /\ push[p].at = "checking"
          /\ UNCHANGED <<config, running, visible, interrupted>>
          /\ \/ Go(p, "fallback") /\ UNCHANGED queue
             \/ push[p].kind = "ping" /\ Go(p, "pinging") /\ UNCHANGED queue
             \/ push[p].kind # "ping" /\ Go(p, "showing") /\ Queue(Op("show", None, p))
      BY <1>8 DEF CheckOwner
    <2>2. CASE Go(p, "fallback") /\ UNCHANGED queue
      <3>1. Goes(p, "fallback")
        BY <1>1, <1>2, <2>2, Going DEF Go
      <3>2. QED
        BY <1>2, <2>1, <2>2, <3>1, HandlerAlone DEF Goes
    <2>3. CASE push[p].kind = "ping" /\ Go(p, "pinging") /\ UNCHANGED queue
      <3>1. Goes(p, "pinging")
        BY <1>1, <1>2, <2>3, Going DEF Go
      <3>2. push[p].config \in Current
        BY <2>1 DEF IInv, Informs, Informed
      <3>3. QED
        BY <1>2, <2>1, <2>3, <3>1, <3>2, HandlerAlone DEF Goes
    <2>4. CASE push[p].kind # "ping" /\ Go(p, "showing") /\ Queue(Op("show", None, p))
      <3>1. Goes(p, "showing")
        BY <1>1, <1>2, <2>4, Going DEF Go
      <3>2. QED
        BY <1>2, <2>1, <2>4, <3>1, HandlerPuts
    <2>5. QED
      BY <2>1, <2>2, <2>3, <2>4
  <1>9. CASE Ping(p)
    <2>1. Goes(p, "badging")
      BY <1>1, <1>2, <1>9, Going DEF Ping
    <2>2. QED
      BY <1>2, <1>9, <2>1, HandlerPuts DEF Ping
  <1>10. CASE Close(p)
    <2>1. CASE config = push[p].config
      <3>1. Ended(p)
        BY <1>1, <1>10, <2>1, Ending DEF Close
      <3>2. QED
        BY <1>2, <1>10, <2>1, <3>1, HandlerAlone DEF Close
    <2>2. CASE config # push[p].config
      <3>1. Goes(p, "cleaning")
        BY <1>1, <1>2, <1>10, <2>2, Going DEF Close, Go
      <3>2. QED
        BY <1>2, <1>10, <2>2, <3>1, HandlerPuts DEF Close
    <2>3. QED
      BY <2>1, <2>2
  <1>11. CASE CloseFails(p)
    <2>1. Ended(p)
      BY <1>1, <1>11, Ending DEF CloseFails
    <2>2. QED
      BY <1>2, <1>11, <2>1, HandlerAlone DEF CloseFails
  <1>12. QED
    BY <1>3, <1>4, <1>5, <1>6, <1>7, <1>8, <1>9, <1>10, <1>11 DEF Handle

LEMMA IInvPost ==
    ASSUME IInv, Post
    PROVE  IInv'
  <1>1. PICK o \in Operation : queue' = Append(queue, o) /\ o.push = None
    <2>1. \A c \in Config : /\ Op("set", c, None) \in Operation
                            /\ Op("clear", c, None) \in Operation
                            /\ c.form = "canonical" => Op("migrate", c, None) \in Operation
      BY DEF Op, Operation, Names, MaybeConfig
    <2>2. Op("dismiss", None, None) \in Operation /\ Op("renew", None, None) \in Operation
      BY DEF Op, Operation, Names, MaybeConfig
    <2>3. \A name, c : Op(name, c, None).push = None
      BY DEF Op
    <2>4. \E o \in Operation : queue' = Append(queue, o) /\ o.push = None
      BY <2>1, <2>2, <2>3 DEF Post, Queue
    <2>5. QED
      BY <2>4
  <1>2. /\ Len(queue) < MaxPosted
        /\ UNCHANGED <<config, step, read, push, visible, interrupted>>
    BY DEF Post, running
  <1>3. queue' \in Seq(Operation) /\ queue' # <<>>
    BY <1>1, GrowFacts DEF IInv, Shapes
  <1>4. Shapes'
    BY <1>2, <1>3 DEF IInv, Shapes, visible
  <1>5. Put(o)
    BY <1>1, <1>2 DEF Put, IInv, Shapes
  <1>6. Lined'
    BY <1>5, LinedKept DEF IInv
  <1>7. Informs'
    BY <1>2, InformsStays DEF IInv
  <1>8. Relies'
    BY <1>1, <1>2, ReliesKept DEF IInv
  <1>9. \A p \in Push, t \in Tag : Follows(p, t)' <=> Follows(p, t)
    BY <1>2 DEF Follows, TagOf, visible
  <1>10. Owed'
    <2>1. interrupted' \/ ~interrupted \/ Owed'
      BY <1>2 DEF Owed
    <2>2. QED
      BY <1>1, <1>2, <1>9, <2>1, OwedKept DEF IInv
  <1>11. QED
    BY <1>4, <1>6, <1>7, <1>8, <1>10 DEF IInv

LEMMA IInvUnregister ==
    ASSUME IInv, Unregister
    PROVE  IInv'
  <1>1. /\ config' = None /\ badge' = None /\ shown' = [t \in Tag |-> None]
        /\ UNCHANGED <<queue, step, read, push, interrupted>>
    BY DEF Unregister, running
  <1>2. Shapes'
    BY <1>1 DEF IInv, Shapes, MaybeConfig
  <1>3. Lined' /\ Informs'
    BY <1>1 DEF IInv, Lined, Informs
  <1>4. Relies'
    BY <1>1 DEF IInv, Relies, At
  <1>5. Owed'
    BY <1>1 DEF Owed
  <1>6. QED
    BY <1>2, <1>3, <1>4, <1>5 DEF IInv

LEMMA IInvTerminate ==
    ASSUME IInv, Terminate
    PROVE  IInv'
  <1>1. /\ queue' = <<>> /\ step' = "start" /\ read' = None /\ interrupted' = TRUE
        /\ UNCHANGED <<config, visible>>
        /\ push' = [p \in Push |-> IF push[p].at \in Handling THEN Done("lost") ELSE push[p]]
    BY DEF Terminate
  <1>2. Done("lost") \in Handler /\ Done("lost").at = "lost"
    BY DEF Done, Handler, Settled, Kind, MaybeConfig
  <1>3. push' \in [Push -> Handler] /\ \A p \in Push : push'[p].at \in Settled
    BY <1>1, <1>2 DEF IInv, Shapes, Settled, Handler
  <1>4. Shapes'
    BY <1>1, <1>3 DEF IInv, Shapes, visible, MaybeConfig
  <1>5. Len(queue') = 0
    BY <1>1
  <1>6. Lined'
    BY <1>3, <1>5 DEF Lined, Line, Waiting, Settled
  <1>7. Informs'
    BY <1>3 DEF Informs, Informed, Waiting, Settled
  <1>8. Relies' /\ Owed'
    BY <1>1, ReliesAtStart DEF Owed
  <1>9. QED
    BY <1>4, <1>6, <1>7, <1>8 DEF IInv

LEMMA IInvClick ==
    ASSUME IInv, NEW t \in Tag, Click(t)
    PROVE  IInv'
  <1>1. /\ UNCHANGED <<config, queue, step, read, push, badge, interrupted>>
        /\ shown' = [shown EXCEPT ![t] = None]
    BY DEF Click, running
  <1>2. \A u \in Tag : shown'[u] \in {None, shown[u]}
    BY <1>1 DEF IInv, Shapes
  <1>3. Shapes'
    BY <1>1 DEF IInv, Shapes
  <1>4. Lined' /\ Informs'
    BY <1>1 DEF IInv, Lined, Informs
  <1>5. \A name, s : At(name, s)' <=> At(name, s)
    BY <1>1 DEF At
  <1>6. Relies'
    BY <1>1, <1>2, <1>5 DEF IInv, Relies, Owner
  <1>7. ASSUME NEW u \in Tag, shown'[u] = shown[u], Dismissing(u)
        PROVE  Dismissing(u)'
    BY <1>1, <1>5, <1>7 DEF Dismissing, Follows, TagOf
  <1>8. Unbadging' <=> Unbadging
    BY <1>5 DEF Unbadging
  <1>9. Owed'
    BY <1>1, <1>2, <1>7, <1>8 DEF IInv, Owed
  <1>10. QED
    BY <1>3, <1>4, <1>6, <1>9 DEF IInv

-----------------------------------------------------------------------------
\* Who is behind what is shown, when no dismissal is under way.
LEMMA Behind ==
    ASSUME Owed, ~interrupted, step # "dismiss", NEW t \in Tag, shown[t] \notin {None, config}
    PROVE  \E p \in Push : Follows(p, t)
  BY DEF Owed, Dismissing, At

LEMMA BadgeAtRest ==
    ASSUME Owed, ~interrupted, step \notin {"dismiss", "unbadge", "recheck"}
    PROVE  badge \in {None, config}
  BY DEF Owed, Unbadging, At

LEMMA IInvInside ==
    ASSUME IInv, Inside, step' # "start", config' \in MaybeConfig, read' \in MaybeConfig,
           \A t \in Tag : shown'[t] \in {None, shown[t]},
           shown' = shown \/ shown' \in [Tag -> Current \union {None}],
           badge' \in Current \union {None}, interrupted' = interrupted,
           Relies', Owed'
    PROVE  IInv'
  <1>1. Shapes'
    BY DEF IInv, Shapes, Inside
  <1>2. Lined'
    BY LinedKept DEF IInv
  <1>3. Informs'
    BY InformsStays DEF IInv, Inside
  <1>4. QED
    BY <1>1, <1>2, <1>3 DEF IInv

LEMMA IInvOver ==
    ASSUME IInv, Over, config' \in MaybeConfig,
           shown' \in [Tag -> Current \union {None}],
           badge' \in Current \union {None}, interrupted' \in BOOLEAN,
           Informs', Owed'
    PROVE  IInv'
  <1>1. Tail(queue) \in Seq(Operation)
    BY ShrinkFacts DEF Over, IInv, Shapes
  <1>2. Shapes'
    BY <1>1 DEF IInv, Shapes, Over, MaybeConfig
  <1>3. Lined'
    BY LinedKept DEF IInv
  <1>4. Relies'
    BY ReliesAtStart DEF Over
  <1>5. QED
    BY <1>2, <1>3, <1>4 DEF IInv

\* An operation ends that belongs to no handler.
LEMMA OverAlone ==
    ASSUME Shapes, queue # <<>>, Head(queue).push = None, Ends, UNCHANGED push
    PROVE  Over
  BY DEF Over, Ends, Shapes

\* An operation ends and its handler goes on, or is done.
LEMMA OverFor ==
    ASSUME Shapes, queue # <<>>, Head(queue).push \in Push, Ends,
           \/ Ended(Head(queue).push)
           \/ \E s \in {"closing", "fallback"} : Goes(Head(queue).push, s)
    PROVE  Over
  BY DEF Over, Ends, Ended, Goes, Settled, Waiting

(* An operation of a page ends that leaves the configuration alone.        *)
LEMMA EndsQuietly ==
    ASSUME IInv, queue # <<>>, Head(queue).push = None, Ends, UNCHANGED <<push, config>>,
           shown' \in [Tag -> Current \union {None}],
           \A t \in Tag : shown'[t] \in {None, shown[t]},
           badge' = None \/ badge' = badge,
           \/ interrupted' \/ badge' = None \/ badge \in {None, config}
           \/ step \notin {"dismiss", "unbadge", "recheck"},
           interrupted' \in BOOLEAN,
           interrupted' = TRUE \/ interrupted' = interrupted,
           interrupted' \/ step # "dismiss"
    PROVE  IInv'
  <1>1. Over
    BY OverAlone DEF IInv
  <1>2. Owed'
    <2> SUFFICES ASSUME ~interrupted'
                 PROVE  /\ badge' \in {None, config'}
                        /\ \A t \in Tag : shown'[t] \notin {None, config'} => Dismissing(t)'
      BY DEF Owed
    <2>0. ~interrupted
      OBVIOUS
    <2>1. badge' \in {None, config'}
      BY <2>0, BadgeAtRest DEF IInv
    <2>2. ASSUME NEW t \in Tag, shown'[t] \notin {None, config'}
          PROVE  Dismissing(t)'
      <3>1. shown'[t] = shown[t] /\ shown[t] \notin {None, config}
        BY <2>2
      <3>2. PICK p \in Push : Follows(p, t)
        BY <2>0, <3>1, Behind DEF IInv
      <3>3. Follows(p, t)'
        BY <3>1, <3>2, FollowsStays DEF Follows
      <3>4. QED
        BY <3>3 DEF Dismissing
    <2>3. QED
      BY <2>1, <2>2
  <1>3. badge' \in Current \union {None} /\ config' \in MaybeConfig
    BY DEF IInv, Shapes
  <1>4. Informs'
    BY InformsStays DEF IInv
  <1>5. QED
    BY <1>1, <1>2, <1>3, <1>4, IInvOver

(* A handler's operation ends that leaves the configuration alone: what    *)
(* its handler still follows, or what was done about it.                   *)
LEMMA EndsForHandler ==
    ASSUME IInv, queue # <<>>, NEW p \in Push, p = Head(queue).push, Ends, config' = config,
           \/ Ended(p)
           \/ \E s \in {"closing", "fallback"} : Goes(p, s),
           shown' \in [Tag -> Current \union {None}],
           interrupted' \in BOOLEAN, badge' \in Current \union {None},
           interrupted' \/ badge' \in {None, config},
           \A t \in Tag : \/ interrupted' \/ shown'[t] \in {None, config}
                          \/ Follows(p, t)'
                          \/ /\ shown'[t] = shown[t] /\ ~Follows(p, t)
                             /\ ~interrupted /\ step # "dismiss"
                          \/ /\ shown'[t] = shown[t]
                             /\ \E q \in Push : q # p /\ Follows(q, t)
    PROVE  IInv'
  <1>1. Over
    BY OverFor DEF IInv
  <1>2. \A q \in Push : q # p => push'[q] = push[q]
    BY DEF Ended, Goes
  <1>3. Informs'
    <2>1. CASE Ended(p)
      BY <2>1, InformsEnded DEF IInv
    <2>2. ASSUME NEW s \in {"closing", "fallback"}, Goes(p, s)
          PROVE  Informs'
      <3>1. push[p].at \in Waiting
        BY HeadFacts, NoneAssumption DEF IInv
      <3>2. push[p].config \in Current
        BY <3>1 DEF IInv, Informs, Informed
      <3>3. s # "showing"
        OBVIOUS
      <3>4. QED
        BY <2>2, <3>2, <3>3, InformsGoes DEF IInv
    <2>3. QED
      BY <2>1, <2>2
  <1>4. ASSUME ~interrupted', NEW t \in Tag, shown'[t] \notin {None, config'}
        PROVE  Dismissing(t)'
    <2>1. CASE Follows(p, t)'
      BY <2>1 DEF Dismissing
    <2>2. ASSUME shown'[t] = shown[t], NEW q \in Push, q # p, Follows(q, t)
          PROVE  Dismissing(t)'
      <3>1. Follows(q, t)'
        BY <1>2, <2>2, FollowsStays DEF Follows
      <3>2. QED
        BY <3>1 DEF Dismissing
    <2>3. CASE shown'[t] = shown[t] /\ ~Follows(p, t) /\ ~interrupted /\ step # "dismiss"
      <3>1. \E q \in Push : Follows(q, t)
        BY <1>4, <2>3, Behind DEF IInv
      <3>2. \E q \in Push : q # p /\ Follows(q, t)
        BY <2>3, <3>1
      <3>3. QED
        BY <2>2, <2>3, <3>2
    <2>4. QED
      BY <1>4, <2>1, <2>2, <2>3
  <1>5. Owed'
    BY <1>4 DEF Owed
  <1>6. config' \in MaybeConfig
    BY DEF IInv, Shapes
  <1>7. QED
    BY <1>1, <1>3, <1>5, <1>6, IInvOver

-----------------------------------------------------------------------------
LEMMA SetStart ==
    ASSUME IInv, SetReads
    PROVE  IInv'
  <1>1. /\ queue # <<>> /\ Head(queue).op = "set" /\ step = "start" /\ step' = "write"
        /\ read' = config /\ UNCHANGED <<config, queue, push, shown, badge, interrupted>>
    BY DEF SetReads, At, StepTo, visible
  <1>2. Relies'
    BY <1>1 DEF Relies, At
  <1>3. Owed'
    <2>1. ASSUME NEW t \in Tag, \E p \in Push : Follows(p, t)
          PROVE  Dismissing(t)'
      BY <1>1, <2>1 DEF Dismissing, Follows, TagOf
    <2>2. QED
      BY <1>1, <2>1, Behind, BadgeAtRest DEF Owed, IInv
  <1>4. Inside
    BY <1>1 DEF Inside
  <1>5. config' \in MaybeConfig /\ read' \in MaybeConfig /\ badge' \in Current \union {None}
    BY <1>1 DEF IInv, Shapes
  <1>6. QED
    BY <1>1, <1>2, <1>3, <1>4, <1>5, IInvInside

LEMMA SetWrite ==
    ASSUME IInv, SetWrites
    PROVE  IInv'
  <1>1. /\ queue # <<>> /\ Head(queue).op = "set" /\ step = "write"
        /\ config' = Head(queue).config
        /\ UNCHANGED <<push, shown, badge, interrupted>>
        /\ config \in {read, None}
    BY DEF SetWrites, visible, At, IInv, Relies
  <1>2. Head(queue).config \in Config /\ Head(queue).push = None
    BY <1>1, HeadFacts DEF IInv
  <1>3. config' \in MaybeConfig /\ badge' \in Current \union {None}
        /\ read \in MaybeConfig /\ interrupted \in BOOLEAN
        /\ shown \in [Tag -> Current \union {None}]
    BY <1>1, <1>2 DEF MaybeConfig, IInv, Shapes
  <1>4. ASSUME NEW t \in Tag, \E p \in Push : Follows(p, t)
        PROVE  Dismissing(t)'
    BY <1>1, <1>4 DEF Dismissing, Follows, TagOf
  <1>5. ASSUME ~interrupted
        PROVE  /\ badge \in {None, read}
               /\ \A t \in Tag : shown[t] \in {None, read} \/ \E p \in Push : Follows(p, t)
    BY <1>1, <1>5, Behind, BadgeAtRest DEF IInv
  <1>6. CASE read \in {None, Head(queue).config}
    <2>1. Ends
      BY <1>6 DEF SetWrites
    <2>2. Over
      BY <1>1, <1>2, <2>1, OverAlone DEF IInv
    <2>3. Owed'
      BY <1>1, <1>4, <1>5, <1>6 DEF Owed
    <2>4. QED
      BY <1>1, <1>3, <2>2, <2>3, IInvOver, InformsStays DEF IInv
  <1>7. CASE read \notin {None, Head(queue).config}
    <2>1. step' = "dismiss" /\ UNCHANGED <<read, queue>>
      BY <1>7 DEF SetWrites, StepTo
    <2>2. At("set", "dismiss")'
      BY <1>1, <2>1 DEF At
    <2>3. ASSUME NEW t \in Tag, shown[t] = read
          PROVE  Dismissing(t)'
      BY <1>1, <2>1, <2>2, <2>3 DEF Dismissing
    <2>4. Owed'
      BY <1>1, <1>4, <1>5, <2>2, <2>3 DEF Owed, Unbadging
    <2>5. Relies'
      BY <1>1, <2>1 DEF Relies, At
    <2>6. Inside
      BY <1>1, <2>1 DEF Inside
    <2>7. QED
      BY <1>1, <1>3, <2>1, <2>4, <2>5, <2>6, IInvInside
  <1>8. QED
    BY <1>6, <1>7

LEMMA SetDismiss ==
    ASSUME IInv, SetDismisses
    PROVE  IInv'
  <1>1. /\ queue # <<>> /\ Head(queue).op = "set" /\ step = "dismiss" /\ step' = "unbadge"
        /\ shown' = Dismissed(read)
        /\ UNCHANGED <<config, queue, read, push, badge, interrupted>>
    BY DEF SetDismisses, At, StepTo
  <1>2. shown' \in [Tag -> Current \union {None}]
        /\ \A t \in Tag : shown'[t] = IF shown[t] = read THEN None ELSE shown[t]
    BY <1>1 DEF Dismissed, IInv, Shapes
  <1>3. Owed'
    <2>1. ASSUME ~interrupted, NEW t \in Tag, shown'[t] \notin {None, config'}
          PROVE  Dismissing(t)'
      <3>1. shown'[t] = shown[t] /\ shown[t] # read /\ shown[t] \notin {None, config}
        BY <1>1, <1>2, <2>1
      <3>2. Dismissing(t)
        BY <2>1, <3>1 DEF IInv, Owed
      <3>3. \E p \in Push : Follows(p, t)
        BY <1>1, <3>1, <3>2 DEF Dismissing, At
      <3>4. QED
        BY <1>1, <3>1, <3>3 DEF Dismissing, Follows, TagOf
    <2>2. Unbadging'
      BY <1>1 DEF Unbadging, At
    <2>3. QED
      BY <1>1, <2>1, <2>2 DEF Owed
  <1>4. Relies'
    BY <1>1 DEF Relies, At
  <1>5. Inside
    BY <1>1 DEF Inside
  <1>6. config' \in MaybeConfig /\ read' \in MaybeConfig /\ badge' \in Current \union {None}
    BY <1>1 DEF IInv, Shapes
  <1>7. QED
    BY <1>1, <1>2, <1>3, <1>4, <1>5, <1>6, IInvInside

LEMMA SetUnbadge ==
    ASSUME IInv, SetUnbadges
    PROVE  IInv'
  <1>1. /\ queue # <<>> /\ Head(queue).op = "set" /\ step = "unbadge" /\ Ends
        /\ badge' = None /\ UNCHANGED <<config, push, shown, interrupted>>
    BY DEF SetUnbadges, At
  <1>2. Head(queue).push = None
    BY <1>1, HeadFacts DEF IInv
  <1>3. shown' \in [Tag -> Current \union {None}] /\ interrupted' \in BOOLEAN
    BY <1>1 DEF IInv, Shapes
  <1>4. (\A t \in Tag : shown'[t] = shown[t]) /\ step # "dismiss"
    BY <1>1
  <1>5. QED
    BY <1>1, <1>2, <1>3, <1>4, EndsQuietly

LEMMA ClearStart ==
    ASSUME IInv, ClearTakes
    PROVE  IInv'
  <1>1. /\ queue # <<>> /\ Head(queue).op = "clear" /\ step = "start"
        /\ UNCHANGED <<push, shown, badge, interrupted>>
    BY DEF ClearTakes, At, visible
  <1>2. shown' \in [Tag -> Current \union {None}] /\ interrupted' \in BOOLEAN
        /\ read \in MaybeConfig /\ badge' \in Current \union {None}
    BY <1>1 DEF IInv, Shapes
  <1>3. CASE Matched(Head(queue).config)
    <2>1. config' = None /\ step' = "dismiss" /\ UNCHANGED <<queue, read>>
      BY <1>3 DEF ClearTakes, StepTo
    <2>2. At("clear", "dismiss")'
      BY <1>1, <2>1 DEF At
    <2>3. Relies'
      BY <1>1, <2>1 DEF Relies, At
    <2>4. Owed'
      BY <2>2 DEF Owed, Dismissing, Unbadging
    <2>5. Inside /\ config' \in MaybeConfig
      BY <1>1, <2>1 DEF Inside, MaybeConfig
    <2>6. QED
      BY <1>1, <1>2, <2>1, <2>3, <2>4, <2>5, IInvInside
  <1>4. CASE ~Matched(Head(queue).config)
    <2>1. Ends /\ UNCHANGED config
      BY <1>4 DEF ClearTakes
    <2>2. Head(queue).push = None
      BY <1>1, HeadFacts DEF IInv
    <2>3. QED
      BY <1>1, <1>2, <2>1, <2>2, EndsQuietly
  <1>5. QED
    BY <1>3, <1>4

LEMMA ClearDismiss ==
    ASSUME IInv, ClearDismisses
    PROVE  IInv'
  <1>1. /\ queue # <<>> /\ Head(queue).op = "clear" /\ step = "dismiss" /\ step' = "unbadge"
        /\ shown' = [t \in Tag |-> None] /\ config = None
        /\ UNCHANGED <<config, queue, read, push, badge, interrupted>>
    BY DEF ClearDismisses, At, StepTo, IInv, Relies
  <1>2. \A t \in Tag : shown'[t] = None
    BY <1>1
  <1>3. Relies'
    BY <1>1, <1>2 DEF Relies, At
  <1>4. Owed'
    BY <1>1, <1>2 DEF Owed, Unbadging, At
  <1>5. Inside
    BY <1>1 DEF Inside
  <1>6. config' \in MaybeConfig /\ read' \in MaybeConfig /\ badge' \in Current \union {None}
        /\ shown' \in [Tag -> Current \union {None}]
    BY <1>1 DEF IInv, Shapes
  <1>7. QED
    BY <1>1, <1>2, <1>3, <1>4, <1>5, <1>6, IInvInside

LEMMA ClearUnbadge ==
    ASSUME IInv, ClearUnbadges
    PROVE  IInv'
  <1>1. /\ queue # <<>> /\ Head(queue).op = "clear" /\ step = "unbadge" /\ Ends
        /\ badge' = None /\ interrupted' = FALSE /\ UNCHANGED <<config, push, shown>>
        /\ \A t \in Tag : shown[t] = None
    BY DEF ClearUnbadges, At, IInv, Relies
  <1>2. Head(queue).push = None
    BY <1>1, HeadFacts DEF IInv
  <1>3. Over
    BY <1>1, <1>2, OverAlone DEF IInv
  <1>4. Owed'
    BY <1>1 DEF Owed
  <1>5. /\ config' \in MaybeConfig /\ badge' \in Current \union {None}
        /\ shown' \in [Tag -> Current \union {None}] /\ interrupted' \in BOOLEAN
    BY <1>1 DEF IInv, Shapes
  <1>6. QED
    BY <1>1, <1>3, <1>4, <1>5, IInvOver, InformsStays DEF IInv

(* A migration gives the stored configuration its form: nothing was shown  *)
(* for it before.                                                          *)
LEMMA OwedByMigration ==
    ASSUME IInv, step = "migrate", read.form = "legacy", config \in {read, None},
           UNCHANGED <<push, shown, badge, interrupted>>
    PROVE  Owed'
  <1>1. ASSUME NEW t \in Tag
        PROVE  shown[t] = None \/ shown[t] # config
    BY DEF IInv, Shapes, Current
  <1>2. badge = None \/ badge # config
    BY DEF IInv, Shapes, Current
  <1>3. ASSUME ~interrupted
        PROVE  badge = None
    BY <1>2, <1>3, BadgeAtRest DEF IInv
  <1>4. ASSUME ~interrupted, NEW t \in Tag, shown[t] # None
        PROVE  Dismissing(t)'
    <2>1. \E p \in Push : Follows(p, t)
      BY <1>1, <1>4, Behind DEF IInv
    <2>2. QED
      BY <2>1 DEF Dismissing, Follows, TagOf
  <1>5. QED
    BY <1>3, <1>4 DEF Owed

LEMMA MigrateStart ==
    ASSUME IInv, MigrateReads
    PROVE  IInv'
  <1>1. /\ queue # <<>> /\ Head(queue).op = "migrate" /\ step = "start"
        /\ UNCHANGED <<config, push, shown, badge, interrupted>>
    BY DEF MigrateReads, At, visible
  <1>2. Head(queue).config \in Config /\ Head(queue).push = None
    BY <1>1, HeadFacts DEF IInv
  <1>3. /\ config' \in MaybeConfig /\ badge' \in Current \union {None} /\ interrupted' \in BOOLEAN
        /\ shown' \in [Tag -> Current \union {None}]
    BY <1>1 DEF IInv, Shapes
  <1>4. CASE config = [cap |-> Head(queue).config.cap, form |-> "legacy"]
    <2>1. read' = config /\ step' = "migrate" /\ UNCHANGED queue
      BY <1>4 DEF MigrateReads, StepTo
    <2>2. config.form = "legacy" /\ config # None
      BY <1>2, <1>4, InformedConfigs, NoneAssumption
    <2>3. config \in Config
      BY <2>2 DEF IInv, Shapes, MaybeConfig
    <2>4. Relies'
      BY <1>1, <2>1, <2>2, <2>3 DEF Relies, At
    <2>5. ASSUME NEW t \in Tag, \E p \in Push : Follows(p, t)
          PROVE  Dismissing(t)'
      BY <1>1, <2>5 DEF Dismissing, Follows, TagOf
    <2>6. Owed'
      BY <1>1, <2>5, Behind, BadgeAtRest DEF Owed, IInv
    <2>7. Inside
      BY <1>1, <2>1 DEF Inside
    <2>8. QED
      BY <1>1, <1>3, <2>1, <2>4, <2>6, <2>7, IInvInside
  <1>5. CASE config # [cap |-> Head(queue).config.cap, form |-> "legacy"]
    <2>1. Ends
      BY <1>5 DEF MigrateReads
    <2>2. QED
      BY <1>1, <1>2, <1>3, <2>1, EndsQuietly
  <1>6. QED
    BY <1>4, <1>5

LEMMA MigrateWrite ==
    ASSUME IInv, MigrateWrites
    PROVE  IInv'
  <1>1. /\ queue # <<>> /\ Head(queue).op = "migrate" /\ step = "migrate" /\ Ends
        /\ config' = Migrated /\ UNCHANGED <<push, shown, badge, interrupted>>
        /\ read \in Config /\ read.form = "legacy" /\ config \in {read, None}
    BY DEF MigrateWrites, At, visible, IInv, Relies
  <1>2. Head(queue).push = None
    BY <1>1, HeadFacts DEF IInv
  <1>3. Over
    BY <1>1, <1>2, OverAlone DEF IInv
  <1>4. Owed'
    BY <1>1, OwedByMigration
  <1>5. config' \in MaybeConfig
    BY <1>1, FormGiven, InformedConfigs DEF MaybeConfig
  <1>6. /\ badge' \in Current \union {None} /\ interrupted' \in BOOLEAN
        /\ shown' \in [Tag -> Current \union {None}]
    BY <1>1 DEF IInv, Shapes
  <1>7. QED
    BY <1>1, <1>3, <1>4, <1>5, <1>6, IInvOver, InformsStays DEF IInv

LEMMA RoomDismissed ==
    ASSUME IInv, DismissRoom
    PROVE  IInv'
  <1>1. /\ queue # <<>> /\ Head(queue).op = "dismiss" /\ step = "start" /\ Ends
        /\ shown' = [shown EXCEPT !["room"] = None]
        /\ UNCHANGED <<config, push, badge, interrupted>>
    BY DEF DismissRoom, At
  <1>2. Head(queue).push = None
    BY <1>1, HeadFacts DEF IInv
  <1>3. /\ shown' \in [Tag -> Current \union {None}] /\ interrupted' \in BOOLEAN
        /\ \A t \in Tag : shown'[t] \in {None, shown[t]}
    BY <1>1 DEF IInv, Shapes
  <1>4. QED
    BY <1>1, <1>2, <1>3, EndsQuietly

LEMMA RenewalStart ==
    ASSUME IInv, RenewalReads
    PROVE  IInv'
  <1>1. /\ queue # <<>> /\ Head(queue).op = "renew" /\ step = "start"
        /\ UNCHANGED <<config, push, shown, badge, interrupted>>
    BY DEF RenewalReads, At, visible
  <1>2. Head(queue).push = None
    BY <1>1, HeadFacts DEF IInv
  <1>3. /\ config' \in MaybeConfig /\ badge' \in Current \union {None} /\ interrupted' \in BOOLEAN
        /\ shown' \in [Tag -> Current \union {None}]
    BY <1>1 DEF IInv, Shapes
  <1>4. CASE config # None
    <2>1. /\ read' = config /\ step' \in {"migrate", "register"} /\ UNCHANGED queue
          /\ step' = "migrate" => config.form = "legacy"
      BY <1>4 DEF RenewalReads, StepTo
    <2>2. config \in Config
      BY <1>4 DEF IInv, Shapes, MaybeConfig
    <2>3. Relies'
      BY <1>1, <2>1, <2>2 DEF Relies, At
    <2>4. ASSUME NEW t \in Tag, \E p \in Push : Follows(p, t)
          PROVE  Dismissing(t)'
      BY <1>1, <2>4 DEF Dismissing, Follows, TagOf
    <2>5. Owed'
      BY <1>1, <2>4, Behind, BadgeAtRest DEF Owed, IInv
    <2>6. Inside
      BY <1>1, <2>1 DEF Inside
    <2>7. QED
      BY <1>1, <1>3, <2>1, <2>3, <2>5, <2>6, IInvInside
  <1>5. CASE config = None
    <2>1. Ends
      BY <1>5 DEF RenewalReads
    <2>2. QED
      BY <1>1, <1>2, <1>3, <2>1, EndsQuietly
  <1>6. QED
    BY <1>4, <1>5

LEMMA RenewalMigrate ==
    ASSUME IInv, RenewalMigrates
    PROVE  IInv'
  <1>1. /\ queue # <<>> /\ Head(queue).op = "renew" /\ step = "migrate" /\ step' = "register"
        /\ config' = Migrated /\ read' = Migrated
        /\ UNCHANGED <<queue, push, shown, badge, interrupted>>
        /\ read \in Config /\ read.form = "legacy" /\ config \in {read, None}
    BY DEF RenewalMigrates, At, StepTo, visible, IInv, Relies
  <1>2. Owed'
    BY <1>1, OwedByMigration
  <1>3. config' \in MaybeConfig /\ read' \in MaybeConfig
    BY <1>1, FormGiven, InformedConfigs DEF MaybeConfig
  <1>4. badge' \in Current \union {None}
    BY <1>1 DEF IInv, Shapes
  <1>5. Relies'
    BY <1>1 DEF Relies, At
  <1>6. Inside
    BY <1>1 DEF Inside
  <1>7. QED
    BY <1>1, <1>2, <1>3, <1>4, <1>5, <1>6, IInvInside

LEMMA RenewalRegister ==
    ASSUME IInv, RenewalRegisters
    PROVE  IInv'
  <1>1. /\ queue # <<>> /\ Head(queue).op = "renew" /\ step = "register" /\ Ends
        /\ UNCHANGED <<config, push, shown, badge, interrupted>>
    BY DEF RenewalRegisters, At, visible
  <1>2. Head(queue).push = None
    BY <1>1, HeadFacts DEF IInv
  <1>3. interrupted' \in BOOLEAN /\ shown' \in [Tag -> Current \union {None}]
    BY <1>1 DEF IInv, Shapes
  <1>4. QED
    BY <1>1, <1>2, <1>3, EndsQuietly

-----------------------------------------------------------------------------
LEMMA ShowStart ==
    ASSUME IInv, ShowReads
    PROVE  IInv'
  <1> DEFINE p == Head(queue).push
  <1>1. /\ queue # <<>> /\ Head(queue).op = "show" /\ step = "start"
        /\ UNCHANGED <<config, shown, badge, interrupted>>
    BY DEF ShowReads, At, visible
  <1>2. p \in Push /\ push[p].at = "showing"
    BY <1>1, HeadFacts, NoneAssumption DEF IInv
  <1>3. /\ config' \in MaybeConfig /\ badge' \in Current \union {None} /\ interrupted' \in BOOLEAN
        /\ shown' \in [Tag -> Current \union {None}] /\ read \in MaybeConfig
    BY <1>1 DEF IInv, Shapes
  <1>4. interrupted' = TRUE \/ ~interrupted
    BY <1>1 DEF IInv, Shapes
  <1>5. interrupted' \/ badge' \in {None, config}
    BY <1>1, <1>4, BadgeAtRest DEF IInv
  <1>6. CASE config = Owner
    <2>1. step' = "show" /\ UNCHANGED <<queue, read, push>>
      BY <1>6 DEF ShowReads, StepTo
    <2>2. Relies'
      BY <1>1, <1>6, <2>1 DEF Relies, At, Owner
    <2>3. ASSUME NEW t \in Tag, \E q \in Push : Follows(q, t)
          PROVE  Dismissing(t)'
      BY <1>1, <2>1, <2>3 DEF Dismissing, Follows, TagOf
    <2>4. Owed'
      BY <1>1, <2>3, Behind, BadgeAtRest DEF Owed, IInv
    <2>5. Inside
      BY <1>1, <2>1 DEF Inside
    <2>6. QED
      BY <1>1, <1>3, <2>1, <2>2, <2>4, <2>5, IInvInside
  <1>7. CASE config # Owner
    <2>1. Ends /\ push' = [push EXCEPT ![p].at = "fallback"]
      BY <1>7 DEF ShowReads, Resume
    <2>2. Goes(p, "fallback")
      BY <1>2, <2>1, Going DEF IInv, Handling
    <2>3. \A t \in Tag : ~Follows(p, t)
      BY <1>2 DEF Follows
    <2>4. \A t \in Tag : \/ interrupted'
                         \/ /\ shown'[t] = shown[t] /\ ~Follows(p, t)
                            /\ ~interrupted /\ step # "dismiss"
      BY <1>1, <1>4, <2>3
    <2>5. \E s \in {"closing", "fallback"} : Goes(p, s)
      BY <2>2
    <2> HIDE DEF p
    <2>6. p = Head(queue).push
      BY DEF p
    <2>7. QED
      BY <1>1, <1>2, <1>3, <1>5, <2>1, <2>4, <2>5, <2>6, EndsForHandler
  <1>8. QED
    BY <1>6, <1>7

\* The tag and the follower of what was just shown.
LEMMA ShownNow ==
    ASSUME IInv, Shows
    PROVE  LET p == Head(queue).push IN
           /\ queue # <<>> /\ Head(queue).op = "show" /\ step = "show" /\ step' = "start"
           /\ p \in Push /\ push[p].at = "showing" /\ push[p].kind # "ping"
           /\ push[p].config \in Current /\ config \in {push[p].config, None}
           /\ UNCHANGED <<config, read, badge, interrupted>>
           /\ shown' \in [Tag -> Current \union {None}]
           /\ shown'[TagOf(p)] = push[p].config /\ TagOf(p) \in Tag
           /\ \A t \in Tag : t # TagOf(p) => shown'[t] = shown[t]
           /\ IF push[p].kind = "test" THEN queue' = Tail(queue) /\ Goes(p, "closing")
              ELSE queue' = Append(Tail(queue), Op("badge", None, p)) /\ Goes(p, "badging")
  <1> DEFINE p == Head(queue).push
  <1>1. /\ queue # <<>> /\ Head(queue).op = "show" /\ step = "show" /\ step' = "start"
        /\ UNCHANGED <<config, read, badge, interrupted>>
        /\ shown' = [shown EXCEPT ![TagOf(p)] = push[p].config]
        /\ push' = [push EXCEPT ![p].displayed = TRUE, ![p].at =
                       IF push[p].kind = "test" THEN "closing" ELSE "badging"]
        /\ queue' = IF push[p].kind = "test" THEN Tail(queue)
                    ELSE Append(Tail(queue), Op("badge", None, p))
    BY DEF Shows, At, Owner
  <1>2. p \in Push /\ push[p].at = "showing"
    BY <1>1, HeadFacts, NoneAssumption DEF IInv
  <1>3. push[p].kind # "ping" /\ push[p].config \in Current
    BY <1>2 DEF IInv, Informs, Informed, Waiting
  <1>4. config \in {push[p].config, None}
    BY <1>1 DEF IInv, Relies, At, Owner
  <1>5. TagOf(p) \in Tag
    BY DEF TagOf, Tag
  <1>6. /\ shown' \in [Tag -> Current \union {None}]
        /\ shown'[TagOf(p)] = push[p].config
        /\ \A t \in Tag : t # TagOf(p) => shown'[t] = shown[t]
    BY <1>1, <1>3, <1>5 DEF IInv, Shapes
  <1>7. CASE push[p].kind = "test"
    <2>1. push' = [push EXCEPT ![p].displayed = TRUE, ![p].at = "closing"]
      BY <1>1, <1>7
    <2>2. Goes(p, "closing")
      BY <1>2, <2>1, Going DEF IInv, Handling
    <2>3. QED
      BY <1>1, <1>2, <1>3, <1>4, <1>5, <1>6, <1>7, <2>2
  <1>8. CASE push[p].kind # "test"
    <2>1. push' = [push EXCEPT ![p].displayed = TRUE, ![p].at = "badging"]
      BY <1>1, <1>8
    <2>2. Goes(p, "badging")
      BY <1>2, <2>1, Going DEF IInv, Handling, Waiting
    <2>3. QED
      BY <1>1, <1>2, <1>3, <1>4, <1>5, <1>6, <1>8, <2>2
  <1>9. QED
    BY <1>7, <1>8

LEMMA Show ==
    ASSUME IInv, Shows
    PROVE  IInv'
  <1>0. PICK p \in Push : p = Head(queue).push
    BY ShownNow
  <1>1. /\ queue # <<>> /\ Head(queue).op = "show" /\ step = "show" /\ step' = "start"
        /\ push[p].at = "showing" /\ push[p].kind # "ping"
        /\ push[p].config \in Current /\ config \in {push[p].config, None}
        /\ UNCHANGED <<config, read, badge, interrupted>>
        /\ shown' \in [Tag -> Current \union {None}]
        /\ shown'[TagOf(p)] = push[p].config /\ TagOf(p) \in Tag
        /\ \A t \in Tag : t # TagOf(p) => shown'[t] = shown[t]
    BY <1>0, ShownNow
  <1>2. /\ config' \in MaybeConfig /\ badge' \in Current \union {None} /\ interrupted' \in BOOLEAN
        /\ interrupted' = TRUE \/ ~interrupted
    BY <1>1 DEF IInv, Shapes
  <1>3. interrupted' \/ badge' \in {None, config}
    BY <1>1, <1>2, BadgeAtRest DEF IInv
  <1>4. ASSUME NEW s \in {"closing", "badging"}, Goes(p, s), NEW t \in Tag, t = TagOf(p)
        PROVE  Follows(p, t)'
    <2>1. TagOf(p)' = t
      BY <1>4 DEF Goes, TagOf
    <2>2. /\ push'[p].at = s /\ push'[p].kind # "ping"
          /\ push'[p].config = shown'[t]
      BY <1>1, <1>4 DEF Goes
    <2>3. QED
      BY <2>1, <2>2 DEF Follows
  <1>5. \A t \in Tag : ~Follows(p, t)
    BY <1>1 DEF Follows
  <1>6. CASE push[p].kind = "test"
    <2>1. queue' = Tail(queue) /\ Goes(p, "closing")
      BY <1>0, <1>6, ShownNow
    <2>2. Tail(queue) \in Seq(Operation)
      BY <1>1, ShrinkFacts DEF IInv, Shapes
    <2>4. /\ push' \in [Push -> Handler] /\ push'[p].at = "closing"
          /\ \A q \in Push : q # p => push'[q] = push[q]
      BY <2>1 DEF Goes
    <2>5. Shapes'
      BY <1>1, <1>2, <2>1, <2>2, <2>4 DEF IInv, Shapes
    <2>6. Lined'
      <3>1. \A q \in Push : q # Head(queue).push => push'[q].at = push[q].at
        BY <1>0, <2>4
      <3>2. push'[Head(queue).push].at \notin Waiting
        BY <1>0, <2>4 DEF Waiting
      <3>3. Line(Tail(queue), push')
        BY <1>1, <2>4, <3>1, <3>2, LineShrinks DEF IInv, Shapes, Lined
      <3>4. QED
        BY <2>1, <3>3 DEF Lined
    <2>7. Informs'
      BY <1>1, <2>1, InformsGoes DEF IInv
    <2>8. Relies'
      BY <1>1, ReliesAtStart
    <2>9. ASSUME ~interrupted', NEW t \in Tag, shown'[t] \notin {None, config'}
          PROVE  Dismissing(t)'
      <3>1. CASE t = TagOf(p)
        BY <1>4, <2>1, <3>1 DEF Dismissing
      <3>2. CASE t # TagOf(p)
        <4>1. shown'[t] = shown[t] /\ ~interrupted /\ shown[t] \notin {None, config}
          BY <1>1, <1>2, <2>9, <3>2
        <4>2. PICK q \in Push : Follows(q, t)
          BY <1>1, <4>1, Behind DEF IInv
        <4>3. push'[q] = push[q]
          BY <1>5, <2>4, <4>2
        <4>4. Follows(q, t)'
          BY <4>1, <4>2, <4>3, FollowsStays DEF Follows
        <4>5. QED
          BY <4>4 DEF Dismissing
      <3>3. QED
        BY <3>1, <3>2
    <2>10. Owed'
      BY <1>1, <1>3, <2>9 DEF Owed
    <2>11. QED
      BY <2>5, <2>6, <2>7, <2>8, <2>10 DEF IInv
  <1>7. CASE push[p].kind # "test"
    <2> DEFINE o == Op("badge", None, p)
    <2>1. queue' = Append(Tail(queue), o) /\ Goes(p, "badging")
      BY <1>0, <1>7, ShownNow
    <2>2. Tail(queue) \in Seq(Operation)
      BY <1>1, ShrinkFacts DEF IInv, Shapes
    <2>3. o \in Operation /\ o.op = "badge" /\ o.push = p
      BY NoneAssumption DEF Op, Operation, Names, MaybeConfig
    <2> HIDE DEF o
    <2>4. /\ push' \in [Push -> Handler] /\ push'[p].at = "badging"
          /\ \A q \in Push : q # p => push'[q] = push[q]
      BY <2>1 DEF Goes
    <2>5. queue' \in Seq(Operation) /\ queue' # <<>>
      BY <2>1, <2>2, <2>3, GrowFacts
    <2>6. Shapes'
      BY <1>1, <1>2, <2>4, <2>5 DEF IInv, Shapes
    <2>7. Lined'
      <3> DEFINE h == [push EXCEPT ![p] = Done("seen")]
      <3>1. Done("seen") \in Handler /\ Done("seen").at = "seen"
        BY DEF Done, Handler, Settled, Kind, MaybeConfig
      <3>2. push \in [Push -> Handler]
        BY DEF IInv, Shapes
      <3>3. /\ h \in [Push -> Handler] /\ h[p].at = "seen"
            /\ \A q \in Push : q # p => h[q] = push[q]
        BY <3>1, <3>2
      <3> HIDE DEF h
      <3>4. \A q \in Push : q # Head(queue).push => h[q].at = push[q].at
        BY <1>0, <3>3
      <3>5. h[Head(queue).push].at \notin Waiting
        BY <1>0, <3>3 DEF Waiting
      <3>6. Line(Tail(queue), h)
        BY <1>1, <3>2, <3>3, <3>4, <3>5, LineShrinks DEF IInv, Shapes, Lined
      <3>7. \A q \in Push : q # o.push => push'[q].at = h[q].at
        BY <2>3, <2>4, <3>3
      <3>8. /\ h[o.push].at \notin Waiting /\ push'[o.push].at \in Waiting
            /\ o.op = AwaitedBy[push'[o.push].at] /\ o.push # None
        BY <2>3, <2>4, <3>3, NoneAssumption DEF Waiting, AwaitedBy
      <3>9. Line(Append(Tail(queue), o), push')
        BY <2>2, <2>3, <2>4, <3>3, <3>6, <3>7, <3>8, LineGrows
      <3>10. QED
        BY <2>1, <3>9 DEF Lined
    <2>8. Informs'
      BY <1>1, <2>1, InformsGoes DEF IInv
    <2>9. Relies'
      BY <1>1, ReliesAtStart
    <2>10. ASSUME ~interrupted', NEW t \in Tag, shown'[t] \notin {None, config'}
           PROVE  Dismissing(t)'
      <3>1. CASE t = TagOf(p)
        BY <1>4, <2>1, <3>1 DEF Dismissing
      <3>2. CASE t # TagOf(p)
        <4>1. shown'[t] = shown[t] /\ ~interrupted /\ shown[t] \notin {None, config}
          BY <1>1, <1>2, <2>10, <3>2
        <4>2. PICK q \in Push : Follows(q, t)
          BY <1>1, <4>1, Behind DEF IInv
        <4>3. push'[q] = push[q]
          BY <1>5, <2>4, <4>2
        <4>4. Follows(q, t)'
          BY <4>1, <4>2, <4>3, FollowsStays DEF Follows
        <4>5. QED
          BY <4>4 DEF Dismissing
      <3>3. QED
        BY <3>1, <3>2
    <2>11. Owed'
      BY <1>1, <1>3, <2>10 DEF Owed
    <2>12. QED
      BY <2>6, <2>7, <2>8, <2>9, <2>11 DEF IInv
  <1>8. QED
    BY <1>6, <1>7

\* Past the badge a handler still follows what it has shown.
LEMMA PastBadge ==
    ASSUME IInv, queue # <<>>, Head(queue).op = "badge", AfterBadge, UNCHANGED shown,
           NEW p \in Push, p = Head(queue).push
    PROVE  /\ Ended(p) \/ \E s \in {"closing", "fallback"} : Goes(p, s)
           /\ \A t \in Tag : Follows(p, t) => Follows(p, t)'
  <1>1. Shapes
    BY DEF IInv
  <1>2. CASE push[p].kind = "ping"
    <2>1. Settle(p)
      BY <1>2 DEF AfterBadge, ResumeToEnd
    <2>2. Ended(p)
      BY <1>1, <2>1, Ending
    <2>3. QED
      BY <1>2, <2>2 DEF Follows
  <1>3. CASE push[p].kind # "ping"
    <2>1. push' = [push EXCEPT ![p].at = "closing"]
      BY <1>3 DEF AfterBadge, Resume
    <2>2. Goes(p, "closing")
      BY <1>1, <2>1, Going DEF Handling
    <2>3. ASSUME NEW t \in Tag, Follows(p, t)
          PROVE  Follows(p, t)'
      BY <2>2, <2>3, FollowsStays DEF Goes
    <2>4. QED
      BY <2>2, <2>3
  <1>4. QED
    BY <1>2, <1>3

LEMMA BadgeStart ==
    ASSUME IInv, BadgeReads
    PROVE  IInv'
  <1>1. /\ queue # <<>> /\ Head(queue).op = "badge" /\ step = "start"
        /\ UNCHANGED <<config, shown, badge, interrupted>>
    BY DEF BadgeReads, At, visible
  <1>2. /\ config' \in MaybeConfig /\ badge' \in Current \union {None} /\ interrupted' \in BOOLEAN
        /\ shown' \in [Tag -> Current \union {None}] /\ read \in MaybeConfig
        /\ interrupted' = TRUE \/ ~interrupted
    BY <1>1 DEF IInv, Shapes
  <1>3. interrupted' \/ badge' \in {None, config}
    BY <1>1, <1>2, BadgeAtRest DEF IInv
  <1>4. CASE config = Owner
    <2>1. step' = "badge" /\ UNCHANGED <<queue, read, push>>
      BY <1>4 DEF BadgeReads, StepTo
    <2>2. Relies'
      BY <1>1, <1>4, <2>1 DEF Relies, At, Owner
    <2>3. ASSUME NEW t \in Tag, \E q \in Push : Follows(q, t)
          PROVE  Dismissing(t)'
      BY <1>1, <2>1, <2>3 DEF Dismissing, Follows, TagOf
    <2>4. Owed'
      BY <1>1, <2>3, Behind, BadgeAtRest DEF Owed, IInv
    <2>5. Inside
      BY <1>1, <2>1 DEF Inside
    <2>6. QED
      BY <1>1, <1>2, <2>1, <2>2, <2>4, <2>5, IInvInside
  <1>5. CASE config # Owner
    <2>1. Ends /\ AfterBadge
      BY <1>5 DEF BadgeReads
    <2>2. PICK p \in Push : p = Head(queue).push
      BY <1>1, HeadFacts DEF IInv
    <2>3. /\ Ended(p) \/ \E s \in {"closing", "fallback"} : Goes(p, s)
          /\ \A t \in Tag : Follows(p, t) => Follows(p, t)'
      BY <1>1, <2>1, <2>2, PastBadge
    <2>4. \A t \in Tag : \/ interrupted' \/ Follows(p, t)'
                         \/ /\ shown'[t] = shown[t] /\ ~Follows(p, t)
                            /\ ~interrupted /\ step # "dismiss"
      BY <1>1, <1>2, <2>3
    <2>5. QED
      BY <1>1, <1>2, <1>3, <2>1, <2>2, <2>3, <2>4, EndsForHandler
  <1>6. QED
    BY <1>4, <1>5

LEMMA BadgeSet ==
    ASSUME IInv, BadgeSets
    PROVE  IInv'
  <1>1. /\ queue # <<>> /\ Head(queue).op = "badge" /\ step = "badge" /\ step' = "recheck"
        /\ badge' \in {Owner, None} /\ config \in {Owner, None}
        /\ UNCHANGED <<config, queue, read, push, shown, interrupted>>
    BY DEF BadgeSets, At, StepTo, IInv, Relies
  <1>2. Owner \in Current
    <2>1. Head(queue).push \in Push /\ push[Head(queue).push].at = "badging"
      BY <1>1, HeadFacts, NoneAssumption DEF IInv
    <2>2. QED
      BY <2>1 DEF Owner, IInv, Informs, Informed, Waiting
  <1>3. Owner' = Owner
    BY <1>1 DEF Owner
  <1>4. Relies'
    BY <1>1, <1>3 DEF Relies, At
  <1>5. ASSUME NEW t \in Tag, \E q \in Push : Follows(q, t)
        PROVE  Dismissing(t)'
    BY <1>1, <1>5 DEF Dismissing, Follows, TagOf
  <1>6. Unbadging'
    BY <1>1 DEF Unbadging, At
  <1>7. Owed'
    BY <1>1, <1>5, <1>6, Behind DEF Owed, IInv
  <1>8. Inside
    BY <1>1 DEF Inside
  <1>9. /\ config' \in MaybeConfig /\ read' \in MaybeConfig /\ badge' \in Current \union {None}
    BY <1>1, <1>2 DEF IInv, Shapes
  <1>10. QED
    BY <1>1, <1>4, <1>7, <1>8, <1>9, IInvInside

LEMMA BadgeRecheck ==
    ASSUME IInv, BadgeRechecks
    PROVE  IInv'
  <1>1. /\ queue # <<>> /\ Head(queue).op = "badge" /\ step = "recheck" /\ Ends /\ AfterBadge
        /\ badge' = IF config = None THEN None ELSE badge
        /\ badge \in {Owner, None} /\ config \in {Owner, None}
        /\ UNCHANGED <<config, shown, interrupted>>
    BY DEF BadgeRechecks, At, IInv, Relies
  <1>2. /\ badge' \in Current \union {None} /\ interrupted' \in BOOLEAN
        /\ shown' \in [Tag -> Current \union {None}]
        /\ interrupted' = TRUE \/ ~interrupted
    BY <1>1 DEF IInv, Shapes
  <1>3. badge' \in {None, config}
    BY <1>1
  <1>4. PICK p \in Push : p = Head(queue).push
    BY <1>1, HeadFacts DEF IInv
  <1>5. /\ Ended(p) \/ \E s \in {"closing", "fallback"} : Goes(p, s)
        /\ \A t \in Tag : Follows(p, t) => Follows(p, t)'
    BY <1>1, <1>4, PastBadge
  <1>6. \A t \in Tag : \/ interrupted' \/ Follows(p, t)'
                       \/ /\ shown'[t] = shown[t] /\ ~Follows(p, t)
                          /\ ~interrupted /\ step # "dismiss"
    BY <1>1, <1>2, <1>5
  <1>7. QED
    BY <1>1, <1>2, <1>3, <1>4, <1>5, <1>6, EndsForHandler

LEMMA StaleStart ==
    ASSUME IInv, StaleReads
    PROVE  IInv'
  <1>0. /\ queue # <<>> /\ Head(queue).op = "stale" /\ step = "start"
        /\ UNCHANGED <<config, shown, badge, interrupted>>
    BY DEF StaleReads, At, visible
  <1>1. PICK p \in Push : p = Head(queue).push
    BY <1>0, HeadFacts DEF IInv
  <1>2. /\ config' \in MaybeConfig /\ badge' \in Current \union {None} /\ interrupted' \in BOOLEAN
        /\ shown' \in [Tag -> Current \union {None}] /\ read \in MaybeConfig
        /\ interrupted' = TRUE \/ ~interrupted
    BY <1>0 DEF IInv, Shapes
  <1>3. interrupted' \/ badge' \in {None, config}
    BY <1>0, <1>2, BadgeAtRest DEF IInv
  <1>4. CASE config = Owner
    <2>1. Ends /\ Settle(p)
      BY <1>1, <1>4 DEF StaleReads, ResumeToEnd
    <2>2. Ended(p)
      BY <2>1, Ending DEF IInv
    <2>3. \A t \in Tag : Follows(p, t) => shown'[t] = config
      BY <1>0, <1>1, <1>4 DEF Follows, Owner
    <2>4. \A t \in Tag : \/ interrupted' \/ shown'[t] \in {None, config}
                         \/ /\ shown'[t] = shown[t] /\ ~Follows(p, t)
                            /\ ~interrupted /\ step # "dismiss"
      BY <1>0, <1>2, <2>3
    <2>5. QED
      BY <1>0, <1>1, <1>2, <1>3, <2>1, <2>2, <2>4, EndsForHandler
  <1>5. CASE config # Owner
    <2>1. step' = "dismiss" /\ UNCHANGED <<queue, read, push>>
      BY <1>5 DEF StaleReads, StepTo
    <2>2. Relies'
      BY <1>0, <2>1 DEF Relies, At
    <2>3. ASSUME NEW t \in Tag, \E q \in Push : Follows(q, t)
          PROVE  Dismissing(t)'
      BY <1>0, <2>1, <2>3 DEF Dismissing, Follows, TagOf
    <2>4. Owed'
      BY <1>0, <2>3, Behind, BadgeAtRest DEF Owed, IInv
    <2>5. Inside
      BY <1>0, <2>1 DEF Inside
    <2>6. QED
      BY <1>0, <1>2, <2>1, <2>2, <2>4, <2>5, IInvInside
  <1>6. QED
    BY <1>4, <1>5

LEMMA StaleDismiss ==
    ASSUME IInv, StaleDismisses
    PROVE  IInv'
  <1>0. /\ queue # <<>> /\ Head(queue).op = "stale" /\ step = "dismiss" /\ Ends
        /\ UNCHANGED <<config, badge, interrupted>>
    BY DEF StaleDismisses, At
  <1>1. PICK p \in Push : p = Head(queue).push
    BY <1>0, HeadFacts DEF IInv
  <1>2. TagOf(p) \in Tag
    BY DEF TagOf, Tag
  <1>3. /\ shown' = [shown EXCEPT ![TagOf(p)] = IF shown[TagOf(p)] = push[p].config THEN None
                                                 ELSE shown[TagOf(p)]]
        /\ Settle(p)
    BY <1>1 DEF StaleDismisses, ResumeToEnd, Owner
  <1>4. /\ shown' \in [Tag -> Current \union {None}]
        /\ \A t \in Tag : shown'[t] \in {None, shown[t]}
        /\ shown[TagOf(p)] = push[p].config => shown'[TagOf(p)] = None
    BY <1>2, <1>3 DEF IInv, Shapes
  <1>5. Ended(p)
    BY <1>3, Ending DEF IInv
  <1>6. /\ badge' \in Current \union {None} /\ interrupted' \in BOOLEAN
        /\ interrupted' = TRUE \/ ~interrupted
    BY <1>0 DEF IInv, Shapes
  <1>7. interrupted' \/ badge' \in {None, config}
    BY <1>0, <1>6 DEF IInv, Owed, Unbadging, At
  <1>8. ASSUME NEW t \in Tag, ~interrupted
        PROVE  \/ shown'[t] \in {None, config}
               \/ /\ shown'[t] = shown[t]
                  /\ \E q \in Push : q # p /\ Follows(q, t)
    <2>1. shown[t] \notin {None, config} => \E q \in Push : Follows(q, t)
      BY <1>0, <1>8 DEF IInv, Owed, Dismissing, At
    <2>2. Follows(p, t) => shown'[t] = None
      BY <1>4 DEF Follows
    <2>3. QED
      BY <1>4, <2>1, <2>2
  <1>9. \A t \in Tag : \/ interrupted' \/ shown'[t] \in {None, config}
                       \/ /\ shown'[t] = shown[t]
                          /\ \E q \in Push : q # p /\ Follows(q, t)
    BY <1>6, <1>8
  <1>10. QED
    BY <1>0, <1>1, <1>4, <1>5, <1>6, <1>7, <1>9, EndsForHandler

LEMMA OperationFailed ==
    ASSUME IInv, OperationFails
    PROVE  IInv'
  <1>1. /\ queue # <<>> /\ Ends /\ UNCHANGED <<config, shown, badge>>
        /\ step \notin {"unbadge", "badge"}
        /\ interrupted' = (interrupted \/ step = "dismiss" \/ Head(queue).op \in {"badge", "stale"})
    BY DEF OperationFails, visible
  <1>2. /\ shown' \in [Tag -> Current \union {None}] /\ interrupted' \in BOOLEAN
        /\ badge' \in Current \union {None} /\ interrupted \in BOOLEAN
    BY <1>1 DEF IInv, Shapes
  <1>3. CASE Head(queue).op \in {"badge", "stale"}
    <2>1. PICK p \in Push : p = Head(queue).push
      BY <1>1, <1>3, HeadFacts DEF IInv
    <2>2. Settle(p)
      BY <1>3, <2>1 DEF OperationFails, ResumeToEnd
    <2>3. Ended(p) /\ interrupted'
      BY <1>1, <1>3, <2>2, Ending DEF IInv
    <2>4. QED
      BY <1>1, <1>2, <2>1, <2>3, EndsForHandler
  <1>4. CASE Head(queue).op \notin {"badge", "stale"}
    <2>1. interrupted' \/ (badge \in {None, config} /\ ~interrupted /\ step # "dismiss")
      <3>1. ~At("badge", "recheck") /\ step # "unbadge"
        BY <1>1, <1>4 DEF At
      <3>2. ~interrupted' => ~interrupted /\ step # "dismiss"
        BY <1>1, <1>2
      <3>3. ~interrupted /\ step # "dismiss" => badge \in {None, config}
        BY <3>1 DEF IInv, Owed, Unbadging, At
      <3>4. QED
        BY <3>2, <3>3
    <2>2. CASE Head(queue).op = "show"
      <3>1. PICK p \in Push : p = Head(queue).push /\ push[p].at = "showing"
        BY <1>1, <2>2, HeadFacts, NoneAssumption DEF IInv
      <3>2. push' = [push EXCEPT ![p].at = "fallback"]
        BY <2>2, <3>1 DEF OperationFails, Resume
      <3>3. Goes(p, "fallback")
        BY <3>2, Going DEF IInv, Handling
      <3>4. \A t \in Tag : \/ interrupted'
                           \/ /\ shown'[t] = shown[t] /\ ~Follows(p, t)
                              /\ ~interrupted /\ step # "dismiss"
        BY <1>1, <2>1, <3>1 DEF Follows
      <3>5. \E s \in {"closing", "fallback"} : Goes(p, s)
        BY <3>3
      <3>6. interrupted' \/ badge' \in {None, config}
        BY <1>1, <2>1
      <3>7. QED
        BY <1>1, <1>2, <3>1, <3>4, <3>5, <3>6, EndsForHandler
    <2>3. CASE Head(queue).op # "show"
      <3>1. UNCHANGED push
        BY <1>4, <2>3 DEF OperationFails
      <3>2. Head(queue).push = None
        BY <1>1, <1>4, <2>3, HeadFacts DEF IInv
      <3>3. interrupted' = TRUE \/ interrupted' = interrupted
        BY <1>1, <1>2
      <3>4. /\ interrupted' \/ badge' = None \/ badge \in {None, config}
            /\ interrupted' \/ step # "dismiss"
        BY <2>1
      <3>5. QED
        BY <1>1, <1>2, <3>1, <3>2, <3>3, <3>4, EndsQuietly
    <2>4. QED
      BY <2>2, <2>3
  <1>5. QED
    BY <1>3, <1>4

-----------------------------------------------------------------------------
LEMMA IInvStep == IInv /\ [Next]_vars => IInv'
  <1> SUFFICES ASSUME IInv, [Next]_vars PROVE IInv'
    OBVIOUS
  <1>1. CASE Operate
    BY <1>1, SetStart, SetWrite, SetDismiss, SetUnbadge, ClearStart, ClearDismiss,
       ClearUnbadge, MigrateStart, MigrateWrite, RoomDismissed, RenewalStart, RenewalMigrate,
       RenewalRegister, ShowStart, Show, BadgeStart, BadgeSet, BadgeRecheck, StaleStart,
       StaleDismiss, OperationFailed DEF Operate
  <1>2. CASE \E p \in Push : Receive(p) \/ Handle(p)
    BY <1>2, IInvHandle
  <1>3. CASE Post \/ Unregister \/ Terminate \/ \E t \in Tag : Click(t)
    BY <1>3, IInvPost, IInvUnregister, IInvTerminate, IInvClick
  <1>4. CASE UNCHANGED vars
    <2>1. UNCHANGED <<config, queue, step, read, push, shown, badge, interrupted>>
      BY <1>4 DEF vars, running, visible
    <2>2. Shapes' /\ Lined' /\ Informs'
      BY <2>1 DEF IInv, Shapes, Lined, Informs
    <2>3. \A name, s : At(name, s)' <=> At(name, s)
      BY <2>1 DEF At
    <2>4. Relies'
      BY <2>1, <2>3 DEF IInv, Relies, Owner
    <2>5. Owed'
      BY <2>1, <2>3 DEF IInv, Owed, Dismissing, Unbadging, Follows, TagOf
    <2>6. QED
      BY <2>2, <2>4, <2>5 DEF IInv
  <1>5. QED
    BY <1>1, <1>2, <1>3, <1>4 DEF Next

LEMMA Invariance == Spec => []IInv
  <1>1. Init => IInv
    BY IInvInit
  <1>2. IInv /\ [Next]_vars => IInv'
    BY IInvStep
  <1>3. QED
    BY <1>1, <1>2, PTL DEF Spec

(* The types hold; the queue is bounded by what pages may post and the     *)
(* number of handlers; and a handler waits exactly while its one operation *)
(* is queued or running.                                                   *)
THEOREM TypeCorrect == Spec => []TypeOK
  <1>1. IInv => TypeOK
    <2> SUFFICES ASSUME IInv PROVE TypeOK
      OBVIOUS
    <2>1. /\ config \in MaybeConfig /\ read \in MaybeConfig
          /\ push \in [Push -> Handler] /\ interrupted \in BOOLEAN
          /\ shown \in [Tag -> MaybeConfig] /\ badge \in MaybeConfig
      BY InformedConfigs DEF IInv, Shapes, MaybeConfig
    <2>2. Len(queue) <= MaxPosted + Cardinality(Push)
      BY QueueBounded DEF IInv
    <2>3. ASSUME NEW p \in Push
          PROVE  LET waits == {i \in DOMAIN queue : queue[i].push = p} IN
                 IF push[p].at \in Waiting
                 THEN \E i \in waits : waits = {i} /\ queue[i].op = AwaitedBy[push[p].at]
                 ELSE waits = {}
      <3>1. DOMAIN queue = 1..Len(queue) /\ p # None
        BY NoneAssumption DEF IInv, Shapes
      <3>2. CASE push[p].at \in Waiting
        <4>1. PICK i \in 1..Len(queue) : queue[i].push = p
          BY <3>2 DEF IInv, Lined, Line
        <4>2. {j \in DOMAIN queue : queue[j].push = p} = {i}
          BY <3>1, <4>1 DEF IInv, Lined, Line
        <4>3. queue[i].op = AwaitedBy[push[p].at]
          BY <3>1, <4>1 DEF IInv, Lined, Line
        <4>4. QED
          BY <3>2, <4>2, <4>3
      <3>3. CASE push[p].at \notin Waiting
        BY <3>1, <3>3 DEF IInv, Lined, Line
      <3>4. QED
        BY <3>2, <3>3
    <2>4. QED
      BY <2>1, <2>2, <2>3 DEF TypeOK
  <1>2. QED
    BY <1>1, Invariance, PTL

(* Whenever the worker is at rest, what it shows and what its badge counts *)
(* for is the stored configuration: no push that was being handled while   *)
(* one account replaced another, or left, leaves anything behind.          *)
THEOREM AtRestNothingStale == Spec => []NothingStale
  <1>1. IInv => NothingStale
    <2> SUFFICES ASSUME IInv, queue = <<>>, \A p \in Push : push[p].at \in Settled, ~interrupted
                 PROVE  /\ \A t \in Tag : shown[t] \in {None, config}
                        /\ badge \in {None, config}
      BY DEF NothingStale
    <2>1. step = "start"
      BY DEF IInv, Shapes
    <2>2. \A p \in Push, t \in Tag : ~Follows(p, t)
      BY DEF Follows, Settled
    <2>3. QED
      BY <2>1, <2>2, Behind, BadgeAtRest DEF IInv
  <1>2. QED
    BY <1>1, Invariance, PTL

\* What a step newly shows is for the stored configuration.
ShownRight == \A t \in Tag : shown'[t] \notin {None, shown[t]} => config \in {None, shown'[t]}

LEMMA ShownRightStep ==
    ASSUME IInv, [Next]_vars
    PROVE  ShownRight
  <1>1. CASE shown' = shown
    BY <1>1 DEF ShownRight
  <1>2. CASE Shows
    <2>1. PICK p \in Push : p = Head(queue).push
      BY <1>2, ShownNow
    <2>2. /\ config \in {push[p].config, None} /\ shown'[TagOf(p)] = push[p].config
          /\ \A t \in Tag : t # TagOf(p) => shown'[t] = shown[t]
      BY <1>2, <2>1, ShownNow
    <2>3. QED
      BY <2>2 DEF ShownRight
  <1>3. ASSUME \A t \in Tag : shown'[t] \in {None, shown[t]}
        PROVE  ShownRight
    BY <1>3 DEF ShownRight
  <1>4. shown \in [Tag -> Current \union {None}]
    BY DEF IInv, Shapes
  <1>5. CASE SetDismisses \/ ClearDismisses \/ DismissRoom \/ Unregister
    BY <1>3, <1>4, <1>5 DEF SetDismisses, ClearDismisses, DismissRoom, Unregister, Dismissed, Tag
  <1>6. CASE StaleDismisses
    <2>1. PICK u : shown' = [shown EXCEPT ![u] = IF shown[u] = Owner THEN None ELSE shown[u]]
      BY <1>6 DEF StaleDismisses
    <2>2. QED
      BY <1>3, <1>4, <2>1
  <1>7. CASE \E t \in Tag : Click(t)
    <2>1. PICK u \in Tag : shown' = [shown EXCEPT ![u] = None]
      BY <1>7 DEF Click
    <2>2. QED
      BY <1>3, <1>4, <2>1
  <1>8. CASE SetReads \/ SetWrites \/ SetUnbadges \/ ClearTakes \/ ClearUnbadges
             \/ MigrateReads \/ MigrateWrites \/ RenewalReads \/ RenewalMigrates
             \/ RenewalRegisters
    BY <1>1, <1>8 DEF SetReads, SetWrites, SetUnbadges, ClearTakes, ClearUnbadges, MigrateReads,
       MigrateWrites, RenewalReads, RenewalMigrates, RenewalRegisters, visible
  <1>9. CASE ShowReads \/ BadgeReads \/ BadgeSets \/ BadgeRechecks \/ StaleReads \/ OperationFails
    BY <1>1, <1>9 DEF ShowReads, BadgeReads, BadgeSets, BadgeRechecks, StaleReads, OperationFails,
       visible
  <1>10. CASE Post \/ Terminate \/ UNCHANGED vars
    BY <1>1, <1>10 DEF Post, Terminate, vars, visible
  <1>11. CASE \E p \in Push : Receive(p) \/ Handle(p)
    BY <1>1, <1>11 DEF Receive, Handle, ShowSetup, Confirm, ReadConfig, CheckOwner, ReadFails,
       Fallback, Ping, Close, CloseFails, visible
  <1>12. QED
    BY <1>2, <1>5, <1>6, <1>7, <1>8, <1>9, <1>10, <1>11 DEF Next, Operate

(* Nothing is ever shown for an account while another one is configured,   *)
(* not even for a moment.                                                  *)
THEOREM ShownForStored == Spec => ShownForConfigured
  <1>1. IInv /\ [Next]_vars
           => [\A t \in Tag : shown'[t] \notin {None, shown[t]} => config \in {None, shown'[t]}]_vars
    BY ShownRightStep DEF ShownRight
  <1>2. QED
    BY <1>1, Invariance, PTL DEF Spec, ShownForConfigured
=============================================================================
