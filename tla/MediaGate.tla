----------------------------- MODULE MediaGate -----------------------------
(***************************************************************************)
(* MediaOperationGate of media.ts: one memory-heavy operation at a time, a *)
(* short queue in front of it, and the bytes the queue may reserve.        *)
(*                                                                         *)
(* The actions below describe the gate's part of a step: the service takes *)
(* each of them together with a change of its own (MediaService).          *)
(***************************************************************************)
EXTENDS Naturals, Sequences, FiniteSets

CONSTANTS
    Op,             \* the operations that may ask for the gate
    None,           \* no operation
    MaxQueue,       \* MAX_MEDIA_OPERATION_QUEUE
    Capacity,       \* MAX_MEDIA_OPERATION_CAPACITY, with the active one
    MaxQueuedBytes  \* MAX_QUEUED_MEDIA_BYTES

ASSUME OpAssumption == IsFiniteSet(Op)
ASSUME NoneAssumption == None \notin Op
ASSUME BoundsAssumption == {MaxQueue, Capacity, MaxQueuedBytes} \subseteq Nat

VARIABLES
    active,         \* the operation that holds the lease
    queue,          \* the operations queued, with what they reserve
    queuedBytes,    \* the running total of the queue's reservations
    closed,         \* the service has stopped
    aborted         \* operations whose lease's signal is aborted

gate == <<active, queue, queuedBytes, closed, aborted>>

Node == [op : Op, bytes : Nat]

Queued == {queue[i].op : i \in DOMAIN queue}

GateInit ==
    /\ active = None
    /\ queue = <<>> /\ queuedBytes = 0
    /\ closed = FALSE
    /\ aborted = {}

(* Math.max(0, total - bytes). *)
Less(total, bytes) == IF bytes > total THEN 0 ELSE total - bytes

(* The sum of what some nodes reserve, as the number of the bytes, each    *)
(* named by its operation, which is queued once.                           *)
Reserved(nodes) == Cardinality(UNION {{node.op} \X (1..node.bytes) : node \in nodes})

(* The nodes left, in their order, when some operations leave.             *)
Remaining(nodes, ops) ==
    LET stay == {i \in DOMAIN nodes : nodes[i].op \notin ops}
        place(k) == CHOOSE i \in stay : Cardinality({j \in stay : j <= i}) = k
    IN  [k \in 1..Cardinality(stay) |-> nodes[place(k)]]

(* With holder and nodes as they are now, the first queued one is granted  *)
(* the lease when nobody has it.                                           *)
Pumped(holder, nodes, bytes) ==
    IF holder = None /\ nodes # <<>> /\ ~closed
    THEN /\ active' = Head(nodes).op
         /\ queue' = Tail(nodes)
         /\ queuedBytes' = Less(bytes, Head(nodes).bytes)
    ELSE /\ active' = holder
         /\ queue' = nodes
         /\ queuedBytes' = bytes

Admitted(bytes) ==
    /\ ~closed
    /\ Len(queue) + (IF active = None THEN 0 ELSE 1) < Capacity
    /\ Len(queue) < MaxQueue
    /\ queuedBytes + bytes <= MaxQueuedBytes

Acquire(o, bytes) ==
    /\ Admitted(bytes)
    /\ Pumped(active, Append(queue, [op |-> o, bytes |-> bytes]), queuedBytes + bytes)
    /\ UNCHANGED <<closed, aborted>>

\* Faulty variant: the next one is not started.
ReleaseOnly(o) ==
    /\ active = o
    /\ active' = None
    /\ aborted' = aborted \ {o}
    /\ UNCHANGED <<queue, queuedBytes, closed>>

(* A lease is released once, by the operation that holds it. *)
Release(o) ==
    /\ active = o
    /\ Pumped(None, queue, queuedBytes)
    /\ aborted' = aborted \ {o}
    /\ UNCHANGED closed

\* Faulty variant: what they reserved stays counted.
AbortUncounted(ops) ==
    /\ queue' = Remaining(queue, ops)
    /\ aborted' = aborted \union (ops \intersect {active})
    /\ UNCHANGED <<active, queuedBytes, closed>>

(* A queued operation leaves the queue; an active one is told, and keeps   *)
(* the lease until what it does has settled.                               *)
Abort(ops) ==
    LET gone == {i \in DOMAIN queue : queue[i].op \in ops} IN
    /\ queue' = Remaining(queue, ops)
    /\ queuedBytes' = Less(queuedBytes, Reserved({queue[i] : i \in gone}))
    /\ aborted' = aborted \union (ops \intersect {active})
    /\ UNCHANGED <<active, closed>>

Close ==
    /\ closed' = TRUE
    /\ queue' = <<>> /\ queuedBytes' = 0
    /\ aborted' = aborted \union ({active} \ {None})
    /\ UNCHANGED active

-----------------------------------------------------------------------------
(* The total that admission relies on is what the queue reserves, within   *)
(* its bounds, whatever order operations were queued, granted, aborted and *)
(* released in: a total that drifts up makes the gate refuse for ever.     *)
GateCounts ==
    /\ queuedBytes = Reserved({queue[i] : i \in DOMAIN queue}) /\ queuedBytes <= MaxQueuedBytes
    /\ Len(queue) <= MaxQueue
    /\ \A i, j \in DOMAIN queue : queue[i].op = queue[j].op => i = j
    /\ active \notin Queued
    /\ active = None => queue = <<>>
=============================================================================
