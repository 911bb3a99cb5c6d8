------------------------- MODULE MediaServiceProofs -------------------------
(***************************************************************************)
(* Theorems about MediaService, for every set of operations, keys and      *)
(* attachments and all bounds of the gate and the cache.                   *)
(*                                                                         *)
(* The inductive invariant IInv has five parts.  Gated: the queue holds    *)
(* distinct operations, its total is what they reserve, and who holds the  *)
(* lease is not queued.  Turns: who holds or awaits the lease is at a      *)
(* place where it may.  Placed: the types.  Kept: what the cache counts.   *)
(* Entered: an entry that has not settled is that of an operation on its   *)
(* way to settle or remove it, and such an operation's has not settled.    *)
(*                                                                         *)
(* A sum is the number of units it counts, each named by what it belongs   *)
(* to, so that the sum of two disjoint parts is that of their cardinals.   *)
(***************************************************************************)
EXTENDS MediaService, FiniteSetTheorems, TLAPS

-----------------------------------------------------------------------------
(* What nodes reserve.                                                     *)

Small == {node \in Node : node.bytes <= MaxQueuedBytes}

Units(nodes) == UNION {{node.op} \X (1..node.bytes) : node \in nodes}

LEMMA DisjointSum ==
    ASSUME NEW S, NEW T, IsFiniteSet(S), IsFiniteSet(T), S \intersect T = {}
    PROVE  /\ Cardinality(S \union T) = Cardinality(S) + Cardinality(T)
           /\ Cardinality(S) \in Nat /\ Cardinality(T) \in Nat
  <1>1. /\ Cardinality(S \union T)
              = Cardinality(S) + Cardinality(T) - Cardinality(S \intersect T)
        /\ Cardinality(S) \in Nat /\ Cardinality(T) \in Nat
    BY FS_Union, FS_CardinalityType
  <1>2. Cardinality(S \intersect T) = 0
    BY FS_EmptySet
  <1>3. QED
    BY <1>1, <1>2

LEMMA RowSize ==
    ASSUME NEW x, NEW n \in Nat
    PROVE  IsFiniteSet({x} \X (1..n)) /\ Cardinality({x} \X (1..n)) = n
  <1>1. IsFiniteSet({x}) /\ Cardinality({x}) = 1
    BY FS_Singleton
  <1>2. IsFiniteSet(1..n) /\ Cardinality(1..n) = n
    <2>1. 1 \in Int /\ n \in Int
      OBVIOUS
    <2>2. IsFiniteSet(1..n) /\ Cardinality(1..n) = IF 1 > n THEN 0 ELSE n - 1 + 1
      BY <2>1, FS_Interval
    <2>3. QED
      BY <2>2
  <1>3. /\ IsFiniteSet({x} \X (1..n))
        /\ Cardinality({x} \X (1..n)) = Cardinality({x}) * Cardinality(1..n)
    BY <1>1, <1>2, FS_Product
  <1>4. 1 * n = n
    OBVIOUS
  <1>5. QED
    BY <1>1, <1>2, <1>3, <1>4

LEMMA UnitsFinite ==
    ASSUME NEW nodes \in SUBSET Small
    PROVE  IsFiniteSet(Units(nodes)) /\ Reserved(nodes) = Cardinality(Units(nodes))
           /\ Reserved(nodes) \in Nat
  <1>1. MaxQueuedBytes \in Nat
    BY BoundsAssumption
  <1>2. IsFiniteSet(1..MaxQueuedBytes)
    BY <1>1, FS_Interval
  <1>3. IsFiniteSet(Op \X (1..MaxQueuedBytes))
    BY <1>2, OpAssumption, FS_Product
  <1>4. Units(nodes) \subseteq Op \X (1..MaxQueuedBytes)
    BY <1>1 DEF Units, Small, Node
  <1>5. IsFiniteSet(Units(nodes))
    BY <1>3, <1>4, FS_Subset
  <1>6. Cardinality(Units(nodes)) \in Nat
    BY <1>5, FS_CardinalityType
  <1>7. QED
    BY <1>5, <1>6 DEF Reserved, Units

LEMMA ReservedSplit ==
    ASSUME NEW A \in SUBSET Small, NEW B \in SUBSET Small,
           \A a \in A, b \in B : a.op # b.op
    PROVE  Reserved(A \union B) = Reserved(A) + Reserved(B)
  <1>1. Units(A \union B) = Units(A) \union Units(B)
    BY DEF Units
  <1>2. Units(A) \intersect Units(B) = {}
    BY DEF Units
  <1>3. A \union B \in SUBSET Small
    OBVIOUS
  <1>4. /\ Reserved(A) = Cardinality(Units(A)) /\ IsFiniteSet(Units(A))
        /\ Reserved(B) = Cardinality(Units(B)) /\ IsFiniteSet(Units(B))
        /\ Reserved(A \union B) = Cardinality(Units(A \union B))
    BY <1>3, UnitsFinite
  <1>5. Cardinality(Units(A) \union Units(B)) = Cardinality(Units(A)) + Cardinality(Units(B))
    BY <1>2, <1>4, DisjointSum
  <1>6. QED
    BY <1>1, <1>4, <1>5

LEMMA ReservedByOne ==
    ASSUME NEW n \in Small
    PROVE  Reserved({n}) = n.bytes
  <1>1. UNION {{node.op} \X (1..node.bytes) : node \in {n}} = {n.op} \X (1..n.bytes)
    OBVIOUS
  <1>2. n.bytes \in Nat
    BY DEF Small, Node
  <1>3. QED
    BY <1>1, <1>2, RowSize DEF Reserved

LEMMA ReservedByNone == Reserved({}) = 0
  BY FS_EmptySet DEF Reserved

-----------------------------------------------------------------------------
(* The queue, and what it looks like when operations leave it.             *)

Nodes(q) == {q[i] : i \in DOMAIN q}
Distinct(q) == \A i, j \in DOMAIN q : q[i].op = q[j].op => i = j
OpsOf(q) == {q[i].op : i \in DOMAIN q}

LEMMA NodesSmall ==
    ASSUME NEW q \in Seq(Small)
    PROVE  /\ Len(q) \in Nat /\ DOMAIN q = 1..Len(q) /\ Nodes(q) \in SUBSET Small
           /\ \A i \in 1..Len(q) : q[i] \in Small
           /\ OpsOf(q) \subseteq Op
  <1>1. Len(q) \in Nat /\ DOMAIN q = 1..Len(q) /\ \A i \in 1..Len(q) : q[i] \in Small
    OBVIOUS
  <1>2. QED
    BY <1>1 DEF Nodes, OpsOf, Small, Node

LEMMA Appended ==
    ASSUME NEW q \in Seq(Small), Distinct(q), NEW n \in Small, n.op \notin OpsOf(q)
    PROVE  /\ Append(q, n) \in Seq(Small) /\ Len(Append(q, n)) = Len(q) + 1
           /\ Append(q, n) # <<>> /\ Distinct(Append(q, n))
           /\ OpsOf(Append(q, n)) = OpsOf(q) \union {n.op}
           /\ Reserved(Nodes(Append(q, n))) = Reserved(Nodes(q)) + n.bytes
           /\ q = <<>> => Head(Append(q, n)) = n /\ Tail(Append(q, n)) = <<>>
  <1> DEFINE r == Append(q, n)
  <1>1. /\ r \in Seq(Small) /\ Len(q) \in Nat /\ Len(r) = Len(q) + 1
        /\ DOMAIN q = 1..Len(q) /\ DOMAIN r = 1..Len(r)
        /\ \A i \in 1..Len(q) : r[i] = q[i]
        /\ r[Len(q) + 1] = n
    OBVIOUS
  <1>2. q = <<>> => Head(r) = n /\ Tail(r) = <<>>
    OBVIOUS
  <1> HIDE DEF r
  <1>3. r # <<>>
    BY <1>1
  <1>4. Nodes(r) = Nodes(q) \union {n}
    BY <1>1 DEF Nodes
  <1>5. OpsOf(r) = OpsOf(q) \union {n.op}
    BY <1>1 DEF OpsOf
  <1>6. Distinct(r)
    <2> SUFFICES ASSUME NEW i \in 1..Len(r), NEW j \in 1..Len(r), r[i].op = r[j].op
                 PROVE  i = j
      BY <1>1 DEF Distinct
    <2>1. CASE i \in 1..Len(q) /\ j \in 1..Len(q)
      BY <1>1, <2>1 DEF Distinct
    <2>2. CASE i = Len(q) + 1 \/ j = Len(q) + 1
      BY <1>1, <2>2 DEF OpsOf
    <2>3. QED
      BY <1>1, <2>1, <2>2
  <1>7. Reserved(Nodes(r)) = Reserved(Nodes(q)) + n.bytes
    <2>1. Nodes(q) \in SUBSET Small /\ {n} \in SUBSET Small
      BY NodesSmall
    <2>2. \A a \in Nodes(q), b \in {n} : a.op # b.op
      BY DEF Nodes, OpsOf
    <2>3. QED
      BY <1>4, <2>1, <2>2, ReservedSplit, ReservedByOne
  <1>8. QED
    BY <1>1, <1>2, <1>3, <1>5, <1>6, <1>7 DEF r

LEMMA Shifted ==
    ASSUME NEW q \in Seq(Small), Distinct(q), q # <<>>
    PROVE  /\ Tail(q) \in Seq(Small) /\ Len(Tail(q)) = Len(q) - 1 /\ Len(q) > 0
           /\ Distinct(Tail(q))
           /\ Head(q) \in Small /\ Head(q).op \in OpsOf(q)
           /\ OpsOf(Tail(q)) = OpsOf(q) \ {Head(q).op}
           /\ Reserved(Nodes(q)) = Reserved(Nodes(Tail(q))) + Head(q).bytes
  <1> DEFINE r == Tail(q)
             h == Head(q)
  <1>1. /\ r \in Seq(Small) /\ Len(q) \in Nat /\ Len(q) > 0 /\ Len(r) = Len(q) - 1
        /\ DOMAIN q = 1..Len(q) /\ DOMAIN r = 1..Len(r)
        /\ \A i \in 1..Len(r) : r[i] = q[i + 1]
        /\ h = q[1] /\ h \in Small
    OBVIOUS
  <1> HIDE DEF r, h
  <1>2. \A i \in 1..Len(r) : i + 1 \in 1..Len(q) /\ i + 1 # 1 /\ i \in Nat
    BY <1>1
  <1>3. \A i \in 1..Len(q) : i = 1 \/ (i - 1 \in 1..Len(r) /\ r[i - 1] = q[i])
    BY <1>1
  <1>4. 1 \in 1..Len(q)
    BY <1>1
  <1>5. Distinct(r)
    <2> SUFFICES ASSUME NEW i \in 1..Len(r), NEW j \in 1..Len(r), r[i].op = r[j].op
                 PROVE  i = j
      BY <1>1 DEF Distinct
    <2>0. /\ i + 1 \in 1..Len(q) /\ j + 1 \in 1..Len(q)
          /\ q[i + 1].op = q[j + 1].op
      BY <1>1, <1>2
    <2>1. i + 1 = j + 1
      BY <1>1, <2>0 DEF Distinct
    <2>2. QED
      BY <1>2, <2>1
  <1>6. \A i \in 1..Len(r) : r[i].op # h.op
    BY <1>1, <1>2, <1>4 DEF Distinct
  <1>7. Nodes(q) = Nodes(r) \union {h}
    <2>1. \A i \in 1..Len(q) : q[i] = h \/ \E j \in 1..Len(r) : q[i] = r[j]
      BY <1>1, <1>3
    <2>2. \A j \in 1..Len(r) : \E i \in 1..Len(q) : q[i] = r[j]
      BY <1>1, <1>2
    <2>3. Nodes(q) = {q[i] : i \in 1..Len(q)} /\ Nodes(r) = {r[i] : i \in 1..Len(r)}
      BY <1>1 DEF Nodes
    <2>4. Nodes(q) \subseteq Nodes(r) \union {h}
      BY <2>1, <2>3
    <2>5. Nodes(r) \subseteq Nodes(q) /\ h \in Nodes(q)
      BY <1>1, <1>4, <2>2, <2>3
    <2>6. QED
      BY <2>4, <2>5
  <1>8. OpsOf(r) = OpsOf(q) \ {h.op}
    <2>1. \A i \in 1..Len(q) : q[i].op = h.op \/ \E j \in 1..Len(r) : q[i].op = r[j].op
      BY <1>1, <1>3
    <2>2. \A j \in 1..Len(r) : r[j].op # h.op /\ \E i \in 1..Len(q) : q[i].op = r[j].op
      BY <1>1, <1>2, <1>6
    <2>3. OpsOf(q) = {q[i].op : i \in 1..Len(q)} /\ OpsOf(r) = {r[i].op : i \in 1..Len(r)}
      BY <1>1 DEF OpsOf
    <2>4. OpsOf(q) \ {h.op} \subseteq OpsOf(r)
      BY <2>1, <2>3
    <2>5. OpsOf(r) \subseteq OpsOf(q) \ {h.op}
      BY <2>2, <2>3
    <2>6. QED
      BY <2>4, <2>5
  <1>9. Reserved(Nodes(q)) = Reserved(Nodes(r)) + h.bytes
    <2>1. Nodes(r) \in SUBSET Small /\ {h} \in SUBSET Small
      BY <1>1, NodesSmall
    <2>2. \A a \in Nodes(r), b \in {h} : a.op # b.op
      BY <1>1, <1>6 DEF Nodes
    <2>3. QED
      BY <1>1, <1>7, <2>1, <2>2, ReservedSplit, ReservedByOne
  <1>10. h.op \in OpsOf(q)
    BY <1>1, <1>4 DEF OpsOf
  <1>11. QED
    BY <1>1, <1>5, <1>8, <1>9, <1>10 DEF r, h

(* The numbers up to m without one of them are m - 1.                      *)
LEMMA OneShort ==
    ASSUME NEW m \in Nat, NEW k \in 1..m
    PROVE  IsFiniteSet((1..m) \ {k}) /\ Cardinality((1..m) \ {k}) = m - 1
  <1>1. IsFiniteSet(1..m) /\ Cardinality(1..m) = IF 1 > m THEN 0 ELSE m - 1 + 1
    BY FS_Interval
  <1>2. /\ IsFiniteSet((1..m) \ {k})
        /\ Cardinality((1..m) \ {k})
             = IF k \in 1..m THEN Cardinality(1..m) - 1 ELSE Cardinality(1..m)
    <2>1. IsFiniteSet(1..m)
      BY <1>1
    <2>2. QED
      BY ONLY <2>1, FS_RemoveElement
  <1>3. Cardinality(1..m) = m
    BY <1>1
  <1>4. QED
    BY <1>2, <1>3

(* The places of those that stay are filled in order, one by one.          *)
LEMMA PlacesFilled ==
    ASSUME NEW n \in Nat, NEW stay \in SUBSET (1..n)
    PROVE  /\ IsFiniteSet(stay) /\ Cardinality(stay) \in Nat /\ Cardinality(stay) <= n
           /\ \A k \in 1..Cardinality(stay) :
                 \E i \in stay : Cardinality({j \in stay : j <= i}) = k
           /\ \A i \in stay : Cardinality({j \in stay : j <= i}) \in 1..Cardinality(stay)
           /\ \A i, k \in stay : Cardinality({j \in stay : j <= i})
                                   = Cardinality({j \in stay : j <= k}) => i = k
  <1> DEFINE upto(i) == {j \in stay : j <= i}
             m == Cardinality(stay)
             rank == [i \in stay |-> Cardinality(upto(i))]
  <1>1. IsFiniteSet(1..n) /\ Cardinality(1..n) = n
    BY RowSize, FS_Interval
  <1>2. IsFiniteSet(stay) /\ m \in Nat /\ m <= n
    BY <1>1, FS_Subset, FS_CardinalityType
  <1>3. ASSUME NEW i \in stay
        PROVE  IsFiniteSet(upto(i)) /\ rank[i] \in 1..m /\ rank[i] = Cardinality(upto(i))
    <2>1. upto(i) \subseteq stay /\ i \in upto(i)
      OBVIOUS
    <2>2. IsFiniteSet(upto(i)) /\ Cardinality(upto(i)) <= m
      BY <1>2, <2>1, FS_Subset
    <2>3. Cardinality(upto(i)) \in Nat /\ Cardinality(upto(i)) # 0
      BY <2>1, <2>2, FS_CardinalityType, FS_EmptySet
    <2>4. QED
      BY <1>2, <2>2, <2>3
  <1>4. ASSUME NEW i \in stay, NEW k \in stay, i < k
        PROVE  rank[i] # rank[k]
    <2>a. stay \subseteq Int
      OBVIOUS
    <2>b. \A j \in stay : j <= i => j <= k
      BY <2>a, <1>4
    <2>c. k <= k /\ ~(k <= i)
      BY <2>a, <1>4
    <2>1. upto(i) \subseteq upto(k) /\ k \in upto(k) /\ k \notin upto(i)
      BY <2>b, <2>c
    <2>2. upto(i) # upto(k)
      BY <2>1
    <2>3. Cardinality(upto(i)) # Cardinality(upto(k))
      BY <1>3, <2>1, <2>2, FS_Subset
    <2>4. QED
      BY <1>3, <2>3
  <1>5. \A i, k \in stay : rank[i] = rank[k] => i = k
    <2>1. \A i, k \in stay : i < k \/ k < i \/ i = k
      OBVIOUS
    <2>2. QED
      BY <1>4, <2>1
  <1>6. ASSUME NEW k \in 1..m
        PROVE  \E i \in stay : rank[i] = k
    <2> SUFFICES ASSUME \A i \in stay : rank[i] # k PROVE FALSE
      OBVIOUS
    <2> DEFINE rest == (1..m) \ {k}
    <2>1. IsFiniteSet(rest) /\ Cardinality(rest) = m - 1
      BY <1>2, OneShort
    <2>2. \A i \in stay : rank[i] \in rest
      BY <1>3
    <2>3. rank \in [stay -> rest]
      BY <2>2
    <2>4. rank \in Injection(stay, rest)
      BY <1>5, <2>3 DEF Injection, IsInjective
    <2>5. m <= m - 1
      BY <2>1, <2>4, FS_Injection
    <2>6. QED
      BY <1>2, <2>5
  <1>7. QED
    BY <1>2, <1>3, <1>5, <1>6

LEMMA Remains ==
    ASSUME NEW q \in Seq(Small), Distinct(q), NEW gone
    PROVE  LET r == Remaining(q, gone) IN
           /\ r \in Seq(Small) /\ Len(r) \in Nat /\ Len(r) <= Len(q) /\ Distinct(r)
           /\ OpsOf(r) = OpsOf(q) \ gone
           /\ Nodes(r) = {node \in Nodes(q) : node.op \notin gone}
  <1> DEFINE stay == {i \in DOMAIN q : q[i].op \notin gone}
             upto(i) == {j \in stay : j <= i}
             m == Cardinality(stay)
             place == [k \in 1..m |-> CHOOSE i \in stay : Cardinality(upto(i)) = k]
             r == [k \in 1..m |-> q[place[k]]]
  <1>1. /\ Len(q) \in Nat /\ DOMAIN q = 1..Len(q) /\ stay \in SUBSET (1..Len(q))
        /\ \A i \in 1..Len(q) : q[i] \in Small
    BY NodesSmall
  <1>2. Remaining(q, gone) = r
    BY DEF Remaining
  <1>3. /\ m \in Nat /\ m <= Len(q)
        /\ \A k \in 1..m : \E i \in stay : Cardinality(upto(i)) = k
        /\ \A i \in stay : Cardinality(upto(i)) \in 1..m
        /\ \A i, k \in stay : Cardinality(upto(i)) = Cardinality(upto(k)) => i = k
    BY <1>1, PlacesFilled
  <1>4. \A k \in 1..m : place[k] \in stay /\ Cardinality(upto(place[k])) = k
    BY <1>3
  <1>5. \A i \in stay : \E k \in 1..m : place[k] = i
    BY <1>3, <1>4
  <1> HIDE DEF place, upto, m
  <1>6. \A k \in 1..m : r[k] = q[place[k]] /\ r[k] \in Small /\ place[k] \in 1..Len(q)
                        /\ r[k].op \notin gone
    BY <1>1, <1>4
  <1>7. r \in Seq(Small) /\ Len(r) = m /\ DOMAIN r = 1..m
    BY <1>3, <1>6
  <1>8. \A i \in 1..Len(q) : q[i].op \notin gone => \E k \in 1..m : r[k] = q[i]
    BY <1>1, <1>5, <1>6
  <1> HIDE DEF r
  <1>9. Distinct(r)
    <2> SUFFICES ASSUME NEW i \in 1..m, NEW k \in 1..m, r[i].op = r[k].op
                 PROVE  i = k
      BY <1>7 DEF Distinct
    <2>0. /\ place[i] \in 1..Len(q) /\ place[k] \in 1..Len(q)
          /\ q[place[i]].op = q[place[k]].op
      BY <1>6
    <2>1. \A a, b \in 1..Len(q) : q[a].op = q[b].op => a = b
      BY <1>1 DEF Distinct
    <2>2. place[i] = place[k]
      BY ONLY <2>0, <2>1
    <2>3. Cardinality(upto(place[i])) = i /\ Cardinality(upto(place[k])) = k
      BY <1>4
    <2>4. QED
      BY ONLY <2>2, <2>3
  <1>10. OpsOf(r) = OpsOf(q) \ gone
    <2>1. /\ OpsOf(q) = {q[i].op : i \in 1..Len(q)}
          /\ OpsOf(r) = {r[k].op : k \in 1..m}
      BY <1>1, <1>7 DEF OpsOf
    <2>2. OpsOf(r) \subseteq OpsOf(q) \ gone
      BY <1>6, <2>1
    <2>3. OpsOf(q) \ gone \subseteq OpsOf(r)
      BY <1>8, <2>1
    <2>4. QED
      BY <2>2, <2>3
  <1>11. Nodes(r) = {node \in Nodes(q) : node.op \notin gone}
    <2>1. Nodes(q) = {q[i] : i \in 1..Len(q)} /\ Nodes(r) = {r[k] : k \in 1..m}
      BY <1>1, <1>7 DEF Nodes
    <2>2. \A k \in 1..m : r[k] \in Nodes(q) /\ r[k].op \notin gone
      BY <1>6, <2>1
    <2>3. \A node \in Nodes(q) : node.op \notin gone => node \in Nodes(r)
      BY <1>8, <2>1
    <2>4. QED
      BY <2>1, <2>2, <2>3
  <1>12. QED
    BY <1>2, <1>3, <1>7, <1>9, <1>10, <1>11

-----------------------------------------------------------------------------
(* What the cache holds.                                                   *)

Sized == {e \in Entry : e.bytes <= MaxCacheBytes}
Caches == [Slot -> Sized \union {None}]

UnitsOf(c) == UNION {{s} \X (1..c[s].bytes) : s \in SettledIn(c)}

LEMMA SlotsFinite == IsFiniteSet(Slot)
  <1>1. IsFiniteSet({"asset", "poster"})
    <2>1. IsFiniteSet({"poster"}) /\ {"asset", "poster"} = {"poster"} \union {"asset"}
      BY FS_Singleton
    <2>2. QED
      BY <2>1, FS_AddElement
  <1>2. QED
    BY <1>1, KeyAssumption, FS_Product DEF Slot

LEMMA CacheFacts ==
    ASSUME NEW c \in Caches
    PROVE  /\ \A s \in Slot : c[s] = None \/ (c[s] \in Sized /\ c[s] # None)
           /\ \A s \in Present(c) : s \in Slot /\ c[s] \in Sized
           /\ IsFiniteSet(Present(c)) /\ Cardinality(Present(c)) \in Nat
           /\ IsFiniteSet(UnitsOf(c)) /\ BytesOf(c) = Cardinality(UnitsOf(c))
           /\ BytesOf(c) \in Nat
  <1>1. \A s \in Slot : c[s] = None \/ (c[s] \in Sized /\ c[s] # None)
    BY EntryAssumption DEF Caches, Sized
  <1>2. \A s \in Present(c) : s \in Slot /\ c[s] \in Sized
    BY <1>1 DEF Present
  <1>3. IsFiniteSet(Present(c)) /\ Cardinality(Present(c)) \in Nat
    <2>1. Present(c) \subseteq Slot
      BY DEF Present
    <2>2. QED
      BY <2>1, SlotsFinite, FS_Subset, FS_CardinalityType
  <1>4. IsFiniteSet(UnitsOf(c))
    <2>1. MaxCacheBytes \in Nat
      BY SizeAssumption
    <2>2. IsFiniteSet(1..MaxCacheBytes)
      BY <2>1, FS_Interval
    <2>3. IsFiniteSet(Slot \X (1..MaxCacheBytes))
      BY <2>2, SlotsFinite, FS_Product
    <2>4. \A s \in SettledIn(c) : s \in Slot /\ c[s].bytes \in Nat /\ c[s].bytes <= MaxCacheBytes
      BY <1>2 DEF SettledIn, Sized, Entry
    <2>5. UnitsOf(c) \subseteq Slot \X (1..MaxCacheBytes)
      BY <2>1, <2>4 DEF UnitsOf
    <2>6. QED
      BY <2>3, <2>5, FS_Subset
  <1>5. QED
    BY <1>1, <1>2, <1>3, <1>4, FS_CardinalityType DEF BytesOf, UnitsOf

LEMMA Parted ==
    ASSUME NEW c \in Caches, NEW gone \in SUBSET Slot
    PROVE  /\ Without(c, gone) \in Caches
           /\ Present(Without(c, gone)) = Present(c) \ gone
           /\ SettledIn(Without(c, gone)) = SettledIn(c) \ gone
           /\ Freed(c, gone) \in Nat
           /\ BytesOf(c) = BytesOf(Without(c, gone)) + Freed(c, gone)
  <1> DEFINE w == Without(c, gone)
             f == [s \in Slot |-> IF s \in gone THEN c[s] ELSE None]
  <1>1. w \in Caches /\ f \in Caches
    BY DEF Caches, Without
  <1>2. /\ \A s \in Slot : w[s] = IF s \in gone THEN None ELSE c[s]
        /\ \A s \in Slot : f[s] = IF s \in gone THEN c[s] ELSE None
        /\ Freed(c, gone) = BytesOf(f)
    BY DEF Without, Freed
  <1> HIDE DEF w, f
  <1>3. Present(w) = Present(c) \ gone /\ Present(f) = Present(c) \intersect gone
    BY <1>2 DEF Present
  <1>4. SettledIn(w) = SettledIn(c) \ gone /\ SettledIn(f) = SettledIn(c) \intersect gone
    BY <1>2, <1>3 DEF SettledIn, Present
  <1>5. \A s \in SettledIn(w) : w[s] = c[s]
    BY <1>2, <1>4 DEF SettledIn, Present
  <1>6. \A s \in SettledIn(f) : f[s] = c[s]
    BY <1>2, <1>4 DEF SettledIn, Present
  <1>7. UnitsOf(c) = UnitsOf(w) \union UnitsOf(f)
    BY <1>4, <1>5, <1>6 DEF UnitsOf
  <1>8. UnitsOf(w) \intersect UnitsOf(f) = {}
    BY <1>4 DEF UnitsOf
  <1>9. /\ BytesOf(c) = Cardinality(UnitsOf(c))
        /\ IsFiniteSet(UnitsOf(w)) /\ BytesOf(w) = Cardinality(UnitsOf(w))
        /\ IsFiniteSet(UnitsOf(f)) /\ BytesOf(f) = Cardinality(UnitsOf(f)) /\ BytesOf(f) \in Nat
    BY <1>1, CacheFacts
  <1>10. Cardinality(UnitsOf(w) \union UnitsOf(f))
             = Cardinality(UnitsOf(w)) + Cardinality(UnitsOf(f))
    BY <1>8, <1>9, DisjointSum
  <1>11. BytesOf(c) = BytesOf(w) + Freed(c, gone) /\ Freed(c, gone) \in Nat
    BY <1>2, <1>7, <1>9, <1>10
  <1>12. QED
    BY <1>1, <1>3, <1>4, <1>11 DEF w

(* Settling an entry counts its bytes, and nothing else.                   *)
LEMMA Settling ==
    ASSUME NEW c \in Caches, NEW s \in Present(c), ~c[s].settled,
           NEW b \in Nat, b <= MaxCacheBytes,
           NEW d \in Caches, \A t \in Slot : t # s => d[t] = c[t],
           d[s] \in Sized, d[s].settled, d[s].bytes = b
    PROVE  /\ Present(d) = Present(c) /\ SettledIn(d) = SettledIn(c) \union {s}
           /\ BytesOf(d) = BytesOf(c) + b
  <1>1. s \in Slot /\ c[s] \in Sized /\ s \notin SettledIn(c)
    BY CacheFacts DEF SettledIn
  <1>8. d[s] # None
    BY EntryAssumption DEF Sized
  <1>9. Present(d) = Present(c)
    BY <1>1, <1>8 DEF Present
  <1>10. SettledIn(d) = SettledIn(c) \union {s}
    <2>1. \A t \in Present(c) : t # s => d[t].settled = c[t].settled
      BY DEF Present
    <2>2. QED
      BY <1>9, <2>1 DEF SettledIn
  <1>11. UnitsOf(d) = UnitsOf(c) \union ({s} \X (1..b))
    <2>1. \A t \in SettledIn(c) : d[t].bytes = c[t].bytes
      BY <1>1 DEF SettledIn, Present
    <2>2. UnitsOf(d) = UNION {{t} \X (1..d[t].bytes) : t \in SettledIn(c) \union {s}}
      BY <1>10 DEF UnitsOf
    <2>3. UnitsOf(c) = UNION {{t} \X (1..d[t].bytes) : t \in SettledIn(c)}
      BY <2>1 DEF UnitsOf
    <2>4. {s} \X (1..b) = {s} \X (1..d[s].bytes)
      OBVIOUS
    <2> HIDE DEF Present, SettledIn, UnitsOf
    <2>5. QED
      BY <2>2, <2>3, <2>4
  <1>12. UnitsOf(c) \intersect ({s} \X (1..b)) = {}
    BY <1>1 DEF UnitsOf
  <1>13. /\ BytesOf(d) = Cardinality(UnitsOf(d)) /\ BytesOf(c) = Cardinality(UnitsOf(c))
         /\ IsFiniteSet(UnitsOf(c)) /\ IsFiniteSet({s} \X (1..b))
         /\ Cardinality({s} \X (1..b)) = b
    BY CacheFacts, RowSize
  <1>14. Cardinality(UnitsOf(c) \union ({s} \X (1..b)))
             = Cardinality(UnitsOf(c)) + Cardinality({s} \X (1..b))
    BY <1>12, <1>13, DisjointSum
  <1>15. BytesOf(d) = BytesOf(c) + b
    BY <1>11, <1>13, <1>14
  <1>16. QED
    BY <1>9, <1>10, <1>15

-----------------------------------------------------------------------------
(* The totals of the cache.                                                *)

Kept(c, bytes, keys, urls) ==
    /\ c \in Caches
    /\ bytes = BytesOf(c) /\ Fits(c)
    /\ keys = Keys(Present(c))
    /\ urls = UrlsOf(c, Present(c))

KeptNow == Kept(cache, cacheBytes, aliased, live)

LEMMA KeysParted ==
    ASSUME NEW A \in SUBSET Slot, NEW B \in SUBSET Slot
    PROVE  /\ Keys(A) \ Keys(B) = Keys(A \ B)
           /\ Keys(A) \union Keys(B) = Keys(A \union B)
  <1>1. ASSUME NEW S \in SUBSET Slot
        PROVE  Keys(S) = {k \in Key : <<"asset", k>> \in S}
    BY DEF Keys, Slot
  <1>2. A \ B \in SUBSET Slot /\ A \union B \in SUBSET Slot
    OBVIOUS
  <1>3. Keys(A) \ Keys(B) = Keys(A \ B)
    <2>1. /\ Keys(A) = {k \in Key : <<"asset", k>> \in A}
          /\ Keys(B) = {k \in Key : <<"asset", k>> \in B}
          /\ Keys(A \ B) = {k \in Key : <<"asset", k>> \in A \ B}
      BY <1>1, <1>2
    <2>2. QED
      BY <2>1
  <1>4. Keys(A) \union Keys(B) = Keys(A \union B)
    <2>1. /\ Keys(A) = {k \in Key : <<"asset", k>> \in A}
          /\ Keys(B) = {k \in Key : <<"asset", k>> \in B}
          /\ Keys(A \union B) = {k \in Key : <<"asset", k>> \in A \union B}
      BY <1>1, <1>2
    <2>2. QED
      BY <2>1
  <1>5. QED
    BY <1>3, <1>4

LEMMA UrlsParted ==
    ASSUME NEW c \in Caches, NEW gone \in SUBSET Present(c)
    PROVE  UrlsOf(c, Present(c)) \ UrlsOf(c, gone)
               = UrlsOf(Without(c, gone), Present(Without(c, gone)))
  <1>1. Present(Without(c, gone)) = Present(c) \ gone
    BY Parted DEF Present
  <1>2. \A s \in Present(c) \ gone : Without(c, gone)[s] = c[s]
    BY DEF Without, Present
  <1>3. QED
    BY <1>1, <1>2 DEF UrlsOf, Url

LEMMA Rewritten ==
    ASSUME KeptNow, NEW c \in Caches, NEW fresh \in SUBSET Slot,
           NEW gone \in SUBSET Present(c), NEW more \in Nat,
           BytesOf(c) = BytesOf(cache) + more,
           Present(c) = Present(cache) \union fresh,
           UrlsOf(c, Present(c)) = UrlsOf(cache, Present(cache)),
           Rewrite(c, fresh, gone, more), Fits(Without(c, gone))
    PROVE  KeptNow' /\ cache' = Without(c, gone)
  <1>1. gone \in SUBSET Slot /\ Present(cache) \in SUBSET Slot /\ Present(c) \in SUBSET Slot
    BY DEF Present
  <1>2. /\ Without(c, gone) \in Caches /\ Present(Without(c, gone)) = Present(c) \ gone
        /\ Freed(c, gone) \in Nat /\ BytesOf(c) = BytesOf(Without(c, gone)) + Freed(c, gone)
    BY <1>1, Parted
  <1>3. BytesOf(Without(c, gone)) \in Nat
    BY <1>2, CacheFacts
  <1>4. /\ cache' = Without(c, gone)
        /\ cacheBytes' = Less(cacheBytes + more, Freed(c, gone))
        /\ live' = live \ UrlsOf(c, gone)
        /\ aliased' = (aliased \union Keys(fresh)) \ Keys(gone)
    BY DEF Rewrite, Revoked
  <1>5. cacheBytes + more = BytesOf(c)
    BY DEF KeptNow, Kept
  <1>6. cacheBytes' = BytesOf(cache')
    BY <1>2, <1>3, <1>4, <1>5 DEF Less
  <1>7. aliased' = Keys(Present(cache'))
    <2>1. aliased \union Keys(fresh) = Keys(Present(c))
      <3>1. aliased = Keys(Present(cache))
        BY DEF KeptNow, Kept
      <3>2. Keys(Present(cache)) \union Keys(fresh) = Keys(Present(cache) \union fresh)
        BY <1>1, KeysParted
      <3>3. QED
        BY <3>1, <3>2
    <2>2. Keys(Present(c)) \ Keys(gone) = Keys(Present(c) \ gone)
      BY <1>1, KeysParted
    <2>3. QED
      BY <1>2, <1>4, <2>1, <2>2
  <1>8. live' = UrlsOf(cache', Present(cache'))
    BY <1>4, UrlsParted DEF KeptNow, Kept
  <1>9. QED
    BY <1>2, <1>4, <1>6, <1>7, <1>8 DEF KeptNow, Kept

-----------------------------------------------------------------------------
(* What each change of the cache keeps.  No step makes an entry of another *)
(* operation of what was not one.                                          *)

\* d has the entries of c, or none in their place, but for the slot s.
Only(d, c, s) == \A t \in Slot : t # s => d[t] = None \/ d[t] = c[t]

LEMMA Smaller ==
    ASSUME NEW c \in Caches, NEW gone \in SUBSET Slot, Fits(c)
    PROVE  Fits(Without(c, gone))
  <1>1. /\ Without(c, gone) \in Caches /\ Present(Without(c, gone)) = Present(c) \ gone
        /\ Freed(c, gone) \in Nat /\ BytesOf(c) = BytesOf(Without(c, gone)) + Freed(c, gone)
    BY Parted
  <1>2. BytesOf(Without(c, gone)) \in Nat /\ BytesOf(c) \in Nat /\ IsFiniteSet(Present(c))
        /\ Cardinality(Present(c)) \in Nat /\ Cardinality(Present(Without(c, gone))) \in Nat
    BY <1>1, CacheFacts
  <1>3. Cardinality(Present(c) \ gone) <= Cardinality(Present(c))
    BY <1>2, FS_Subset
  <1>4. MaxCacheBytes \in Nat /\ MaxEntries \in Nat
    BY SizeAssumption
  <1>5. QED
    BY <1>1, <1>2, <1>3, <1>4 DEF Fits

LEMMA Dropped ==
    ASSUME KeptNow, NEW gone \in SUBSET Present(cache), Rewrite(cache, {}, gone, 0)
    PROVE  KeptNow' /\ cache' = Without(cache, gone)
  <1>1. cache \in Caches /\ Fits(cache) /\ gone \in SUBSET Slot
    BY DEF KeptNow, Kept, Present
  <1>2. Fits(Without(cache, gone))
    BY <1>1, Smaller
  <1>3. BytesOf(cache) = BytesOf(cache) + 0
    BY <1>1, CacheFacts
  <1>4. Present(cache) = Present(cache) \union {} /\ {} \in SUBSET Slot /\ 0 \in Nat
    OBVIOUS
  <1>5. QED
    BY <1>1, <1>2, <1>3, <1>4, Rewritten

LEMMA WithoutOnly ==
    ASSUME NEW c, NEW d, NEW s, NEW gone, Only(d, c, s)
    PROVE  Only(Without(d, gone), c, s)
  BY DEF Only, Without

LEMMA PendingFacts ==
    ASSUME NEW o \in Op
    PROVE  /\ Pending(o) \in Sized /\ Pending(o) # None
           /\ ~Pending(o).settled /\ ~Pending(o).url /\ Pending(o).by = o
  <1>1. MaxCacheBytes \in Nat
    BY SizeAssumption
  <1>2. Pending(o) \in Sized
    BY <1>1 DEF Pending, Sized, Entry
  <1>3. QED
    BY <1>2, EntryAssumption DEF Pending, Sized

LEMMA Inserted ==
    ASSUME KeptNow, NEW o \in Op, NEW s \in Slot, cache[s] = None, Insert(o, s)
    PROVE  KeptNow' /\ Only(cache', cache, s) /\ cache'[s] = Pending(o)
  <1>1. PICK evicted \in Rooms : Rewrite([cache EXCEPT ![s] = Pending(o)], {s}, evicted, 0)
    BY DEF Insert
  <1> DEFINE c == [cache EXCEPT ![s] = Pending(o)]
  <1>2. cache \in Caches /\ Fits(cache)
    BY DEF KeptNow, Kept
  <1>3. c \in Caches /\ c[s] = Pending(o) /\ \A t \in Slot : t # s => c[t] = cache[t]
    BY <1>2, PendingFacts DEF Caches
  <1>4. Rewrite(c, {s}, evicted, 0)
    BY <1>1
  <1> HIDE DEF c
  <1>5. Present(c) = Present(cache) \union {s} /\ s \notin Present(cache)
    BY <1>3, PendingFacts DEF Present
  <1>6. SettledIn(c) = SettledIn(cache)
    BY <1>3, <1>5, PendingFacts DEF SettledIn, Present
  <1>7. \A t \in SettledIn(cache) : t \in Slot /\ t # s /\ t \in Present(cache)
    BY <1>5 DEF SettledIn, Present
  <1>8. BytesOf(c) = BytesOf(cache) + 0
    <2>1. \A t \in SettledIn(cache) : c[t].bytes = cache[t].bytes
      BY <1>3, <1>7
    <2>2. UnitsOf(c) = UnitsOf(cache)
      BY <1>6, <2>1 DEF UnitsOf
    <2>3. QED
      BY <1>2, <1>3, <2>2, CacheFacts
  <1>9. UrlsOf(c, Present(c)) = UrlsOf(cache, Present(cache))
    <2>1. ~c[s].url
      BY <1>3, PendingFacts
    <2>2. \A t \in Present(cache) : c[t] = cache[t]
      BY <1>3, <1>5 DEF Present
    <2>3. QED
      BY <1>5, <2>1, <2>2 DEF UrlsOf
  <1>10. evicted \in SUBSET SettledIn(cache)
    BY DEF Rooms
  <1>11. evicted \in SUBSET Present(c) /\ s \notin evicted
    BY <1>5, <1>7, <1>10
  <1>12. Fits(Without(c, evicted))
    <2>1. /\ Without(c, evicted) \in Caches
          /\ Present(Without(c, evicted)) = Present(c) \ evicted
          /\ Freed(c, evicted) \in Nat
          /\ BytesOf(c) = BytesOf(Without(c, evicted)) + Freed(c, evicted)
      BY <1>3, <1>11, Parted DEF Present
    <2>2. BytesOf(Without(c, evicted)) \in Nat /\ BytesOf(cache) \in Nat
          /\ IsFiniteSet(Present(cache)) /\ Cardinality(Present(cache)) \in Nat
      BY <1>2, <2>1, CacheFacts
    <2>3. MaxCacheBytes \in Nat /\ MaxEntries \in Nat
      BY SizeAssumption
    <2>4. BytesOf(Without(c, evicted)) <= MaxCacheBytes
      BY <1>2, <1>8, <2>1, <2>2, <2>3 DEF Fits
    <2>5. Cardinality(Present(cache) \union {s}) = Cardinality(Present(cache)) + 1
      BY <1>5, <2>2, FS_AddElement
    <2>6. IsFiniteSet(Present(cache) \union {s})
      BY <2>2, FS_AddElement
    <2>7. CASE Cardinality(Present(cache)) < MaxEntries
      <3>1. evicted = {}
        BY <2>7 DEF Rooms
      <3>2. Present(c) \ evicted = Present(cache) \union {s}
        BY <1>5, <3>1
      <3>3. Cardinality(Present(Without(c, evicted))) = Cardinality(Present(cache)) + 1
        BY <2>1, <2>5, <3>2
      <3>4. QED
        BY <2>2, <2>3, <2>4, <2>7, <3>3 DEF Fits
    <2>8. CASE ~(Cardinality(Present(cache)) < MaxEntries)
      <3>1. PICK t \in SettledIn(cache) : evicted = {t}
        BY <2>8 DEF Rooms
      <3>2. Cardinality((Present(cache) \union {s}) \ {t})
                = Cardinality(Present(cache) \union {s}) - 1
        BY <1>7, <2>6, <3>1, FS_RemoveElement
      <3>3. Cardinality(Present(cache)) <= MaxEntries
        BY <1>2 DEF Fits
      <3>4. QED
        BY <1>5, <2>1, <2>2, <2>3, <2>4, <2>5, <3>1, <3>2, <3>3 DEF Fits
    <2>9. QED
      BY <2>7, <2>8
  <1>13. KeptNow' /\ cache' = Without(c, evicted)
    <2>1. {s} \in SUBSET Slot /\ 0 \in Nat
      OBVIOUS
    <2>2. QED
      BY <1>3, <1>4, <1>5, <1>8, <1>9, <1>11, <1>12, <2>1, Rewritten
  <1>14. Only(cache', cache, s)
    <2>1. Only(c, cache, s)
      BY <1>3 DEF Only
    <2>2. QED
      BY <1>13, <2>1, WithoutOnly
  <1>15. cache'[s] = Pending(o)
    BY <1>3, <1>11, <1>13 DEF Without
  <1>16. QED
    BY <1>13, <1>14, <1>15

\* The slot of an operation at place r.
Place(r) == <<IF r.at \in {"loading", "loaded", "failed"} THEN "asset" ELSE "poster", r.key>>

LEMMA Settled ==
    ASSUME KeptNow, NEW o \in Op, NEW bytes \in Nat, bytes <= MaxCacheBytes,
           NEW s \in Slot, s = SlotOf(o), Own(o), ~cache[s].settled, Keep(o, bytes)
    PROVE  /\ KeptNow' /\ Only(cache', cache, s)
           /\ cache'[s] # None /\ cache'[s].by = o /\ cache'[s].settled
  <1>1. cache \in Caches /\ Fits(cache) /\ s \in Present(cache) /\ cache[s].by = o
    BY DEF KeptNow, Kept, Own, Present
  <1> DEFINE c == [cache EXCEPT ![s].settled = TRUE, ![s].bytes = bytes]
  <1>2. PICK E \in Evictions(c, s) : Rewrite(c, {}, E, bytes)
    BY DEF Keep
  <1>e. cache[s] \in Sized
    BY <1>1, CacheFacts
  <1>a. [cache[s] EXCEPT !.settled = TRUE, !.bytes = bytes] \in Sized
    BY <1>e DEF Sized, Entry
  <1>b. /\ c \in [Slot -> Sized \union {None}]
        /\ \A t \in Slot : t # s => c[t] = cache[t]
        /\ c[s] = [cache[s] EXCEPT !.settled = TRUE, !.bytes = bytes]
    BY <1>1, <1>a DEF Caches
  <1>c. /\ c[s] \in Sized /\ c[s].settled /\ c[s].by = cache[s].by
        /\ c[s].url = cache[s].url /\ c[s].bytes = bytes
    BY <1>1, <1>a, <1>b, CacheFacts DEF Sized, Entry
  <1> HIDE DEF c
  <1>3. /\ c \in Caches /\ Present(c) = Present(cache)
        /\ SettledIn(c) = SettledIn(cache) \union {s}
        /\ \A t \in Slot : t # s => c[t] = cache[t]
        /\ c[s].settled /\ c[s].by = o /\ c[s].url = cache[s].url /\ c[s].bytes = bytes
        /\ BytesOf(c) = BytesOf(cache) + bytes
    <2>1. c \in Caches /\ cache \in Caches
      BY <1>1, <1>b DEF Caches
    <2>2. /\ Present(c) = Present(cache) /\ SettledIn(c) = SettledIn(cache) \union {s}
          /\ BytesOf(c) = BytesOf(cache) + bytes
      <3>1. /\ c \in Caches /\ cache \in Caches /\ s \in Present(cache) /\ ~cache[s].settled
            /\ bytes \in Nat /\ bytes <= MaxCacheBytes
            /\ \A t \in Slot : t # s => c[t] = cache[t]
            /\ c[s] \in Sized /\ c[s].settled /\ c[s].bytes = bytes
        BY <1>1, <1>b, <1>c, <2>1
      <3>2. QED
        BY <3>1, Settling
    <2>3. QED
      BY <1>1, <1>b, <1>c, <2>1, <2>2
  <1>4. E \in SUBSET (SettledIn(c) \ {s})
    BY <1>2 DEF Evictions
  <1>5. E \in SUBSET Present(c) /\ E \in SUBSET Slot /\ s \notin E
    BY <1>4 DEF SettledIn, Present
  <1>6. Fits(Without(c, E))
    <2>1. Fits(Without(c, E)) \/ E = SettledIn(c) \ {s}
      BY <1>2 DEF Evictions
    <2> SUFFICES ASSUME E = SettledIn(c) \ {s} PROVE Fits(Without(c, E))
      BY <2>1
    <2> DEFINE w == Without(c, E)
    <2>2. /\ w \in Caches /\ Present(w) = Present(c) \ E /\ SettledIn(w) = SettledIn(c) \ E
      BY <1>3, <1>5, Parted
    <2>3. w[s] = c[s]
      BY <1>5 DEF Without
    <2> HIDE DEF w
    <2>4. SettledIn(w) = {s}
      BY <1>3, <2>2
    <2>5. UnitsOf(w) = {s} \X (1..bytes)
      BY <1>3, <2>3, <2>4 DEF UnitsOf
    <2>6. BytesOf(w) = bytes
      BY <2>2, <2>5, CacheFacts, RowSize
    <2>7. IsFiniteSet(Present(cache)) /\ Cardinality(Present(cache)) \in Nat
          /\ Cardinality(Present(w)) \in Nat
      BY <1>1, <2>2, CacheFacts
    <2>8. Cardinality(Present(w)) <= Cardinality(Present(cache))
      BY <1>3, <2>2, <2>7, FS_Subset
    <2>9. Cardinality(Present(cache)) <= MaxEntries /\ MaxEntries \in Nat
      BY <1>1, SizeAssumption DEF Fits
    <2>10. QED
      BY <2>6, <2>7, <2>8, <2>9 DEF Fits, w
  <1>7. UrlsOf(c, Present(c)) = UrlsOf(cache, Present(cache))
    <2>1. \A t \in Present(cache) : c[t].by = cache[t].by /\ c[t].url = cache[t].url
      BY <1>1, <1>3 DEF Present
    <2>2. QED
      BY <1>3, <2>1 DEF UrlsOf
  <1>8. KeptNow' /\ cache' = Without(c, E)
    <2>1. {} \in SUBSET Slot /\ Present(c) = Present(cache) \union {}
      BY <1>3
    <2>2. QED
      BY <1>2, <1>3, <1>5, <1>6, <1>7, <2>1, Rewritten
  <1>9. Only(cache', cache, s)
    <2>1. Only(c, cache, s)
      BY <1>3 DEF Only
    <2>2. QED
      BY <1>8, <2>1, WithoutOnly
  <1>10. cache'[s] = c[s]
    BY <1>5, <1>8 DEF Without
  <1>11. s \in Present(c)
    BY <1>1, <1>3
  <1>12. QED
    BY <1>3, <1>8, <1>9, <1>10, <1>11 DEF Present

LEMMA Recorded ==
    ASSUME KeptNow, NEW o \in Op, NEW s \in Slot, cache[s] # None, cache[s].by = o,
           Record(o, s, TRUE)
    PROVE  /\ KeptNow' /\ Only(cache', cache, s)
           /\ cache'[s] # None /\ cache'[s].by = o /\ cache'[s].settled = cache[s].settled
  <1>1. /\ cache' = [cache EXCEPT ![s].url = TRUE] /\ live' = live \union {Url(s, o)}
        /\ cacheBytes' = cacheBytes /\ aliased' = aliased
    BY DEF Record
  <1>2. cache \in Caches /\ Fits(cache) /\ s \in Present(cache) /\ cache[s] \in Sized
    BY CacheFacts DEF KeptNow, Kept, Present
  <1>3. [cache[s] EXCEPT !.url = TRUE] \in Sized
    BY <1>2 DEF Sized, Entry
  <1>4. /\ cache' \in Caches /\ cache'[s] = [cache[s] EXCEPT !.url = TRUE]
        /\ \A t \in Slot : t # s => cache'[t] = cache[t]
    BY <1>1, <1>2, <1>3 DEF Caches
  <1>5. /\ cache'[s].by = o /\ cache'[s].settled = cache[s].settled
        /\ cache'[s].bytes = cache[s].bytes /\ cache'[s].url
    BY <1>2, <1>4 DEF Sized, Entry
  <1>6. cache'[s] # None
    BY <1>3, <1>4, EntryAssumption DEF Sized
  <1>7. Present(cache') = Present(cache)
    BY <1>2, <1>4, <1>6 DEF Present
  <1>8. \A t \in Present(cache) : cache'[t].settled = cache[t].settled
              /\ cache'[t].bytes = cache[t].bytes /\ cache'[t].by = cache[t].by
    BY <1>4, <1>5 DEF Present
  <1>9. SettledIn(cache') = SettledIn(cache)
    BY <1>7, <1>8 DEF SettledIn
  <1>10. BytesOf(cache') = BytesOf(cache)
    <2>1. \A t \in SettledIn(cache) : cache'[t].bytes = cache[t].bytes
      BY <1>8 DEF SettledIn
    <2>2. QED
      BY <1>9, <2>1 DEF BytesOf
  <1>11. live' = UrlsOf(cache', Present(cache'))
    <2>1. live = UrlsOf(cache, Present(cache))
      BY DEF KeptNow, Kept
    <2>2. \A t \in Present(cache) : t # s => cache'[t].url = cache[t].url
      BY <1>4 DEF Present
    <2>3. QED
      BY <1>1, <1>2, <1>5, <1>7, <1>8, <2>1, <2>2 DEF UrlsOf, Url
  <1>12. Only(cache', cache, s)
    BY <1>4 DEF Only
  <1>13. QED
    BY <1>1, <1>4, <1>5, <1>6, <1>7, <1>10, <1>11, <1>12 DEF KeptNow, Kept, Fits

-----------------------------------------------------------------------------
(* The gate.                                                               *)

Gated(holder, q, bytes, shut) ==
    /\ holder \in Op \union {None}
    /\ q \in Seq(Small) /\ Distinct(q)
    /\ bytes = Reserved(Nodes(q)) /\ bytes <= MaxQueuedBytes
    /\ Len(q) <= MaxQueue
    /\ holder \notin OpsOf(q)
    /\ holder = None \/ shut => q = <<>>

GatedNow == Gated(active, queue, queuedBytes, closed)

LEMMA GateNumbers ==
    ASSUME GatedNow
    PROVE  /\ MaxQueue \in Nat /\ MaxQueuedBytes \in Nat
           /\ queuedBytes \in Nat /\ Len(queue) \in Nat
           /\ Nodes(queue) \in SUBSET Small /\ OpsOf(queue) \subseteq Op
           /\ Queued = OpsOf(queue)
  <1>1. queue \in Seq(Small) /\ queuedBytes = Reserved(Nodes(queue))
    BY DEF GatedNow, Gated
  <1>2. MaxQueue \in Nat /\ MaxQueuedBytes \in Nat
    BY BoundsAssumption
  <1>3. Nodes(queue) \in SUBSET Small /\ OpsOf(queue) \subseteq Op /\ Len(queue) \in Nat
    BY <1>1, NodesSmall
  <1>4. queuedBytes \in Nat
    BY <1>1, <1>3, UnitsFinite
  <1>5. QED
    BY <1>2, <1>3, <1>4 DEF Queued, OpsOf

LEMMA EmptyQueue ==
    /\ <<>> \in Seq(Small) /\ Distinct(<<>>) /\ Nodes(<<>>) = {} /\ OpsOf(<<>>) = {}
    /\ Len(<<>>) = 0 /\ Reserved(Nodes(<<>>)) = 0
  <1>1. <<>> \in Seq(Small) /\ Distinct(<<>>) /\ Nodes(<<>>) = {} /\ OpsOf(<<>>) = {}
        /\ Len(<<>>) = 0
    BY DEF Distinct, Nodes, OpsOf
  <1>2. QED
    BY <1>1, ReservedByNone

(* Handing the lease on: the total stays that of the queue.                *)
LEMMA PumpKeeps ==
    ASSUME NEW holder \in Op \union {None}, NEW q \in Seq(Small), Distinct(q),
           holder \notin OpsOf(q), Len(q) <= MaxQueue + 1,
           holder # None => Len(q) <= MaxQueue,
           Reserved(Nodes(q)) <= MaxQueuedBytes, closed => q = <<>>,
           closed' = closed, Pumped(holder, q, Reserved(Nodes(q)))
    PROVE  /\ GatedNow'
           /\ holder # None => active' = holder /\ queue' = q
           /\ holder = None => ((q = <<>> /\ active' = None) \/ active' \in OpsOf(q))
           /\ OpsOf(queue') \subseteq OpsOf(q) \ {active'}
  <1>1. /\ Len(q) \in Nat /\ OpsOf(q) \subseteq Op /\ Nodes(q) \in SUBSET Small
        /\ MaxQueue \in Nat /\ MaxQueuedBytes \in Nat
    BY NodesSmall, BoundsAssumption
  <1>2. Reserved(Nodes(q)) \in Nat
    BY <1>1, UnitsFinite
  <1>3. CASE holder = None /\ q # <<>>
    <2>1. ~closed
      BY <1>3
    <2>2. /\ active' = Head(q).op /\ queue' = Tail(q)
          /\ queuedBytes' = Less(Reserved(Nodes(q)), Head(q).bytes)
      BY <1>3, <2>1 DEF Pumped
    <2>3. /\ Tail(q) \in Seq(Small) /\ Len(Tail(q)) = Len(q) - 1
          /\ Distinct(Tail(q))
          /\ Head(q) \in Small /\ Head(q).op \in OpsOf(q)
          /\ OpsOf(Tail(q)) = OpsOf(q) \ {Head(q).op}
          /\ Reserved(Nodes(q)) = Reserved(Nodes(Tail(q))) + Head(q).bytes
      BY <1>3, Shifted
    <2>4. Reserved(Nodes(Tail(q))) \in Nat
      BY <2>3, NodesSmall, UnitsFinite
    <2>5. Head(q).bytes \in Nat /\ Head(q).op \in Op
      BY <2>3 DEF Small, Node
    <2>6. queuedBytes' = Reserved(Nodes(queue')) /\ queuedBytes' <= MaxQueuedBytes
      BY <1>1, <1>2, <2>2, <2>3, <2>4, <2>5 DEF Less
    <2>7. Len(queue') <= MaxQueue
      BY <1>1, <2>2, <2>3
    <2>8. active' # None
      BY <2>2, <2>5, NoneAssumption
    <2>9. QED
      BY <1>3, <2>1, <2>2, <2>3, <2>5, <2>6, <2>7, <2>8 DEF GatedNow, Gated
  <1>4. CASE ~(holder = None /\ q # <<>>)
    <2>1. /\ active' = holder /\ queue' = q /\ queuedBytes' = Reserved(Nodes(q))
      BY <1>4 DEF Pumped
    <2>2. Len(q) <= MaxQueue
      BY <1>1, <1>4, EmptyQueue
    <2>3. QED
      BY <1>4, <2>1, <2>2 DEF GatedNow, Gated
  <1>5. QED
    BY <1>3, <1>4

LEMMA AcquireKeeps ==
    ASSUME GatedNow, NEW o \in Op, o # active, o \notin OpsOf(queue),
           NEW bytes \in Nat, Acquire(o, bytes)
    PROVE  /\ GatedNow'
           /\ active' = active \/ (active = None /\ active' = o)
           /\ OpsOf(queue') \subseteq OpsOf(queue) \union {o}
  <1>1. /\ ~closed /\ Len(queue) < MaxQueue /\ queuedBytes + bytes <= MaxQueuedBytes
        /\ closed' = closed
        /\ Pumped(active, Append(queue, [op |-> o, bytes |-> bytes]), queuedBytes + bytes)
    BY DEF Acquire, Admitted
  <1>2. /\ MaxQueue \in Nat /\ MaxQueuedBytes \in Nat
        /\ queuedBytes \in Nat /\ Len(queue) \in Nat
    BY GateNumbers
  <1>3. /\ queue \in Seq(Small) /\ Distinct(queue) /\ queuedBytes = Reserved(Nodes(queue))
        /\ active \in Op \union {None} /\ active \notin OpsOf(queue)
        /\ active = None => queue = <<>>
    BY DEF GatedNow, Gated
  <1> DEFINE n == [op |-> o, bytes |-> bytes]
             q == Append(queue, n)
  <1>4. n \in Small /\ n.op = o /\ n.bytes = bytes
    BY <1>1, <1>2 DEF Small, Node
  <1>a. Pumped(active, q, queuedBytes + bytes)
    BY <1>1
  <1> HIDE DEF n
  <1>5. /\ q \in Seq(Small) /\ Len(q) = Len(queue) + 1 /\ Distinct(q)
        /\ OpsOf(q) = OpsOf(queue) \union {o}
        /\ Reserved(Nodes(q)) = queuedBytes + bytes
        /\ q # <<>>
    BY <1>3, <1>4, Appended
  <1> HIDE DEF q
  <1>6. active \notin OpsOf(q) /\ Len(q) <= MaxQueue
        /\ Reserved(Nodes(q)) <= MaxQueuedBytes /\ Len(q) <= MaxQueue + 1
    BY <1>1, <1>2, <1>3, <1>5
  <1>7. Pumped(active, q, Reserved(Nodes(q)))
    BY <1>a, <1>5
  <1>8. /\ GatedNow'
        /\ active # None => active' = active /\ queue' = q
        /\ active = None => ((q = <<>> /\ active' = None) \/ active' \in OpsOf(q))
        /\ OpsOf(queue') \subseteq OpsOf(q) \ {active'}
    BY <1>1, <1>3, <1>5, <1>6, <1>7, PumpKeeps
  <1>9. active = None => OpsOf(queue) = {}
    BY <1>3, EmptyQueue
  <1>10. QED
    BY <1>5, <1>8, <1>9

LEMMA ReleaseKeeps ==
    ASSUME GatedNow, NEW o \in Op, Release(o)
    PROVE  /\ GatedNow' /\ active = o /\ o \notin OpsOf(queue)
           /\ active' = None \/ active' \in OpsOf(queue)
           /\ OpsOf(queue') \subseteq OpsOf(queue)
  <1>1. active = o /\ Pumped(None, queue, queuedBytes) /\ closed' = closed
    BY DEF Release
  <1>2. /\ MaxQueue \in Nat /\ MaxQueuedBytes \in Nat
        /\ queuedBytes \in Nat /\ Len(queue) \in Nat /\ OpsOf(queue) \subseteq Op
    BY GateNumbers
  <1>3. /\ queue \in Seq(Small) /\ Distinct(queue) /\ queuedBytes = Reserved(Nodes(queue))
        /\ queuedBytes <= MaxQueuedBytes /\ Len(queue) <= MaxQueue
        /\ active \notin OpsOf(queue)
    BY DEF GatedNow, Gated
  <1>4. None \notin OpsOf(queue) /\ Len(queue) <= MaxQueue + 1
        /\ Pumped(None, queue, Reserved(Nodes(queue))) /\ None \in Op \union {None}
        /\ Reserved(Nodes(queue)) <= MaxQueuedBytes
    BY <1>1, <1>2, <1>3, NoneAssumption
  <1>5. closed => queue = <<>>
    BY DEF GatedNow, Gated
  <1>6. /\ GatedNow'
        /\ (queue = <<>> /\ active' = None) \/ active' \in OpsOf(queue)
        /\ OpsOf(queue') \subseteq OpsOf(queue) \ {active'}
    BY <1>1, <1>3, <1>4, <1>5, PumpKeeps
  <1>7. QED
    BY <1>1, <1>3, <1>6

LEMMA AbortKeeps ==
    ASSUME GatedNow, NEW gone, Abort(gone)
    PROVE  /\ GatedNow' /\ active' = active
           /\ OpsOf(queue') \subseteq OpsOf(queue)
  <1> DEFINE out == {queue[i] : i \in {i \in DOMAIN queue : queue[i].op \in gone}}
  <1>1. /\ queue' = Remaining(queue, gone)
        /\ queuedBytes' = Less(queuedBytes, Reserved(out))
        /\ active' = active /\ closed' = closed
    BY DEF Abort
  <1>2. /\ MaxQueue \in Nat /\ MaxQueuedBytes \in Nat
        /\ queuedBytes \in Nat /\ Len(queue) \in Nat /\ Nodes(queue) \in SUBSET Small
    BY GateNumbers
  <1>3. /\ queue \in Seq(Small) /\ Distinct(queue) /\ queuedBytes = Reserved(Nodes(queue))
        /\ queuedBytes <= MaxQueuedBytes /\ Len(queue) <= MaxQueue
        /\ active \in Op \union {None} /\ active \notin OpsOf(queue)
        /\ (active = None \/ closed) => queue = <<>>
    BY DEF GatedNow, Gated
  <1>4. /\ queue' \in Seq(Small) /\ Len(queue') \in Nat /\ Len(queue') <= Len(queue)
        /\ Distinct(queue') /\ OpsOf(queue') = OpsOf(queue) \ gone
        /\ Nodes(queue') = {node \in Nodes(queue) : node.op \notin gone}
    BY <1>1, <1>3, Remains
  <1>5. out = {node \in Nodes(queue) : node.op \in gone}
    BY DEF Nodes
  <1> HIDE DEF out
  <1>6. /\ Nodes(queue) = Nodes(queue') \union out
        /\ Nodes(queue') \in SUBSET Small /\ out \in SUBSET Small
        /\ \A a \in Nodes(queue'), b \in out : a.op # b.op
    BY <1>2, <1>4, <1>5
  <1>7. Reserved(Nodes(queue)) = Reserved(Nodes(queue')) + Reserved(out)
    BY <1>6, ReservedSplit
  <1>8. Reserved(Nodes(queue')) \in Nat /\ Reserved(out) \in Nat
    BY <1>6, UnitsFinite
  <1>9. queuedBytes' = Reserved(Nodes(queue')) /\ queuedBytes' <= MaxQueuedBytes
    BY <1>1, <1>2, <1>3, <1>7, <1>8 DEF Less
  <1>10. Len(queue') <= MaxQueue
    BY <1>2, <1>3, <1>4
  <1>11. (active' = None \/ closed') => queue' = <<>>
    <2> SUFFICES ASSUME active' = None \/ closed' PROVE queue' = <<>>
      OBVIOUS
    <2>1. queue = <<>>
      BY <1>1, <1>3
    <2>2. Len(queue') = 0
      BY <1>4, <2>1, EmptyQueue
    <2>3. QED
      BY <1>4, <2>2
  <1>12. QED
    BY <1>1, <1>3, <1>4, <1>9, <1>10, <1>11 DEF GatedNow, Gated

LEMMA CloseKeeps ==
    ASSUME GatedNow, Close
    PROVE  /\ GatedNow' /\ active' = active /\ OpsOf(queue') \subseteq OpsOf(queue)
  <1>1. closed' = TRUE /\ queue' = <<>> /\ queuedBytes' = 0 /\ active' = active
    BY DEF Close
  <1>2. active \in Op \union {None}
    BY DEF GatedNow, Gated
  <1>3. MaxQueue \in Nat /\ MaxQueuedBytes \in Nat
    BY BoundsAssumption
  <1>4. OpsOf(queue') = {}
    BY <1>1, EmptyQueue
  <1>5. QED
    BY <1>1, <1>2, <1>3, <1>4, EmptyQueue DEF GatedNow, Gated

-----------------------------------------------------------------------------
(* The turns.                                                              *)

Turns(holder, waiting, h) ==
    /\ holder # None => h[holder].at \in Holding \union {"asking", "drawing"}
    /\ \A o \in waiting : h[o].at \in {"asking", "drawing"}
    /\ \A o \in Op : h[o].at \in Holding => holder = o

LEMMA TurnsTaken ==
    ASSUME NEW a, NEW b, NEW w \in SUBSET Op, NEW v \in SUBSET Op,
           NEW h, NEW g, NEW o \in Op, Turns(a, w, h),
           a \in Op \union {None},
           \A p \in Op : p # o => g[p].at = h[p].at,
           g[o].at \in {"asking", "drawing"}, h[o].at \in {"idle", "posing"},
           b = a \/ (a = None /\ b = o), v \subseteq w \union {o}
    PROVE  Turns(b, v, g)
  BY NoneAssumption DEF Turns, Holding

LEMMA TurnsPassed ==
    ASSUME NEW b, NEW w \in SUBSET Op, NEW v \in SUBSET Op,
           NEW h, NEW g, NEW o \in Op, Turns(o, w, h), o \notin w,
           \A p \in Op : p # o => g[p].at = h[p].at,
           g[o].at \notin Holding,
           b = None \/ b \in w, v \subseteq w
    PROVE  Turns(b, v, g)
  BY NoneAssumption DEF Turns, Holding

LEMMA TurnsStay ==
    ASSUME NEW a \in Op \union {None}, NEW w \in SUBSET Op,
           NEW h, NEW g, NEW o \in Op, Turns(a, w, h),
           \A p \in Op : p # o => g[p].at = h[p].at,
           a = o => g[o].at \in Holding \union {"asking", "drawing"},
           o \in w => g[o].at \in {"asking", "drawing"},
           g[o].at \in Holding => a = o
    PROVE  Turns(a, w, g)
  BY DEF Turns, Holding

LEMMA TurnsKept ==
    ASSUME NEW a \in Op \union {None}, NEW w \in SUBSET Op, NEW v \in SUBSET w,
           NEW h, NEW g, Turns(a, w, h), \A p \in Op : g[p].at = h[p].at
    PROVE  Turns(a, v, g)
  BY DEF Turns, Holding

-----------------------------------------------------------------------------
(* Whose an entry is.                                                      *)

Entering == {"loading", "loaded", "failed", "drawing", "drawn", "blank", "undrawn"}
Calls == [at : {"idle", "asking", "posing", "sending"} \union Entering,
          kind : {"asset", "poster"}, key : Key, current : BOOLEAN]

Placed(h) ==
    /\ h \in [Op -> Calls]
    /\ \A o \in Uploads : h[o].at \in {"idle", "asking", "sending"}

Entered(c, h) ==
    /\ \A s \in Slot : c[s] # None /\ ~c[s].settled
          => h[c[s].by].at \in Entering /\ Place(h[c[s].by]) = s
    /\ \A o \in Op : LET s == Place(h[o]) IN
          h[o].at \in Entering /\ c[s] # None /\ c[s].by = o => ~c[s].settled

LEMMA PlaceIsSlot ==
    ASSUME NEW r \in Calls
    PROVE  Place(r) \in Slot
  BY DEF Place, Slot, Calls

LEMMA EnteredStep ==
    ASSUME NEW c \in Caches, NEW d \in Caches, NEW h \in [Op -> Calls], NEW g \in [Op -> Calls],
           NEW o \in Op, Entered(c, h),
           \A p \in Op : p # o => g[p] = h[p],
           \A s \in Slot : d[s] # None /\ d[s].by # o
               => c[s] # None /\ d[s].by = c[s].by /\ d[s].settled = c[s].settled,
           \A s \in Slot : d[s] # None /\ d[s].by = o /\ ~d[s].settled
               => g[o].at \in Entering /\ Place(g[o]) = s,
           g[o].at \in Entering /\ d[Place(g[o])] # None /\ d[Place(g[o])].by = o
               => ~d[Place(g[o])].settled
    PROVE  Entered(d, g)
  <1>1. ASSUME NEW s \in Slot, d[s] # None, ~d[s].settled
        PROVE  g[d[s].by].at \in Entering /\ Place(g[d[s].by]) = s
    <2>1. d[s].by \in Op
      BY <1>1, CacheFacts DEF Sized, Entry
    <2>2. CASE d[s].by = o
      BY <1>1, <2>2
    <2>3. CASE d[s].by # o
      <3>1. c[s] # None /\ d[s].by = c[s].by /\ ~c[s].settled /\ g[d[s].by] = h[d[s].by]
        BY <1>1, <2>1, <2>3
      <3>2. QED
        BY <3>1 DEF Entered
    <2>4. QED
      BY <2>2, <2>3
  <1>2. ASSUME NEW p \in Op, g[p].at \in Entering,
               d[Place(g[p])] # None, d[Place(g[p])].by = p
        PROVE  ~d[Place(g[p])].settled
    <2>1. CASE p = o
      BY <1>2, <2>1
    <2>2. CASE p # o
      <3>1. g[p] = h[p] /\ Place(g[p]) \in Slot
        BY <2>2, PlaceIsSlot
      <3>2. c[Place(h[p])] # None /\ c[Place(h[p])].by = p
            /\ d[Place(h[p])].settled = c[Place(h[p])].settled
        BY <1>2, <2>2, <3>1
      <3>3. QED
        BY <1>2, <3>1, <3>2 DEF Entered
    <2>3. QED
      BY <2>1, <2>2
  <1>3. QED
    BY <1>1, <1>2 DEF Entered

LEMMA EnteredShrinks ==
    ASSUME NEW c \in Caches, NEW d \in Caches, NEW h \in [Op -> Calls], NEW g \in [Op -> Calls],
           Entered(c, h),
           \A p \in Op : g[p].at = h[p].at /\ g[p].key = h[p].key,
           \A s \in Slot : d[s] = None \/ d[s] = c[s]
    PROVE  Entered(d, g)
  <1>1. \A p \in Op : Place(g[p]) = Place(h[p]) /\ Place(h[p]) \in Slot
    BY PlaceIsSlot DEF Place
  <1>2. ASSUME NEW s \in Slot, d[s] # None, ~d[s].settled
        PROVE  g[d[s].by].at \in Entering /\ Place(g[d[s].by]) = s
    <2>1. d[s].by \in Op /\ d[s] = c[s]
      BY <1>2, CacheFacts DEF Sized, Entry
    <2>2. h[c[s].by].at \in Entering /\ Place(h[c[s].by]) = s
      BY <1>2, <2>1 DEF Entered
    <2>3. QED
      BY <1>1, <2>1, <2>2
  <1>3. ASSUME NEW p \in Op, g[p].at \in Entering,
               d[Place(g[p])] # None, d[Place(g[p])].by = p
        PROVE  ~d[Place(g[p])].settled
    <2>1. d[Place(h[p])] = c[Place(h[p])] /\ h[p].at \in Entering
      BY <1>1, <1>3
    <2>2. QED
      BY <1>1, <1>3, <2>1 DEF Entered
  <1>4. QED
    BY <1>2, <1>3 DEF Entered

IInv ==
    /\ GatedNow
    /\ Turns(active, OpsOf(queue), ops)
    /\ Placed(ops)
    /\ KeptNow
    /\ Entered(cache, ops)

-----------------------------------------------------------------------------
(* How an operation's entry fares with its steps.                          *)

LEMMA EnteredOut ==
    ASSUME NEW c \in Caches, NEW h \in [Op -> Calls], NEW g \in [Op -> Calls], NEW o \in Op,
           Entered(c, h), \A p \in Op : p # o => g[p] = h[p],
           h[o].at \notin Entering, g[o].at \notin Entering
    PROVE  Entered(c, g)
  <1>1. \A s \in Slot : c[s] # None /\ c[s].by = o => c[s].settled
    BY DEF Entered
  <1>2. QED
    BY <1>1, EnteredStep

LEMMA EnteredAlong ==
    ASSUME NEW c \in Caches, NEW d \in Caches,
           NEW h \in [Op -> Calls], NEW g \in [Op -> Calls], NEW o \in Op,
           Entered(c, h), \A p \in Op : p # o => g[p] = h[p],
           h[o].at \in Entering, g[o].at \in Entering, Place(g[o]) = Place(h[o]),
           NEW s \in Slot, Only(d, c, s),
           d[s] # None => c[s] # None /\ d[s].by = c[s].by /\ d[s].settled = c[s].settled
    PROVE  Entered(d, g)
  <1>1. \A t \in Slot : d[t] # None
            => c[t] # None /\ d[t].by = c[t].by /\ d[t].settled = c[t].settled
    BY DEF Only
  <1>2. \A t \in Slot : d[t] # None /\ d[t].by = o /\ ~d[t].settled
            => g[o].at \in Entering /\ Place(g[o]) = t
    BY <1>1 DEF Entered
  <1>3. Place(h[o]) \in Slot
    BY PlaceIsSlot
  <1>4. d[Place(g[o])] # None /\ d[Place(g[o])].by = o => ~d[Place(g[o])].settled
    BY <1>1, <1>3 DEF Entered
  <1>5. QED
    BY <1>1, <1>2, <1>4, EnteredStep

LEMMA EnteredIn ==
    ASSUME NEW c \in Caches, NEW d \in Caches,
           NEW h \in [Op -> Calls], NEW g \in [Op -> Calls], NEW o \in Op,
           Entered(c, h), \A p \in Op : p # o => g[p] = h[p],
           NEW s \in Slot, Only(d, c, s), d[s] = Pending(o),
           h[o].at \notin Entering, g[o].at \in Entering, Place(g[o]) = s
    PROVE  Entered(d, g)
  <1>1. \A t \in Slot : c[t] # None /\ c[t].by = o => c[t].settled
    BY DEF Entered
  <1>2. d[s].by = o /\ ~d[s].settled
    BY PendingFacts
  <1>3. \A t \in Slot : d[t] # None /\ d[t].by # o => c[t] # None /\ d[t] = c[t]
    BY <1>2 DEF Only
  <1>4. \A t \in Slot : d[t] # None /\ d[t].by = o /\ ~d[t].settled => t = s
    BY <1>1 DEF Only
  <1>5. QED
    BY <1>2, <1>3, <1>4, EnteredStep

LEMMA EnteredLeft ==
    ASSUME NEW c \in Caches, NEW d \in Caches,
           NEW h \in [Op -> Calls], NEW g \in [Op -> Calls], NEW o \in Op,
           Entered(c, h), \A p \in Op : p # o => g[p] = h[p],
           g[o].at \notin Entering,
           NEW s \in Slot, s = Place(h[o]), Only(d, c, s),
           \/ d[s] = None
           \/ d[s].by = o /\ d[s].settled
           \/ d[s] = c[s] /\ c[s].by # o
    PROVE  Entered(d, g)
  <1>1. \A t \in Slot : c[t] # None /\ c[t].by = o /\ t # s => c[t].settled
    BY DEF Entered
  <1>2. \A t \in Slot : d[t] # None /\ d[t].by # o => c[t] # None /\ d[t] = c[t]
    BY DEF Only
  <1>3. \A t \in Slot : d[t] # None /\ d[t].by = o => d[t].settled
    BY <1>1 DEF Only
  <1>4. QED
    BY <1>2, <1>3, EnteredStep

-----------------------------------------------------------------------------
(* What does not change, and where an operation goes.                      *)

LEMMA GateStays ==
    ASSUME GatedNow, UNCHANGED gate
    PROVE  GatedNow' /\ active' = active /\ queue' = queue
  BY DEF GatedNow, gate

LEMMA CacheStays ==
    ASSUME KeptNow, UNCHANGED cached
    PROVE  KeptNow' /\ cache' = cache
  BY DEF KeptNow, cached

AllPlaces == {"idle", "asking", "posing", "sending"} \union Entering

LEMMA Goes ==
    ASSUME ops \in [Op -> Calls], NEW o \in Op, NEW at \in AllPlaces, Go(o, at)
    PROVE  /\ ops' \in [Op -> Calls]
           /\ ops'[o].at = at /\ ops'[o].key = ops[o].key
           /\ \A p \in Op : p # o => ops'[p] = ops[p]
  <1>1. ops' = [ops EXCEPT ![o] = [ops[o] EXCEPT !.at = at]]
    BY DEF Go, Calls
  <1>2. [ops[o] EXCEPT !.at = at] \in Calls
    BY DEF Calls, AllPlaces
  <1>3. ops'[o] = [ops[o] EXCEPT !.at = at]
    BY <1>1
  <1>4. ops'[o].at = at /\ ops'[o].key = ops[o].key
    BY <1>3 DEF Calls
  <1>5. QED
    BY <1>1, <1>2, <1>4

LEMMA Returns ==
    ASSUME ops \in [Op -> Calls], NEW o \in Op, Return(o)
    PROVE  /\ ops' \in [Op -> Calls] /\ ops'[o].at = "idle"
           /\ \A p \in Op : p # o => ops'[p] = ops[p]
  <1>1. AnyKey \in Key
    BY KeyAssumption DEF AnyKey
  <1>2. Idle \in Calls /\ Idle.at = "idle"
    BY <1>1 DEF Idle, Calls
  <1>3. QED
    BY <1>2 DEF Return

LEMMA Facts ==
    ASSUME IInv
    PROVE  /\ ops \in [Op -> Calls] /\ cache \in Caches
           /\ active \in Op \union {None} /\ OpsOf(queue) \in SUBSET Op
           /\ Queued = OpsOf(queue) /\ active \notin OpsOf(queue)
           /\ \A o \in Op : SlotOf(o) = Place(ops[o]) /\ SlotOf(o) \in Slot
           /\ \A o \in Op : ops[o] \in Calls
           /\ \A o \in Op : ops[o].at \in Entering => o \notin Uploads
  <1>1. OpsOf(queue) \in SUBSET Op /\ Queued = OpsOf(queue)
    BY GateNumbers DEF IInv
  <1>2. ops \in [Op -> Calls]
    BY DEF IInv, Placed
  <1>3. \A o \in Op : SlotOf(o) = Place(ops[o])
    BY DEF SlotOf, Place
  <1>4. \A o \in Op : Place(ops[o]) \in Slot
    BY <1>2, PlaceIsSlot
  <1>5. \A o \in Op : ops[o].at \in Entering => o \notin Uploads
    BY DEF IInv, Placed, Entering
  <1>6. QED
    BY <1>1, <1>2, <1>3, <1>4, <1>5 DEF IInv, GatedNow, Gated, KeptNow, Kept

(* The places stay those of their kind.                                    *)
LEMMA StaysPlaced ==
    ASSUME IInv, NEW o \in Op, ops' \in [Op -> Calls],
           \A p \in Op : p # o => ops'[p] = ops[p],
           o \in Uploads => ops'[o].at \in {"idle", "asking", "sending"}
    PROVE  Placed(ops')
  BY UploadsAssumption DEF IInv, Placed

-----------------------------------------------------------------------------
(* The steps that leave the cache alone.                                   *)

LEMMA AskStep ==
    ASSUME IInv, NEW o \in Op, Ask(o)
    PROVE  IInv'
  <1>1. PICK kind \in {"asset", "poster"}, key \in Key, bytes \in Size :
            /\ Acquire(o, bytes)
            /\ ops' = [ops EXCEPT ![o] =
                  [at |-> "asking", kind |-> kind, key |-> key, current |-> TRUE]]
    BY DEF Ask
  <1>2. ops[o].at = "idle" /\ o \notin Uploads /\ UNCHANGED cached
    BY DEF Ask
  <1>3. /\ ops' \in [Op -> Calls] /\ ops'[o].at = "asking"
        /\ \A p \in Op : p # o => ops'[p] = ops[p]
    BY <1>1, Facts DEF Calls
  <1>4. o # active /\ o \notin OpsOf(queue)
    BY <1>2, NoneAssumption DEF IInv, Turns, Holding
  <1>5. bytes \in Nat
    BY SizeAssumption
  <1>6. /\ GatedNow'
        /\ active' = active \/ (active = None /\ active' = o)
        /\ OpsOf(queue') \subseteq OpsOf(queue) \union {o}
    BY <1>1, <1>4, <1>5, AcquireKeeps DEF IInv
  <1>7. Turns(active', OpsOf(queue'), ops')
    <2>1. OpsOf(queue') \in SUBSET Op
      BY <1>6, Facts
    <2>2. QED
      BY <1>2, <1>3, <1>6, <2>1, Facts, TurnsTaken DEF IInv
  <1>8. KeptNow' /\ cache' = cache
    BY <1>2, CacheStays DEF IInv
  <1>9. Entered(cache', ops')
    BY <1>2, <1>3, <1>8, Facts, EnteredOut DEF IInv, Entering
  <1>10. Placed(ops')
    BY <1>2, <1>3, StaysPlaced
  <1>11. QED
    BY <1>6, <1>7, <1>8, <1>9, <1>10 DEF IInv

(* The gate's part of each step.                                           *)
LEMMA Asks ==
    ASSUME IInv, NEW o \in Op, ops[o].at \in {"idle", "posing"}, NEW bytes \in Nat,
           Acquire(o, bytes),
           \A p \in Op : p # o => ops'[p] = ops[p],
           ops'[o].at \in {"asking", "drawing"}
    PROVE  GatedNow' /\ Turns(active', OpsOf(queue'), ops')
  <1>1. o # active /\ o \notin OpsOf(queue)
    BY NoneAssumption DEF IInv, Turns, Holding
  <1>2. /\ GatedNow'
        /\ active' = active \/ (active = None /\ active' = o)
        /\ OpsOf(queue') \subseteq OpsOf(queue) \union {o}
    BY <1>1, AcquireKeeps DEF IInv
  <1>3. OpsOf(queue') \in SUBSET Op
    BY <1>2, Facts
  <1>4. \A p \in Op : p # o => ops'[p].at = ops[p].at
    OBVIOUS
  <1>5. active \in Op \union {None} /\ OpsOf(queue) \in SUBSET Op
        /\ Turns(active, OpsOf(queue), ops)
    BY Facts DEF IInv
  <1>6. ops'[o].at \in {"asking", "drawing"} /\ ops[o].at \in {"idle", "posing"}
    OBVIOUS
  <1>7. active' = active \/ (active = None /\ active' = o)
    BY <1>2
  <1>8. OpsOf(queue') \subseteq OpsOf(queue) \union {o}
    BY <1>2
  <1>9. Turns(active', OpsOf(queue'), ops')
    BY <1>3, <1>4, <1>5, <1>6, <1>7, <1>8, TurnsTaken
  <1>10. QED
    BY <1>2, <1>9

LEMMA Passes ==
    ASSUME IInv, NEW o \in Op, Release(o),
           \A p \in Op : p # o => ops'[p] = ops[p],
           ops'[o].at \notin Holding
    PROVE  GatedNow' /\ Turns(active', OpsOf(queue'), ops')
  <1>1. /\ GatedNow' /\ active = o /\ o \notin OpsOf(queue)
        /\ active' = None \/ active' \in OpsOf(queue)
        /\ OpsOf(queue') \subseteq OpsOf(queue)
    BY ReleaseKeeps DEF IInv
  <1>2. OpsOf(queue') \in SUBSET Op /\ Turns(o, OpsOf(queue), ops)
    BY <1>1, Facts DEF IInv
  <1>3. QED
    BY <1>1, <1>2, Facts, TurnsPassed

LEMMA Holds ==
    ASSUME IInv, NEW o \in Op, UNCHANGED gate,
           \A p \in Op : p # o => ops'[p] = ops[p],
           active = o => ops'[o].at \in Holding \union {"asking", "drawing"},
           o \in OpsOf(queue) => ops'[o].at \in {"asking", "drawing"},
           ops'[o].at \in Holding => active = o
    PROVE  GatedNow' /\ Turns(active', OpsOf(queue'), ops')
  <1>1. GatedNow' /\ active' = active /\ queue' = queue
    BY GateStays DEF IInv
  <1>2. Turns(active, OpsOf(queue), ops')
    BY Facts, TurnsStay DEF IInv
  <1>3. QED
    BY <1>1, <1>2

(* A step of an operation that has no entry of its own, before and after.  *)
LEMMA Quiet ==
    ASSUME IInv, NEW o \in Op, UNCHANGED cached,
           ops' \in [Op -> Calls], \A p \in Op : p # o => ops'[p] = ops[p],
           ops[o].at \notin Entering, ops'[o].at \notin Entering,
           o \in Uploads => ops'[o].at \in {"idle", "asking", "sending"},
           GatedNow', Turns(active', OpsOf(queue'), ops')
    PROVE  IInv'
  <1>1. KeptNow' /\ cache' = cache
    BY CacheStays DEF IInv
  <1>2. Entered(cache', ops')
    BY <1>1, Facts, EnteredOut DEF IInv
  <1>3. Placed(ops')
    BY StaysPlaced
  <1>4. QED
    BY <1>1, <1>2, <1>3 DEF IInv

(* A step of an operation whose entry may be there before and after.       *)
LEMMA Along ==
    ASSUME IInv, NEW o \in Op,
           ops' \in [Op -> Calls], \A p \in Op : p # o => ops'[p] = ops[p],
           ops[o].at \in Entering, ops'[o].at \in Entering, Place(ops'[o]) = Place(ops[o]),
           KeptNow', NEW s \in Slot, Only(cache', cache, s),
           cache'[s] # None => /\ cache[s] # None /\ cache'[s].by = cache[s].by
                               /\ cache'[s].settled = cache[s].settled,
           GatedNow', Turns(active', OpsOf(queue'), ops')
    PROVE  IInv'
  <1>1. o \notin Uploads /\ cache' \in Caches
    BY Facts DEF KeptNow, Kept
  <1>2. Placed(ops')
    BY <1>1, StaysPlaced
  <1>3. Entered(cache', ops')
    BY <1>1, Facts, EnteredAlong DEF IInv
  <1>4. QED
    BY <1>2, <1>3 DEF IInv

(* A step that ends what an operation does about its entry.                *)
LEMMA Leaves ==
    ASSUME IInv, NEW o \in Op,
           ops' \in [Op -> Calls], \A p \in Op : p # o => ops'[p] = ops[p],
           ops[o].at \in Entering, ops'[o].at \notin Entering,
           KeptNow', NEW s \in Slot, s = SlotOf(o), Only(cache', cache, s),
           \/ cache'[s] = None
           \/ cache'[s].by = o /\ cache'[s].settled
           \/ cache'[s] = cache[s] /\ cache[s].by # o,
           GatedNow', Turns(active', OpsOf(queue'), ops')
    PROVE  IInv'
  <1>1. o \notin Uploads /\ cache' \in Caches /\ s = Place(ops[o])
    BY Facts DEF KeptNow, Kept
  <1>2. Placed(ops')
    BY <1>1, StaysPlaced
  <1>3. Entered(cache', ops')
    BY <1>1, Facts, EnteredLeft DEF IInv
  <1>4. QED
    BY <1>2, <1>3 DEF IInv

-----------------------------------------------------------------------------
(* The steps that leave the cache alone.                                   *)

LEMMA AskUploadStep ==
    ASSUME IInv, NEW o \in Op, AskUpload(o)
    PROVE  IInv'
  <1>1. PICK bytes \in Size : Acquire(o, bytes)
    BY DEF AskUpload
  <1>2. ops[o].at = "idle" /\ o \in Uploads /\ UNCHANGED cached /\ Go(o, "asking")
    BY DEF AskUpload
  <1>3. /\ ops' \in [Op -> Calls] /\ ops'[o].at = "asking"
        /\ \A p \in Op : p # o => ops'[p] = ops[p]
    BY <1>2, Facts, Goes DEF AllPlaces
  <1>4. bytes \in Nat
    BY SizeAssumption
  <1>5. GatedNow' /\ Turns(active', OpsOf(queue'), ops')
    BY <1>1, <1>2, <1>3, <1>4, Asks
  <1>6. QED
    BY <1>2, <1>3, <1>5, Quiet DEF Entering

LEMMA RejectedStep ==
    ASSUME IInv, NEW o \in Op, Rejected(o)
    PROVE  IInv'
  <1>1. /\ ops[o].at = "asking" /\ active # o /\ o \notin OpsOf(queue)
        /\ Return(o) /\ UNCHANGED gate /\ UNCHANGED cached
    BY Facts DEF Rejected
  <1>2. /\ ops' \in [Op -> Calls] /\ ops'[o].at = "idle"
        /\ \A p \in Op : p # o => ops'[p] = ops[p]
    BY <1>1, Facts, Returns
  <1>3. GatedNow' /\ Turns(active', OpsOf(queue'), ops')
    BY <1>1, <1>2, Holds DEF Holding
  <1>4. QED
    BY <1>1, <1>2, <1>3, Quiet DEF Entering

LEMMA StaleStep ==
    ASSUME IInv, NEW o \in Op, Stale(o)
    PROVE  IInv'
  <1>1. ops[o].at = "asking" /\ Release(o) /\ Return(o) /\ UNCHANGED cached
    BY DEF Stale, Granted
  <1>2. /\ ops' \in [Op -> Calls] /\ ops'[o].at = "idle"
        /\ \A p \in Op : p # o => ops'[p] = ops[p]
    BY <1>1, Facts, Returns
  <1>3. GatedNow' /\ Turns(active', OpsOf(queue'), ops')
    BY <1>1, <1>2, Passes DEF Holding
  <1>4. QED
    BY <1>1, <1>2, <1>3, Quiet DEF Entering

\* Where an asset that is at hand leaves its call.
LEMMA Delivers ==
    ASSUME IInv, NEW o \in Op, Delivered(o)
    PROVE  /\ ops' \in [Op -> Calls] /\ ops'[o].at \in {"idle", "posing"}
           /\ \A p \in Op : p # o => ops'[p] = ops[p]
  <1>1. CASE ops[o].kind = "poster"
    BY <1>1, Facts, Goes DEF Delivered, AllPlaces
  <1>2. CASE ops[o].kind # "poster"
    BY <1>2, Facts, Returns DEF Delivered
  <1>3. QED
    BY <1>1, <1>2

LEMMA FoundStep ==
    ASSUME IInv, NEW o \in Op, Found(o)
    PROVE  IInv'
  <1>1. /\ ops[o].at = "asking" /\ o \notin Uploads
        /\ Release(o) /\ Delivered(o) /\ UNCHANGED cached
    BY DEF Found, Granted
  <1>2. /\ ops' \in [Op -> Calls] /\ ops'[o].at \in {"idle", "posing"}
        /\ \A p \in Op : p # o => ops'[p] = ops[p]
    BY <1>1, Delivers
  <1>3. GatedNow' /\ Turns(active', OpsOf(queue'), ops')
    BY <1>1, <1>2, Passes DEF Holding
  <1>4. QED
    BY <1>1, <1>2, <1>3, Quiet DEF Entering

LEMMA LimitStep ==
    ASSUME IInv, NEW o \in Op, Limit(o)
    PROVE  IInv'
  <1>1. /\ ops[o].at = "asking" /\ active = o /\ Go(o, "sending") /\ o \in Uploads
        /\ UNCHANGED gate /\ UNCHANGED cached
    BY DEF Limit
  <1>2. /\ ops' \in [Op -> Calls] /\ ops'[o].at = "sending"
        /\ \A p \in Op : p # o => ops'[p] = ops[p]
    BY <1>1, Facts, Goes DEF AllPlaces
  <1>3. o \notin OpsOf(queue)
    BY <1>1, Facts
  <1>4. GatedNow' /\ Turns(active', OpsOf(queue'), ops')
    BY <1>1, <1>2, <1>3, Holds DEF Holding
  <1>5. QED
    BY <1>1, <1>2, <1>4, Quiet DEF Entering

LEMMA SendStep ==
    ASSUME IInv, NEW o \in Op, Send(o)
    PROVE  IInv'
  <1>1. ops[o].at = "sending" /\ Release(o) /\ Return(o) /\ UNCHANGED cached
    BY DEF Send
  <1>2. /\ ops' \in [Op -> Calls] /\ ops'[o].at = "idle"
        /\ \A p \in Op : p # o => ops'[p] = ops[p]
    BY <1>1, Facts, Returns
  <1>3. GatedNow' /\ Turns(active', OpsOf(queue'), ops')
    BY <1>1, <1>2, Passes DEF Holding
  <1>4. QED
    BY <1>1, <1>2, <1>3, Quiet DEF Entering

LEMMA UploadFailsStep ==
    ASSUME IInv, NEW o \in Op, UploadFails(o)
    PROVE  IInv'
  <1>1. o \in Uploads /\ Release(o) /\ Return(o) /\ UNCHANGED cached
    BY DEF UploadFails
  <1>2. /\ ops' \in [Op -> Calls] /\ ops'[o].at = "idle"
        /\ \A p \in Op : p # o => ops'[p] = ops[p]
    BY <1>1, Facts, Returns
  <1>3. GatedNow' /\ Turns(active', OpsOf(queue'), ops')
    BY <1>1, <1>2, Passes DEF Holding
  <1>4. ops[o].at \notin Entering
    BY <1>1, Facts
  <1>5. QED
    BY <1>1, <1>2, <1>3, <1>4, Quiet DEF Entering

LEMMA NoPosterStep ==
    ASSUME IInv, NEW o \in Op, NoPoster(o)
    PROVE  IInv'
  <1>1. ops[o].at = "posing" /\ Return(o) /\ UNCHANGED gate /\ UNCHANGED cached
    BY DEF NoPoster
  <1>2. /\ ops' \in [Op -> Calls] /\ ops'[o].at = "idle"
        /\ \A p \in Op : p # o => ops'[p] = ops[p]
    BY <1>1, Facts, Returns
  <1>3. active # o /\ o \notin OpsOf(queue)
    BY <1>1, NoneAssumption DEF IInv, Turns, Holding
  <1>4. GatedNow' /\ Turns(active', OpsOf(queue'), ops')
    BY <1>1, <1>2, <1>3, Holds DEF Holding
  <1>5. QED
    BY <1>1, <1>2, <1>4, Quiet DEF Entering

-----------------------------------------------------------------------------
(* Entries come.                                                           *)

LEMMA BeginLoadStep ==
    ASSUME IInv, NEW o \in Op, BeginLoad(o)
    PROVE  IInv'
  <1> DEFINE s == <<"asset", ops[o].key>>
  <1>1. /\ ops[o].at = "asking" /\ active = o /\ o \notin Uploads
        /\ cache[s] = None /\ Insert(o, s) /\ Go(o, "loading") /\ UNCHANGED gate
    BY DEF BeginLoad, Granted
  <1>2. /\ ops' \in [Op -> Calls] /\ ops'[o].at = "loading" /\ ops'[o].key = ops[o].key
        /\ \A p \in Op : p # o => ops'[p] = ops[p]
    BY <1>1, Facts, Goes DEF AllPlaces, Entering
  <1>3. s \in Slot
    BY Facts DEF Slot, Calls
  <1>4. Place(ops'[o]) = s
    BY <1>2 DEF Place
  <1> HIDE DEF s
  <1>5. KeptNow' /\ Only(cache', cache, s) /\ cache'[s] = Pending(o)
    BY <1>1, <1>3, Inserted DEF IInv
  <1>6. cache' \in Caches
    BY <1>5 DEF KeptNow, Kept
  <1>7. Entered(cache', ops')
    BY <1>1, <1>2, <1>3, <1>4, <1>5, <1>6, Facts, EnteredIn DEF IInv, Entering
  <1>8. GatedNow' /\ Turns(active', OpsOf(queue'), ops')
    BY <1>1, <1>2, Facts, Holds DEF Holding
  <1>9. Placed(ops')
    BY <1>1, <1>2, StaysPlaced
  <1>10. QED
    BY <1>5, <1>7, <1>8, <1>9 DEF IInv

LEMMA BeginDrawStep ==
    ASSUME IInv, NEW o \in Op, BeginDraw(o)
    PROVE  IInv'
  <1> DEFINE s == SlotOf(o)
  <1>1. /\ ops[o].at = "posing" /\ cache[s] = None /\ Insert(o, s) /\ Go(o, "drawing")
        /\ Acquire(o, DecodedBytes) \/ UNCHANGED gate
    BY DEF BeginDraw, Posing
  <1>2. /\ ops' \in [Op -> Calls] /\ ops'[o].at = "drawing" /\ ops'[o].key = ops[o].key
        /\ \A p \in Op : p # o => ops'[p] = ops[p]
    BY <1>1, Facts, Goes DEF AllPlaces, Entering
  <1>3. s \in Slot
    BY Facts
  <1>4. Place(ops'[o]) = s
    BY <1>1, <1>2 DEF Place, SlotOf
  <1> HIDE DEF s
  <1>5. KeptNow' /\ Only(cache', cache, s) /\ cache'[s] = Pending(o)
    BY <1>1, <1>3, Inserted DEF IInv
  <1>6. cache' \in Caches
    BY <1>5 DEF KeptNow, Kept
  <1>7. Entered(cache', ops')
    BY <1>1, <1>2, <1>3, <1>4, <1>5, <1>6, Facts, EnteredIn DEF IInv, Entering
  <1>8. o \notin Uploads /\ active # o /\ o \notin OpsOf(queue)
    BY <1>1, NoneAssumption DEF IInv, Turns, Placed, Holding
  <1>9. GatedNow' /\ Turns(active', OpsOf(queue'), ops')
    <2>1. CASE Acquire(o, DecodedBytes)
      BY <1>1, <1>2, <2>1, SizeAssumption, Asks
    <2>2. CASE UNCHANGED gate
      BY <1>2, <1>8, <2>2, Holds DEF Holding
    <2>3. QED
      BY <1>1, <2>1, <2>2
  <1>10. Placed(ops')
    BY <1>2, <1>8, StaysPlaced
  <1>11. QED
    BY <1>5, <1>7, <1>9, <1>10 DEF IInv

-----------------------------------------------------------------------------
(* Entries wait for their contents.                                        *)

\* A step within an entry's life that leaves the cache alone.
LEMMA Waits ==
    ASSUME IInv, NEW o \in Op, UNCHANGED cached,
           ops' \in [Op -> Calls], \A p \in Op : p # o => ops'[p] = ops[p],
           ops[o].at \in Entering, ops'[o].at \in Entering, Place(ops'[o]) = Place(ops[o]),
           GatedNow', Turns(active', OpsOf(queue'), ops')
    PROVE  IInv'
  <1>1. KeptNow' /\ cache' = cache
    BY CacheStays DEF IInv
  <1>2. SlotOf(o) \in Slot /\ Only(cache', cache, SlotOf(o))
    BY <1>1, Facts DEF Only
  <1>3. QED
    BY <1>1, <1>2, Along

LEMMA LoadFailsStep ==
    ASSUME IInv, NEW o \in Op, LoadFails(o)
    PROVE  IInv'
  <1>1. ops[o].at = "loading" /\ Go(o, "failed") /\ UNCHANGED gate /\ UNCHANGED cached
    BY DEF LoadFails
  <1>2. /\ ops' \in [Op -> Calls] /\ ops'[o].at = "failed" /\ ops'[o].key = ops[o].key
        /\ \A p \in Op : p # o => ops'[p] = ops[p]
    BY <1>1, Facts, Goes DEF AllPlaces, Entering
  <1>3. active = o /\ o \notin OpsOf(queue)
    BY <1>1, Facts DEF IInv, Turns, Holding
  <1>4. GatedNow' /\ Turns(active', OpsOf(queue'), ops')
    BY <1>1, <1>2, <1>3, Holds DEF Holding
  <1>5. Place(ops'[o]) = Place(ops[o])
    BY <1>1, <1>2 DEF Place
  <1>6. QED
    BY <1>1, <1>2, <1>4, <1>5, Waits DEF Entering

LEMMA DrawRejectedStep ==
    ASSUME IInv, NEW o \in Op, DrawRejected(o)
    PROVE  IInv'
  <1>1. /\ ops[o].at = "drawing" /\ Go(o, "undrawn") /\ UNCHANGED gate /\ UNCHANGED cached
        /\ active # o /\ o \notin OpsOf(queue)
    BY Facts DEF DrawRejected
  <1>2. /\ ops' \in [Op -> Calls] /\ ops'[o].at = "undrawn" /\ ops'[o].key = ops[o].key
        /\ \A p \in Op : p # o => ops'[p] = ops[p]
    BY <1>1, Facts, Goes DEF AllPlaces, Entering
  <1>3. GatedNow' /\ Turns(active', OpsOf(queue'), ops')
    BY <1>1, <1>2, Holds DEF Holding
  <1>4. Place(ops'[o]) = Place(ops[o])
    BY <1>1, <1>2 DEF Place
  <1>5. QED
    BY <1>1, <1>2, <1>3, <1>4, Waits DEF Entering

LEMMA DrawFailsStep ==
    ASSUME IInv, NEW o \in Op, DrawFails(o)
    PROVE  IInv'
  <1>1. ops[o].at = "drawing" /\ Go(o, "undrawn") /\ Release(o) /\ UNCHANGED cached
    BY DEF DrawFails
  <1>2. /\ ops' \in [Op -> Calls] /\ ops'[o].at = "undrawn" /\ ops'[o].key = ops[o].key
        /\ \A p \in Op : p # o => ops'[p] = ops[p]
    BY <1>1, Facts, Goes DEF AllPlaces, Entering
  <1>3. GatedNow' /\ Turns(active', OpsOf(queue'), ops')
    BY <1>1, <1>2, Passes DEF Holding
  <1>4. Place(ops'[o]) = Place(ops[o])
    BY <1>1, <1>2 DEF Place
  <1>5. QED
    BY <1>1, <1>2, <1>3, <1>4, Waits DEF Entering

LEMMA Records ==
    ASSUME IInv, NEW o \in Op, Own(o), Record(o, SlotOf(o), TRUE),
           ops' \in [Op -> Calls], \A p \in Op : p # o => ops'[p] = ops[p],
           ops[o].at \in Entering, ops'[o].at \in Entering, Place(ops'[o]) = Place(ops[o]),
           GatedNow', Turns(active', OpsOf(queue'), ops')
    PROVE  IInv'
  <1>1. SlotOf(o) \in Slot /\ cache[SlotOf(o)] # None /\ cache[SlotOf(o)].by = o
    BY Facts DEF Own
  <1>2. PICK s \in Slot : s = SlotOf(o)
    BY <1>1
  <1>3. /\ KeptNow' /\ Only(cache', cache, s)
        /\ cache'[s] # None /\ cache'[s].by = o /\ cache'[s].settled = cache[s].settled
    BY <1>1, <1>2, Recorded DEF IInv
  <1>4. QED
    BY <1>1, <1>2, <1>3, Along

LEMMA LoadStep ==
    ASSUME IInv, NEW o \in Op, Load(o)
    PROVE  IInv'
  <1>1. /\ ops[o].at = "loading" /\ Go(o, "loaded") /\ UNCHANGED gate
        /\ Own(o) /\ Record(o, SlotOf(o), TRUE)
    BY DEF Load
  <1>2. /\ ops' \in [Op -> Calls] /\ ops'[o].at = "loaded" /\ ops'[o].key = ops[o].key
        /\ \A p \in Op : p # o => ops'[p] = ops[p]
    BY <1>1, Facts, Goes DEF AllPlaces, Entering
  <1>3. active = o /\ o \notin OpsOf(queue)
    BY <1>1, Facts DEF IInv, Turns, Holding
  <1>4. GatedNow' /\ Turns(active', OpsOf(queue'), ops')
    BY <1>1, <1>2, <1>3, Holds DEF Holding
  <1>5. Place(ops'[o]) = Place(ops[o])
    BY <1>1, <1>2 DEF Place
  <1>6. QED
    BY <1>1, <1>2, <1>4, <1>5, Records DEF Entering

LEMMA DrawStep ==
    ASSUME IInv, NEW o \in Op, Draw(o)
    PROVE  IInv'
  <1>1. ops[o].at = "drawing" /\ Own(o) /\ Release(o)
    BY DEF Draw
  <1>2. PICK at \in {"drawn", "blank"} :
            Go(o, at) /\ (Record(o, SlotOf(o), TRUE) \/ UNCHANGED cached)
    BY DEF Draw
  <1>3. /\ ops' \in [Op -> Calls] /\ ops'[o].at = at /\ ops'[o].key = ops[o].key
        /\ \A p \in Op : p # o => ops'[p] = ops[p]
    BY <1>2, Facts, Goes DEF AllPlaces, Entering
  <1>4. GatedNow' /\ Turns(active', OpsOf(queue'), ops')
    BY <1>1, <1>3, Passes DEF Holding
  <1>5. Place(ops'[o]) = Place(ops[o])
    BY <1>1, <1>3 DEF Place
  <1>6. ops[o].at \in Entering /\ ops'[o].at \in Entering
    BY <1>1, <1>3 DEF Entering
  <1>7. QED
    BY <1>1, <1>2, <1>3, <1>4, <1>5, <1>6, Records, Waits

-----------------------------------------------------------------------------
(* Entries settle, or go with their operation.                             *)

LEMMA SettlesEntry ==
    ASSUME IInv, NEW o \in Op, ops[o].at \in Entering,
           NEW bytes \in Nat, bytes <= MaxCacheBytes,
           IF Own(o) THEN Keep(o, bytes) ELSE UNCHANGED cached
    PROVE  /\ KeptNow' /\ Only(cache', cache, SlotOf(o))
           /\ \/ cache'[SlotOf(o)] = None
              \/ cache'[SlotOf(o)].by = o /\ cache'[SlotOf(o)].settled
              \/ cache'[SlotOf(o)] = cache[SlotOf(o)] /\ cache[SlotOf(o)].by # o
  <1>1. CASE Own(o)
    <2>1. SlotOf(o) \in Slot /\ Keep(o, bytes)
      BY <1>1, Facts
    <2>2. PICK s \in Slot : s = SlotOf(o)
      BY <2>1
    <2>3. ~cache[s].settled
      BY <1>1, <2>2, Facts DEF IInv, Entered, Own
    <2>4. /\ KeptNow' /\ Only(cache', cache, s)
          /\ cache'[s] # None /\ cache'[s].by = o /\ cache'[s].settled
      BY <1>1, <2>1, <2>2, <2>3, Settled DEF IInv
    <2>5. QED
      BY <2>2, <2>4
  <1>2. CASE ~Own(o)
    <2>1. KeptNow' /\ cache' = cache
      BY <1>2, CacheStays DEF IInv
    <2>2. cache[SlotOf(o)] = None \/ cache[SlotOf(o)].by # o
      BY <1>2 DEF Own
    <2>3. QED
      BY <2>1, <2>2 DEF Only
  <1>3. QED
    BY <1>1, <1>2

LEMMA DropsEntry ==
    ASSUME IInv, NEW o \in Op, Drop(o)
    PROVE  /\ KeptNow' /\ Only(cache', cache, SlotOf(o))
           /\ \/ cache'[SlotOf(o)] = None
              \/ cache'[SlotOf(o)] = cache[SlotOf(o)] /\ cache[SlotOf(o)].by # o
  <1> DEFINE gone == IF Own(o) THEN {SlotOf(o)} ELSE {}
  <1>1. SlotOf(o) \in Slot
    BY Facts
  <1>2. gone \in SUBSET Present(cache)
    BY <1>1 DEF Own, Present
  <1>3. Rewrite(cache, {}, gone, 0)
    BY DEF Drop
  <1>4. Own(o) => SlotOf(o) \in gone
    OBVIOUS
  <1>5. ~Own(o) => SlotOf(o) \notin gone /\ (cache[SlotOf(o)] = None \/ cache[SlotOf(o)].by # o)
    BY DEF Own
  <1> HIDE DEF gone
  <1>6. KeptNow' /\ cache' = Without(cache, gone)
    BY <1>2, <1>3, Dropped DEF IInv
  <1>7. \A t \in Slot : cache'[t] = IF t \in gone THEN None ELSE cache[t]
    BY <1>6 DEF Without
  <1>8. QED
    BY <1>1, <1>4, <1>5, <1>6, <1>7 DEF Only

LEMMA SizesFit ==
    \A bytes \in Size \union {0} : bytes \in Nat /\ bytes <= MaxCacheBytes
  BY SizeAssumption

LEMMA SettleAssetStep ==
    ASSUME IInv, NEW o \in Op, SettleAsset(o)
    PROVE  IInv'
  <1>1. ops[o].at = "loaded" /\ Release(o) /\ Delivered(o)
    BY DEF SettleAsset
  <1>2. PICK bytes \in Size : IF Own(o) THEN Keep(o, bytes) ELSE UNCHANGED cached
    BY DEF SettleAsset
  <1>3. /\ ops' \in [Op -> Calls] /\ ops'[o].at \in {"idle", "posing"}
        /\ \A p \in Op : p # o => ops'[p] = ops[p]
    BY <1>1, Delivers
  <1>4. GatedNow' /\ Turns(active', OpsOf(queue'), ops')
    BY <1>1, <1>3, Passes DEF Holding
  <1>5. ops[o].at \in Entering /\ ops'[o].at \notin Entering /\ SlotOf(o) \in Slot
    BY <1>1, <1>3, Facts DEF Entering
  <1>6. /\ KeptNow' /\ Only(cache', cache, SlotOf(o))
        /\ \/ cache'[SlotOf(o)] = None
           \/ cache'[SlotOf(o)].by = o /\ cache'[SlotOf(o)].settled
           \/ cache'[SlotOf(o)] = cache[SlotOf(o)] /\ cache[SlotOf(o)].by # o
    BY <1>2, <1>5, SizesFit, SettlesEntry
  <1>7. QED
    BY <1>3, <1>4, <1>5, <1>6, Leaves

LEMMA AssetFailsStep ==
    ASSUME IInv, NEW o \in Op, AssetFails(o)
    PROVE  IInv'
  <1>1. ops[o].at \in {"failed", "loaded"} /\ Drop(o) /\ Release(o) /\ Return(o)
    BY DEF AssetFails
  <1>2. /\ ops' \in [Op -> Calls] /\ ops'[o].at = "idle"
        /\ \A p \in Op : p # o => ops'[p] = ops[p]
    BY <1>1, Facts, Returns
  <1>3. GatedNow' /\ Turns(active', OpsOf(queue'), ops')
    BY <1>1, <1>2, Passes DEF Holding
  <1>4. ops[o].at \in Entering /\ ops'[o].at \notin Entering /\ SlotOf(o) \in Slot
    BY <1>1, <1>2, Facts DEF Entering
  <1>5. /\ KeptNow' /\ Only(cache', cache, SlotOf(o))
        /\ \/ cache'[SlotOf(o)] = None
           \/ cache'[SlotOf(o)] = cache[SlotOf(o)] /\ cache[SlotOf(o)].by # o
    BY <1>1, DropsEntry
  <1>6. QED
    BY <1>2, <1>3, <1>4, <1>5, Leaves

\* Who draws no more neither holds the lease nor waits for it.
LEMMA Drawn ==
    ASSUME IInv, NEW o \in Op, ops[o].at \in {"drawn", "blank", "undrawn"},
           UNCHANGED gate, Return(o)
    PROVE  /\ ops' \in [Op -> Calls] /\ \A p \in Op : p # o => ops'[p] = ops[p]
           /\ ops[o].at \in Entering /\ ops'[o].at \notin Entering
           /\ GatedNow' /\ Turns(active', OpsOf(queue'), ops')
  <1>1. /\ ops' \in [Op -> Calls] /\ ops'[o].at = "idle"
        /\ \A p \in Op : p # o => ops'[p] = ops[p]
    BY Facts, Returns
  <1>2. active # o /\ o \notin OpsOf(queue)
    BY NoneAssumption DEF IInv, Turns, Holding
  <1>3. GatedNow' /\ Turns(active', OpsOf(queue'), ops')
    BY <1>1, <1>2, Holds DEF Holding
  <1>4. QED
    BY <1>1, <1>3 DEF Entering

LEMMA SettlePosterStep ==
    ASSUME IInv, NEW o \in Op, SettlePoster(o)
    PROVE  IInv'
  <1>1. ops[o].at \in {"drawn", "blank"} /\ Return(o) /\ UNCHANGED gate
    BY DEF SettlePoster
  <1>2. PICK bytes \in Size \union {0} : IF Own(o) THEN Keep(o, bytes) ELSE UNCHANGED cached
    <2>1. CASE Own(o)
      BY <2>1 DEF SettlePoster
    <2>2. CASE ~Own(o)
      BY <2>2 DEF SettlePoster
    <2>3. QED
      BY <2>1, <2>2
  <1>3. /\ ops' \in [Op -> Calls] /\ \A p \in Op : p # o => ops'[p] = ops[p]
        /\ ops[o].at \in Entering /\ ops'[o].at \notin Entering
        /\ GatedNow' /\ Turns(active', OpsOf(queue'), ops')
    BY <1>1, Drawn
  <1>4. SlotOf(o) \in Slot
    BY Facts
  <1>5. /\ KeptNow' /\ Only(cache', cache, SlotOf(o))
        /\ \/ cache'[SlotOf(o)] = None
           \/ cache'[SlotOf(o)].by = o /\ cache'[SlotOf(o)].settled
           \/ cache'[SlotOf(o)] = cache[SlotOf(o)] /\ cache[SlotOf(o)].by # o
    BY <1>2, <1>3, SizesFit, SettlesEntry
  <1>6. QED
    BY <1>3, <1>4, <1>5, Leaves

LEMMA PosterFailsStep ==
    ASSUME IInv, NEW o \in Op, PosterFails(o)
    PROVE  IInv'
  <1>1. ops[o].at \in {"drawn", "blank", "undrawn"} /\ Drop(o) /\ Return(o) /\ UNCHANGED gate
    BY DEF PosterFails
  <1>2. /\ ops' \in [Op -> Calls] /\ \A p \in Op : p # o => ops'[p] = ops[p]
        /\ ops[o].at \in Entering /\ ops'[o].at \notin Entering
        /\ GatedNow' /\ Turns(active', OpsOf(queue'), ops')
    BY <1>1, Drawn
  <1>3. SlotOf(o) \in Slot
    BY Facts
  <1>4. /\ KeptNow' /\ Only(cache', cache, SlotOf(o))
        /\ \/ cache'[SlotOf(o)] = None
           \/ cache'[SlotOf(o)] = cache[SlotOf(o)] /\ cache[SlotOf(o)].by # o
    BY <1>1, DropsEntry
  <1>5. QED
    BY <1>2, <1>3, <1>4, Leaves

-----------------------------------------------------------------------------
(* The application's steps.                                                *)

\* Nobody moves, and entries only go.
LEMMA Clears ==
    ASSUME IInv, GatedNow', active' = active, OpsOf(queue') \subseteq OpsOf(queue),
           ops' \in [Op -> Calls],
           \A p \in Op : ops'[p].at = ops[p].at /\ ops'[p].key = ops[p].key,
           KeptNow', \A s \in Slot : cache'[s] = None \/ cache'[s] = cache[s]
    PROVE  IInv'
  <1>1. OpsOf(queue') \in SUBSET OpsOf(queue) /\ \A p \in Op : ops'[p].at = ops[p].at
    OBVIOUS
  <1>2. Turns(active, OpsOf(queue'), ops')
    BY <1>1, Facts, TurnsKept DEF IInv
  <1>3. cache' \in Caches
    BY DEF KeptNow, Kept
  <1>4. Entered(cache', ops')
    BY <1>3, Facts, EnteredShrinks DEF IInv
  <1>5. Placed(ops')
    BY UploadsAssumption DEF IInv, Placed
  <1>6. QED
    BY <1>2, <1>4, <1>5 DEF IInv

LEMMA CancelStep ==
    ASSUME IInv, NEW o \in Op, Cancel(o)
    PROVE  IInv'
  <1>1. Abort({o}) /\ ops' = ops /\ UNCHANGED cached
    BY DEF Cancel
  <1>2. GatedNow' /\ active' = active /\ OpsOf(queue') \subseteq OpsOf(queue)
    BY <1>1, AbortKeeps DEF IInv
  <1>3. KeptNow' /\ cache' = cache
    BY <1>1, CacheStays DEF IInv
  <1>4. ops' \in [Op -> Calls]
    BY <1>1, Facts
  <1>5. QED
    BY <1>1, <1>2, <1>3, <1>4, Clears

LEMMA InvalidateStep ==
    ASSUME IInv, NEW a \in Alias, Invalidate(a)
    PROVE  IInv'
  <1>1. PICK gone \in SUBSET Present(cache), drawing \in SUBSET Op :
            /\ ops' = [o \in Op |-> [ops[o] EXCEPT !.current = FALSE]]
            /\ Rewrite(cache, {}, gone, 0)
            /\ Abort(drawing)
    BY DEF Invalidate
  <1>2. ops' \in [Op -> Calls] /\ \A p \in Op : ops'[p].at = ops[p].at /\ ops'[p].key = ops[p].key
    BY <1>1, Facts DEF Calls
  <1>3. GatedNow' /\ active' = active /\ OpsOf(queue') \subseteq OpsOf(queue)
    BY <1>1, AbortKeeps DEF IInv
  <1>4. KeptNow' /\ cache' = Without(cache, gone)
    BY <1>1, Dropped DEF IInv
  <1>5. \A s \in Slot : cache'[s] = None \/ cache'[s] = cache[s]
    BY <1>4 DEF Without
  <1>6. QED
    BY <1>2, <1>3, <1>4, <1>5, Clears

LEMMA EmptyCache ==
    ASSUME NEW c, c = [s \in Slot |-> None]
    PROVE  Kept(c, 0, {}, {})
  <1>1. c \in Caches /\ \A s \in Slot : c[s] = None
    BY DEF Caches
  <1>2. Present(c) = {} /\ SettledIn(c) = {}
    BY <1>1 DEF Present, SettledIn
  <1>3. UnitsOf(c) = {}
    BY <1>2 DEF UnitsOf
  <1>4. BytesOf(c) = 0 /\ Cardinality(Present(c)) = 0
    BY <1>1, <1>2, <1>3, CacheFacts, FS_EmptySet
  <1>5. Keys({}) = {} /\ UrlsOf(c, {}) = {}
    BY DEF Keys, UrlsOf
  <1>6. QED
    BY <1>1, <1>2, <1>4, <1>5, SizeAssumption DEF Kept, Fits

LEMMA StopStep ==
    ASSUME IInv, Stop
    PROVE  IInv'
  <1>1. /\ Close /\ cache' = [s \in Slot |-> None] /\ cacheBytes' = 0
        /\ live' = live \ UrlsOf(cache, Present(cache)) /\ aliased' = {} /\ ops' = ops
    BY DEF Stop, Revoked
  <1>2. GatedNow' /\ active' = active /\ OpsOf(queue') \subseteq OpsOf(queue)
    BY <1>1, CloseKeeps DEF IInv
  <1>3. live' = {}
    BY <1>1 DEF IInv, KeptNow, Kept
  <1>4. KeptNow'
    BY <1>1, <1>3, EmptyCache DEF KeptNow
  <1>5. \A s \in Slot : cache'[s] = None
    BY <1>1
  <1>6. ops' \in [Op -> Calls]
    BY <1>1, Facts
  <1>7. QED
    BY <1>1, <1>2, <1>4, <1>5, <1>6, Clears

-----------------------------------------------------------------------------
(* The inductive invariant.                                                *)

LEMMA InitIInv == Init => IInv
  <1> SUFFICES ASSUME Init PROVE IInv
    OBVIOUS
  <1>1. /\ active = None /\ queue = <<>> /\ queuedBytes = 0 /\ closed = FALSE
        /\ ops = [o \in Op |-> Idle] /\ cache = [s \in Slot |-> None]
        /\ cacheBytes = 0 /\ aliased = {} /\ live = {}
    BY DEF Init, GateInit
  <1>2. MaxQueue \in Nat /\ MaxQueuedBytes \in Nat
    BY BoundsAssumption
  <1>3. GatedNow
    BY <1>1, <1>2, EmptyQueue DEF GatedNow, Gated
  <1>4. AnyKey \in Key
    BY KeyAssumption DEF AnyKey
  <1>5. Idle \in Calls /\ Idle.at = "idle"
    BY <1>4 DEF Idle, Calls
  <1>6. Placed(ops)
    BY <1>1, <1>5, UploadsAssumption DEF Placed
  <1>7. Turns(active, OpsOf(queue), ops)
    BY <1>1, <1>5, EmptyQueue DEF Turns, Holding
  <1>8. KeptNow
    BY <1>1, EmptyCache DEF KeptNow
  <1>9. Entered(cache, ops)
    BY <1>1, <1>5 DEF Entered, Entering
  <1>10. QED
    BY <1>3, <1>6, <1>7, <1>8, <1>9 DEF IInv

LEMMA StutterStep ==
    ASSUME IInv, UNCHANGED vars
    PROVE  IInv'
  <1>1. UNCHANGED gate /\ UNCHANGED cached /\ ops' = ops
    BY DEF vars, cached
  <1>2. GatedNow' /\ active' = active /\ queue' = queue
    BY <1>1, GateStays DEF IInv
  <1>3. KeptNow' /\ cache' = cache
    BY <1>1, CacheStays DEF IInv
  <1>4. QED
    BY <1>1, <1>2, <1>3 DEF IInv

LEMMA NextKeeps == IInv /\ [Next]_vars => IInv'
  <1> SUFFICES ASSUME IInv, [Next]_vars PROVE IInv'
    OBVIOUS
  <1>1. ASSUME NEW o \in Op, Ask(o) \/ AskUpload(o) \/ Cancel(o) PROVE IInv'
    BY <1>1, AskStep, AskUploadStep, CancelStep
  <1>2. ASSUME NEW o \in Op, Step(o) PROVE IInv'
    <2>1. CASE Rejected(o) \/ Stale(o) \/ Found(o) \/ Limit(o) \/ Send(o) \/ UploadFails(o)
      BY <2>1, RejectedStep, StaleStep, FoundStep, LimitStep, SendStep, UploadFailsStep
    <2>2. CASE BeginLoad(o) \/ Load(o) \/ LoadFails(o) \/ SettleAsset(o) \/ AssetFails(o)
      BY <2>2, BeginLoadStep, LoadStep, LoadFailsStep, SettleAssetStep, AssetFailsStep
    <2>3. CASE NoPoster(o) \/ BeginDraw(o) \/ DrawRejected(o) \/ Draw(o) \/ DrawFails(o)
      BY <2>3, NoPosterStep, BeginDrawStep, DrawRejectedStep, DrawStep, DrawFailsStep
    <2>4. CASE SettlePoster(o) \/ PosterFails(o)
      BY <2>4, SettlePosterStep, PosterFailsStep
    <2>5. QED
      BY <1>2, <2>1, <2>2, <2>3, <2>4 DEF Step
  <1>3. ASSUME NEW a \in Alias, Invalidate(a) PROVE IInv'
    BY <1>3, InvalidateStep
  <1>4. CASE Stop
    BY <1>4, StopStep
  <1>5. CASE UNCHANGED vars
    BY <1>5, StutterStep
  <1>6. QED
    BY <1>1, <1>2, <1>3, <1>4, <1>5 DEF Next

LEMMA SoundGate == IInv => GateSound
  <1> SUFFICES ASSUME IInv PROVE GateSound
    OBVIOUS
  <1>1. Queued = OpsOf(queue)
    BY Facts
  <1>2. GateCounts
    BY <1>1 DEF IInv, GatedNow, Gated, GateCounts, Nodes, Distinct
  <1>3. QED
    BY <1>1, <1>2 DEF IInv, Turns, GateSound

\* The entries that have not settled are those of distinct running calls, and
\* who is about to insert one is not among them.
LEMMA RoomLeft ==
    ASSUME IInv, NEW o \in Op, o \notin Uploads, ops[o].at \notin Entering
    PROVE  Rooms # {}
  <1> SUFFICES ASSUME Rooms = {} PROVE FALSE
    OBVIOUS
  <1> DEFINE Others == (Op \ Uploads) \ {o}
             owner == [s \in Present(cache) |-> cache[s].by]
  <1>1. ~(Cardinality(Present(cache)) < MaxEntries) /\ SettledIn(cache) = {}
    BY DEF Rooms
  <1>2. \A s \in Present(cache) : s \in Slot /\ cache[s] # None /\ ~cache[s].settled
    BY <1>1 DEF Present, SettledIn
  <1>3. \A s \in Present(cache) : cache[s].by \in Op
    BY Facts, CacheFacts DEF Sized, Entry
  <1>4. \A s \in Present(cache) :
            ops[cache[s].by].at \in Entering /\ Place(ops[cache[s].by]) = s
    BY <1>2 DEF IInv, Entered
  <1>5. owner \in [Present(cache) -> Others]
    BY <1>3, <1>4, Facts
  <1>6. \A s, t \in Present(cache) : owner[s] = owner[t] => s = t
    BY <1>4
  <1>7. owner \in Injection(Present(cache), Others)
    BY <1>5, <1>6 DEF Injection, IsInjective
  <1>8. IsFiniteSet(Op \ Uploads)
    BY OpAssumption, FS_Subset
  <1>9. IsFiniteSet(Others) /\ Cardinality(Others) = Cardinality(Op \ Uploads) - 1
    BY <1>8, FS_RemoveElement
  <1>10. Cardinality(Present(cache)) <= Cardinality(Others)
    BY <1>7, <1>9, FS_Injection
  <1>11. /\ Cardinality(Present(cache)) \in Nat /\ Cardinality(Op \ Uploads) \in Nat
         /\ MaxEntries \in Nat
    BY <1>8, Facts, CacheFacts, FS_CardinalityType, SizeAssumption
  <1>12. QED
    BY <1>1, <1>9, <1>10, <1>11, RoomAssumption

LEMMA FindsRoom == IInv => RoomFound
  <1> SUFFICES ASSUME IInv, NEW o \in Op, Granted(o) \/ Posing(o) PROVE Rooms # {}
    BY DEF RoomFound
  <1>1. o \notin Uploads /\ ops[o].at \notin Entering
    BY DEF Granted, Posing, Entering, IInv, Placed
  <1>2. QED
    BY <1>1, RoomLeft

LEMMA SoundCache == IInv => CacheSound /\ UrlsAccounted
  <1> SUFFICES ASSUME IInv PROVE CacheSound /\ UrlsAccounted
    OBVIOUS
  <1>1. ASSUME NEW s \in Present(cache) \ SettledIn(cache)
        PROVE  /\ SlotOf(cache[s].by) = s
               /\ ops[cache[s].by].at \notin {"idle", "asking", "posing"}
    <2>1. s \in Slot /\ cache[s] # None /\ ~cache[s].settled
      BY DEF Present, SettledIn
    <2>2. ops[cache[s].by].at \in Entering /\ Place(ops[cache[s].by]) = s
      BY <2>1 DEF IInv, Entered
    <2>3. QED
      BY <2>2 DEF Entering, Place, SlotOf
  <1>2. QED
    BY <1>1, FindsRoom DEF IInv, KeptNow, Kept, CacheSound, UrlsAccounted

-----------------------------------------------------------------------------
(* The theorems.                                                           *)

LEMMA Invariant == Spec => []IInv
  BY InitIInv, NextKeeps, PTL DEF Spec

(* The lease is never forgotten nor held twice, and the gate's total is    *)
(* what its queue reserves, within every bound.                            *)
THEOREM TurnsSound == Spec => []GateSound
  BY Invariant, SoundGate, PTL

(* The cache's total is that of its settled entries, its limits hold, its  *)
(* aliases are those of its downloads, what has not settled is some        *)
(* running operation's, and a call that inserts an entry finds room.       *)
THEOREM CacheAccounted == Spec => []CacheSound
  BY Invariant, SoundCache, PTL

(* The object URLs alive are those of the cache's entries. *)
THEOREM NoUrlLost == Spec => []UrlsAccounted
  BY Invariant, SoundCache, PTL

-----------------------------------------------------------------------------
(* Nothing from before a retry settles.                                    *)

FreshOnes ==
    \A s \in Slot :
        LET e == cache'[s] IN
        e # None /\ e.settled /\ (cache[s] = None \/ ~cache[s].settled) => ops[e.by].current

\* Where nothing else than the entry in slot s changes its being settled.
LEMMA OnlyFresh ==
    ASSUME NEW s \in Slot, Only(cache', cache, s),
           \/ cache'[s] = None
           \/ ~cache'[s].settled
           \/ cache'[s] = cache[s]
           \/ ops[cache'[s].by].current
    PROVE  FreshOnes
  BY DEF Only, FreshOnes

LEMMA SameFresh ==
    ASSUME cache' = cache
    PROVE  FreshOnes
  BY DEF FreshOnes

LEMMA SettlesFresh ==
    ASSUME IInv, NEW o \in Op, ops[o].at \in Entering, ops[o].current,
           NEW bytes \in Nat, bytes <= MaxCacheBytes,
           IF Own(o) THEN Keep(o, bytes) ELSE UNCHANGED cached
    PROVE  FreshOnes
  <1>1. SlotOf(o) \in Slot
    BY Facts
  <1>2. /\ Only(cache', cache, SlotOf(o))
        /\ \/ cache'[SlotOf(o)] = None
           \/ cache'[SlotOf(o)].by = o /\ cache'[SlotOf(o)].settled
           \/ cache'[SlotOf(o)] = cache[SlotOf(o)] /\ cache[SlotOf(o)].by # o
    BY SettlesEntry
  <1>3. QED
    BY <1>1, <1>2, OnlyFresh

LEMMA GoneFresh ==
    ASSUME NEW gone, cache' = Without(cache, gone)
    PROVE  FreshOnes
  BY DEF Without, FreshOnes

LEMMA DropFresh ==
    ASSUME NEW o \in Op, Drop(o)
    PROVE  FreshOnes
  BY GoneFresh DEF Drop, Rewrite

LEMMA NextFresh == IInv /\ [Next]_vars => FreshOnes
  <1> SUFFICES ASSUME IInv, [Next]_vars PROVE FreshOnes
    OBVIOUS
  <1>1. ASSUME NEW o \in Op, Step(o) PROVE FreshOnes
    <2>1. CASE UNCHANGED cached
      BY <2>1, SameFresh DEF cached
    <2>2. CASE BeginLoad(o)
      <3> DEFINE s == <<"asset", ops[o].key>>
      <3>1. cache[s] = None /\ Insert(o, s) /\ s \in Slot
        BY <2>2, Facts DEF BeginLoad, Slot, Calls
      <3> HIDE DEF s
      <3>2. Only(cache', cache, s) /\ cache'[s] = Pending(o)
        BY <3>1, Inserted DEF IInv
      <3>3. QED
        BY <3>1, <3>2, PendingFacts, OnlyFresh
    <2>3. CASE BeginDraw(o)
      <3>1. cache[SlotOf(o)] = None /\ Insert(o, SlotOf(o)) /\ SlotOf(o) \in Slot
        BY <2>3, Facts DEF BeginDraw
      <3>2. Only(cache', cache, SlotOf(o)) /\ cache'[SlotOf(o)] = Pending(o)
        BY <3>1, Inserted DEF IInv
      <3>3. QED
        BY <3>1, <3>2, PendingFacts, OnlyFresh
    <2>4. CASE Own(o) /\ Record(o, SlotOf(o), TRUE) /\ ops[o].at \in Entering
      <3>1. SlotOf(o) \in Slot /\ cache[SlotOf(o)] # None /\ cache[SlotOf(o)].by = o
            /\ ~cache[SlotOf(o)].settled
        BY <2>4, Facts DEF Own, IInv, Entered
      <3>2. PICK s \in Slot : s = SlotOf(o)
        BY <3>1
      <3>3. Only(cache', cache, s) /\ cache'[s].settled = cache[s].settled
        BY <2>4, <3>1, <3>2, Recorded DEF IInv
      <3>4. QED
        BY <3>1, <3>2, <3>3, OnlyFresh
    <2>5. CASE SettleAsset(o)
      <3>1. PICK bytes \in Size : IF Own(o) THEN Keep(o, bytes) ELSE UNCHANGED cached
        BY <2>5 DEF SettleAsset
      <3>2. ops[o].at \in Entering /\ ops[o].current
        BY <2>5 DEF SettleAsset, Alive, Entering
      <3>3. QED
        BY <3>1, <3>2, SizesFit, SettlesFresh
    <2>6. CASE SettlePoster(o)
      <3>1. CASE Own(o)
        <4>1. PICK bytes \in Size \union {0} : Keep(o, bytes)
          BY <2>6, <3>1 DEF SettlePoster
        <4>2. ops[o].at \in Entering /\ ops[o].current
          BY <2>6 DEF SettlePoster, Entering
        <4>3. QED
          BY <3>1, <4>1, <4>2, SizesFit, SettlesFresh
      <3>2. CASE ~Own(o)
        BY <2>6, <3>2, SameFresh DEF SettlePoster, cached
      <3>3. QED
        BY <3>1, <3>2
    <2>7. CASE AssetFails(o) \/ PosterFails(o)
      BY <2>7, DropFresh DEF AssetFails, PosterFails
    <2>8. CASE Load(o) \/ Draw(o)
      BY <2>1, <2>4, <2>8 DEF Load, Draw, Entering
    <2>9. CASE Rejected(o) \/ Stale(o) \/ Found(o) \/ Limit(o) \/ Send(o) \/ UploadFails(o)
                \/ LoadFails(o) \/ NoPoster(o) \/ DrawRejected(o) \/ DrawFails(o)
      BY <2>1, <2>9 DEF Rejected, Stale, Found, Limit, Send, UploadFails, LoadFails,
                        NoPoster, DrawRejected, DrawFails
    <2>10. QED
      BY <1>1, <2>2, <2>3, <2>5, <2>6, <2>7, <2>8, <2>9 DEF Step
  <1>2. ASSUME NEW o \in Op, Ask(o) \/ AskUpload(o) \/ Cancel(o) PROVE FreshOnes
    BY <1>2, SameFresh DEF Ask, AskUpload, Cancel, cached
  <1>3. ASSUME NEW a \in Alias, Invalidate(a) PROVE FreshOnes
    BY <1>3, GoneFresh DEF Invalidate, Rewrite
  <1>4. CASE Stop
    BY <1>4 DEF Stop, FreshOnes
  <1>5. CASE UNCHANGED vars
    BY <1>5, SameFresh DEF vars
  <1>6. QED
    BY <1>1, <1>2, <1>3, <1>4, <1>5 DEF Next

(* An entry settles only for an operation that no invalidation has         *)
(* overtaken: a retry never finds content from before it.                  *)
THEOREM RetryIsFresh == Spec => NothingOutdated
  <1>1. IInv /\ [Next]_vars
          => [\A s \in Slot :
                LET e == cache'[s] IN
                e # None /\ e.settled /\ (cache[s] = None \/ ~cache[s].settled)
                   => ops[e.by].current]_vars
    BY NextFresh DEF FreshOnes
  <1>2. QED
    BY <1>1, Invariant, PTL DEF Spec, NothingOutdated
=============================================================================
