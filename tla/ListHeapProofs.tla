---------------------------- MODULE ListHeapProofs ----------------------------
(***************************************************************************)
(* Lemmas about the operations of list.c: on a heap that holds lists, linked *)
(* both ways and without a node in common, each of them gives a heap that    *)
(* holds the lists that its name promises.                                   *)
(***************************************************************************)
EXTENDS ListHeap, FiniteSetTheorems, WellFoundedInduction, TLAPS

-----------------------------------------------------------------------------
(* Loops *)

\* Any set of numbers has a least one.
LEMMA LeastNumber ==
    ASSUME NEW S, S \subseteq Nat, S # {}
    PROVE  \E x \in S : \A y \in S : x <= y
<1>1. IsWellFoundedOn(OpToRel(<, Nat), Nat)
  BY NatLessThanWellFounded
<1>2. PICK x \in S : \A y \in S : ~(<<y, x>> \in OpToRel(<, Nat))
  BY <1>1, WFMin, Zenon
<1>3. ASSUME NEW y \in S
      PROVE  x <= y
  <2>1. x \in Nat /\ y \in Nat
    OBVIOUS
  <2>2. ~(y < x)
    BY <1>2, <2>1 DEF OpToRel
  <2> QED
    BY <2>1, <2>2
<1> QED
  BY <1>3

\* What holds before a loop, and after a round if it held before it, holds to the end.
LEMMA UpTo ==
    ASSUME NEW n \in Nat, NEW P, 0 \in P, \A k \in 0..(n - 1) : k \in P => k + 1 \in P
    PROVE  0..n \subseteq P
<1> DEFINE bad == (0..n) \ P
<1> SUFFICES ASSUME bad # {} PROVE FALSE
  OBVIOUS
<1>1. PICK m \in bad : \A y \in bad : m <= y
  <2>1. bad \subseteq Nat
    OBVIOUS
  <2> HIDE DEF bad
  <2> QED
    BY <2>1, LeastNumber
<1>2. m \in 1..n /\ m - 1 \in P
  BY <1>1
<1> QED
  BY <1>1, <1>2

\* f[k] is the state after k rounds.
Course(f, n, x, F) ==
    /\ f = [k \in 0..n |-> f[k]]
    /\ \A k \in 0..n : f[k] = IF k = 0 THEN x ELSE F[f[k - 1]]

\* A round that maps a set of states to itself can be repeated.
LEMMA LoopExists ==
    ASSUME NEW n \in Nat, NEW S, NEW x \in S, NEW F, \A y \in S : F[y] \in S
    PROVE  \E f : Course(f, n, x, F)
<1> DEFINE P == {m \in 0..n : \E f \in [0..m -> S] :
                    f[0] = x /\ \A k \in 1..m : f[k] = F[f[k - 1]]}
<1>1. 0 \in P
  <2> DEFINE f == [k \in 0..0 |-> x]
  <2>1. f \in [0..0 -> S] /\ f[0] = x /\ \A k \in 1..0 : f[k] = F[f[k - 1]]
    OBVIOUS
  <2>2. 0 \in 0..n
    OBVIOUS
  <2> HIDE DEF f
  <2> QED
    BY <2>1, <2>2
<1>2. ASSUME NEW k \in 0..(n - 1), k \in P
      PROVE  k + 1 \in P
  <2>1. PICK f \in [0..k -> S] : f[0] = x /\ \A j \in 1..k : f[j] = F[f[j - 1]]
    BY <1>2
  <2> DEFINE g == [j \in 0..(k + 1) |-> IF j = k + 1 THEN F[f[k]] ELSE f[j]]
  <2>2. g \in [0..(k + 1) -> S]
    OBVIOUS
  <2>3. g[0] = x /\ \A j \in 1..(k + 1) : g[j] = F[g[j - 1]]
    BY <2>1
  <2>4. k + 1 \in 0..n
    OBVIOUS
  <2> HIDE DEF g
  <2> QED
    BY <2>2, <2>3, <2>4
<1>3. n \in P
  <2>1. 0..n \subseteq P
    <3> HIDE DEF P
    <3> QED
      BY <1>1, <1>2, UpTo
  <2>2. n \in 0..n
    OBVIOUS
  <2> HIDE DEF P
  <2> QED
    BY <2>1, <2>2
<1>4. PICK f \in [0..n -> S] : f[0] = x /\ \A k \in 1..n : f[k] = F[f[k - 1]]
  BY <1>3
<1>5. \A k \in 0..n : f[k] = IF k = 0 THEN x ELSE F[f[k - 1]]
  <2>1. \A k \in 0..n : k = 0 \/ k \in 1..n
    OBVIOUS
  <2>2. \A k \in 1..n : k # 0
    OBVIOUS
  <2> QED
    BY <1>4, <2>1, <2>2
<1>6. f = [k \in 0..n |-> f[k]]
  OBVIOUS
<1> QED
  BY <1>5, <1>6 DEF Course

\* A loop whose rounds stay in a set of states, where all but the ones it ends in come
\* nearer to the end with every round, ends, and in a state of that set.
LEMMA WhileEnds ==
    ASSUME NEW F, NEW S, NEW x \in S, NEW rank \in [S -> Nat], rank[x] <= Rounds,
           \A y \in S : F[y] \in S /\ (F[y] = y \/ rank[F[y]] < rank[y])
    PROVE  While(F, x) \in S /\ F[While(F, x)] = While(F, x)
<1> DEFINE loop == CHOOSE f : f = [k \in 0..Rounds |-> IF k = 0 THEN x ELSE F[f[k - 1]]]
<1>1. Rounds \in Nat
  BY ListHeapAssumption DEF Rounds
<1>2. loop = [k \in 0..Rounds |-> IF k = 0 THEN x ELSE F[loop[k - 1]]]
  <2>1. \E f : f = [k \in 0..Rounds |-> IF k = 0 THEN x ELSE F[f[k - 1]]]
    <3>1. \A y \in S : F[y] \in S
      OBVIOUS
    <3>2. PICK f : Course(f, Rounds, x, F)
      BY <1>1, <3>1, LoopExists
    <3>3. f = [k \in 0..Rounds |-> IF k = 0 THEN x ELSE F[f[k - 1]]]
      BY <3>2, Zenon DEF Course
    <3> QED
      BY <3>3, Zenon
  <2> QED
    BY <2>1, Zenon
<1>3. While(F, x) = loop[Rounds]
  BY DEF While
<1> HIDE DEF loop
<1>4. loop[0] = x /\ \A k \in 0..(Rounds - 1) : loop[k + 1] = F[loop[k]]
  BY <1>1, <1>2
<1> DEFINE P == {k \in 0..Rounds : /\ loop[k] \in S
                                   /\ \/ F[loop[k]] = loop[k]
                                      \/ rank[loop[k]] <= Rounds - k}
<1>5. 0 \in P
  BY <1>1, <1>4
<1>6. ASSUME NEW k \in 0..(Rounds - 1), k \in P
      PROVE  k + 1 \in P
  <2>1. loop[k] \in S /\ loop[k + 1] = F[loop[k]] /\ k + 1 \in 0..Rounds
    BY <1>1, <1>4, <1>6
  <2>2. CASE F[loop[k]] = loop[k]
    BY <2>1, <2>2
  <2>3. CASE F[loop[k]] # loop[k]
    <3>1. rank[loop[k]] <= Rounds - k /\ rank[F[loop[k]]] < rank[loop[k]] /\ F[loop[k]] \in S
      BY <1>6, <2>1, <2>3
    <3>2. rank[loop[k + 1]] \in Nat /\ rank[loop[k]] \in Nat
      BY <2>1, <3>1
    <3> QED
      BY <1>1, <2>1, <3>1, <3>2
  <2> QED
    BY <2>2, <2>3
<1>7. Rounds \in P
  <2>1. 0..Rounds \subseteq P
    <3> HIDE DEF P
    <3> QED
      BY <1>1, <1>5, <1>6, UpTo
  <2> QED
    BY <1>1, <2>1
<1>8. F[loop[Rounds]] = loop[Rounds]
  <2> SUFFICES ASSUME F[loop[Rounds]] # loop[Rounds] PROVE FALSE
    OBVIOUS
  <2>1. loop[Rounds] \in S /\ rank[loop[Rounds]] <= 0
    BY <1>1, <1>7
  <2>2. rank[F[loop[Rounds]]] < rank[loop[Rounds]] /\ F[loop[Rounds]] \in S
    BY <2>1
  <2>3. rank[F[loop[Rounds]]] \in Nat /\ rank[loop[Rounds]] \in Nat
    BY <2>1, <2>2
  <2> QED
    BY <2>1, <2>2, <2>3
<1> QED
  BY <1>3, <1>7, <1>8

\* The same with the distance to the end in P beside the state: <<c, y>> says that y is c rounds
\* from the end at most.
Nears(F, Y, n, P) ==
    \A c \in 0..n : \A y \in Y : <<c, y>> \in P =>
       F[y] \in Y /\ IF c = 0 THEN F[y] = y ELSE \E d \in 0..(c - 1) : <<d, F[y]>> \in P

\* A loop each of whose rounds gets nearer to the end of the loop reaches it.
LEMMA WhileGoes ==
    ASSUME NEW F, NEW Y, NEW x \in Y, NEW n \in Nat, n <= Rounds, NEW P, <<n, x>> \in P,
           Nears(F, Y, n, P)
    PROVE  While(F, x) \in Y /\ <<0, While(F, x)>> \in P
<1> DEFINE S == {y \in Y : \E c \in 0..n : <<c, y>> \in P}
           Near(y) == {c \in 0..n : <<c, y>> \in P}
           rank == [y \in S |-> CHOOSE c \in Near(y) : \A d \in Near(y) : c <= d]
<1>1. Rounds \in Nat
  BY ListHeapAssumption DEF Rounds
<1>2. x \in S
  BY <1>1
<1>3. ASSUME NEW y \in S
      PROVE  rank[y] \in 0..n /\ <<rank[y], y>> \in P /\ \A d \in 0..n : <<d, y>> \in P => rank[y] <= d
  <2>1. Near(y) # {} /\ Near(y) \subseteq Nat
    <3>1. \E c \in 0..n : <<c, y>> \in P
      OBVIOUS
    <3> QED
      BY <3>1
  <2>2. \E c \in Near(y) : \A d \in Near(y) : c <= d
    <3> HIDE DEF Near
    <3> QED
      BY <2>1, LeastNumber
  <2>3. rank[y] \in Near(y) /\ \A d \in Near(y) : rank[y] <= d
    <3> HIDE DEF Near, S
    <3> QED
      BY <2>2
  <2> QED
    BY <2>3
<1>4. rank \in [S -> Nat]
  <2>1. rank = [y \in S |-> rank[y]]
    <3> HIDE DEF Near, S
    <3> QED
      OBVIOUS
  <2>2. ASSUME NEW y \in S
        PROVE  rank[y] \in Nat
    <3> HIDE DEF Near, S, rank
    <3>1. rank[y] \in 0..n
      BY <1>3
    <3> QED
      BY <3>1
  <2> HIDE DEF rank
  <2> QED
    BY <2>1, <2>2
<1> HIDE DEF rank
<1>5. rank[x] <= Rounds
  <2> HIDE DEF S
  <2>1. rank[x] \in 0..n
    BY <1>2, <1>3
  <2> QED
    BY <1>1, <2>1
<1>6. ASSUME NEW y \in S
      PROVE  F[y] \in S /\ (F[y] = y \/ (rank[y] # 0 /\ rank[F[y]] < rank[y]))
  <2>1. rank[y] \in 0..n /\ <<rank[y], y>> \in P /\ y \in Y
    BY <1>3
  <2>0. F[y] \in Y /\ IF rank[y] = 0 THEN F[y] = y ELSE \E d \in 0..(rank[y] - 1) : <<d, F[y]>> \in P
    BY <2>1 DEF Nears
  <2>2. CASE rank[y] = 0
    BY <2>0, <2>1, <2>2
  <2>3. CASE rank[y] # 0
    <3>1. F[y] \in Y /\ \E d \in 0..(rank[y] - 1) : <<d, F[y]>> \in P
      BY <2>0, <2>3
    <3>2. PICK d \in 0..(rank[y] - 1) : <<d, F[y]>> \in P
      BY <3>1
    <3>3. d \in 0..n /\ F[y] \in S
      BY <1>1, <2>1, <3>1, <3>2
    <3>4. rank[F[y]] <= d /\ rank[F[y]] \in 0..n
      BY <1>3, <3>2, <3>3
    <3> QED
      BY <1>1, <2>1, <2>3, <3>2, <3>3, <3>4
  <2> QED
    BY <2>2, <2>3
<1> PICK z : z = While(F, x)
  OBVIOUS
<1>7. z \in S /\ F[z] = z
  <2>1. \A y \in S : F[y] \in S /\ (F[y] = y \/ rank[F[y]] < rank[y])
    BY <1>6
  <2> HIDE DEF S
  <2> QED
    BY <1>2, <1>4, <1>5, <2>1, WhileEnds
<1>8. <<rank[z], z>> \in P /\ rank[z] \in 0..n /\ z \in Y
  BY <1>3, <1>7
<1>9. rank[z] = 0
  <2> SUFFICES ASSUME rank[z] # 0 PROVE FALSE
    OBVIOUS
  <2>1. PICK d \in 0..(rank[z] - 1) : <<d, F[z]>> \in P
    BY <1>8 DEF Nears
  <2>2. d \in 0..n /\ <<d, z>> \in P
    BY <1>1, <1>7, <1>8, <2>1
  <2>3. rank[z] <= d
    BY <1>3, <1>7, <2>2
  <2> QED
    BY <1>1, <1>8, <2>1, <2>3
<1> QED
  BY <1>8, <1>9

-----------------------------------------------------------------------------
(* Nodes and paths *)

\* Nodes of different items and lists are different.
LEMMA NodeFacts ==
    /\ \A i, j : elem(i) = elem(j) => i = j
    /\ \A l, m : head(l) = head(m) => l = m
    /\ \A l, m : tail(l) = tail(m) => l = m
    /\ \A i, l : elem(i) # head(l) /\ elem(i) # tail(l) /\ elem(i) # NULL
    /\ \A l, m : head(l) # tail(m)
    /\ \A l : head(l) # NULL /\ tail(l) # NULL
    /\ \A i : elem(i)[2] = i
    /\ \A i \in Items : elem(i) \in Nodes
    /\ \A l \in Lists : head(l) \in Nodes /\ tail(l) \in Nodes
    /\ NULL \notin Nodes
BY DEF elem, head, tail, NULL, Nodes

\* Every list holds each of its items once, and no two lists hold the same one.
Contents(q) ==
    /\ DOMAIN q \subseteq Lists
    /\ q \in [DOMAIN q -> Seq(Items)]
    /\ \A l, m \in DOMAIN q : \A a \in 1..Len(q[l]), b \in 1..Len(q[m]) :
          q[l][a] = q[m][b] => l = m /\ a = b

\* The nodes of list l while it holds s: the head, those in the items, the tail.
Node(l, s, k) == IF k = 0 THEN head(l) ELSE IF k = Len(s) + 1 THEN tail(l) ELSE elem(s[k])

\* The pointers of list l say that it holds s.
ListAt(h, l, s) ==
    /\ \A k \in 0..Len(s) : /\ h.next[Node(l, s, k)] = Node(l, s, k + 1)
                            /\ h.prev[Node(l, s, k + 1)] = Node(l, s, k)
    /\ h.prev[head(l)] = NULL /\ h.next[tail(l)] = NULL

Holds(h, q) == h \in Heaps /\ Contents(q) /\ \A l \in DOMAIN q : ListAt(h, l, q[l])

\* A node is in one place.
LEMMA NodeOnce ==
    ASSUME NEW q, Contents(q), NEW l \in DOMAIN q, NEW m \in DOMAIN q,
           NEW j \in 0..(Len(q[l]) + 1), NEW k \in 0..(Len(q[m]) + 1),
           Node(l, q[l], j) = Node(m, q[m], k)
    PROVE  l = m /\ j = k
<1>1. Len(q[l]) \in Nat /\ Len(q[m]) \in Nat
  BY DEF Contents
<1>2. CASE j = 0
  BY <1>1, <1>2, NodeFacts DEF Node
<1>3. CASE j = Len(q[l]) + 1
  BY <1>1, <1>3, NodeFacts DEF Node
<1>4. CASE j \in 1..Len(q[l])
  <2>1. Node(l, q[l], j) = elem(q[l][j])
    BY <1>1, <1>4 DEF Node
  <2>2. k \in 1..Len(q[m]) /\ Node(m, q[m], k) = elem(q[m][k])
    BY <1>1, <2>1, NodeFacts DEF Node
  <2>3. q[l][j] = q[m][k]
    BY <2>1, <2>2, NodeFacts
  <2> QED
    BY <1>4, <2>2, <2>3 DEF Contents
<1> QED
  BY <1>1, <1>2, <1>3, <1>4

\* What Node gives is a node.
LEMMA NodeType ==
    ASSUME NEW q, Contents(q), NEW l \in DOMAIN q
    PROVE  /\ Len(q[l]) \in Nat /\ l \in Lists
           /\ \A k \in 1..Len(q[l]) : q[l][k] \in Items /\ Node(l, q[l], k) = elem(q[l][k])
           /\ \A k \in 0..(Len(q[l]) + 1) : Node(l, q[l], k) \in Nodes
           /\ Node(l, q[l], 0) = head(l) /\ Node(l, q[l], Len(q[l]) + 1) = tail(l)
<1>1. q[l] \in Seq(Items) /\ l \in Lists
  BY DEF Contents
<1>2. Len(q[l]) \in Nat /\ \A k \in 1..Len(q[l]) : q[l][k] \in Items
  BY <1>1
<1>3. \A k \in 1..Len(q[l]) : Node(l, q[l], k) = elem(q[l][k])
  BY <1>2 DEF Node
<1>4. Node(l, q[l], 0) = head(l) /\ Node(l, q[l], Len(q[l]) + 1) = tail(l)
  BY <1>2 DEF Node
<1>5. ASSUME NEW k \in 0..(Len(q[l]) + 1)
      PROVE  Node(l, q[l], k) \in Nodes
  <2>1. CASE k \in 1..Len(q[l])
    BY <1>2, <1>3, <2>1, NodeFacts
  <2>2. CASE k = 0 \/ k = Len(q[l]) + 1
    BY <1>1, <1>4, <2>2, NodeFacts
  <2> QED
    BY <1>2, <2>1, <2>2
<1> QED
  BY <1>1, <1>2, <1>3, <1>4, <1>5

\* The pointers of a heap are nodes or NULL.
LEMMA HeapType ==
    ASSUME NEW h, h \in Heaps
    PROVE  /\ h.next \in [Nodes -> Nodes \union {NULL}] /\ h.prev \in [Nodes -> Nodes \union {NULL}]
           /\ h = [next |-> h.next, prev |-> h.prev]
BY DEF Heaps

\* A list whose nodes keep their pointers is still there.
LEMMA ListKept ==
    ASSUME NEW h, NEW g, NEW l, NEW s, Len(s) \in Nat, ListAt(h, l, s),
           \A k \in 0..(Len(s) + 1) : /\ g.next[Node(l, s, k)] = h.next[Node(l, s, k)]
                                      /\ g.prev[Node(l, s, k)] = h.prev[Node(l, s, k)]
    PROVE  ListAt(g, l, s)
<1>1. Node(l, s, 0) = head(l) /\ Node(l, s, Len(s) + 1) = tail(l)
  BY DEF Node
<1>2. ASSUME NEW k \in 0..Len(s)
      PROVE  g.next[Node(l, s, k)] = Node(l, s, k + 1) /\ g.prev[Node(l, s, k + 1)] = Node(l, s, k)
  <2>1. k \in 0..(Len(s) + 1) /\ k + 1 \in 0..(Len(s) + 1)
    OBVIOUS
  <2> QED
    BY <2>1 DEF ListAt
<1>3. 0 \in 0..(Len(s) + 1) /\ Len(s) + 1 \in 0..(Len(s) + 1)
  OBVIOUS
<1> QED
  BY <1>1, <1>2, <1>3 DEF ListAt

\* How many numbers there are up to n.
LEMMA CountTo ==
    ASSUME NEW n \in Nat
    PROVE  IsFiniteSet(1..n) /\ Cardinality(1..n) = n
<1>1. 1 \in Int /\ n \in Int
  OBVIOUS
<1>2. IsFiniteSet(1..n) /\ Cardinality(1..n) = IF 1 > n THEN 0 ELSE n - 1 + 1
  BY <1>1, FS_Interval, Zenon
<1> QED
  BY <1>2

\* A sequence without repetitions is no longer than the number of items.
LEMMA LengthBound ==
    ASSUME NEW q, Contents(q), NEW l \in DOMAIN q
    PROVE  Len(q[l]) <= MaxItems
<1>1. q[l] \in Seq(Items) /\ \A a, b \in 1..Len(q[l]) : q[l][a] = q[l][b] => a = b
  BY DEF Contents
<1> PICK n : n = Len(q[l])
  OBVIOUS
<1> DEFINE f == [k \in 1..n |-> q[l][k]]
<1>2. n \in Nat /\ MaxItems \in Nat
  BY <1>1, ListHeapAssumption
<1>3. Cardinality(1..n) = n /\ IsFiniteSet(Items) /\ Cardinality(Items) = MaxItems
  BY <1>2, CountTo DEF Items
<1>5. f \in Injection(1..n, Items)
  BY <1>1 DEF Injection, IsInjective
<1> HIDE DEF f
<1>6. Cardinality(1..n) <= Cardinality(Items)
  BY <1>3, <1>5, FS_Injection, Zenon
<1> QED
  BY <1>3, <1>6

\* A walk along next from the first item to the tail finds what the list holds.
LEMMA WalkIs ==
    ASSUME NEW h, NEW q, Holds(h, q), NEW l \in DOMAIN q
    PROVE  Walk(h, list_begin(h, l), tail(l)) = [k \in 1..Len(q[l]) |-> elem(q[l][k])]
<1> PICK n : n = Len(q[l])
  OBVIOUS
<1>1. Contents(q) /\ ListAt(h, l, q[l]) /\ h \in Heaps
  BY DEF Holds
<1>2. /\ n \in Nat /\ n <= Rounds
      /\ \A k \in 0..(n + 1) : Node(l, q[l], k) \in Nodes
      /\ \A k \in 1..n : Node(l, q[l], k) = elem(q[l][k])
      /\ Node(l, q[l], n + 1) = tail(l) /\ Node(l, q[l], 0) = head(l)
  BY <1>1, NodeType, LengthBound DEF Rounds
<1> DEFINE seen(k) == [j \in 1..(k - 1) |-> elem(q[l][j])]
           States == [at : Nodes, seen : Seq(Nodes)]
           S == {y \in States : \E k \in 1..(n + 1) : y.at = Node(l, q[l], k) /\ y.seen = seen(k)}
           F == [y \in States |-> IF y.at = tail(l) THEN y
                                  ELSE [at |-> h.next[y.at], seen |-> Append(y.seen, y.at)]]
           x == [at |-> list_begin(h, l), seen |-> <<>>]
           rank == [y \in S |-> n - Len(y.seen)]
<1>3. ASSUME NEW k \in 1..(n + 1)
      PROVE  seen(k) \in Seq(Nodes) /\ Len(seen(k)) = k - 1
  <2>1. \A j \in 1..(k - 1) : elem(q[l][j]) \in Nodes
    BY <1>2
  <2> QED
    BY <1>2, <2>1
<1>0. \A y \in S : rank[y] = n - Len(y.seen)
  <2> HIDE DEF S
  <2> QED
    OBVIOUS
<1>r. rank = [y \in S |-> rank[y]]
  <2> HIDE DEF S
  <2> QED
    OBVIOUS
<1> HIDE DEF rank
<1>4. x \in S /\ rank[x] <= Rounds
  <2>1. list_begin(h, l) = Node(l, q[l], 1) /\ 1 \in 1..(n + 1)
    BY <1>1, <1>2 DEF list_begin, ListAt
  <2>2. seen(1) = <<>> /\ Len(<<>>) = 0 /\ <<>> \in Seq(Nodes)
    BY <1>3
  <2>3. x \in States
    BY <1>2, <2>1, <2>2
  <2>4. x \in S
    BY <2>1, <2>2, <2>3
  <2>5. rank[x] = n
    <3>1. x.seen = <<>>
      OBVIOUS
    <3> HIDE DEF S, x
    <3> QED
      BY <1>0, <2>2, <2>4, <3>1, <1>2
  <2> QED
    BY <1>2, <2>4, <2>5
<1>5. ASSUME NEW y \in S
      PROVE  rank[y] \in Nat /\ F[y] \in S /\ (y.at = tail(l) \/ rank[F[y]] < rank[y])
  <2>1. PICK k \in 1..(n + 1) : y.at = Node(l, q[l], k) /\ y.seen = seen(k)
    OBVIOUS
  <2>2. rank[y] = n - (k - 1)
    BY <1>0, <1>2, <1>3, <2>1
  <2>3. CASE y.at = tail(l)
    BY <1>2, <2>2, <2>3
  <2>4. CASE y.at # tail(l)
    <3>1. k \in 1..n
      BY <1>2, <2>1, <2>4
    <3>2. F[y] = [at |-> h.next[y.at], seen |-> Append(y.seen, y.at)]
      BY <2>4
    <3>3. h.next[y.at] = Node(l, q[l], k + 1)
      BY <1>1, <1>2, <2>1, <3>1 DEF ListAt
    <3>4. Append(y.seen, y.at) = seen(k + 1)
      BY <1>2, <1>3, <2>1, <3>1
    <3>5. k + 1 \in 1..(n + 1)
      BY <1>2, <3>1
    <3>6. F[y] \in States
      BY <1>2, <1>3, <3>2, <3>3, <3>4, <3>5
    <3>7. F[y] \in S
      BY <3>2, <3>3, <3>4, <3>5, <3>6
    <3>8. rank[F[y]] = n - k
      <4>1. F[y].seen = seen(k + 1) /\ Len(seen(k + 1)) = k
        BY <1>2, <1>3, <3>2, <3>4, <3>5
      <4> HIDE DEF S, F, seen
      <4> QED
        BY <1>0, <3>7, <4>1
    <3>9. rank[F[y]] \in Nat /\ rank[F[y]] < rank[y]
      BY <1>2, <2>2, <3>1, <3>8
    <3> HIDE DEF S, F
    <3> QED
      BY <3>7, <3>9, <2>2, <1>2
  <2> QED
    BY <2>3, <2>4
<1>6. While(F, x) \in S /\ F[While(F, x)] = While(F, x)
  <2>1. rank \in [S -> Nat]
    BY <1>5, <1>r
  <2>2. \A y \in S : F[y] \in S /\ (F[y] = y \/ rank[F[y]] < rank[y])
    BY <1>5
  <2> HIDE DEF S, F, x
  <2> QED
    BY <1>4, <2>1, <2>2, WhileEnds
<1> PICK w : w = While(F, x)
  BY Zenon
<1>7. w.at = tail(l) /\ w \in S
  <2>1. w \in S /\ F[w] = w
    <3> HIDE DEF S, F, x
    <3> QED
      BY <1>6
  <2>2. w.at = tail(l) \/ rank[w] < rank[w]
    BY <1>5, <2>1
  <2>3. rank[w] \in Nat
    BY <1>5, <2>1
  <2> HIDE DEF S, F
  <2> QED
    BY <2>1, <2>2, <2>3
<1>8. PICK k \in 1..(n + 1) : w.at = Node(l, q[l], k) /\ w.seen = seen(k)
  BY <1>7
<1>9. k = n + 1
  <2>1. k \in 0..(n + 1) /\ n + 1 \in 0..(n + 1)
    BY <1>2
  <2> QED
    BY <1>1, <1>2, <1>7, <1>8, <2>1, NodeOnce
<1>10. Walk(h, list_begin(h, l), tail(l)) = w.seen
  BY DEF Walk
<1> QED
  BY <1>2, <1>8, <1>9, <1>10

-----------------------------------------------------------------------------
(* The operations on pointers *)

\* i comes to position p.
Put(s, p, i) == [k \in 1..(Len(s) + 1) |-> IF k < p THEN s[k] ELSE IF k = p THEN i ELSE s[k - 1]]

\* The item at p goes.
Drop(s, p) == [k \in 1..(Len(s) - 1) |-> IF k < p THEN s[k] ELSE s[k + 1]]

\* One list gets other contents, of items that no other list holds.
LEMMA ContentsExcept ==
    ASSUME NEW q, Contents(q), NEW l \in DOMAIN q, NEW s \in Seq(Items),
           \A a, b \in 1..Len(s) : s[a] = s[b] => a = b,
           \A m \in DOMAIN q \ {l} : \A a \in 1..Len(s), b \in 1..Len(q[m]) : s[a] # q[m][b]
    PROVE  Contents([q EXCEPT ![l] = s])
<1> PICK r : r = [q EXCEPT ![l] = s]
  OBVIOUS
<1>1. DOMAIN r = DOMAIN q /\ r[l] = s /\ \A m \in DOMAIN q \ {l} : r[m] = q[m]
  BY DEF Contents
<1>2. r \in [DOMAIN r -> Seq(Items)]
  BY DEF Contents
<1>3. ASSUME NEW m \in DOMAIN r, NEW k \in DOMAIN r,
             NEW a \in 1..Len(r[m]), NEW b \in 1..Len(r[k]), r[m][a] = r[k][b]
      PROVE  m = k /\ a = b
  <2>1. CASE m = l /\ k = l
    BY <1>1, <1>3, <2>1
  <2>2. CASE m # l /\ k = l
    BY <1>1, <1>3, <2>2
  <2>3. CASE m = l /\ k # l
    BY <1>1, <1>3, <2>3
  <2>4. CASE m # l /\ k # l
    BY <1>1, <1>3, <2>4 DEF Contents
  <2> QED
    BY <2>1, <2>2, <2>3, <2>4
<1> QED
  BY <1>1, <1>2, <1>3 DEF Contents

\* The lists other than l keep their nodes if their pointers are not written to.
LEMMA OthersKept ==
    ASSUME NEW h, NEW q, Holds(h, q), NEW g, NEW l \in DOMAIN q, NEW s, g \in Heaps,
           Contents([q EXCEPT ![l] = s]), ListAt(g, l, s),
           \A m \in DOMAIN q \ {l} : \A k \in 0..(Len(q[m]) + 1) :
              /\ g.next[Node(m, q[m], k)] = h.next[Node(m, q[m], k)]
              /\ g.prev[Node(m, q[m], k)] = h.prev[Node(m, q[m], k)]
    PROVE  Holds(g, [q EXCEPT ![l] = s])
<1> PICK r : r = [q EXCEPT ![l] = s]
  OBVIOUS
<1>1. Contents(q) /\ \A m \in DOMAIN q : ListAt(h, m, q[m])
  BY DEF Holds
<1>2. DOMAIN r = DOMAIN q /\ r[l] = s /\ \A m \in DOMAIN q \ {l} : r[m] = q[m]
  BY <1>1 DEF Contents
<1>3. ASSUME NEW m \in DOMAIN q \ {l}
      PROVE  ListAt(g, m, q[m])
  <2>1. Len(q[m]) \in Nat /\ ListAt(h, m, q[m])
    BY <1>1, NodeType
  <2> QED
    BY <2>1, ListKept
<1> QED
  BY <1>2, <1>3 DEF Holds

\* list_insert puts an item that is on no list in front of a node.
LEMMA InsertHolds ==
    ASSUME NEW h, NEW q, Holds(h, q), NEW l \in DOMAIN q, NEW p \in 1..(Len(q[l]) + 1),
           NEW i \in Items, \A m \in DOMAIN q : \A a \in 1..Len(q[m]) : q[m][a] # i
    PROVE  Holds(list_insert(h, Node(l, q[l], p), elem(i)), [q EXCEPT ![l] = Put(q[l], p, i)])
<1> DEFINE w(k) == Node(l, q[l], k)
<1> PICK n, s, e, g : /\ n = Len(q[l]) /\ s = Put(q[l], p, i) /\ e = elem(i)
                      /\ g = list_insert(h, w(p), elem(i))
  OBVIOUS
<1>1. Contents(q) /\ ListAt(h, l, q[l]) /\ h \in Heaps
  BY DEF Holds
<1>2. /\ n \in Nat /\ \A k \in 0..(n + 1) : w(k) \in Nodes
      /\ \A k \in 1..n : w(k) = elem(q[l][k]) /\ q[l][k] \in Items
      /\ w(n + 1) = tail(l) /\ w(0) = head(l) /\ e \in Nodes
  BY <1>1, NodeType, NodeFacts
<1>3. s \in Seq(Items) /\ Len(s) = n + 1
  BY <1>2 DEF Put
<1>4. \A k \in 1..(n + 1) : s[k] = IF k < p THEN q[l][k] ELSE IF k = p THEN i ELSE q[l][k - 1]
  BY <1>2 DEF Put
<1>5. ASSUME NEW k \in 0..(n + 2)
      PROVE  Node(l, s, k) = IF k < p THEN w(k) ELSE IF k = p THEN e ELSE w(k - 1)
  <2>1. CASE k \in 1..(n + 1)
    BY <1>2, <1>3, <1>4, <2>1 DEF Node
  <2>2. CASE k = 0 \/ k = n + 2
    BY <1>2, <1>3, <2>2 DEF Node
  <2> QED
    BY <1>2, <2>1, <2>2
<1>6. Contents([q EXCEPT ![l] = s])
  <2>0. ASSUME NEW a \in 1..Len(s)
        PROVE  (a = p /\ s[a] = i) \/ (\E x \in 1..n : s[a] = q[l][x] /\ a = IF x < p THEN x ELSE x + 1)
    <3>1. CASE a < p
      <4>1. a \in 1..n /\ s[a] = q[l][a]
        BY <1>2, <1>3, <1>4, <3>1
      <4> QED
        BY <3>1, <4>1
    <3>2. CASE a = p
      BY <1>2, <1>3, <1>4, <3>2
    <3>3. CASE a > p
      <4>1. a - 1 \in 1..n /\ s[a] = q[l][a - 1] /\ ~(a - 1 < p) /\ a = a - 1 + 1
        BY <1>2, <1>3, <1>4, <3>3
      <4> QED
        BY <4>1
    <3> QED
      BY <1>2, <1>3, <3>1, <3>2, <3>3
  <2>1. ASSUME NEW m \in DOMAIN q \ {l}, NEW a \in 1..Len(s), NEW b \in 1..Len(q[m])
        PROVE  s[a] # q[m][b]
    BY <1>1, <2>0 DEF Contents
  <2>2. ASSUME NEW a \in 1..Len(s), NEW b \in 1..Len(s), s[a] = s[b]
        PROVE  a = b
    <3>0. /\ \A x \in 1..n : q[l][x] # i
          /\ \A x, y \in 1..n : q[l][x] = q[l][y] => x = y
      BY <1>1 DEF Contents
    <3>1. CASE s[a] = i
      <4>1. a = p
        BY <2>0, <3>0, <3>1
      <4>2. b = p
        <5>1. s[b] = i
          BY <2>2, <3>1
        <5> QED
          BY <2>0, <3>0, <5>1
      <4> QED
        BY <4>1, <4>2
    <3>2. CASE s[a] # i
      <4>1. PICK x \in 1..n : s[a] = q[l][x] /\ a = IF x < p THEN x ELSE x + 1
        BY <2>0, <3>2
      <4>2. PICK y \in 1..n : s[b] = q[l][y] /\ b = IF y < p THEN y ELSE y + 1
        BY <2>0, <2>2, <3>2
      <4>3. x = y
        BY <2>2, <3>0, <4>1, <4>2
      <4> QED
        BY <4>1, <4>2, <4>3
    <3> QED
      BY <3>1, <3>2
  <2> QED
    BY <1>1, <1>3, <2>1, <2>2, ContentsExcept
<1>7. ASSUME NEW m \in DOMAIN q, NEW k \in 0..(Len(q[m]) + 1)
      PROVE  Node(m, q[m], k) # e /\ Node(m, q[m], k) \in Nodes
  BY <1>1, NodeType, NodeFacts DEF Node
<1>8. h.prev[w(p)] = w(p - 1) /\ w(p - 1) \in Nodes /\ w(p) \in Nodes /\ w(p - 1) # e /\ w(p) # e
  <2>1. p - 1 \in 0..n /\ p - 1 \in 0..(n + 1) /\ p \in 0..(n + 1) /\ p - 1 + 1 = p
    BY <1>2
  <2>2. h.prev[w(p - 1 + 1)] = w(p - 1)
    BY <1>1, <2>1 DEF ListAt
  <2> QED
    BY <1>2, <1>7, <2>1, <2>2
<1>9. /\ g = [next |-> [h.next EXCEPT ![e] = w(p), ![w(p - 1)] = e],
              prev |-> [h.prev EXCEPT ![e] = w(p - 1), ![w(p)] = e]]
      /\ g \in Heaps
  <2>1. g = [next |-> [h.next EXCEPT ![e] = w(p), ![w(p - 1)] = e],
             prev |-> [h.prev EXCEPT ![e] = w(p - 1), ![w(p)] = e]]
    BY <1>8 DEF list_insert
  <2> QED
    BY <1>1, <1>2, <1>8, <2>1 DEF Heaps
<1>10. /\ g.next[e] = w(p) /\ g.next[w(p - 1)] = e /\ g.prev[e] = w(p - 1) /\ g.prev[w(p)] = e
       /\ \A x \in Nodes \ {e, w(p - 1)} : g.next[x] = h.next[x]
       /\ \A x \in Nodes \ {e, w(p)} : g.prev[x] = h.prev[x]
  BY <1>1, <1>2, <1>8, <1>9 DEF Heaps
<1>11. \A j, k \in 0..(n + 1) : w(j) = w(k) => j = k
  BY <1>1, NodeOnce
<1>12. /\ \A k \in 0..n : h.next[w(k)] = w(k + 1) /\ h.prev[w(k + 1)] = w(k)
       /\ h.prev[w(0)] = NULL /\ h.next[w(n + 1)] = NULL
  BY <1>1, <1>2 DEF ListAt
<1>13. ListAt(g, l, s)
  <2>1. ASSUME NEW k \in 0..(n + 1)
        PROVE  g.next[Node(l, s, k)] = Node(l, s, k + 1) /\ g.prev[Node(l, s, k + 1)] = Node(l, s, k)
    <3>1. CASE k < p - 1
      <4>1. /\ Node(l, s, k) = w(k) /\ Node(l, s, k + 1) = w(k + 1) /\ k \in 0..n
            /\ k \in 0..(n + 1) /\ k + 1 \in 0..(n + 1) /\ k # p - 1 /\ k + 1 # p /\ p - 1 \in 0..(n + 1)
        BY <1>2, <1>5, <3>1
      <4>2. w(k) # w(p - 1) /\ w(k + 1) # w(p) /\ w(k) # e /\ w(k + 1) # e
        BY <1>7, <1>11, <4>1
      <4> QED
        BY <1>2, <1>10, <1>12, <4>1, <4>2
    <3>2. CASE k = p - 1
      <4>1. Node(l, s, k) = w(k) /\ Node(l, s, k + 1) = e
        BY <1>2, <1>5, <3>2
      <4> QED
        BY <1>10, <3>2, <4>1
    <3>3. CASE k = p
      <4>1. Node(l, s, k) = e /\ Node(l, s, k + 1) = w(p)
        BY <1>2, <1>5, <3>3
      <4> QED
        BY <1>10, <4>1
    <3>4. CASE k > p
      <4>1. /\ Node(l, s, k) = w(k - 1) /\ Node(l, s, k + 1) = w(k) /\ k - 1 \in 0..n
            /\ k - 1 \in 0..(n + 1) /\ k \in 0..(n + 1) /\ k - 1 # p - 1 /\ k # p /\ p - 1 \in 0..(n + 1)
            /\ k - 1 + 1 = k
        <5>1. ~(k < p) /\ k # p /\ ~(k + 1 < p) /\ k + 1 # p /\ k + 1 - 1 = k
          BY <1>2, <3>4
        <5>2. Node(l, s, k) = w(k - 1) /\ Node(l, s, k + 1) = w(k)
          BY <1>2, <1>5, <5>1
        <5> QED
          BY <1>2, <3>4, <5>2
      <4>2. w(k - 1) # w(p - 1) /\ w(k) # w(p) /\ w(k - 1) # e /\ w(k) # e
        BY <1>7, <1>11, <4>1
      <4>3. h.next[w(k - 1)] = w(k) /\ h.prev[w(k)] = w(k - 1)
        BY <1>12, <4>1
      <4> QED
        BY <1>2, <1>10, <4>1, <4>2, <4>3
    <3> QED
      BY <1>2, <3>1, <3>2, <3>3, <3>4
  <2>2. g.prev[head(l)] = NULL /\ g.next[tail(l)] = NULL
    <3>1. 0 \in 0..(n + 1) /\ n + 1 \in 0..(n + 1) /\ p # 0 /\ p - 1 # n + 1 /\ p - 1 \in 0..(n + 1)
      BY <1>2
    <3>2. w(0) # w(p) /\ w(n + 1) # w(p - 1) /\ w(0) # e /\ w(n + 1) # e
      BY <1>7, <1>11, <3>1
    <3> QED
      BY <1>2, <1>10, <1>12, <3>1, <3>2
  <2> QED
    BY <1>3, <2>1, <2>2 DEF ListAt
<1>14. ASSUME NEW m \in DOMAIN q \ {l}, NEW k \in 0..(Len(q[m]) + 1)
       PROVE  /\ g.next[Node(m, q[m], k)] = h.next[Node(m, q[m], k)]
              /\ g.prev[Node(m, q[m], k)] = h.prev[Node(m, q[m], k)]
  <2>1. p - 1 \in 0..(n + 1) /\ p \in 0..(n + 1)
    BY <1>2
  <2>2. Node(m, q[m], k) # w(p - 1) /\ Node(m, q[m], k) # w(p)
    BY <1>1, <2>1, NodeOnce
  <2> QED
    BY <1>7, <1>10, <2>2
<1>15. Holds(g, [q EXCEPT ![l] = s])
  BY <1>6, <1>9, <1>13, <1>14, OthersKept
<1> QED
  BY <1>15

\* list_remove changes the pointers of the neighbours, and leaves the item its own.
LEMMA RemoveKeeps ==
    ASSUME NEW h, NEW q, Holds(h, q), NEW l \in DOMAIN q, NEW p \in 1..Len(q[l]),
           NEW g, g = list_remove(h, elem(q[l][p])),
           NEW a, a = Node(l, q[l], p - 1), NEW b, b = Node(l, q[l], p + 1)
    PROVE  /\ g \in Heaps /\ g.next[a] = b /\ g.prev[b] = a
           /\ \A x \in Nodes \ {a} : g.next[x] = h.next[x]
           /\ \A x \in Nodes \ {b} : g.prev[x] = h.prev[x]
<1> DEFINE w(k) == Node(l, q[l], k)
<1> PICK n : n = Len(q[l])
  OBVIOUS
<1>1. Contents(q) /\ ListAt(h, l, q[l]) /\ h \in Heaps
  BY DEF Holds
<1>2. /\ n \in Nat /\ \A k \in 0..(n + 1) : w(k) \in Nodes
      /\ \A k \in 1..n : w(k) = elem(q[l][k]) /\ q[l][k] \in Items
  BY <1>1, NodeType
<1>7. \A k \in 0..n : h.next[w(k)] = w(k + 1) /\ h.prev[w(k + 1)] = w(k)
  BY <1>1, <1>2 DEF ListAt
<1>9. /\ h.prev[w(p)] = w(p - 1) /\ h.next[w(p)] = w(p + 1) /\ elem(q[l][p]) = w(p)
      /\ w(p - 1) \in Nodes /\ w(p + 1) \in Nodes
  <2>1. p - 1 \in 0..n /\ p \in 0..n /\ p - 1 \in 0..(n + 1) /\ p + 1 \in 0..(n + 1) /\ p - 1 + 1 = p
    BY <1>2
  <2>2. h.prev[w(p - 1 + 1)] = w(p - 1)
    BY <1>7, <2>1
  <2> QED
    BY <1>2, <1>7, <2>1, <2>2
<1>10. /\ g = [next |-> [h.next EXCEPT ![w(p - 1)] = w(p + 1)],
               prev |-> [h.prev EXCEPT ![w(p + 1)] = w(p - 1)]]
       /\ g \in Heaps
  <2>1. g = [next |-> [h.next EXCEPT ![w(p - 1)] = w(p + 1)],
             prev |-> [h.prev EXCEPT ![w(p + 1)] = w(p - 1)]]
    BY <1>9 DEF list_remove
  <2> QED
    BY <1>1, <1>9, <2>1 DEF Heaps
<1>11. /\ g.next[w(p - 1)] = w(p + 1) /\ g.prev[w(p + 1)] = w(p - 1)
       /\ \A x \in Nodes \ {w(p - 1)} : g.next[x] = h.next[x]
       /\ \A x \in Nodes \ {w(p + 1)} : g.prev[x] = h.prev[x]
  BY <1>1, <1>9, <1>10 DEF Heaps
<1> QED
  BY <1>10, <1>11

\* list_remove takes an item out of its list.
LEMMA RemoveHolds ==
    ASSUME NEW h, NEW q, Holds(h, q), NEW l \in DOMAIN q, NEW p \in 1..Len(q[l])
    PROVE  Holds(list_remove(h, elem(q[l][p])), [q EXCEPT ![l] = Drop(q[l], p)])
<1> DEFINE w(k) == Node(l, q[l], k)
<1> PICK n, s, g : /\ n = Len(q[l]) /\ s = Drop(q[l], p)
                   /\ g = list_remove(h, elem(q[l][p]))
  OBVIOUS
<1>1. Contents(q) /\ ListAt(h, l, q[l]) /\ h \in Heaps
  BY DEF Holds
<1>2. /\ n \in Nat /\ \A k \in 0..(n + 1) : w(k) \in Nodes
      /\ \A k \in 1..n : w(k) = elem(q[l][k]) /\ q[l][k] \in Items
      /\ w(n + 1) = tail(l) /\ w(0) = head(l)
  BY <1>1, NodeType
<1>3. s \in Seq(Items) /\ Len(s) = n - 1
  <2>1. \A k \in 1..(n - 1) : k \in 1..n /\ k + 1 \in 1..n
    BY <1>2
  <2> QED
    BY <1>2, <2>1 DEF Drop
<1>4. \A k \in 1..(n - 1) : s[k] = IF k < p THEN q[l][k] ELSE q[l][k + 1]
  BY <1>2 DEF Drop
<1>5. ASSUME NEW k \in 0..n
      PROVE  Node(l, s, k) = IF k < p THEN w(k) ELSE w(k + 1)
  <2>1. CASE k \in 1..(n - 1)
    <3>1. Node(l, s, k) = elem(s[k]) /\ k \in 1..n /\ k + 1 \in 1..n
      BY <1>2, <1>3, <2>1 DEF Node
    <3> QED
      BY <1>2, <1>4, <2>1, <3>1
  <2>2. CASE k = 0 \/ k = n
    BY <1>2, <1>3, <2>2 DEF Node
  <2> QED
    BY <1>2, <2>1, <2>2
<1>6. Contents([q EXCEPT ![l] = s])
  <2>1. ASSUME NEW a \in 1..Len(s)
        PROVE  \E x \in 1..n : s[a] = q[l][x] /\ x = IF a < p THEN a ELSE a + 1
    <3>1. a \in 1..n /\ a + 1 \in 1..n
      BY <1>2, <1>3
    <3> QED
      BY <1>3, <1>4, <3>1
  <2>2. ASSUME NEW m \in DOMAIN q \ {l}, NEW a \in 1..Len(s), NEW b \in 1..Len(q[m])
        PROVE  s[a] # q[m][b]
    BY <1>1, <2>1 DEF Contents
  <2>3. ASSUME NEW a \in 1..Len(s), NEW b \in 1..Len(s), s[a] = s[b]
        PROVE  a = b
    <3>1. PICK x \in 1..n : s[a] = q[l][x] /\ x = IF a < p THEN a ELSE a + 1
      BY <2>1
    <3>2. PICK y \in 1..n : s[b] = q[l][y] /\ y = IF b < p THEN b ELSE b + 1
      BY <2>1
    <3>3. \A i, j \in 1..n : q[l][i] = q[l][j] => i = j
      BY <1>1 DEF Contents
    <3>4. x = y
      BY <2>3, <3>1, <3>2, <3>3
    <3> QED
      BY <3>1, <3>2, <3>4
  <2> QED
    BY <1>1, <1>3, <2>2, <2>3, ContentsExcept
<1>7. /\ \A k \in 0..n : h.next[w(k)] = w(k + 1) /\ h.prev[w(k + 1)] = w(k)
      /\ h.prev[w(0)] = NULL /\ h.next[w(n + 1)] = NULL
  BY <1>1, <1>2 DEF ListAt
<1>8. \A j, k \in 0..(n + 1) : w(j) = w(k) => j = k
  BY <1>1, NodeOnce
<1> PICK a, b : a = w(p - 1) /\ b = w(p + 1)
  OBVIOUS
<1>11. /\ g \in Heaps /\ g.next[w(p - 1)] = w(p + 1) /\ g.prev[w(p + 1)] = w(p - 1)
       /\ \A x \in Nodes \ {w(p - 1)} : g.next[x] = h.next[x]
       /\ \A x \in Nodes \ {w(p + 1)} : g.prev[x] = h.prev[x]
  <2>1. /\ g \in Heaps /\ g.next[a] = b /\ g.prev[b] = a
        /\ \A x \in Nodes \ {a} : g.next[x] = h.next[x]
        /\ \A x \in Nodes \ {b} : g.prev[x] = h.prev[x]
    BY RemoveKeeps
  <2> QED
    BY <2>1
<1>12. p - 1 \in 0..(n + 1) /\ p + 1 \in 0..(n + 1) /\ 0 \in 0..(n + 1) /\ n + 1 \in 0..(n + 1)
  BY <1>2
<1>13. ListAt(g, l, s)
  <2>1. ASSUME NEW k \in 0..(n - 1)
        PROVE  g.next[Node(l, s, k)] = Node(l, s, k + 1) /\ g.prev[Node(l, s, k + 1)] = Node(l, s, k)
    <3>1. CASE k < p - 1
      <4>1. k \in 0..n /\ k + 1 \in 0..n /\ k \in 0..(n + 1) /\ k + 1 \in 0..(n + 1) /\ k # p - 1 /\ k + 1 # p + 1
        BY <1>2, <3>1
      <4>2. Node(l, s, k) = w(k) /\ Node(l, s, k + 1) = w(k + 1)
        BY <1>2, <1>5, <3>1, <4>1
      <4>3. w(k) # w(p - 1) /\ w(k + 1) # w(p + 1)
        BY <1>8, <1>12, <4>1
      <4> QED
        BY <1>2, <1>7, <1>11, <4>1, <4>2, <4>3
    <3>2. CASE k = p - 1
      <4>1. k < p /\ ~(k + 1 < p) /\ k \in 0..n /\ k + 1 \in 0..n /\ k + 1 + 1 = p + 1
        BY <1>2, <3>2
      <4>2. Node(l, s, k) = w(p - 1) /\ Node(l, s, k + 1) = w(p + 1)
        BY <1>5, <3>2, <4>1
      <4> QED
        BY <1>11, <4>2
    <3>3. CASE k > p - 1
      <4>1. /\ ~(k < p) /\ ~(k + 1 < p) /\ k \in 0..n /\ k + 1 \in 0..n /\ k + 1 \in 0..(n + 1)
            /\ k + 1 + 1 \in 0..(n + 1) /\ k + 1 # p - 1 /\ k + 1 + 1 # p + 1
        BY <1>2, <3>3
      <4>2. Node(l, s, k) = w(k + 1) /\ Node(l, s, k + 1) = w(k + 1 + 1)
        BY <1>5, <4>1
      <4>3. w(k + 1) # w(p - 1) /\ w(k + 1 + 1) # w(p + 1)
        BY <1>8, <1>12, <4>1
      <4> QED
        BY <1>2, <1>7, <1>11, <4>1, <4>2, <4>3
    <3> QED
      BY <3>1, <3>2, <3>3
  <2>2. g.prev[head(l)] = NULL /\ g.next[tail(l)] = NULL
    <3>1. w(0) # w(p + 1) /\ w(n + 1) # w(p - 1)
      <4>1. 0 # p + 1 /\ n + 1 # p - 1
        BY <1>2
      <4> QED
        BY <1>8, <1>12, <4>1
    <3> QED
      BY <1>2, <1>7, <1>11, <1>12, <3>1
  <2> QED
    BY <1>3, <2>1, <2>2 DEF ListAt
<1>14. ASSUME NEW m \in DOMAIN q \ {l}, NEW k \in 0..(Len(q[m]) + 1)
       PROVE  /\ g.next[Node(m, q[m], k)] = h.next[Node(m, q[m], k)]
              /\ g.prev[Node(m, q[m], k)] = h.prev[Node(m, q[m], k)]
  <2>1. Node(m, q[m], k) # w(p - 1) /\ Node(m, q[m], k) # w(p + 1)
    BY <1>1, <1>12, NodeOnce
  <2>2. Node(m, q[m], k) \in Nodes
    BY <1>1, NodeType
  <2> QED
    BY <1>11, <2>1, <2>2
<1>15. Holds(g, [q EXCEPT ![l] = s])
  BY <1>6, <1>11, <1>13, <1>14, OthersKept
<1> QED
  BY <1>11, <1>15

\* T puts the places 1..n in another order, and leaves those of the head and the tail alone.
Reorders(T, n) ==
    /\ T \in [0..(n + 1) -> 0..(n + 1)] /\ T[0] = 0 /\ T[n + 1] = n + 1
    /\ \A j, k \in 0..(n + 1) : T[j] = T[k] => j = k

\* In g the nodes of l are linked in the order of T, and nothing else differs from h.
Relinks(h, g, l, s, T) ==
    /\ g \in Heaps
    /\ \A k \in 0..Len(s) : /\ g.next[Node(l, s, T[k])] = Node(l, s, T[k + 1])
                            /\ g.prev[Node(l, s, T[k + 1])] = Node(l, s, T[k])
    /\ g.prev[head(l)] = NULL /\ g.next[tail(l)] = NULL
    /\ \A x \in Nodes : (\A k \in 0..(Len(s) + 1) : x # Node(l, s, k))
                             => g.next[x] = h.next[x] /\ g.prev[x] = h.prev[x]

\* Links along the nodes of a list in another order make it hold its items in that order.
LEMMA Relinked ==
    ASSUME NEW h, NEW q, Holds(h, q), NEW l \in DOMAIN q, NEW n, n = Len(q[l]), NEW T,
           Reorders(T, n), NEW g, Relinks(h, g, l, q[l], T)
    PROVE  Holds(g, [q EXCEPT ![l] = [k \in 1..n |-> q[l][T[k]]]])
<1> PICK s : s = [k \in 1..n |-> q[l][T[k]]]
  OBVIOUS
<1>1. Contents(q) /\ h \in Heaps /\ g \in Heaps
  BY DEF Holds, Relinks
<1>2. /\ n \in Nat /\ \A k \in 1..n : q[l][k] \in Items /\ Node(l, q[l], k) = elem(q[l][k])
      /\ Node(l, q[l], n + 1) = tail(l) /\ Node(l, q[l], 0) = head(l)
  BY <1>1, NodeType
<1>3. \A k \in 1..n : T[k] \in 1..n
  <2> SUFFICES ASSUME NEW k \in 1..n PROVE T[k] \in 1..n
    OBVIOUS
  <2>1. k \in 0..(n + 1) /\ 0 \in 0..(n + 1) /\ n + 1 \in 0..(n + 1) /\ k # 0 /\ k # n + 1
    BY <1>2
  <2>2. T[k] # 0 /\ T[k] # n + 1 /\ T[k] \in 0..(n + 1)
    BY <1>2, <2>1 DEF Reorders
  <2> QED
    BY <1>2, <2>2
<1>4. s \in Seq(Items) /\ Len(s) = n
  BY <1>2, <1>3
<1>5. \A k \in 0..(n + 1) : Node(l, s, k) = Node(l, q[l], T[k])
  <2> SUFFICES ASSUME NEW k \in 0..(n + 1) PROVE Node(l, s, k) = Node(l, q[l], T[k])
    OBVIOUS
  <2>1. CASE k \in 1..n
    <3>1. Node(l, s, k) = elem(s[k])
      BY <1>2, <1>4, <2>1 DEF Node
    <3> QED
      BY <1>2, <1>3, <2>1, <3>1
  <2>2. CASE k = 0 \/ k = n + 1
    BY <1>2, <1>4, <2>2 DEF Node, Reorders
  <2> QED
    BY <1>2, <2>1, <2>2 DEF Reorders
<1>6. Contents([q EXCEPT ![l] = s])
  <2>1. ASSUME NEW m \in DOMAIN q \ {l}, NEW a \in 1..Len(s), NEW b \in 1..Len(q[m])
        PROVE  s[a] # q[m][b]
    BY <1>1, <1>3, <1>4 DEF Contents
  <2>2. ASSUME NEW a \in 1..Len(s), NEW b \in 1..Len(s), s[a] = s[b]
        PROVE  a = b
    <3>1. \A i, j \in 1..n : q[l][i] = q[l][j] => i = j
      BY <1>1 DEF Contents
    <3>2. a \in 0..(n + 1) /\ b \in 0..(n + 1)
      BY <1>2, <1>4
    <3>3. T[a] = T[b]
      BY <1>3, <1>4, <2>2, <3>1
    <3> QED
      BY <3>2, <3>3 DEF Reorders
  <2> QED
    BY <1>1, <1>4, <2>1, <2>2, ContentsExcept
<1>7. ListAt(g, l, s)
  <2>1. ASSUME NEW k \in 0..n
        PROVE  g.next[Node(l, s, k)] = Node(l, s, k + 1) /\ g.prev[Node(l, s, k + 1)] = Node(l, s, k)
    <3>1. k \in 0..(n + 1) /\ k + 1 \in 0..(n + 1)
      BY <1>2
    <3> QED
      BY <1>2, <1>5, <3>1 DEF Relinks
  <2>2. g.prev[head(l)] = NULL /\ g.next[tail(l)] = NULL
    BY DEF Relinks
  <2> QED
    BY <1>4, <2>1, <2>2 DEF ListAt
<1>8. ASSUME NEW m \in DOMAIN q \ {l}, NEW k \in 0..(Len(q[m]) + 1)
      PROVE  /\ g.next[Node(m, q[m], k)] = h.next[Node(m, q[m], k)]
             /\ g.prev[Node(m, q[m], k)] = h.prev[Node(m, q[m], k)]
  <2>1. \A j \in 0..(n + 1) : Node(m, q[m], k) # Node(l, q[l], j)
    BY <1>1, NodeOnce
  <2>2. Node(m, q[m], k) \in Nodes
    BY <1>1, NodeType
  <2> QED
    BY <2>1, <2>2 DEF Relinks
<1>9. Holds(g, [q EXCEPT ![l] = s])
  BY <1>1, <1>6, <1>7, <1>8, OthersKept
<1> QED
  BY <1>9

\* Where the item at k comes from when those from a to b move in front of p.
From(p, a, b, k) ==
    IF k < p THEN k
    ELSE IF k <= p + b - a THEN k - p + a
    ELSE IF k <= b THEN k - (b - a) - 1
    ELSE k

Moved(s, p, a, b) == [k \in 1..Len(s) |-> s[From(p, a, b, k)]]

\* The pointers that list_splice writes: prev of the three nodes A, B and L, and next of those
\* that were in front of them.
Rewired(g, h, A, B, L) ==
    /\ g.next = [h.next EXCEPT ![h.prev[A]] = L, ![h.prev[L]] = B, ![h.prev[B]] = A]
    /\ g.prev = [h.prev EXCEPT ![L] = h.prev[A], ![A] = h.prev[B], ![B] = h.prev[L]]
    /\ g \in Heaps

\* It writes no others.
LEMMA SplicePointers ==
    ASSUME NEW h, h \in Heaps, NEW A \in Nodes, NEW B \in Nodes, NEW L \in Nodes,
           h.prev[A] \in Nodes, h.prev[B] \in Nodes, h.prev[L] \in Nodes,
           h.next[h.prev[L]] = L, A # L, B # L
    PROVE  Rewired(list_splice(h, B, A, L), h, A, B, L)
<1> PICK g, pa, pb, z : /\ g = list_splice(h, B, A, L)
                        /\ pa = h.prev[A] /\ pb = h.prev[B] /\ z = h.prev[L]
  OBVIOUS
<1> DEFINE cut == [next |-> [h.next EXCEPT ![pa] = L], prev |-> [h.prev EXCEPT ![L] = pa]]
<1>1. h.next \in [Nodes -> Nodes \union {NULL}] /\ h.prev \in [Nodes -> Nodes \union {NULL}]
  BY HeapType
<1>2. cut.prev[B] = pb
  BY <1>1
<1>3. g = [next |-> [cut.next EXCEPT ![z] = B, ![pb] = A],
           prev |-> [cut.prev EXCEPT ![A] = pb, ![B] = z]]
  BY <1>2 DEF list_splice
<1>4. /\ g.next = [h.next EXCEPT ![pa] = L, ![z] = B, ![pb] = A]
      /\ g.prev = [h.prev EXCEPT ![L] = pa, ![A] = pb, ![B] = z]
  BY <1>3
<1>5. g.next \in [Nodes -> Nodes \union {NULL}] /\ g.prev \in [Nodes -> Nodes \union {NULL}]
  BY <1>1, <1>4
<1>6. g = [next |-> g.next, prev |-> g.prev]
  BY <1>3
<1> QED
  BY <1>4, <1>5, <1>6 DEF Heaps, Rewired

\* list_splice moves a range towards the head.
LEMMA SpliceForward ==
    ASSUME NEW h, NEW q, Holds(h, q), NEW l \in DOMAIN q, NEW n, n = Len(q[l]),
           NEW p \in 1..n, NEW a \in 1..n, NEW b \in 1..n, p < a, a <= b
    PROVE  Holds(list_splice(h, Node(l, q[l], p), Node(l, q[l], a), Node(l, q[l], b + 1)),
                 [q EXCEPT ![l] = Moved(q[l], p, a, b)])
<1> DEFINE w(k) == Node(l, q[l], k)
<1> PICK g : g = list_splice(h, w(p), w(a), w(b + 1))
  OBVIOUS
<1>1. Contents(q) /\ ListAt(h, l, q[l]) /\ h \in Heaps
  BY DEF Holds
<1>2. /\ n \in Nat /\ \A k \in 0..(n + 1) : w(k) \in Nodes
      /\ w(n + 1) = tail(l) /\ w(0) = head(l)
  BY <1>1, NodeType
<1>3. /\ \A k \in 0..n : h.next[w(k)] = w(k + 1) /\ h.prev[w(k + 1)] = w(k)
      /\ h.prev[w(0)] = NULL /\ h.next[w(n + 1)] = NULL
  BY <1>1, <1>2 DEF ListAt
<1>4. \A j, k \in 0..(n + 1) : w(j) = w(k) => j = k
  BY <1>1, NodeOnce
<1>5. /\ a - 1 \in 0..n /\ b \in 0..n /\ p - 1 \in 0..n /\ a \in 0..n /\ p \in 0..n
      /\ a - 1 \in 0..(n + 1) /\ b \in 0..(n + 1) /\ p - 1 \in 0..(n + 1) /\ b + 1 \in 0..(n + 1)
      /\ a \in 0..(n + 1) /\ p \in 0..(n + 1)
      /\ a # b + 1 /\ p # b + 1 /\ a - 1 # b /\ p - 1 # a - 1 /\ p - 1 # b /\ a # p
      /\ p - 1 + 1 = p /\ a - 1 + 1 = a
  BY <1>2
<1>6. /\ h.prev[w(b + 1)] = w(b) /\ h.next[w(b)] = w(b + 1) /\ h.prev[w(a)] = w(a - 1)
      /\ h.prev[w(p)] = w(p - 1)
  <2>1. h.prev[w(a - 1 + 1)] = w(a - 1) /\ h.prev[w(p - 1 + 1)] = w(p - 1)
    BY <1>3, <1>5
  <2> QED
    BY <1>3, <1>5, <2>1
<1>7. /\ w(a) # w(b + 1) /\ w(p) # w(b + 1) /\ w(a - 1) # w(b) /\ w(p - 1) # w(a - 1)
      /\ w(p - 1) # w(b) /\ w(a) # w(p)
  BY <1>4, <1>5
<1>8. /\ g.next = [h.next EXCEPT ![w(a - 1)] = w(b + 1), ![w(b)] = w(p), ![w(p - 1)] = w(a)]
      /\ g.prev = [h.prev EXCEPT ![w(b + 1)] = w(a - 1), ![w(a)] = w(p - 1), ![w(p)] = w(b)]
      /\ g \in Heaps
  <2>1. /\ w(a - 1) \in Nodes /\ w(b) \in Nodes /\ w(p - 1) \in Nodes
        /\ w(b + 1) \in Nodes /\ w(a) \in Nodes /\ w(p) \in Nodes
    BY <1>2, <1>5
  <2> PICK A, B, L, pa, pb, z : /\ A = w(a) /\ B = w(p) /\ L = w(b + 1)
                                /\ pa = w(a - 1) /\ pb = w(p - 1) /\ z = w(b)
    OBVIOUS
  <2>2. /\ A \in Nodes /\ B \in Nodes /\ L \in Nodes /\ pa = h.prev[A] /\ pb = h.prev[B]
        /\ z = h.prev[L] /\ h.next[h.prev[L]] = L /\ A # L /\ B # L
        /\ h.prev[A] \in Nodes /\ h.prev[B] \in Nodes /\ h.prev[L] \in Nodes
    BY <1>6, <1>7, <2>1
  <2>3. /\ g.next = [h.next EXCEPT ![pa] = L, ![z] = B, ![pb] = A]
        /\ g.prev = [h.prev EXCEPT ![L] = pa, ![A] = pb, ![B] = z]
        /\ g \in Heaps
    <3>1. g = list_splice(h, B, A, L)
      OBVIOUS
    <3>2. Rewired(g, h, A, B, L)
      BY <1>1, <2>2, <3>1, SplicePointers
    <3> QED
      BY <2>2, <3>2 DEF Rewired
  <2> QED
    BY <2>3
<1>9. /\ g.next[w(a - 1)] = w(b + 1) /\ g.next[w(b)] = w(p) /\ g.next[w(p - 1)] = w(a)
      /\ \A x \in Nodes \ {w(a - 1), w(b), w(p - 1)} : g.next[x] = h.next[x]
  BY <1>1, <1>2, <1>5, <1>7, <1>8, HeapType
<1>10. /\ g.prev[w(b + 1)] = w(a - 1) /\ g.prev[w(a)] = w(p - 1) /\ g.prev[w(p)] = w(b)
       /\ \A x \in Nodes \ {w(b + 1), w(a), w(p)} : g.prev[x] = h.prev[x]
  BY <1>1, <1>2, <1>5, <1>7, <1>8, HeapType
<1> DEFINE after(j) == IF j = a - 1 THEN b + 1 ELSE IF j = b THEN p ELSE IF j = p - 1 THEN a ELSE j + 1
           T == [k \in 0..(n + 1) |-> From(p, a, b, k)]
<1>11. ASSUME NEW j \in 0..n
       PROVE  g.next[w(j)] = w(after(j)) /\ g.prev[w(after(j))] = w(j)
  <2>1. CASE j = a - 1 \/ j = b \/ j = p - 1
    BY <1>9, <1>10, <1>5, <2>1
  <2>2. CASE j # a - 1 /\ j # b /\ j # p - 1
    <3>1. j \in 0..(n + 1) /\ j + 1 \in 0..(n + 1) /\ j + 1 # a /\ j + 1 # b + 1 /\ j + 1 # p
      BY <1>2, <2>2
    <3>2. /\ w(j) \in Nodes \ {w(a - 1), w(b), w(p - 1)}
          /\ w(j + 1) \in Nodes \ {w(b + 1), w(a), w(p)}
      BY <1>2, <1>4, <1>5, <2>2, <3>1
    <3>3. after(j) = j + 1
      BY <2>2
    <3>4. h.next[w(j)] = w(j + 1) /\ h.prev[w(j + 1)] = w(j)
      BY <1>3
    <3> HIDE DEF after
    <3> QED
      BY <1>9, <1>10, <3>2, <3>3, <3>4
  <2> QED
    BY <2>1, <2>2
<1>12. Reorders(T, n)
  <2>1. \A k \in 0..(n + 1) : T[k] = From(p, a, b, k) /\ From(p, a, b, k) \in 0..(n + 1)
    BY <1>2 DEF From
  <2>2. From(p, a, b, 0) = 0 /\ From(p, a, b, n + 1) = n + 1
    BY <1>2 DEF From
  <2>3. \A j, k \in 0..(n + 1) : From(p, a, b, j) = From(p, a, b, k) => j = k
    BY <1>2 DEF From
  <2> QED
    BY <1>2, <2>1, <2>2, <2>3 DEF Reorders
<1>13. \A k \in 0..n : T[k] \in 0..n /\ T[k + 1] = after(T[k])
  <2> SUFFICES ASSUME NEW k \in 0..n PROVE T[k] \in 0..n /\ T[k + 1] = after(T[k])
    OBVIOUS
  <2>1. From(p, a, b, k) \in 0..n /\ From(p, a, b, k + 1) = after(From(p, a, b, k))
    BY <1>2 DEF From
  <2>2. k \in 0..(n + 1) /\ k + 1 \in 0..(n + 1)
    BY <1>2
  <2> QED
    BY <2>1, <2>2
<1>14. \A k \in 0..n : g.next[w(T[k])] = w(T[k + 1]) /\ g.prev[w(T[k + 1])] = w(T[k])
  <2> HIDE DEF after, T
  <2> QED
    BY <1>11, <1>13
<1>15. g.prev[head(l)] = NULL /\ g.next[tail(l)] = NULL
  <2>1. 0 \in 0..(n + 1) /\ n + 1 \in 0..(n + 1) /\ 0 # b + 1 /\ 0 # a /\ 0 # p
        /\ n + 1 # a - 1 /\ n + 1 # b /\ n + 1 # p - 1
    BY <1>2
  <2>2. w(0) \in Nodes \ {w(b + 1), w(a), w(p)} /\ w(n + 1) \in Nodes \ {w(a - 1), w(b), w(p - 1)}
    BY <1>2, <1>4, <1>5, <2>1
  <2> QED
    BY <1>2, <1>3, <1>9, <1>10, <2>2
<1>16. ASSUME NEW x \in Nodes, \A k \in 0..(n + 1) : x # w(k)
       PROVE  g.next[x] = h.next[x] /\ g.prev[x] = h.prev[x]
  BY <1>5, <1>9, <1>10, <1>16
<1>17. Holds(g, [q EXCEPT ![l] = [k \in 1..n |-> q[l][T[k]]]])
  <2>1. Relinks(h, g, l, q[l], T)
    <3> HIDE DEF T
    <3> QED
      BY <1>8, <1>14, <1>15, <1>16 DEF Relinks
  <2> HIDE DEF T
  <2> QED
    BY <1>12, <2>1, Relinked
<1>18. [k \in 1..n |-> q[l][T[k]]] = Moved(q[l], p, a, b)
  <2>1. \A k \in 1..n : T[k] = From(p, a, b, k)
    BY <1>2
  <2> QED
    BY <2>1 DEF Moved
<1> QED
  BY <1>17, <1>18

\* s after the items from a to b moved in front of p, which comes after them.
MovedBack(s, p, a, b) == IF p = b + 1 THEN s ELSE Moved(s, a, b + 1, p - 1)

\* Moving a range towards the tail is moving what follows it towards the head.
LEMMA SpliceBackward ==
    ASSUME NEW h, NEW q, Holds(h, q), NEW l \in DOMAIN q, NEW n, n = Len(q[l]),
           NEW p \in 1..(n + 1), NEW a \in 1..n, NEW b \in 1..n, a <= b, b < p
    PROVE  Holds(list_splice(h, Node(l, q[l], p), Node(l, q[l], a), Node(l, q[l], b + 1)),
                 [q EXCEPT ![l] = MovedBack(q[l], p, a, b)])
<1> DEFINE w(k) == Node(l, q[l], k)
<1> PICK g : g = list_splice(h, w(p), w(a), w(b + 1))
  OBVIOUS
<1>1. Contents(q) /\ ListAt(h, l, q[l]) /\ h \in Heaps
  BY DEF Holds
<1>2. n \in Nat /\ \A k \in 0..(n + 1) : w(k) \in Nodes
  BY <1>1, NodeType
<1>3. /\ \A k \in 0..n : h.next[w(k)] = w(k + 1) /\ h.prev[w(k + 1)] = w(k)
  BY <1>1, <1>2 DEF ListAt
<1>4. \A j, k \in 0..(n + 1) : w(j) = w(k) => j = k
  BY <1>1, NodeOnce
<1>5. /\ a - 1 \in 0..n /\ b \in 0..n /\ p - 1 \in 0..n /\ a - 1 \in 0..(n + 1) /\ b \in 0..(n + 1)
      /\ p - 1 \in 0..(n + 1) /\ b + 1 \in 0..(n + 1) /\ a \in 0..(n + 1) /\ p \in 0..(n + 1)
      /\ a # b + 1 /\ a # p /\ p - 1 + 1 = p /\ a - 1 + 1 = a
  BY <1>2
<1>6. /\ w(a - 1) \in Nodes /\ w(b) \in Nodes /\ w(p - 1) \in Nodes
      /\ w(b + 1) \in Nodes /\ w(a) \in Nodes /\ w(p) \in Nodes /\ w(a) # w(b + 1) /\ w(a) # w(p)
  BY <1>2, <1>4, <1>5
<1>7. /\ h.prev[w(b + 1)] = w(b) /\ h.next[w(b)] = w(b + 1) /\ h.prev[w(a)] = w(a - 1)
      /\ h.prev[w(p)] = w(p - 1) /\ h.next[w(p - 1)] = w(p) /\ h.next[w(a - 1)] = w(a)
  <2>1. /\ h.prev[w(a - 1 + 1)] = w(a - 1) /\ h.prev[w(p - 1 + 1)] = w(p - 1)
        /\ h.next[w(p - 1)] = w(p - 1 + 1) /\ h.next[w(a - 1)] = w(a - 1 + 1)
    BY <1>3, <1>5
  <2> QED
    BY <1>3, <1>5, <2>1
<1>8. h.next \in [Nodes -> Nodes \union {NULL}] /\ h.prev \in [Nodes -> Nodes \union {NULL}]
      /\ h = [next |-> h.next, prev |-> h.prev]
  BY <1>1, HeapType
<1>9. CASE p = b + 1
  <2> DEFINE cut == [next |-> [h.next EXCEPT ![w(a - 1)] = w(b + 1)],
                     prev |-> [h.prev EXCEPT ![w(b + 1)] = w(a - 1)]]
  <2>1. cut.prev[w(p)] = w(a - 1)
    BY <1>6, <1>8, <1>9
  <2>2. g = [next |-> [cut.next EXCEPT ![w(b)] = w(p), ![w(a - 1)] = w(a)],
             prev |-> [cut.prev EXCEPT ![w(a)] = w(a - 1), ![w(p)] = w(b)]]
    BY <1>6, <1>7, <2>1 DEF list_splice
  <2>3. [cut.next EXCEPT ![w(b)] = w(p), ![w(a - 1)] = w(a)] = h.next
    <3> HIDE DEF w
    <3> QED
      BY <1>6, <1>7, <1>8, <1>9
  <2>4. [cut.prev EXCEPT ![w(a)] = w(a - 1), ![w(p)] = w(b)] = h.prev
    <3> HIDE DEF w
    <3> QED
      BY <1>6, <1>7, <1>8, <1>9
  <2>5. g = h
    BY <1>8, <2>2, <2>3, <2>4
  <2>6. [q EXCEPT ![l] = q[l]] = q
    BY <1>1 DEF Contents
  <2> QED
    BY <1>1, <1>9, <2>5, <2>6 DEF MovedBack
<1>10. CASE p # b + 1
  <2>1. p > b + 1 /\ p # b + 1 /\ a - 1 # b /\ a - 1 # p - 1 /\ b # p - 1
    BY <1>2, <1>10
  <2>2. w(p) # w(b + 1) /\ w(a - 1) # w(b) /\ w(a - 1) # w(p - 1) /\ w(b) # w(p - 1)
    BY <1>4, <1>5, <2>1
  <2> PICK f : f = list_splice(h, w(a), w(b + 1), w(p))
    OBVIOUS
  <2>3. /\ g.next = [h.next EXCEPT ![w(a - 1)] = w(b + 1), ![w(b)] = w(p), ![w(p - 1)] = w(a)]
        /\ g.prev = [h.prev EXCEPT ![w(b + 1)] = w(a - 1), ![w(a)] = w(p - 1), ![w(p)] = w(b)]
        /\ g \in Heaps
    <3> PICK A, B, L, pa, pb, z : /\ A = w(a) /\ B = w(p) /\ L = w(b + 1)
                                  /\ pa = w(a - 1) /\ pb = w(p - 1) /\ z = w(b)
      OBVIOUS
    <3>1. /\ A \in Nodes /\ B \in Nodes /\ L \in Nodes /\ pa = h.prev[A] /\ pb = h.prev[B]
          /\ z = h.prev[L] /\ h.next[h.prev[L]] = L /\ A # L /\ B # L
          /\ h.prev[A] \in Nodes /\ h.prev[B] \in Nodes /\ h.prev[L] \in Nodes
      BY <1>6, <1>7, <2>2
    <3>2. /\ g.next = [h.next EXCEPT ![pa] = L, ![z] = B, ![pb] = A]
          /\ g.prev = [h.prev EXCEPT ![L] = pa, ![A] = pb, ![B] = z]
          /\ g \in Heaps
      <4>1. g = list_splice(h, B, A, L)
        OBVIOUS
      <4>2. Rewired(g, h, A, B, L)
        BY <1>1, <3>1, <4>1, SplicePointers
      <4> QED
        BY <3>1, <4>2 DEF Rewired
    <3> QED
      BY <3>2
  <2>4. /\ f.next = [h.next EXCEPT ![w(b)] = w(p), ![w(p - 1)] = w(a), ![w(a - 1)] = w(b + 1)]
        /\ f.prev = [h.prev EXCEPT ![w(p)] = w(b), ![w(b + 1)] = w(a - 1), ![w(a)] = w(p - 1)]
        /\ f \in Heaps
    <3> PICK A, B, L, pa, pb, z : /\ A = w(b + 1) /\ B = w(a) /\ L = w(p)
                                  /\ pa = w(b) /\ pb = w(a - 1) /\ z = w(p - 1)
      OBVIOUS
    <3>1. /\ A \in Nodes /\ B \in Nodes /\ L \in Nodes /\ pa = h.prev[A] /\ pb = h.prev[B]
          /\ z = h.prev[L] /\ h.next[h.prev[L]] = L /\ A # L /\ B # L
          /\ h.prev[A] \in Nodes /\ h.prev[B] \in Nodes /\ h.prev[L] \in Nodes
      BY <1>6, <1>7, <2>2
    <3>2. /\ f.next = [h.next EXCEPT ![pa] = L, ![z] = B, ![pb] = A]
          /\ f.prev = [h.prev EXCEPT ![L] = pa, ![A] = pb, ![B] = z]
          /\ f \in Heaps
      <4>1. f = list_splice(h, B, A, L)
        OBVIOUS
      <4>2. Rewired(f, h, A, B, L)
        BY <1>1, <3>1, <4>1, SplicePointers
      <4> QED
        BY <3>1, <4>2 DEF Rewired
    <3> QED
      BY <3>2
  <2>5. f.next = g.next /\ f.prev = g.prev
    <3> HIDE DEF w
    <3> QED
      BY <1>6, <1>8, <2>2, <2>3, <2>4
  <2>6. f = g
    BY <2>3, <2>4, <2>5, HeapType
  <2>7. /\ b + 1 \in 1..n /\ p - 1 \in 1..n /\ a < b + 1 /\ b + 1 <= p - 1 /\ p - 1 + 1 = p
    BY <1>2, <2>1
  <2>8. Holds(list_splice(h, Node(l, q[l], a), Node(l, q[l], b + 1), Node(l, q[l], p - 1 + 1)),
              [q EXCEPT ![l] = Moved(q[l], a, b + 1, p - 1)])
    BY <2>7, SpliceForward
  <2> QED
    BY <1>10, <2>6, <2>7, <2>8 DEF MovedBack
<1> QED
  BY <1>9, <1>10

\* The items in the opposite order.
Reversed(s) == [k \in 1..Len(s) |-> s[Len(s) + 1 - k]]

\* list_reverse turns the order of the nodes around.
LEMMA ReverseHolds ==
    ASSUME NEW h, NEW q, Holds(h, q), NEW l \in DOMAIN q, NEW n, n = Len(q[l])
    PROVE  Holds(list_reverse(h, l), [q EXCEPT ![l] = Reversed(q[l])])
<1> DEFINE w(k) == Node(l, q[l], k)
<1> PICK g : g = list_reverse(h, l)
  OBVIOUS
<1>1. Contents(q) /\ ListAt(h, l, q[l]) /\ h \in Heaps
  BY DEF Holds
<1>2. /\ n \in Nat /\ \A k \in 0..(n + 1) : w(k) \in Nodes
      /\ w(n + 1) = tail(l) /\ w(0) = head(l) /\ q[l] \in Seq(Items)
      /\ \A k \in 1..n : w(k) = elem(q[l][k])
  BY <1>1, NodeType DEF Contents
<1>3. /\ \A k \in 0..n : h.next[w(k)] = w(k + 1) /\ h.prev[w(k + 1)] = w(k)
      /\ h.prev[w(0)] = NULL /\ h.next[w(n + 1)] = NULL
  BY <1>1, <1>2 DEF ListAt
<1>4. \A j, k \in 0..(n + 1) : w(j) = w(k) => j = k
  BY <1>1, NodeOnce
<1>5. 0 \in 0..n /\ n \in 0..n /\ h.next[head(l)] = w(1) /\ h.prev[tail(l)] = w(n)
  BY <1>2, <1>3
<1>6. CASE n = 0
  <2>1. list_empty(h, l)
    BY <1>2, <1>5, <1>6 DEF list_empty, list_begin, list_end
  <2>2. g = h
    BY <2>1 DEF list_reverse
  <2>3. [k \in 1..n |-> q[l][n + 1 - k]] = q[l]
    <3>1. q[l] = [k \in 1..n |-> q[l][k]]
      BY <1>2
    <3>2. \A k \in 1..n : q[l][k] = q[l][n + 1 - k]
      BY <1>6
    <3> QED
      BY <3>1, <3>2
  <2>4. [q EXCEPT ![l] = q[l]] = q
    BY <1>1 DEF Contents
  <2> QED
    BY <2>2, <2>3, <2>4 DEF Reversed
<1>7. CASE n # 0
  <2> DEFINE T == [k \in 0..(n + 1) |-> IF k \in 1..n THEN n + 1 - k ELSE k]
             inside == {x \in Nodes : \E k \in 1..n : x = w(k)}
             turned == [next |-> [x \in Nodes |-> IF x \in inside THEN h.prev[x] ELSE h.next[x]],
                        prev |-> [x \in Nodes |-> IF x \in inside THEN h.next[x] ELSE h.prev[x]]]
  <2>1. 1 \in 1..n /\ n \in 1..n /\ 1 \in 0..(n + 1) /\ n \in 0..(n + 1) /\ 0 \in 0..(n + 1) /\ n + 1 \in 0..(n + 1)
        /\ 1 # n + 1 /\ n # 0
    BY <1>2, <1>7
  <2>2. ~list_empty(h, l)
    BY <1>2, <1>4, <1>5, <2>1 DEF list_empty, list_begin, list_end
  <2>3. {x \in Nodes : \E k \in DOMAIN Walk(h, list_begin(h, l), tail(l)) :
                          Walk(h, list_begin(h, l), tail(l))[k] = x} = inside
    <3> PICK W : W = Walk(h, list_begin(h, l), tail(l))
      OBVIOUS
    <3>1. W = [k \in 1..n |-> elem(q[l][k])]
      BY WalkIs
    <3>2. DOMAIN W = 1..n /\ \A k \in 1..n : W[k] = w(k)
      BY <1>2, <3>1
    <3> QED
      BY <3>2
  <2>4. g = [next |-> [turned.next EXCEPT ![head(l)] = w(n), ![w(1)] = tail(l)],
             prev |-> [turned.prev EXCEPT ![tail(l)] = w(1), ![w(n)] = head(l)]]
    BY <1>5, <2>2, <2>3 DEF list_reverse
  <2>5. h.next \in [Nodes -> Nodes \union {NULL}] /\ h.prev \in [Nodes -> Nodes \union {NULL}]
    BY <1>1, HeapType
  <2>6. g \in Heaps
    <3>1. turned \in Heaps
      BY <2>5 DEF Heaps
    <3>2. head(l) \in Nodes /\ tail(l) \in Nodes /\ w(1) \in Nodes /\ w(n) \in Nodes
      BY <1>2, <2>1
    <3> HIDE DEF turned, w
    <3> QED
      BY <2>4, <3>1, <3>2 DEF Heaps
  <2>7. /\ g.next[w(0)] = w(n) /\ g.next[w(1)] = w(n + 1) /\ g.prev[w(n + 1)] = w(1) /\ g.prev[w(n)] = w(0)
        /\ \A x \in Nodes \ {w(0), w(1)} : g.next[x] = IF x \in inside THEN h.prev[x] ELSE h.next[x]
        /\ \A x \in Nodes \ {w(n + 1), w(n)} : g.prev[x] = IF x \in inside THEN h.next[x] ELSE h.prev[x]
    <3>1. w(0) # w(1) /\ w(n + 1) # w(n) /\ w(0) \in Nodes /\ w(1) \in Nodes /\ w(n) \in Nodes /\ w(n + 1) \in Nodes
      BY <1>2, <1>4, <2>1
    <3>2. /\ turned.next \in [Nodes -> Nodes \union {NULL}] /\ turned.prev \in [Nodes -> Nodes \union {NULL}]
          /\ \A x \in Nodes : turned.next[x] = IF x \in inside THEN h.prev[x] ELSE h.next[x]
          /\ \A x \in Nodes : turned.prev[x] = IF x \in inside THEN h.next[x] ELSE h.prev[x]
      <4> HIDE DEF w, inside
      <4> QED
        BY <2>5
    <3>3. /\ g.next = [turned.next EXCEPT ![w(0)] = w(n), ![w(1)] = w(n + 1)]
          /\ g.prev = [turned.prev EXCEPT ![w(n + 1)] = w(1), ![w(n)] = w(0)]
      <4> HIDE DEF turned
      <4> QED
        BY <1>2, <2>4
    <3> HIDE DEF w, inside, turned
    <3>4. /\ g.next[w(0)] = w(n) /\ g.next[w(1)] = w(n + 1)
          /\ \A x \in Nodes \ {w(0), w(1)} : g.next[x] = turned.next[x]
      BY <3>1, <3>2, <3>3
    <3>5. /\ g.prev[w(n + 1)] = w(1) /\ g.prev[w(n)] = w(0)
          /\ \A x \in Nodes \ {w(n + 1), w(n)} : g.prev[x] = turned.prev[x]
      BY <3>1, <3>2, <3>3
    <3> QED
      BY <3>2, <3>4, <3>5
  <2>8. Reorders(T, n)
    BY <1>2 DEF Reorders
  <2>9. ASSUME NEW k \in 0..n
        PROVE  g.next[w(T[k])] = w(T[k + 1]) /\ g.prev[w(T[k + 1])] = w(T[k])
    <3>1. CASE k = 0 \/ k = n
      <4>1. (k = 0 => T[k] = 0 /\ T[k + 1] = n) /\ (k = n => T[k] = 1 /\ T[k + 1] = n + 1)
        BY <1>2, <1>7
      <4> QED
        BY <2>7, <3>1, <4>1
    <3>2. CASE k # 0 /\ k # n
      <4>1. T[k] = n + 1 - k /\ T[k + 1] = n - k
        BY <1>2, <3>2
      <4>2. /\ n + 1 - k \in 0..(n + 1) /\ n - k \in 0..(n + 1) /\ n + 1 - k \in 1..n /\ n - k \in 1..n
            /\ n + 1 - k # 0 /\ n + 1 - k # 1 /\ n - k # n + 1 /\ n - k # n
            /\ n - k \in 0..n /\ n - k + 1 = n + 1 - k
        BY <1>2, <3>2
      <4>3. w(n + 1 - k) \in inside \ {w(0), w(1)} /\ w(n - k) \in inside \ {w(n + 1), w(n)}
        BY <1>2, <1>4, <2>1, <4>2
      <4>4. h.next[w(n - k)] = w(n + 1 - k) /\ h.prev[w(n + 1 - k)] = w(n - k)
        BY <1>3, <4>2
      <4>5. inside \subseteq Nodes
        OBVIOUS
      <4> HIDE DEF inside, T, w
      <4> QED
        BY <2>7, <4>1, <4>3, <4>4, <4>5
    <3> QED
      BY <3>1, <3>2
  <2>10. g.prev[head(l)] = NULL /\ g.next[tail(l)] = NULL
    <3>1. w(0) \notin inside /\ w(n + 1) \notin inside
      <4>1. \A k \in 1..n : k \in 0..(n + 1) /\ k # 0 /\ k # n + 1
        BY <1>2
      <4> QED
        BY <1>4, <2>1, <4>1
    <3>2. w(0) \in Nodes \ {w(n + 1), w(n)} /\ w(n + 1) \in Nodes \ {w(0), w(1)}
      BY <1>2, <1>4, <2>1
    <3> HIDE DEF inside
    <3> QED
      BY <1>2, <1>3, <2>7, <3>1, <3>2
  <2>11. ASSUME NEW x \in Nodes, \A k \in 0..(n + 1) : x # w(k)
         PROVE  g.next[x] = h.next[x] /\ g.prev[x] = h.prev[x]
    <3>1. x \notin inside
      BY <1>2, <2>11
    <3>2. x # w(0) /\ x # w(1) /\ x # w(n) /\ x # w(n + 1)
      BY <2>1, <2>11
    <3> HIDE DEF inside, w
    <3> QED
      BY <2>7, <3>1, <3>2
  <2>12. Relinks(h, g, l, q[l], T)
    <3> HIDE DEF T
    <3> QED
      BY <2>6, <2>9, <2>10, <2>11 DEF Relinks
  <2>13. Holds(g, [q EXCEPT ![l] = [k \in 1..n |-> q[l][T[k]]]])
    <3> HIDE DEF T
    <3> QED
      BY <2>8, <2>12, Relinked
  <2>14. [k \in 1..n |-> q[l][T[k]]] = [k \in 1..n |-> q[l][n + 1 - k]]
    <3>1. \A k \in 1..n : T[k] = n + 1 - k
      BY <1>2
    <3> QED
      BY <3>1
  <2> QED
    BY <2>13, <2>14 DEF Reversed
<1> QED
  BY <1>6, <1>7

\* Two items change places.
Swapped(s, a, b) == [k \in 1..Len(s) |-> s[IF k = a THEN b ELSE IF k = b THEN a ELSE k]]

\* Both branches of list_swap are right for items whose neighbours they expect.
LEMMA SwapLinks ==
    ASSUME NEW h, NEW q, Holds(h, q), NEW l \in DOMAIN q, NEW n, n = Len(q[l]),
           NEW a \in 1..n, NEW b \in 1..n, NEW g,
           \/ b = a + 1 /\ g = SwapNeighbours(h, Node(l, q[l], a), Node(l, q[l], b))
           \/ a # b /\ a # b + 1 /\ b # a + 1 /\ g = SwapApart(h, Node(l, q[l], a), Node(l, q[l], b))
    PROVE  Holds(g, [q EXCEPT ![l] = Swapped(q[l], a, b)])
<1> DEFINE w(k) == Node(l, q[l], k)
           T == [k \in 0..(n + 1) |-> IF k = a THEN b ELSE IF k = b THEN a ELSE k]
<1>1. Contents(q) /\ ListAt(h, l, q[l]) /\ h \in Heaps
  BY DEF Holds
<1>2. /\ n \in Nat /\ \A k \in 0..(n + 1) : w(k) \in Nodes
      /\ w(n + 1) = tail(l) /\ w(0) = head(l)
  BY <1>1, NodeType
<1>3. /\ \A k \in 0..n : h.next[w(k)] = w(k + 1) /\ h.prev[w(k + 1)] = w(k)
      /\ h.prev[w(0)] = NULL /\ h.next[w(n + 1)] = NULL
  BY <1>1, <1>2 DEF ListAt
<1>4. \A j, k \in 0..(n + 1) : w(j) = w(k) => j = k
  BY <1>1, NodeOnce
<1>5. h.next \in [Nodes -> Nodes \union {NULL}] /\ h.prev \in [Nodes -> Nodes \union {NULL}]
  BY <1>1, HeapType
<1>6. /\ a - 1 \in 0..n /\ b - 1 \in 0..n /\ a \in 0..n /\ b \in 0..n
      /\ a - 1 \in 0..(n + 1) /\ b - 1 \in 0..(n + 1) /\ a \in 0..(n + 1) /\ b \in 0..(n + 1)
      /\ a + 1 \in 0..(n + 1) /\ b + 1 \in 0..(n + 1) /\ a - 1 + 1 = a /\ b - 1 + 1 = b
      /\ 0 \in 0..(n + 1) /\ n + 1 \in 0..(n + 1)
  BY <1>2
<1>7. /\ h.prev[w(a)] = w(a - 1) /\ h.prev[w(b)] = w(b - 1)
      /\ h.next[w(a)] = w(a + 1) /\ h.next[w(b)] = w(b + 1)
  <2>1. h.prev[w(a - 1 + 1)] = w(a - 1) /\ h.prev[w(b - 1 + 1)] = w(b - 1)
    BY <1>3, <1>6
  <2> QED
    BY <1>3, <1>6, <2>1
<1>8. /\ w(a - 1) \in Nodes /\ w(b - 1) \in Nodes /\ w(a) \in Nodes /\ w(b) \in Nodes
      /\ w(a + 1) \in Nodes /\ w(b + 1) \in Nodes
  BY <1>2, <1>6
<1> DEFINE ins == {w(a - 1), w(b - 1), w(a), w(b)}
           outs == {w(a), w(b), w(a + 1), w(b + 1)}
<1>9. /\ g \in Heaps
      /\ g.next[w(a - 1)] = w(b)
      /\ g.next[w(b)] = (IF b = a + 1 THEN w(a) ELSE w(a + 1))
      /\ g.next[w(a)] = w(b + 1)
      /\ b # a + 1 => g.next[w(b - 1)] = w(a)
      /\ g.prev[w(b)] = w(a - 1)
      /\ g.prev[w(a)] = (IF b = a + 1 THEN w(b) ELSE w(b - 1))
      /\ g.prev[w(b + 1)] = w(a)
      /\ b # a + 1 => g.prev[w(a + 1)] = w(b)
      /\ \A x \in Nodes \ ins : g.next[x] = h.next[x]
      /\ \A x \in Nodes \ outs : g.prev[x] = h.prev[x]
  <2>1. CASE b = a + 1 /\ g = SwapNeighbours(h, w(a), w(b))
    <3>1. a - 1 # a /\ a - 1 # b /\ a # b /\ a # b + 1 /\ b # b + 1 /\ b - 1 = a /\ a + 1 = b
      BY <2>1
    <3>2. w(a - 1) # w(a) /\ w(a - 1) # w(b) /\ w(a) # w(b) /\ w(a) # w(b + 1) /\ w(b) # w(b + 1)
      BY <1>4, <1>6, <3>1
    <3>3. /\ g.next = [h.next EXCEPT ![w(a - 1)] = w(b), ![w(b)] = w(a), ![w(a)] = w(b + 1)]
          /\ g.prev = [h.prev EXCEPT ![w(b)] = w(a - 1), ![w(a)] = w(b), ![w(b + 1)] = w(a)]
          /\ g = [next |-> g.next, prev |-> g.prev]
      BY <1>7, <2>1 DEF SwapNeighbours
    <3>4. g \in Heaps
      <4>1. g.next \in [Nodes -> Nodes \union {NULL}] /\ g.prev \in [Nodes -> Nodes \union {NULL}]
        <5> HIDE DEF w
        <5> QED
          BY <1>5, <1>8, <3>3
      <4> QED
        BY <3>3, <4>1 DEF Heaps
    <3> HIDE DEF w
    <3> QED
      BY <1>5, <1>8, <2>1, <3>1, <3>2, <3>3, <3>4
  <2>2. CASE a # b /\ a # b + 1 /\ b # a + 1 /\ g = SwapApart(h, w(a), w(b))
    <3>1. /\ a - 1 # b - 1 /\ a - 1 # a /\ a - 1 # b /\ b - 1 # a /\ b - 1 # b
          /\ a + 1 # b + 1 /\ a + 1 # a /\ a + 1 # b /\ b + 1 # a /\ b + 1 # b
      BY <2>2
    <3>2. /\ w(a - 1) # w(b - 1) /\ w(a - 1) # w(a) /\ w(a - 1) # w(b) /\ w(b - 1) # w(a)
          /\ w(b - 1) # w(b) /\ w(a) # w(b)
          /\ w(a + 1) # w(b + 1) /\ w(a + 1) # w(a) /\ w(a + 1) # w(b) /\ w(b + 1) # w(a)
          /\ w(b + 1) # w(b)
      BY <1>4, <1>6, <2>2, <3>1
    <3>3. /\ g.next = [h.next EXCEPT ![w(a - 1)] = w(b), ![w(b - 1)] = w(a), ![w(a)] = w(b + 1),
                                     ![w(b)] = w(a + 1)]
          /\ g.prev = [h.prev EXCEPT ![w(a + 1)] = w(b), ![w(b + 1)] = w(a), ![w(a)] = w(b - 1),
                                     ![w(b)] = w(a - 1)]
          /\ g = [next |-> g.next, prev |-> g.prev]
      BY <1>7, <2>2 DEF SwapApart
    <3>4. g \in Heaps
      <4>1. g.next \in [Nodes -> Nodes \union {NULL}] /\ g.prev \in [Nodes -> Nodes \union {NULL}]
        <5> PICK A, B, C, D, E, F : /\ A = w(a) /\ B = w(b) /\ C = w(a - 1) /\ D = w(b - 1)
                                    /\ E = w(a + 1) /\ F = w(b + 1)
          OBVIOUS
        <5>1. {A, B, C, D, E, F} \subseteq Nodes
          BY <1>8
        <5>2. /\ g.next = [h.next EXCEPT ![C] = B, ![D] = A, ![A] = F, ![B] = E]
              /\ g.prev = [h.prev EXCEPT ![E] = B, ![F] = A, ![A] = D, ![B] = C]
          BY <3>3
        <5>3. g.next \in [Nodes -> Nodes \union {NULL}]
          BY <1>5, <5>1, <5>2
        <5>4. g.prev \in [Nodes -> Nodes \union {NULL}]
          BY <1>5, <5>1, <5>2
        <5> QED
          BY <5>3, <5>4
      <4> QED
        BY <3>3, <4>1 DEF Heaps
    <3> HIDE DEF w
    <3> QED
      BY <1>5, <1>8, <2>2, <3>2, <3>3, <3>4
  <2> QED
    BY <2>1, <2>2
<1>10. Reorders(T, n)
  BY <1>2 DEF Reorders
<1>11. ASSUME NEW k \in 0..n
       PROVE  g.next[w(T[k])] = w(T[k + 1]) /\ g.prev[w(T[k + 1])] = w(T[k])
  <2>1. T[k] = (IF k = a THEN b ELSE IF k = b THEN a ELSE k)
        /\ T[k + 1] = (IF k + 1 = a THEN b ELSE IF k + 1 = b THEN a ELSE k + 1)
    BY <1>2
  <2>2. CASE k \in {a - 1, a, b - 1, b}
    <3> HIDE DEF w, T
    <3> QED
      BY <1>9, <2>1, <2>2, <1>2
  <2>3. CASE k \notin {a - 1, a, b - 1, b}
    <3>1. k \in 0..(n + 1) /\ k + 1 \in 0..(n + 1) /\ T[k] = k /\ T[k + 1] = k + 1
          /\ k + 1 # a /\ k + 1 # b /\ k + 1 # a + 1 /\ k + 1 # b + 1
      BY <1>2, <2>1, <2>3
    <3>2. w(k) \in Nodes \ ins
      BY <1>2, <1>4, <1>6, <2>3, <3>1
    <3>3. w(k + 1) \in Nodes \ outs
      BY <1>2, <1>4, <1>6, <3>1
    <3>4. h.next[w(k)] = w(k + 1) /\ h.prev[w(k + 1)] = w(k)
      BY <1>3
    <3> HIDE DEF w, T, ins, outs
    <3> QED
      BY <1>9, <3>1, <3>2, <3>3, <3>4
  <2> QED
    BY <2>2, <2>3
<1>12. g.prev[head(l)] = NULL /\ g.next[tail(l)] = NULL
  <2>1. w(0) \in Nodes \ outs
    BY <1>2, <1>4, <1>6
  <2>2. w(n + 1) \in Nodes \ ins
    BY <1>2, <1>4, <1>6
  <2> HIDE DEF ins, outs
  <2> QED
    BY <1>2, <1>3, <1>9, <2>1, <2>2
<1>13. ASSUME NEW x \in Nodes, \A k \in 0..(n + 1) : x # w(k)
       PROVE  g.next[x] = h.next[x] /\ g.prev[x] = h.prev[x]
  BY <1>6, <1>9, <1>13
<1>14. Relinks(h, g, l, q[l], T)
  <2> HIDE DEF T, ins, outs
  <2> QED
    BY <1>9, <1>11, <1>12, <1>13 DEF Relinks
<1>15. Holds(g, [q EXCEPT ![l] = [k \in 1..n |-> q[l][T[k]]]])
  <2> HIDE DEF T
  <2> QED
    BY <1>10, <1>14, Relinked
<1>16. [k \in 1..n |-> q[l][T[k]]] = Swapped(q[l], a, b)
  <2>1. \A k \in 1..n : T[k] = IF k = a THEN b ELSE IF k = b THEN a ELSE k
    BY <1>2
  <2> QED
    BY <2>1 DEF Swapped
<1> QED
  BY <1>15, <1>16

\* list_swap exchanges any two items of a list.
LEMMA SwapHolds ==
    ASSUME NEW h, NEW q, Holds(h, q), NEW l \in DOMAIN q, NEW n, n = Len(q[l]),
           NEW a \in 1..n, NEW b \in 1..n
    PROVE  Holds(list_swap(h, elem(q[l][a]), elem(q[l][b])), [q EXCEPT ![l] = Swapped(q[l], a, b)])
<1> DEFINE w(k) == Node(l, q[l], k)
<1> PICK g : g = list_swap(h, w(a), w(b))
  OBVIOUS
<1>1. Contents(q) /\ ListAt(h, l, q[l]) /\ h \in Heaps
  BY DEF Holds
<1>2. /\ n \in Nat /\ q[l] \in Seq(Items)
      /\ elem(q[l][a]) = w(a) /\ elem(q[l][b]) = w(b)
  BY <1>1, NodeType DEF Contents
<1>3. \A j, k \in 0..(n + 1) : w(j) = w(k) => j = k
  BY <1>1, NodeOnce
<1>4. /\ a \in 0..n /\ b \in 0..n /\ a \in 0..(n + 1) /\ b \in 0..(n + 1)
      /\ a + 1 \in 0..(n + 1) /\ b + 1 \in 0..(n + 1)
  BY <1>2
<1>5. h.next[w(a)] = w(a + 1) /\ h.next[w(b)] = w(b + 1)
  BY <1>1, <1>4 DEF ListAt
<1>6. /\ (w(a) = w(b) <=> a = b) /\ (h.next[w(a)] = w(b) <=> b = a + 1)
      /\ (h.next[w(b)] = w(a) <=> a = b + 1)
  BY <1>3, <1>4, <1>5
<1>7. CASE a = b
  <2>1. g = h
    BY <1>7 DEF list_swap
  <2>2. Swapped(q[l], a, b) = q[l]
    BY <1>2, <1>7 DEF Swapped
  <2>3. [q EXCEPT ![l] = q[l]] = q
    BY <1>1 DEF Contents
  <2> QED
    BY <1>2, <2>1, <2>2, <2>3
<1>8. CASE b = a + 1
  <2>1. a # b
    BY <1>8
  <2>2. g = SwapNeighbours(h, w(a), w(b))
    BY <1>6, <1>8, <2>1 DEF list_swap
  <2>3. Holds(g, [q EXCEPT ![l] = Swapped(q[l], a, b)])
    BY <1>8, <2>2, SwapLinks
  <2> QED
    BY <1>2, <2>3
<1>9. CASE a = b + 1
  <2>1. a # b /\ b # a + 1
    BY <1>9
  <2>2. g = SwapNeighbours(h, w(b), w(a))
    BY <1>6, <1>9, <2>1 DEF list_swap
  <2>3. Holds(g, [q EXCEPT ![l] = Swapped(q[l], b, a)])
    BY <1>9, <2>2, SwapLinks
  <2>4. Swapped(q[l], b, a) = Swapped(q[l], a, b)
    BY <2>1 DEF Swapped
  <2> QED
    BY <1>2, <2>3, <2>4
<1>10. CASE a # b /\ b # a + 1 /\ a # b + 1
  <2>1. g = SwapApart(h, w(a), w(b))
    BY <1>6, <1>10 DEF list_swap
  <2>2. Holds(g, [q EXCEPT ![l] = Swapped(q[l], a, b)])
    BY <1>10, <2>1, SwapLinks
  <2> QED
    BY <1>2, <2>2
<1> QED
  BY <1>7, <1>8, <1>9, <1>10

\* What two places hold tells them apart.
LEMMA OnePlace ==
    ASSUME NEW q, Contents(q), NEW i \in DOMAIN q, NEW j \in DOMAIN q,
           NEW x \in 1..Len(q[i]), NEW y \in 1..Len(q[j]), q[i][x] = q[j][y]
    PROVE  i = j /\ x = y
BY DEF Contents

\* s with the items of t from a to b in front of p, and t without them.
Joined(s, p, t, a, b) ==
    [k \in 1..(Len(s) + b - a + 1) |->
        IF k < p THEN s[k] ELSE IF k <= p + b - a THEN t[k - p + a] ELSE s[k - (b - a) - 1]]

Without(t, a, b) ==
    [k \in 1..(Len(t) - (b - a) - 1) |-> IF k < a THEN t[k] ELSE t[k + b - a + 1]]

\* Where the nodes of both lists are after that.
JoinedNodes(q, l, m, p, a, b, s, t) ==
    LET n == Len(q[l])
        o == Len(q[m])
    IN  /\ Len(s) = n + b - a + 1 /\ Len(t) = o - (b - a) - 1
        /\ \A k \in 0..(n + b - a + 2) :
              Node(l, s, k) = IF k < p THEN Node(l, q[l], k)
                              ELSE IF k <= p + b - a THEN Node(m, q[m], k - p + a)
                              ELSE Node(l, q[l], k - (b - a) - 1)
        /\ \A k \in 0..(o - (b - a)) :
              Node(m, t, k) = IF k < a THEN Node(m, q[m], k) ELSE Node(m, q[m], k + b - a + 1)

\* The contents after a range has moved to another list.
LEMMA ContentsOver ==
    ASSUME NEW q, Contents(q), NEW l \in DOMAIN q, NEW m \in DOMAIN q, l # m,
           NEW n, n = Len(q[l]), NEW o, o = Len(q[m]),
           NEW p \in 1..(n + 1), NEW a \in 1..o, NEW b \in 1..o, a <= b,
           NEW s, s = Joined(q[l], p, q[m], a, b), NEW t, t = Without(q[m], a, b)
    PROVE  /\ Contents([q EXCEPT ![l] = s, ![m] = t])
           /\ JoinedNodes(q, l, m, p, a, b, s, t)
<1> PICK c : c = b - a + 1
  OBVIOUS
<1>0. /\ n \in Nat /\ o \in Nat /\ c \in Nat \ {0} /\ c <= o
      /\ p \in Nat /\ a \in Nat /\ b \in Nat /\ b = c + a - 1
  <2>1. n \in Nat /\ o \in Nat
    BY NodeType
  <2> QED
    BY <2>1
<1>1. /\ \A k \in 1..n : q[l][k] \in Items /\ Node(l, q[l], k) = elem(q[l][k])
      /\ \A k \in 1..o : q[m][k] \in Items /\ Node(m, q[m], k) = elem(q[m][k])
      /\ Node(l, q[l], 0) = head(l) /\ Node(l, q[l], n + 1) = tail(l)
      /\ Node(m, q[m], 0) = head(m) /\ Node(m, q[m], o + 1) = tail(m)
  BY NodeType
<1>2. ASSUME NEW k \in 1..(n + c)
      PROVE  /\ s[k] = IF k < p THEN q[l][k] ELSE IF k < p + c THEN q[m][k - p + a] ELSE q[l][k - c]
             /\ k < p => k \in 1..n
             /\ ~(k < p) /\ k < p + c => k - p + a \in a..b /\ k - p + a \in 1..o
             /\ ~(k < p + c) => k - c \in p..n /\ k - c \in 1..n
  <2>1. k \in 1..(n + b - a + 1) /\ (k <= p + b - a <=> k < p + c) /\ k - (b - a) - 1 = k - c
    BY <1>0
  <2>2. s[k] = IF k < p THEN q[l][k] ELSE IF k <= p + b - a THEN q[m][k - p + a] ELSE q[l][k - (b - a) - 1]
    BY <2>1 DEF Joined
  <2>3. s[k] = IF k < p THEN q[l][k] ELSE IF k < p + c THEN q[m][k - p + a] ELSE q[l][k - c]
    BY <2>1, <2>2
  <2>4. /\ k < p => k \in 1..n
        /\ ~(k < p) /\ k < p + c => k - p + a \in a..b /\ k - p + a \in 1..o
        /\ ~(k < p + c) => k - c \in p..n /\ k - c \in 1..n
    BY <1>0
  <2> QED
    BY <2>3, <2>4
<1>3. s \in Seq(Items) /\ Len(s) = n + c
  <2>1. s = [k \in 1..(n + c) |-> s[k]]
    BY <1>0 DEF Joined
  <2>2. \A k \in 1..(n + c) : s[k] \in Items
    BY <1>1, <1>2
  <2>3. n + c \in Nat
    BY <1>0
  <2> QED
    BY <2>1, <2>2, <2>3
<1>4. ASSUME NEW k \in 1..(o - c)
      PROVE  /\ t[k] = IF k < a THEN q[m][k] ELSE q[m][k + c]
             /\ k \in 1..o /\ k + c \in 1..o
  <2>1. k \in 1..(o - (b - a) - 1) /\ k + b - a + 1 = k + c /\ k \in 1..o /\ k + c \in 1..o
    BY <1>0
  <2>2. t[k] = IF k < a THEN q[m][k] ELSE q[m][k + b - a + 1]
    BY <2>1 DEF Without
  <2> QED
    BY <2>1, <2>2
<1>5. t \in Seq(Items) /\ Len(t) = o - c
  <2>1. t = [k \in 1..(o - c) |-> t[k]]
    BY <1>0 DEF Without
  <2>2. \A k \in 1..(o - c) : t[k] \in Items
    BY <1>1, <1>4
  <2>3. o - c \in Nat
    BY <1>0
  <2> QED
    BY <2>1, <2>2, <2>3
<1> DEFINE Spread(r) == /\ r \in [DOMAIN r -> Seq(Items)] /\ DOMAIN r = DOMAIN q /\ r[l] = s /\ r[m] = t
                        /\ \A j \in DOMAIN q \ {l, m} : r[j] = q[j]
<1>a. Spread([q EXCEPT ![l] = s, ![m] = t])
  BY <1>3, <1>5 DEF Contents
<1>6. ASSUME NEW r, Spread(r)
      PROVE  Contents(r)
  <2>1. DOMAIN r = DOMAIN q /\ r[l] = s /\ r[m] = t /\ \A j \in DOMAIN q \ {l, m} : r[j] = q[j]
    BY <1>6
  <2>2. r \in [DOMAIN r -> Seq(Items)] /\ DOMAIN r \subseteq Lists
    BY <1>6 DEF Contents
  <2> DEFINE \* The item that r has in list i at x is the one that q has in list j at y.
             Source(i, x, j, y) ==
                \/ i = l /\ j = l /\ y = x /\ x < p
                \/ i = l /\ j = m /\ y = x - p + a /\ p <= x /\ x < p + c
                \/ i = l /\ j = l /\ y = x - c /\ p + c <= x
                \/ i = m /\ j = m /\ y = x /\ x < a
                \/ i = m /\ j = m /\ y = x + c /\ a <= x
                \/ i # l /\ i # m /\ j = i /\ y = x
  <2>3. ASSUME NEW i \in DOMAIN r, NEW x \in 1..Len(r[i])
        PROVE  \E j \in DOMAIN q : \E y \in 1..Len(q[j]) : r[i][x] = q[j][y] /\ Source(i, x, j, y)
    <3>1. CASE i = l
      <4>1. x \in 1..(n + c) /\ r[i] = s
        BY <1>3, <2>1, <3>1
      <4>2. CASE x < p
        BY <1>2, <3>1, <4>1, <4>2
      <4>3. CASE ~(x < p) /\ x < p + c
        <5>1. p <= x /\ x - p + a \in 1..Len(q[m]) /\ r[i][x] = q[m][x - p + a]
          BY <1>0, <1>2, <4>1, <4>3
        <5> QED
          BY <3>1, <4>3, <5>1
      <4>4. CASE ~(x < p + c)
        <5>1. ~(x < p) /\ p + c <= x
          BY <1>0, <4>4
        <5> QED
          BY <1>2, <3>1, <4>1, <4>4, <5>1
      <4> QED
        BY <4>2, <4>3, <4>4
    <3>2. CASE i = m
      <4>1. x \in 1..(o - c) /\ r[i] = t
        BY <1>5, <2>1, <3>2
      <4>2. CASE x < a
        BY <1>4, <3>2, <4>1, <4>2
      <4>3. CASE ~(x < a)
        <5>1. a <= x
          BY <1>0, <4>3
        <5> QED
          BY <1>4, <3>2, <4>1, <4>3, <5>1
      <4> QED
        BY <4>2, <4>3
    <3>3. CASE i # l /\ i # m
      BY <2>1, <3>3
    <3> QED
      BY <3>1, <3>2, <3>3
  <2>4. ASSUME NEW i \in DOMAIN r, NEW j \in DOMAIN r, NEW x \in 1..Len(r[i]), NEW y \in 1..Len(r[j]),
               r[i][x] = r[j][y]
        PROVE  i = j /\ x = y
    <3>0. x \in Nat /\ y \in Nat
      OBVIOUS
    <3> HIDE DEF Source
    <3>a. PICK i1 \in DOMAIN q : \E x1 \in 1..Len(q[i1]) : r[i][x] = q[i1][x1] /\ Source(i, x, i1, x1)
      BY <2>3
    <3>1. PICK x1 \in 1..Len(q[i1]) : r[i][x] = q[i1][x1] /\ Source(i, x, i1, x1)
      BY <3>a
    <3>b. PICK j1 \in DOMAIN q : \E y1 \in 1..Len(q[j1]) : r[j][y] = q[j1][y1] /\ Source(j, y, j1, y1)
      BY <2>3
    <3>2. PICK y1 \in 1..Len(q[j1]) : r[j][y] = q[j1][y1] /\ Source(j, y, j1, y1)
      BY <3>b
    <3>c. q[i1][x1] = q[j1][y1]
      BY <2>4, <3>1, <3>2
    <3>3. i1 = j1 /\ x1 = y1
      BY <3>c, OnePlace
    <3>4. Source(i, x, i1, x1) /\ Source(j, y, i1, x1)
      BY <3>1, <3>2, <3>3
    <3>d. x1 \in Nat
      OBVIOUS
    <3>5. CASE i1 = l
      <4>1. /\ i = l /\ ((x1 = x /\ x < p) \/ (x1 = x - c /\ p + c <= x))
            /\ j = l /\ ((x1 = y /\ y < p) \/ (x1 = y - c /\ p + c <= y))
        BY <3>4, <3>5 DEF Source
      <4> QED
        BY <1>0, <3>0, <3>d, <4>1
    <3>6. CASE i1 = m
      <4>i. \/ i = l /\ x1 = x - p + a /\ p <= x /\ x < p + c
            \/ i = m /\ x1 = x /\ x < a
            \/ i = m /\ x1 = x + c /\ a <= x
        BY <3>4, <3>6 DEF Source
      <4>j. \/ j = l /\ x1 = y - p + a /\ p <= y /\ y < p + c
            \/ j = m /\ x1 = y /\ y < a
            \/ j = m /\ x1 = y + c /\ a <= y
        BY <3>4, <3>6 DEF Source
      <4>2. CASE x1 < a
        <5>1. i = m /\ x = x1
          BY <1>0, <3>0, <3>d, <4>2, <4>i
        <5>2. j = m /\ y = x1
          BY <1>0, <3>0, <3>d, <4>2, <4>j
        <5> QED
          BY <5>1, <5>2
      <4>3. CASE a <= x1 /\ x1 < a + c
        <5>1. i = l /\ x = x1 + p - a
          BY <1>0, <3>0, <3>d, <4>3, <4>i
        <5>2. j = l /\ y = x1 + p - a
          BY <1>0, <3>0, <3>d, <4>3, <4>j
        <5> QED
          BY <5>1, <5>2
      <4>4. CASE a + c <= x1
        <5>1. i = m /\ x = x1 - c
          BY <1>0, <3>0, <3>d, <4>4, <4>i
        <5>2. j = m /\ y = x1 - c
          BY <1>0, <3>0, <3>d, <4>4, <4>j
        <5> QED
          BY <5>1, <5>2
      <4> QED
        BY <1>0, <3>d, <4>2, <4>3, <4>4
    <3>7. CASE i1 # l /\ i1 # m
      BY <3>4, <3>7 DEF Source
    <3> QED
      BY <3>5, <3>6, <3>7
  <2> QED
    BY <2>2, <2>4 DEF Contents
<1>b. Contents([q EXCEPT ![l] = s, ![m] = t])
  <2> HIDE DEF Spread
  <2> QED
    BY <1>a, <1>6
<1>8. ASSUME NEW k \in 0..(n + c + 1)
      PROVE  Node(l, s, k) = IF k < p THEN Node(l, q[l], k)
                             ELSE IF k < p + c THEN Node(m, q[m], k - p + a)
                             ELSE Node(l, q[l], k - c)
  <2>1. CASE k = 0
    BY <1>0, <1>1, <2>1 DEF Node
  <2>2. CASE k = n + c + 1
    <3>1. ~(k < p) /\ ~(k < p + c) /\ k - c = n + 1
      BY <1>0, <2>2
    <3>2. Node(l, s, k) = tail(l)
      BY <1>0, <1>3, <2>2 DEF Node
    <3> QED
      BY <1>1, <3>1, <3>2
  <2>3. CASE k \in 1..(n + c)
    <3>1. Node(l, s, k) = elem(s[k])
      BY <1>0, <1>3, <2>3 DEF Node
    <3> QED
      BY <1>1, <1>2, <2>3, <3>1
  <2> QED
    BY <1>0, <2>1, <2>2, <2>3
<1>9. ASSUME NEW k \in 0..(o - c + 1)
      PROVE  Node(m, t, k) = IF k < a THEN Node(m, q[m], k) ELSE Node(m, q[m], k + c)
  <2>1. CASE k = 0
    BY <1>0, <1>1, <2>1 DEF Node
  <2>2. CASE k = o - c + 1
    <3>1. ~(k < a) /\ k + c = o + 1
      BY <1>0, <2>2
    <3> QED
      BY <1>0, <1>1, <1>5, <2>2, <3>1 DEF Node
  <2>3. CASE k \in 1..(o - c)
    <3>1. Node(m, t, k) = elem(t[k])
      BY <1>0, <1>5, <2>3 DEF Node
    <3> QED
      BY <1>1, <1>4, <2>3, <3>1
  <2> QED
    BY <1>0, <2>1, <2>2, <2>3
<1>10. /\ n + b - a + 1 = n + c /\ o - (b - a) - 1 = o - c /\ n + b - a + 2 = n + c + 1
       /\ o - (b - a) = o - c + 1
  BY <1>0
<1>11. ASSUME NEW k \in 0..(n + b - a + 2)
       PROVE  Node(l, s, k) = IF k < p THEN Node(l, q[l], k)
                              ELSE IF k <= p + b - a THEN Node(m, q[m], k - p + a)
                              ELSE Node(l, q[l], k - (b - a) - 1)
  <2>1. k \in 0..(n + c + 1) /\ (k <= p + b - a <=> k < p + c) /\ k - (b - a) - 1 = k - c
    BY <1>0
  <2> QED
    BY <1>8, <2>1
<1>12. ASSUME NEW k \in 0..(o - (b - a))
       PROVE  Node(m, t, k) = IF k < a THEN Node(m, q[m], k) ELSE Node(m, q[m], k + b - a + 1)
  <2>1. k \in 0..(o - c + 1) /\ k + b - a + 1 = k + c
    BY <1>0
  <2> QED
    BY <1>9, <2>1
<1>13. JoinedNodes(q, l, m, p, a, b, s, t)
  BY <1>3, <1>5, <1>10, <1>11, <1>12 DEF JoinedNodes
<1> QED
  BY <1>b, <1>13

\* list_splice moves a range to another list.
LEMMA SpliceOver ==
    ASSUME NEW h, NEW q, Holds(h, q), NEW l \in DOMAIN q, NEW m \in DOMAIN q, l # m,
           NEW n, n = Len(q[l]), NEW o, o = Len(q[m]),
           NEW p \in 1..(n + 1), NEW a \in 1..o, NEW b \in 1..o, a <= b
    PROVE  Holds(list_splice(h, Node(l, q[l], p), Node(m, q[m], a), Node(m, q[m], b + 1)),
                 [q EXCEPT ![l] = Joined(q[l], p, q[m], a, b), ![m] = Without(q[m], a, b)])
<1> DEFINE w(k) == Node(l, q[l], k)
           v(k) == Node(m, q[m], k)
<1> PICK g, s, t : /\ g = list_splice(h, w(p), v(a), v(b + 1))
                   /\ s = Joined(q[l], p, q[m], a, b) /\ t = Without(q[m], a, b)
  OBVIOUS
<1>1. Contents(q) /\ ListAt(h, l, q[l]) /\ ListAt(h, m, q[m]) /\ h \in Heaps
  BY DEF Holds
<1>2. /\ n \in Nat /\ o \in Nat /\ p \in Nat /\ a \in Nat /\ b \in Nat
  <2>1. n \in Nat /\ o \in Nat
    BY <1>1, NodeType
  <2> QED
    BY <2>1
<1>3. /\ \A k \in 0..(n + 1) : w(k) \in Nodes
      /\ \A k \in 0..(o + 1) : v(k) \in Nodes
      /\ w(n + 1) = tail(l) /\ w(0) = head(l) /\ v(o + 1) = tail(m) /\ v(0) = head(m)
  BY <1>1, NodeType
<1>4. /\ \A k \in 0..n : h.next[w(k)] = w(k + 1) /\ h.prev[w(k + 1)] = w(k)
      /\ \A k \in 0..o : h.next[v(k)] = v(k + 1) /\ h.prev[v(k + 1)] = v(k)
      /\ h.prev[w(0)] = NULL /\ h.next[w(n + 1)] = NULL
      /\ h.prev[v(0)] = NULL /\ h.next[v(o + 1)] = NULL
  BY <1>1, <1>3 DEF ListAt
<1>5. /\ \A j, k \in 0..(n + 1) : w(j) = w(k) => j = k
      /\ \A j, k \in 0..(o + 1) : v(j) = v(k) => j = k
      /\ \A j \in 0..(n + 1), k \in 0..(o + 1) : w(j) # v(k)
  BY <1>1, NodeOnce
<1>6. /\ a - 1 \in 0..o /\ b \in 0..o /\ p - 1 \in 0..n /\ a - 1 \in 0..(o + 1) /\ b \in 0..(o + 1)
      /\ p - 1 \in 0..(n + 1) /\ b + 1 \in 0..(o + 1) /\ a \in 0..(o + 1) /\ p \in 0..(n + 1)
      /\ a # b + 1 /\ a - 1 # b /\ p - 1 + 1 = p /\ a - 1 + 1 = a
  BY <1>2
<1>7. /\ h.prev[v(b + 1)] = v(b) /\ h.next[v(b)] = v(b + 1) /\ h.prev[v(a)] = v(a - 1)
      /\ h.prev[w(p)] = w(p - 1)
  <2>1. h.prev[v(a - 1 + 1)] = v(a - 1) /\ h.prev[w(p - 1 + 1)] = w(p - 1)
    BY <1>4, <1>6
  <2> QED
    BY <1>4, <1>6, <2>1
<1>8. /\ w(p - 1) \in Nodes /\ w(p) \in Nodes /\ v(a - 1) \in Nodes /\ v(a) \in Nodes
      /\ v(b) \in Nodes /\ v(b + 1) \in Nodes
      /\ v(a) # v(b + 1) /\ w(p) # v(b + 1) /\ v(a - 1) # v(b) /\ w(p - 1) # v(a - 1)
      /\ w(p - 1) # v(b) /\ v(a) # w(p)
  BY <1>3, <1>5, <1>6
<1>9. /\ g.next = [h.next EXCEPT ![v(a - 1)] = v(b + 1), ![v(b)] = w(p), ![w(p - 1)] = v(a)]
      /\ g.prev = [h.prev EXCEPT ![v(b + 1)] = v(a - 1), ![v(a)] = w(p - 1), ![w(p)] = v(b)]
      /\ g \in Heaps
  <2> PICK A, B, L : A = v(a) /\ B = w(p) /\ L = v(b + 1)
    OBVIOUS
  <2>1. /\ A \in Nodes /\ B \in Nodes /\ L \in Nodes /\ h.prev[A] = v(a - 1) /\ h.prev[B] = w(p - 1)
        /\ h.prev[L] = v(b) /\ h.next[h.prev[L]] = L /\ A # L /\ B # L
        /\ h.prev[A] \in Nodes /\ h.prev[B] \in Nodes /\ h.prev[L] \in Nodes
    BY <1>7, <1>8
  <2>2. g = list_splice(h, B, A, L)
    OBVIOUS
  <2>3. Rewired(g, h, A, B, L)
    BY <1>1, <2>1, <2>2, SplicePointers
  <2> QED
    BY <2>1, <2>3 DEF Rewired
<1>10. /\ g.next[v(a - 1)] = v(b + 1) /\ g.next[v(b)] = w(p) /\ g.next[w(p - 1)] = v(a)
       /\ \A x \in Nodes \ {v(a - 1), v(b), w(p - 1)} : g.next[x] = h.next[x]
  <2> HIDE DEF w, v
  <2> QED
    BY <1>1, <1>8, <1>9, HeapType
<1>11. /\ g.prev[v(b + 1)] = v(a - 1) /\ g.prev[v(a)] = w(p - 1) /\ g.prev[w(p)] = v(b)
       /\ \A x \in Nodes \ {v(b + 1), v(a), w(p)} : g.prev[x] = h.prev[x]
  <2> HIDE DEF w, v
  <2> QED
    BY <1>1, <1>8, <1>9, HeapType
<1>12. /\ \A k \in 0..n \ {p - 1} : g.next[w(k)] = w(k + 1) /\ g.prev[w(k + 1)] = w(k)
       /\ \A k \in 0..o \ {a - 1, b} : g.next[v(k)] = v(k + 1) /\ g.prev[v(k + 1)] = v(k)
  <2>1. ASSUME NEW k \in 0..n \ {p - 1}
        PROVE  g.next[w(k)] = w(k + 1) /\ g.prev[w(k + 1)] = w(k)
    <3>1. k \in 0..(n + 1) /\ k + 1 \in 0..(n + 1) /\ k # p - 1 /\ k + 1 # p
      BY <1>2
    <3>2. w(k) \in Nodes \ {v(a - 1), v(b), w(p - 1)} /\ w(k + 1) \in Nodes \ {v(b + 1), v(a), w(p)}
      BY <1>3, <1>5, <1>6, <3>1
    <3> HIDE DEF w, v
    <3> QED
      BY <1>4, <1>10, <1>11, <3>2
  <2>2. ASSUME NEW k \in 0..o \ {a - 1, b}
        PROVE  g.next[v(k)] = v(k + 1) /\ g.prev[v(k + 1)] = v(k)
    <3>1. k \in 0..(o + 1) /\ k + 1 \in 0..(o + 1) /\ k # a - 1 /\ k # b /\ k + 1 # b + 1 /\ k + 1 # a
      BY <1>2
    <3>2. v(k) \in Nodes \ {v(a - 1), v(b), w(p - 1)} /\ v(k + 1) \in Nodes \ {v(b + 1), v(a), w(p)}
      BY <1>3, <1>5, <1>6, <3>1
    <3> HIDE DEF w, v
    <3> QED
      BY <1>4, <1>10, <1>11, <3>2
  <2> QED
    BY <2>1, <2>2
<1>13. /\ Contents([q EXCEPT ![l] = s, ![m] = t])
       /\ Len(s) = n + b - a + 1 /\ Len(t) = o - (b - a) - 1
       /\ \A k \in 0..(n + b - a + 2) :
             Node(l, s, k) = IF k < p THEN w(k)
                             ELSE IF k <= p + b - a THEN v(k - p + a)
                             ELSE w(k - (b - a) - 1)
       /\ \A k \in 0..(o - (b - a)) :
             Node(m, t, k) = IF k < a THEN v(k) ELSE v(k + b - a + 1)
  <2>1. Contents([q EXCEPT ![l] = s, ![m] = t])
    BY <1>1, ContentsOver
  <2>2. JoinedNodes(q, l, m, p, a, b, s, t)
    BY <1>1, ContentsOver
  <2> QED
    BY <2>1, <2>2 DEF JoinedNodes
<1>14. ListAt(g, l, s)
  <2>1. ASSUME NEW k \in 0..(n + b - a + 1)
        PROVE  g.next[Node(l, s, k)] = Node(l, s, k + 1) /\ g.prev[Node(l, s, k + 1)] = Node(l, s, k)
    <3>0. k \in 0..(n + b - a + 2) /\ k + 1 \in 0..(n + b - a + 2)
      BY <1>2
    <3> DEFINE N(j) == IF j < p THEN w(j)
                       ELSE IF j <= p + b - a THEN v(j - p + a)
                       ELSE w(j - (b - a) - 1)
    <3>1. Node(l, s, k) = N(k) /\ Node(l, s, k + 1) = N(k + 1)
      BY <1>13, <3>0
    <3>2. CASE k < p - 1
      <4>1. k < p /\ k + 1 < p /\ k \in 0..n \ {p - 1}
        BY <1>2, <3>2
      <4> QED
        BY <1>12, <3>1, <4>1
    <3>3. CASE k = p - 1
      <4>1. k < p /\ ~(k + 1 < p) /\ k + 1 <= p + b - a /\ k + 1 - p + a = a
        BY <1>2, <3>3
      <4>2. N(k) = w(p - 1) /\ N(k + 1) = v(a)
        BY <3>3, <4>1
      <4> QED
        BY <1>10, <1>11, <3>1, <4>2
    <3>4. CASE p - 1 < k /\ k < p + b - a
      <4>1. /\ ~(k < p) /\ ~(k + 1 < p) /\ k + 1 <= p + b - a /\ k <= p + b - a
            /\ k + 1 - p + a = k - p + a + 1 /\ k - p + a \in 0..o \ {a - 1, b}
        BY <1>2, <3>4
      <4>2. N(k) = v(k - p + a) /\ N(k + 1) = v(k - p + a + 1)
        BY <4>1
      <4> QED
        BY <1>12, <3>1, <4>1, <4>2
    <3>5. CASE k = p + b - a
      <4>1. /\ ~(k < p) /\ ~(k + 1 < p) /\ ~(k + 1 <= p + b - a) /\ k <= p + b - a
            /\ k - p + a = b /\ k + 1 - (b - a) - 1 = p
        BY <1>2, <3>5
      <4>2. N(k) = v(b) /\ N(k + 1) = w(p)
        BY <4>1
      <4> QED
        BY <1>10, <1>11, <3>1, <4>2
    <3>6. CASE p + b - a < k
      <4>1. /\ ~(k < p) /\ ~(k + 1 < p) /\ ~(k + 1 <= p + b - a) /\ ~(k <= p + b - a)
            /\ k + 1 - (b - a) - 1 = k - (b - a) - 1 + 1 /\ k - (b - a) - 1 \in 0..n \ {p - 1}
        BY <1>2, <3>6
      <4>2. N(k) = w(k - (b - a) - 1) /\ N(k + 1) = w(k - (b - a) - 1 + 1)
        BY <4>1
      <4> QED
        BY <1>12, <3>1, <4>1, <4>2
    <3>7. k < p - 1 \/ k = p - 1 \/ (p - 1 < k /\ k < p + b - a) \/ k = p + b - a \/ p + b - a < k
      <4>1. k \in Int
        BY <1>2
      <4> QED
        BY <1>2, <4>1
    <3> HIDE DEF N, w, v
    <3> QED
      BY <3>2, <3>3, <3>4, <3>5, <3>6, <3>7
  <2>2. g.prev[head(l)] = NULL /\ g.next[tail(l)] = NULL
    <3>1. 0 \in 0..(n + 1) /\ n + 1 \in 0..(n + 1) /\ 0 # p /\ n + 1 # p - 1
      BY <1>2
    <3>2. w(0) \in Nodes \ {v(b + 1), v(a), w(p)} /\ w(n + 1) \in Nodes \ {v(a - 1), v(b), w(p - 1)}
      BY <1>3, <1>5, <1>6, <3>1
    <3> QED
      BY <1>3, <1>4, <1>10, <1>11, <3>2
  <2> QED
    BY <1>13, <2>1, <2>2 DEF ListAt
<1>15. ListAt(g, m, t)
  <2>1. ASSUME NEW k \in 0..(o - (b - a) - 1)
        PROVE  g.next[Node(m, t, k)] = Node(m, t, k + 1) /\ g.prev[Node(m, t, k + 1)] = Node(m, t, k)
    <3>0. k \in 0..(o - (b - a)) /\ k + 1 \in 0..(o - (b - a))
      BY <1>2
    <3> DEFINE N(j) == IF j < a THEN v(j) ELSE v(j + b - a + 1)
    <3>1. Node(m, t, k) = N(k) /\ Node(m, t, k + 1) = N(k + 1)
      BY <1>13, <3>0
    <3>2. CASE k < a - 1
      <4>1. k < a /\ k + 1 < a /\ k \in 0..o \ {a - 1, b}
        BY <1>2, <3>2
      <4> QED
        BY <1>12, <3>1, <4>1
    <3>3. CASE k = a - 1
      <4>1. k < a /\ ~(k + 1 < a) /\ k + 1 + b - a + 1 = b + 1
        BY <1>2, <3>3
      <4>2. N(k) = v(a - 1) /\ N(k + 1) = v(b + 1)
        BY <3>3, <4>1
      <4> QED
        BY <1>10, <1>11, <3>1, <4>2
    <3>4. CASE a - 1 < k
      <4>1. /\ ~(k < a) /\ ~(k + 1 < a) /\ k + 1 + b - a + 1 = k + b - a + 1 + 1
            /\ k + b - a + 1 \in 0..o \ {a - 1, b}
        BY <1>2, <3>4
      <4>2. N(k) = v(k + b - a + 1) /\ N(k + 1) = v(k + b - a + 1 + 1)
        BY <4>1
      <4> QED
        BY <1>12, <3>1, <4>1, <4>2
    <3> QED
      BY <1>2, <3>2, <3>3, <3>4
  <2>2. g.prev[head(m)] = NULL /\ g.next[tail(m)] = NULL
    <3>1. 0 \in 0..(o + 1) /\ o + 1 \in 0..(o + 1) /\ 0 # a /\ 0 # b + 1 /\ o + 1 # a - 1 /\ o + 1 # b
      BY <1>2
    <3>2. v(0) \in Nodes \ {v(b + 1), v(a), w(p)} /\ v(o + 1) \in Nodes \ {v(a - 1), v(b), w(p - 1)}
      BY <1>3, <1>5, <1>6, <3>1
    <3> QED
      BY <1>3, <1>4, <1>10, <1>11, <3>2
  <2> QED
    BY <1>13, <2>1, <2>2 DEF ListAt
<1>16. ASSUME NEW i \in DOMAIN q \ {l, m}
       PROVE  ListAt(g, i, q[i])
  <2>1. Len(q[i]) \in Nat /\ ListAt(h, i, q[i])
    BY <1>1, NodeType DEF Holds
  <2>2. ASSUME NEW k \in 0..(Len(q[i]) + 1)
        PROVE  /\ g.next[Node(i, q[i], k)] = h.next[Node(i, q[i], k)]
               /\ g.prev[Node(i, q[i], k)] = h.prev[Node(i, q[i], k)]
    <3>1. Node(i, q[i], k) \in Nodes
      BY <1>1, NodeType
    <3>2. /\ \A j \in 0..(n + 1) : Node(i, q[i], k) # w(j)
          /\ \A j \in 0..(o + 1) : Node(i, q[i], k) # v(j)
      BY <1>1, NodeOnce
    <3>3. Node(i, q[i], k) \in Nodes \ {v(b + 1), v(a), w(p), v(a - 1), v(b), w(p - 1)}
      BY <1>6, <3>1, <3>2
    <3> QED
      BY <1>10, <1>11, <3>3
  <2> QED
    BY <2>1, <2>2, ListKept
<1> DEFINE after == [q EXCEPT ![l] = s, ![m] = t]
<1>17. /\ DOMAIN after = DOMAIN q /\ after[l] = s /\ after[m] = t
       /\ \A i \in DOMAIN q \ {l, m} : after[i] = q[i]
  BY <1>1 DEF Contents
<1>18. Contents(after)
  BY <1>13
<1>19. Holds(g, after)
  <2> HIDE DEF after
  <2>1. \A i \in DOMAIN after : ListAt(g, i, after[i])
    BY <1>14, <1>15, <1>16, <1>17
  <2> QED
    BY <1>9, <1>18, <2>1 DEF Holds
<1> QED
  BY <1>19

\* One more list, without items, and one less.
Plus(q, l) == [k \in DOMAIN q \union {l} |-> IF k = l THEN <<>> ELSE q[k]]

Minus(q, l) == [k \in DOMAIN q \ {l} |-> q[k]]

\* list_init makes a list without items.
LEMMA InitHolds ==
    ASSUME NEW h, NEW q, Holds(h, q), NEW l \in Lists, l \notin DOMAIN q
    PROVE  Holds(list_init(h, l), Plus(q, l))
<1> PICK g : g = list_init(h, l)
  OBVIOUS
<1> DEFINE r == [k \in DOMAIN q \union {l} |-> IF k = l THEN <<>> ELSE q[k]]
<1>1. Contents(q) /\ h \in Heaps /\ head(l) \in Nodes /\ tail(l) \in Nodes /\ head(l) # tail(l)
  BY NodeFacts DEF Holds
<1>2. DOMAIN r = DOMAIN q \union {l} /\ r[l] = <<>> /\ \A k \in DOMAIN q : r[k] = q[k]
  OBVIOUS
<1>3. g \in Heaps
  BY <1>1 DEF Heaps, list_init
<1>4. /\ g.next[head(l)] = tail(l) /\ g.next[tail(l)] = NULL
      /\ g.prev[head(l)] = NULL /\ g.prev[tail(l)] = head(l)
      /\ \A x \in Nodes \ {head(l), tail(l)} : g.next[x] = h.next[x] /\ g.prev[x] = h.prev[x]
  BY <1>1 DEF Heaps, list_init
<1>5. Contents(r)
  <2>1. r \in [DOMAIN r -> Seq(Items)] /\ DOMAIN r \subseteq Lists
    BY <1>1 DEF Contents
  <2>2. ASSUME NEW k \in DOMAIN r, NEW m \in DOMAIN r,
               NEW a \in 1..Len(r[k]), NEW b \in 1..Len(r[m]), r[k][a] = r[m][b]
        PROVE  k = m /\ a = b
    <3>1. k # l /\ m # l
      BY <1>2
    <3> QED
      BY <1>1, <1>2, <2>2, <3>1 DEF Contents
  <2> HIDE DEF r
  <2> QED
    BY <2>1, <2>2 DEF Contents
<1>6. ListAt(g, l, <<>>)
  <2>1. Node(l, <<>>, 0) = head(l) /\ Node(l, <<>>, 1) = tail(l)
    BY DEF Node
  <2>2. Len(<<>>) = 0 /\ \A k \in 0..0 : k = 0 /\ k + 1 = 1
    OBVIOUS
  <2> QED
    BY <1>4, <2>1, <2>2 DEF ListAt
<1>7. ASSUME NEW m \in DOMAIN q
      PROVE  ListAt(g, m, q[m])
  <2>1. Len(q[m]) \in Nat /\ ListAt(h, m, q[m]) /\ m # l
    BY <1>1, NodeType DEF Holds
  <2>2. ASSUME NEW k \in 0..(Len(q[m]) + 1)
        PROVE  Node(m, q[m], k) \in Nodes \ {head(l), tail(l)}
    <3>1. Node(m, q[m], k) \in Nodes
      BY <1>1, NodeType
    <3>2. Node(m, q[m], k) # head(l) /\ Node(m, q[m], k) # tail(l)
      BY <2>1, NodeFacts DEF Node
    <3> QED
      BY <3>1, <3>2
  <2> QED
    BY <1>4, <2>1, <2>2, ListKept
<1>8. Holds(g, r)
  <2> HIDE DEF r
  <2> QED
    BY <1>2, <1>3, <1>5, <1>6, <1>7 DEF Holds
<1> QED
  BY <1>8 DEF Plus

\* q with another contents of list l.
With(q, l, s) == [q EXCEPT ![l] = s]

\* What With does to the lists.
LEMMA WithIs ==
    ASSUME NEW h, NEW q, Holds(h, q), NEW l \in DOMAIN q, NEW s
    PROVE  /\ DOMAIN With(q, l, s) = DOMAIN q /\ With(q, l, s)[l] = s
           /\ \A m \in DOMAIN q \ {l} : With(q, l, s)[m] = q[m]
           /\ With(q, l, q[l]) = q
           /\ \A t : With(With(q, l, s), l, t) = With(q, l, t)
<1>1. q \in [DOMAIN q -> Seq(Items)]
  BY DEF Holds, Contents
<1> QED
  BY <1>1 DEF With

\* Inserting an item, in these terms.
LEMMA InsertGives ==
    ASSUME NEW h, NEW q, Holds(h, q), NEW l \in DOMAIN q, NEW p \in 1..(Len(q[l]) + 1),
           NEW i \in Items, \A m \in DOMAIN q : \A a \in 1..Len(q[m]) : q[m][a] # i
    PROVE  Holds(list_insert(h, Node(l, q[l], p), elem(i)), With(q, l, Put(q[l], p, i)))
<1>1. Holds(list_insert(h, Node(l, q[l], p), elem(i)), [q EXCEPT ![l] = Put(q[l], p, i)])
  BY InsertHolds
<1> QED
  BY <1>1 DEF With

-----------------------------------------------------------------------------
(* Searches *)

\* A round of F goes on along list l while it is at a place in C, and not yet at place t.
Searching(F, C, l, s, p, t) ==
    \A k \in p..t : F[Node(l, s, k)] = IF k # t /\ k \in C THEN Node(l, s, k + 1) ELSE Node(l, s, k)

\* A search from node p up to node t that goes on while it is at a place in C ends at the
\* first place that is not in C, or at t.
LEMMA Scan ==
    ASSUME NEW h, NEW q, Holds(h, q), NEW l \in DOMAIN q, NEW n, n = Len(q[l]),
           NEW p \in 1..(n + 1), NEW t \in 1..(n + 1), p <= t, NEW F, NEW C,
           Searching(F, C, l, q[l], p, t)
    PROVE  \E r \in p..t : /\ While(F, Node(l, q[l], p)) = Node(l, q[l], r)
                           /\ r = t \/ r \notin C
                           /\ \A j \in p..(r - 1) : j \in C
<1> DEFINE w(k) == Node(l, q[l], k)
           S == {w(k) : k \in {j \in p..t : \A i \in p..(j - 1) : i \in C}}
           at(y) == CHOOSE k \in p..t : w(k) = y
           rank == [y \in S |-> t - at(y)]
<1>1. Contents(q) /\ n \in Nat /\ n <= Rounds /\ Rounds \in Nat
  BY ListHeapAssumption, NodeType, LengthBound DEF Holds, Rounds
<1>2. \A k \in p..t : at(w(k)) = k
  <2>1. \A j, k \in p..t : w(j) = w(k) => j = k
    <3>1. \A j \in p..t : j \in 0..(n + 1)
      BY <1>1
    <3> QED
      BY <1>1, <3>1, NodeOnce
  <2> HIDE DEF w
  <2> QED
    BY <2>1
<1>3. ASSUME NEW k \in p..t, \A i \in p..(k - 1) : i \in C
      PROVE  w(k) \in S /\ rank[w(k)] = t - k
  <2>1. w(k) \in S
    BY <1>3
  <2> HIDE DEF S, at
  <2> QED
    BY <1>2, <2>1
<1>4. \A y \in S : \E k \in p..t : y = w(k) /\ \A i \in p..(k - 1) : i \in C
  OBVIOUS
<1>r. rank = [y \in S |-> rank[y]]
  <2> HIDE DEF S, at
  <2> QED
    OBVIOUS
<1> HIDE DEF S, rank, at, w
<1>5. w(p) \in S /\ rank[w(p)] <= Rounds
  <2>1. p \in p..t /\ p..(p - 1) = {} /\ t - p <= Rounds
    BY <1>1
  <2> QED
    BY <1>3, <2>1
<1>6. ASSUME NEW y \in S
      PROVE  rank[y] \in Nat /\ F[y] \in S /\ (F[y] = y \/ rank[F[y]] < rank[y])
  <2>1. PICK k \in p..t : y = w(k) /\ \A i \in p..(k - 1) : i \in C
    BY <1>4
  <2>2. rank[y] = t - k /\ t - k \in Nat
    BY <1>1, <1>3, <2>1
  <2>3. F[w(k)] = IF k # t /\ k \in C THEN w(k + 1) ELSE w(k)
    BY DEF w, Searching
  <2>4. CASE k # t /\ k \in C
    <3>1. k + 1 \in p..t /\ \A i \in p..(k + 1 - 1) : i \in C
      BY <1>1, <2>1, <2>4
    <3>2. w(k + 1) \in S /\ rank[w(k + 1)] = t - (k + 1)
      BY <1>3, <3>1
    <3>3. F[y] = w(k + 1)
      BY <2>1, <2>3, <2>4
    <3> QED
      BY <1>1, <2>2, <3>2, <3>3
  <2>5. CASE ~(k # t /\ k \in C)
    <3>1. F[y] = y
      BY <2>1, <2>3, <2>5
    <3> QED
      BY <2>2, <3>1
  <2> QED
    BY <2>4, <2>5
<1>7. While(F, w(p)) \in S /\ F[While(F, w(p))] = While(F, w(p))
  <2>1. rank \in [S -> Nat]
    BY <1>6, <1>r
  <2> QED
    BY <1>5, <1>6, <2>1, WhileEnds
<1>8. PICK r \in p..t : While(F, w(p)) = w(r) /\ \A i \in p..(r - 1) : i \in C
  BY <1>4, <1>7
<1>9. r = t \/ r \notin C
  <2> SUFFICES ASSUME r # t, r \in C PROVE FALSE
    OBVIOUS
  <2>1. F[w(r)] = w(r + 1) /\ r + 1 \in p..t
    BY <1>1 DEF w, Searching
  <2>2. w(r) = w(r + 1)
    BY <1>7, <1>8, <2>1
  <2>3. r = r + 1
    BY <1>2, <2>1, <2>2
  <2> QED
    BY <1>1, <2>3
<1> QED
  BY <1>8, <1>9 DEF w

\* list_insert_ordered inserts behind every item that is not greater.
LEMMA OrderedPlace ==
    ASSUME NEW h, NEW q, Holds(h, q), NEW l \in DOMAIN q, NEW n, n = Len(q[l]),
           NEW v \in [Items -> Int], NEW i \in Items
    PROVE  \E p \in 1..(n + 1) :
              /\ list_insert_ordered(h, v, l, elem(i)) = list_insert(h, Node(l, q[l], p), elem(i))
              /\ \A k \in 1..(p - 1) : v[q[l][k]] <= v[i]
              /\ p <= n => v[i] < v[q[l][p]]
<1> DEFINE w(k) == Node(l, q[l], k)
           F == [y \in Nodes |-> IF y # tail(l) /\ ~less(v, elem(i), y) THEN h.next[y] ELSE y]
           C == {k \in 1..n : ~(v[i] < v[q[l][k]])}
<1>1. Contents(q) /\ ListAt(h, l, q[l])
  BY DEF Holds
<1>2. /\ n \in Nat
      /\ \A k \in 0..(n + 1) : w(k) \in Nodes
      /\ \A k \in 1..n : w(k) = elem(q[l][k]) /\ q[l][k] \in Items
      /\ w(n + 1) = tail(l) /\ w(0) = head(l)
  BY <1>1, NodeType
<1>3. list_begin(h, l) = w(1)
  <2>1. 0 \in 0..Len(q[l]) /\ 0 + 1 = 1
    BY <1>2
  <2> QED
    BY <1>1, <1>2, <2>1 DEF list_begin, ListAt
<1>4. ASSUME NEW k \in 1..(n + 1)
      PROVE  F[w(k)] = IF k # n + 1 /\ k \in C THEN w(k + 1) ELSE w(k)
  <2>1. CASE k = n + 1
    BY <1>2, <2>1
  <2>2. CASE k # n + 1
    <3>1. k \in 1..n /\ k \in 0..Len(q[l])
      BY <1>2, <2>2
    <3>2. w(k) # tail(l) /\ w(k) \in Nodes /\ h.next[w(k)] = w(k + 1)
      BY <1>1, <1>2, <3>1, NodeFacts DEF ListAt
    <3>3. less(v, elem(i), w(k)) <=> v[i] < v[q[l][k]]
      BY <1>2, <3>1, NodeFacts DEF less
    <3> QED
      BY <2>2, <3>1, <3>2, <3>3
  <2> QED
    BY <2>1, <2>2
<1>5. PICK p \in 1..(n + 1) : /\ While(F, w(1)) = w(p) /\ (p = n + 1 \/ p \notin C)
                              /\ \A j \in 1..(p - 1) : j \in C
  <2>1. 1 \in 1..(n + 1) /\ n + 1 \in 1..(n + 1) /\ 1 <= n + 1
    BY <1>2
  <2>2. Searching(F, C, l, q[l], 1, n + 1)
    BY <1>4 DEF Searching
  <2> HIDE DEF F, C
  <2> QED
    BY <2>1, <2>2, Scan
<1>6. list_insert_ordered(h, v, l, elem(i)) = list_insert(h, w(p), elem(i))
  BY <1>3, <1>5 DEF list_insert_ordered
<1>7. ASSUME NEW k \in 1..(p - 1)
      PROVE  v[q[l][k]] <= v[i]
  <2>1. k \in 1..n /\ ~(v[i] < v[q[l][k]])
    BY <1>2, <1>5
  <2>2. v[i] \in Int /\ v[q[l][k]] \in Int
    BY <1>2, <2>1
  <2> QED
    BY <2>1, <2>2
<1>8. p <= n => v[i] < v[q[l][p]]
  BY <1>2, <1>5
<1> QED
  BY <1>6, <1>7, <1>8

\* A round of F keeps the better of two places, or the first if neither is better.
Choosing(F, l, s, u) ==
    \A k \in 2..(Len(s) + 1), a \in 1..Len(s) :
       F[[at |-> Node(l, s, k), best |-> Node(l, s, a)]] =
          IF k = Len(s) + 1 THEN [at |-> Node(l, s, k), best |-> Node(l, s, a)]
          ELSE [at |-> Node(l, s, k + 1), best |-> IF u[a] < u[k] THEN Node(l, s, k) ELSE Node(l, s, a)]

\* a is the first of the best places up to k.
FirstBest(u, k, a) == \A j \in 1..k : u[j] <= u[a] /\ (u[j] = u[a] => a <= j)

\* The first of the items with the greatest, or the smallest, values.
FirstGreatest(v, s, a) == FirstBest([k \in 1..Len(s) |-> v[s[k]]], Len(s), a)

FirstSmallest(v, s, a) == FirstBest([k \in 1..Len(s) |-> -v[s[k]]], Len(s), a)

\* Such a search ends with the first of the best places.
LEMMA BestFound ==
    ASSUME NEW h, NEW q, Holds(h, q), NEW l \in DOMAIN q, NEW n, n = Len(q[l]), n # 0,
           NEW u \in [1..n -> Int], NEW F, Choosing(F, l, q[l], u)
    PROVE  \E a \in 1..n :
              /\ While(F, [at |-> Node(l, q[l], 2), best |-> Node(l, q[l], 1)]).best = Node(l, q[l], a)
              /\ FirstBest(u, n, a)
<1> DEFINE w(k) == Node(l, q[l], k)
           y(k, a) == [at |-> w(k), best |-> w(a)]
           States == [at : Nodes, best : Nodes]
           S == {z \in States : \E k \in 2..(n + 1) : \E a \in 1..(k - 1) :
                                   z = y(k, a) /\ FirstBest(u, k - 1, a)}
           at(z) == CHOOSE k \in 2..(n + 1) : w(k) = z.at
           rank == [z \in S |-> n + 1 - at(z)]
<1>1. Contents(q) /\ n \in Nat \ {0} /\ n <= Rounds /\ Rounds \in Nat
  BY ListHeapAssumption, NodeType, LengthBound DEF Holds, Rounds
<1>2. \A k \in 0..(n + 1) : w(k) \in Nodes
  BY <1>1, NodeType
<1>3. \A k \in 2..(n + 1), a \in 1..n : at(y(k, a)) = k
  <2>1. \A j, k \in 2..(n + 1) : w(j) = w(k) => j = k
    <3>1. \A j \in 2..(n + 1) : j \in 0..(n + 1)
      BY <1>1
    <3> QED
      BY <1>1, <3>1, NodeOnce
  <2> HIDE DEF w
  <2> QED
    BY <2>1
<1>4. ASSUME NEW k \in 2..(n + 1), NEW a \in 1..(k - 1), FirstBest(u, k - 1, a)
      PROVE  y(k, a) \in S /\ rank[y(k, a)] = n + 1 - k
  <2>1. k \in 0..(n + 1) /\ a \in 0..(n + 1) /\ a \in 1..n
    BY <1>1
  <2>2. y(k, a) \in States
    BY <1>2, <2>1
  <2>3. y(k, a) \in S
    BY <1>4, <2>2
  <2> HIDE DEF S, at, y
  <2> QED
    BY <1>3, <2>1, <2>3
<1>5. \A z \in S : \E k \in 2..(n + 1) : \E a \in 1..(k - 1) : z = y(k, a) /\ FirstBest(u, k - 1, a)
  OBVIOUS
<1>r. rank = [z \in S |-> rank[z]]
  <2> HIDE DEF S, at
  <2> QED
    OBVIOUS
<1>y. \A k, a : y(k, a).best = w(a) /\ y(k, a).at = w(k)
  OBVIOUS
<1>F. \A k \in 2..(n + 1), a \in 1..n :
         F[y(k, a)] = IF k = n + 1 THEN y(k, a) ELSE y(k + 1, IF u[a] < u[k] THEN k ELSE a)
  BY DEF Choosing
<1> HIDE DEF S, rank, at, y
<1>6. y(2, 1) \in S /\ rank[y(2, 1)] <= Rounds
  <2>1. 2 \in 2..(n + 1) /\ 1 \in 1..(2 - 1) /\ n + 1 - 2 <= Rounds
    BY <1>1
  <2>2. FirstBest(u, 2 - 1, 1)
    BY <1>1 DEF FirstBest
  <2> QED
    BY <1>4, <2>1, <2>2
<1>7. ASSUME NEW z \in S
      PROVE  rank[z] \in Nat /\ F[z] \in S /\ (F[z] = z \/ rank[F[z]] < rank[z])
  <2>a. PICK k \in 2..(n + 1) : \E a \in 1..(k - 1) : z = y(k, a) /\ FirstBest(u, k - 1, a)
    BY <1>5
  <2>1. PICK a \in 1..(k - 1) : z = y(k, a) /\ FirstBest(u, k - 1, a)
    BY <2>a
  <2>2. rank[z] = n + 1 - k /\ n + 1 - k \in Nat /\ a \in 1..n
    BY <1>1, <1>4, <2>1
  <2>3. F[z] = IF k = n + 1 THEN z ELSE y(k + 1, IF u[a] < u[k] THEN k ELSE a)
    BY <1>F, <2>1, <2>2
  <2>4. CASE k = n + 1
    BY <2>2, <2>3, <2>4
  <2>5. CASE k # n + 1
    <3> PICK b : b = IF u[a] < u[k] THEN k ELSE a
      OBVIOUS
    <3>1. k \in 1..n /\ k + 1 \in 2..(n + 1) /\ k + 1 - 1 = k /\ b \in 1..k
      BY <1>1, <2>5
    <3>2. FirstBest(u, k, b)
      <4>1. ASSUME NEW j \in 1..k
            PROVE  u[j] <= u[b] /\ (u[j] = u[b] => b <= j)
        <5>1. j \in Int /\ k \in Int /\ a \in Int /\ u[j] \in Int /\ u[k] \in Int /\ u[a] \in Int
          BY <1>1, <2>2, <3>1
        <5>2. CASE j = k
          BY <5>1, <5>2, <3>1
        <5>3. CASE j # k
          <6>1. j \in 1..(k - 1)
            BY <5>1, <5>3
          <6>2. u[j] <= u[a] /\ (u[j] = u[a] => a <= j)
            BY <2>1, <6>1 DEF FirstBest
          <6> QED
            BY <5>1, <6>2
        <5> QED
          BY <5>2, <5>3
      <4> QED
        BY <4>1 DEF FirstBest
    <3>3. y(k + 1, b) \in S /\ rank[y(k + 1, b)] = n + 1 - (k + 1)
      BY <1>4, <3>1, <3>2
    <3>4. F[z] = y(k + 1, b)
      BY <2>3, <2>5
    <3> QED
      BY <1>1, <2>2, <3>1, <3>3, <3>4
  <2> QED
    BY <2>4, <2>5
<1>8. While(F, y(2, 1)) \in S /\ F[While(F, y(2, 1))] = While(F, y(2, 1))
  <2>1. rank \in [S -> Nat]
    BY <1>7, <1>r
  <2> QED
    BY <1>6, <1>7, <2>1, WhileEnds
<1>9a. PICK k \in 2..(n + 1) : \E a \in 1..(k - 1) : While(F, y(2, 1)) = y(k, a) /\ FirstBest(u, k - 1, a)
  BY <1>5, <1>8
<1>9. PICK a \in 1..(k - 1) : While(F, y(2, 1)) = y(k, a) /\ FirstBest(u, k - 1, a)
  BY <1>9a
<1>10. k = n + 1
  <2> SUFFICES ASSUME k # n + 1 PROVE FALSE
    OBVIOUS
  <2> PICK b : b = IF u[a] < u[k] THEN k ELSE a
    OBVIOUS
  <2>1. a \in 1..n /\ k \in 0..(n + 1) /\ k + 1 \in 0..(n + 1)
    BY <1>1
  <2>2. F[y(k, a)] = y(k + 1, b)
    BY <1>F, <2>1
  <2>3. w(k + 1) = w(k)
    BY <1>8, <1>9, <1>y, <2>2
  <2>4. k + 1 = k
    BY <1>1, <2>1, <2>3, NodeOnce
  <2> QED
    BY <2>4
<1>11. While(F, y(2, 1)).best = w(a) /\ FirstBest(u, n, a) /\ a \in 1..n
  BY <1>1, <1>9, <1>10, <1>y
<1> QED
  BY <1>11 DEF y

\* list_max finds the first of the greatest items, list_min the first of the smallest.
LEMMA ExtremesFound ==
    ASSUME NEW h, NEW q, Holds(h, q), NEW l \in DOMAIN q, NEW n, n = Len(q[l]), n # 0,
           NEW v \in [Items -> Int]
    PROVE  /\ \E a \in 1..n : list_max(h, v, l) = elem(q[l][a]) /\ FirstGreatest(v, q[l], a)
           /\ \E a \in 1..n : list_min(h, v, l) = elem(q[l][a]) /\ FirstSmallest(v, q[l], a)
<1> DEFINE w(k) == Node(l, q[l], k)
<1>1. Contents(q) /\ ListAt(h, l, q[l])
  BY DEF Holds
<1>2. /\ n \in Nat \ {0}
      /\ \A k \in 0..(n + 1) : w(k) \in Nodes
      /\ \A k \in 1..n : w(k) = elem(q[l][k]) /\ q[l][k] \in Items /\ w(k) # tail(l)
      /\ w(n + 1) = tail(l) /\ w(0) = head(l)
  BY <1>1, NodeType, NodeFacts
<1>3. list_begin(h, l) = w(1) /\ w(1) # tail(l) /\ h.next[w(1)] = w(2)
  <2>1. 0 \in 0..Len(q[l]) /\ 1 \in 0..Len(q[l]) /\ 0 + 1 = 1 /\ 1 + 1 = 2 /\ 1 \in 1..n
    BY <1>2
  <2> QED
    BY <1>1, <1>2, <2>1 DEF list_begin, ListAt
<1>4. ~list_empty(h, l)
  BY <1>3 DEF list_empty, list_end
<1>5. ASSUME NEW k \in 2..(n + 1)
      PROVE  k \in 1..(n + 1) /\ w(k) \in Nodes /\ (w(k) = tail(l) <=> k = n + 1)
             /\ (k # n + 1 => k \in 1..n /\ h.next[w(k)] = w(k + 1))
  <2>1. k \in 0..(n + 1) /\ k \in 1..(n + 1) /\ (k # n + 1 => k \in 1..n /\ k \in 0..n)
    BY <1>2
  <2> QED
    BY <1>1, <1>2, <2>1 DEF ListAt
<1>6. ASSUME NEW B, NEW u \in [1..n -> Int],
             \A a, k \in 1..n : <<w(a), w(k)>> \in B <=> u[a] < u[k]
      PROVE  Choosing([y \in [at : Nodes, best : Nodes] |->
                         IF y.at = tail(l) THEN y
                         ELSE [at |-> h.next[y.at], best |-> IF <<y.best, y.at>> \in B THEN y.at ELSE y.best]],
                      l, q[l], u)
  <2> DEFINE F == [y \in [at : Nodes, best : Nodes] |->
                     IF y.at = tail(l) THEN y
                     ELSE [at |-> h.next[y.at], best |-> IF <<y.best, y.at>> \in B THEN y.at ELSE y.best]]
  <2>1. ASSUME NEW k \in 2..(n + 1), NEW a \in 1..n
        PROVE  F[[at |-> w(k), best |-> w(a)]] =
                  IF k = n + 1 THEN [at |-> w(k), best |-> w(a)]
                  ELSE [at |-> w(k + 1), best |-> IF u[a] < u[k] THEN w(k) ELSE w(a)]
    <3>1. w(a) \in Nodes /\ w(k) \in Nodes
      BY <1>2, <1>5
    <3>2. F[[at |-> w(k), best |-> w(a)]] =
             IF w(k) = tail(l) THEN [at |-> w(k), best |-> w(a)]
             ELSE [at |-> h.next[w(k)], best |-> IF <<w(a), w(k)>> \in B THEN w(k) ELSE w(a)]
      <4> HIDE DEF w
      <4> QED
        BY <3>1
    <3> HIDE DEF F, w
    <3>3. CASE k = n + 1
      BY <1>5, <3>2, <3>3
    <3>4. CASE k # n + 1
      <4>1. <<w(a), w(k)>> \in B <=> u[a] < u[k]
        BY <1>5, <1>6, <3>4
      <4>2. F[[at |-> w(k), best |-> w(a)]] =
              [at |-> w(k + 1), best |-> IF <<w(a), w(k)>> \in B THEN w(k) ELSE w(a)]
        BY <1>5, <3>2, <3>4
      <4> QED
        BY <3>4, <4>1, <4>2
    <3> QED
      BY <3>3, <3>4
  <2> HIDE DEF F
  <2>2. Choosing(F, l, q[l], u)
    BY <2>1 DEF Choosing
  <2> QED
    BY <2>2 DEF F
<1>7. \E a \in 1..n : /\ list_max(h, v, l) = elem(q[l][a])
                      /\ FirstBest([k \in 1..n |-> v[q[l][k]]], n, a)
  <2> DEFINE F == [y \in [at : Nodes, best : Nodes] |->
                     IF y.at = tail(l) THEN y
                     ELSE [at |-> h.next[y.at],
                           best |-> IF less(v, y.best, y.at) THEN y.at ELSE y.best]]
             B == {z \in Nodes \X Nodes : less(v, z[1], z[2])}
             u == [k \in 1..n |-> v[q[l][k]]]
  <2>1. u \in [1..n -> Int]
    BY <1>2
  <2>2. \A x, z \in Nodes : <<x, z>> \in B <=> less(v, x, z)
    BY DEF less
  <2>3. \A a, k \in 1..n : <<w(a), w(k)>> \in B <=> u[a] < u[k]
    <3>1. \A a \in 1..n : w(a) \in Nodes /\ v[w(a)[2]] = u[a]
      BY <1>2, NodeFacts
    <3> HIDE DEF B, u, w
    <3> QED
      BY <2>2, <3>1 DEF less
  <2>4. F = [y \in [at : Nodes, best : Nodes] |->
               IF y.at = tail(l) THEN y
               ELSE [at |-> h.next[y.at], best |-> IF <<y.best, y.at>> \in B THEN y.at ELSE y.best]]
    <3>1. \A y \in [at : Nodes, best : Nodes] : <<y.best, y.at>> \in B <=> less(v, y.best, y.at)
      <4> HIDE DEF B
      <4> QED
        BY <2>2
    <3> HIDE DEF B
    <3> QED
      BY <3>1
  <2>5. Choosing(F, l, q[l], u)
    <3> HIDE DEF B, u
    <3> QED
      BY <1>6, <2>1, <2>2, <2>3, <2>4
  <2>6. list_max(h, v, l) = While(F, [at |-> w(2), best |-> w(1)]).best
    BY <1>3, <1>4 DEF list_max, Extreme
  <2> HIDE DEF F, u
  <2>7. \E a \in 1..n : /\ While(F, [at |-> w(2), best |-> w(1)]).best = w(a) /\ FirstBest(u, n, a)
    BY <2>1, <2>5, BestFound
  <2> QED
    BY <1>2, <2>6, <2>7 DEF u
<1>8. \E a \in 1..n : /\ list_min(h, v, l) = elem(q[l][a])
                      /\ FirstBest([k \in 1..n |-> -v[q[l][k]]], n, a)
  <2> DEFINE F == [y \in [at : Nodes, best : Nodes] |->
                     IF y.at = tail(l) THEN y
                     ELSE [at |-> h.next[y.at],
                           best |-> IF less(v, y.at, y.best) THEN y.at ELSE y.best]]
             B == {z \in Nodes \X Nodes : less(v, z[2], z[1])}
             u == [k \in 1..n |-> -v[q[l][k]]]
  <2>1. u \in [1..n -> Int]
    BY <1>2
  <2>2. \A x, z \in Nodes : <<x, z>> \in B <=> less(v, z, x)
    BY DEF less
  <2>3. \A a, k \in 1..n : <<w(a), w(k)>> \in B <=> u[a] < u[k]
    <3>1. \A a \in 1..n : w(a) \in Nodes /\ -v[w(a)[2]] = u[a] /\ v[w(a)[2]] \in Int
      BY <1>2, NodeFacts
    <3>2. \A a, k \in 1..n : u[a] < u[k] <=> v[w(k)[2]] < v[w(a)[2]]
      <4> HIDE DEF u, w
      <4> QED
        BY <3>1
    <3> HIDE DEF B, u, w
    <3> QED
      BY <2>2, <3>1, <3>2 DEF less
  <2>4. F = [y \in [at : Nodes, best : Nodes] |->
               IF y.at = tail(l) THEN y
               ELSE [at |-> h.next[y.at], best |-> IF <<y.best, y.at>> \in B THEN y.at ELSE y.best]]
    <3>1. \A y \in [at : Nodes, best : Nodes] : <<y.best, y.at>> \in B <=> less(v, y.at, y.best)
      <4> HIDE DEF B
      <4> QED
        BY <2>2
    <3> HIDE DEF B
    <3> QED
      BY <3>1
  <2>5. Choosing(F, l, q[l], u)
    <3> HIDE DEF B, u
    <3> QED
      BY <1>6, <2>1, <2>2, <2>3, <2>4
  <2>6. list_min(h, v, l) = While(F, [at |-> w(2), best |-> w(1)]).best
    BY <1>3, <1>4 DEF list_min, Extreme
  <2> HIDE DEF F, u
  <2>7. \E a \in 1..n : /\ While(F, [at |-> w(2), best |-> w(1)]).best = w(a) /\ FirstBest(u, n, a)
    BY <2>1, <2>5, BestFound
  <2> QED
    BY <1>2, <2>6, <2>7 DEF u
<1> QED
  BY <1>7, <1>8 DEF FirstGreatest, FirstSmallest

-----------------------------------------------------------------------------
(* The lists that a heap holds *)

\* The items on the lists of q.
Listed(q) == {i \in Items : \E l \in DOMAIN q : \E k \in 1..Len(q[l]) : q[l][k] = i}

\* Walking the lists of a heap that holds q gives q.
LEMMA WalksGive ==
    ASSUME NEW h, NEW q, Holds(h, q), NEW l \in DOMAIN q, NEW c, c = Walk(h, list_begin(h, l), tail(l))
    PROVE  [k \in 1..Len(c) |-> c[k][2]] = q[l]
<1> PICK n : n = Len(q[l])
  OBVIOUS
<1>1. n \in Nat /\ q[l] \in Seq(Items)
  BY NodeType DEF Holds, Contents
<1>2. c = [k \in 1..n |-> elem(q[l][k])]
  BY WalkIs
<1>3. Len(c) = n /\ \A k \in 1..n : c[k][2] = q[l][k]
  BY <1>1, <1>2, NodeFacts
<1>4. q[l] = [k \in 1..n |-> q[l][k]]
  BY <1>1
<1> QED
  BY <1>3, <1>4

-----------------------------------------------------------------------------
(* Sequences *)

\* A part of a sequence, index by index.
LEMMA PartOf ==
    ASSUME NEW s \in Seq(Items), NEW a \in 1..(Len(s) + 1), NEW b \in 0..Len(s), a <= b + 1
    PROVE  /\ SubSeq(s, a, b) \in Seq(Items) /\ Len(SubSeq(s, a, b)) = b - a + 1
           /\ \A k \in 1..(b - a + 1) : SubSeq(s, a, b)[k] = s[k + a - 1]
<1>1. Len(s) \in Nat /\ SubSeq(s, a, b) = [k \in 1..(b - a + 1) |-> s[a + k - 1]]
  OBVIOUS
<1>2. \A k \in 1..(b - a + 1) : k + a - 1 \in 1..Len(s) /\ a + k - 1 = k + a - 1
  BY <1>1
<1>3. \A k \in 1..(b - a + 1) : s[k + a - 1] \in Items
  BY <1>2
<1> PICK u, m : u = SubSeq(s, a, b) /\ m = b - a + 1
  OBVIOUS
<1>4. m \in Nat
  BY <1>1
<1>5. u = [k \in 1..m |-> s[k + a - 1]]
  BY <1>1, <1>2
<1>6. \A k \in 1..m : s[k + a - 1] \in Items
  BY <1>3
<1>7. u \in Seq(Items) /\ Len(u) = m
  BY <1>4, <1>5, <1>6
<1> QED
  BY <1>5, <1>7

\* Two sequences one after the other, index by index.
LEMMA Chain ==
    ASSUME NEW s \in Seq(Items), NEW t \in Seq(Items)
    PROVE  /\ s \o t \in Seq(Items) /\ Len(s \o t) = Len(s) + Len(t)
           /\ Len(s) \in Nat /\ Len(t) \in Nat
           /\ \A k \in 1..(Len(s) + Len(t)) : (s \o t)[k] = IF k <= Len(s) THEN s[k] ELSE t[k - Len(s)]
OBVIOUS

\* A function on the numbers up to n.
Array(t, n) == t = [k \in 1..n |-> t[k]]

\* A sequence is what it is at its indexes.
LEMMA SameSeq ==
    ASSUME NEW s \in Seq(Items), NEW t, NEW n, Array(t, n), Len(s) = n,
           \A k \in 1..n : s[k] = t[k]
    PROVE  s = t
<1>1. s = [k \in 1..n |-> s[k]]
  OBVIOUS
<1> QED
  BY <1>1 DEF Array

\* T is a permutation of 1..n, and Arranged puts what is at T[k] to k.
Permutation(T, n) == T \in [1..n -> 1..n] /\ \A a, b \in 1..n : T[a] = T[b] => a = b

Arranged(s, T) == [k \in 1..Len(s) |-> s[T[k]]]

\* Every place is that of some item.
LEMMA Onto ==
    ASSUME NEW n \in Nat, NEW T, Permutation(T, n), NEW k \in 1..n
    PROVE  \E j \in 1..n : T[j] = k
<1>1. T \in Injection(1..n, 1..n)
  BY DEF Permutation, Injection, IsInjective
<1>2. IsFiniteSet(1..n)
  BY CountTo
<1>3. T \in Surjection(1..n, 1..n)
  BY <1>1, <1>2, FS_Injection, Zenon
<1> QED
  BY <1>3 DEF Surjection

\* Which items are on the lists after one of them has changed.
LEMMA ListedWith ==
    ASSUME NEW h, NEW q, Holds(h, q), NEW l \in DOMAIN q, NEW t, NEW i
    PROVE  i \in Listed(With(q, l, t)) <=>
              i \in Items /\ ((\E k \in 1..Len(t) : t[k] = i)
                               \/ \E m \in DOMAIN q \ {l} : \E k \in 1..Len(q[m]) : q[m][k] = i)
<1> PICK r : r = With(q, l, t)
  OBVIOUS
<1>1. DOMAIN r = DOMAIN q /\ r[l] = t /\ \A m \in DOMAIN q \ {l} : r[m] = q[m]
  BY WithIs
<1> QED
  BY <1>1 DEF Listed

\* A permutation of a list keeps its items.
LEMMA ListedArranged ==
    ASSUME NEW h, NEW q, Holds(h, q), NEW l \in DOMAIN q, NEW T, Permutation(T, Len(q[l]))
    PROVE  Listed(With(q, l, Arranged(q[l], T))) = Listed(q)
<1> PICK s, n, t : s = q[l] /\ n = Len(s) /\ t = Arranged(s, T)
  OBVIOUS
<1>1. n \in Nat /\ Len(t) = n /\ \A k \in 1..n : t[k] = s[T[k]] /\ T[k] \in 1..n
  <2>1. n \in Nat
    BY NodeType DEF Holds
  <2> QED
    BY <2>1 DEF Arranged, Permutation
<1>2. \A k \in 1..n : \E j \in 1..n : T[j] = k
  BY <1>1, Onto
<1>3. ASSUME NEW i
      PROVE  (\E k \in 1..Len(t) : t[k] = i) <=> (\E k \in 1..Len(s) : s[k] = i)
  <2>1. ASSUME NEW k \in 1..n, t[k] = i
        PROVE  \E j \in 1..Len(s) : s[j] = i
    BY <1>1, <2>1
  <2>2. ASSUME NEW k \in 1..n, s[k] = i
        PROVE  \E j \in 1..Len(t) : t[j] = i
    <3>1. PICK j \in 1..n : T[j] = k
      BY <1>2
    <3>2. t[j] = i
      BY <1>1, <2>2, <3>1
    <3> QED
      BY <1>1, <3>2
  <2> QED
    BY <1>1, <2>1, <2>2
<1>4. ASSUME NEW i
      PROVE  i \in Listed(With(q, l, t)) <=> i \in Listed(q)
  <2>1. i \in Listed(With(q, l, t)) <=>
           i \in Items /\ ((\E k \in 1..Len(t) : t[k] = i)
                            \/ \E m \in DOMAIN q \ {l} : \E k \in 1..Len(q[m]) : q[m][k] = i)
    BY ListedWith
  <2>2. i \in Listed(q) <=>
           i \in Items /\ ((\E k \in 1..Len(s) : s[k] = i)
                            \/ \E m \in DOMAIN q \ {l} : \E k \in 1..Len(q[m]) : q[m][k] = i)
    BY DEF Listed
  <2> QED
    BY <1>3, <2>1, <2>2
<1>5. Listed(With(q, l, t)) = Listed(q)
  BY <1>4
<1> QED
  BY <1>5

\* What list_reverse, list_swap and list_splice within a list do are permutations.
LEMMA Permutations ==
    ASSUME NEW s, NEW n \in Nat, n = Len(s)
    PROVE  /\ \E T : Permutation(T, n) /\ Reversed(s) = Arranged(s, T)
           /\ \A a, b \in 1..n : \E T : Permutation(T, n) /\ Swapped(s, a, b) = Arranged(s, T)
           /\ \A p, a, b \in 1..n : p < a /\ a <= b =>
                 \E T : Permutation(T, n) /\ Moved(s, p, a, b) = Arranged(s, T)
<1>1. \E T : Permutation(T, n) /\ Reversed(s) = Arranged(s, T)
  <2> DEFINE T == [k \in 1..n |-> n + 1 - k]
  <2>1. Permutation(T, n)
    BY DEF Permutation
  <2>2. Reversed(s) = Arranged(s, T)
    BY DEF Arranged, Reversed
  <2> QED
    BY <2>1, <2>2
<1>2. ASSUME NEW a \in 1..n, NEW b \in 1..n
      PROVE  \E T : Permutation(T, n) /\ Swapped(s, a, b) = Arranged(s, T)
  <2> DEFINE T == [k \in 1..n |-> IF k = a THEN b ELSE IF k = b THEN a ELSE k]
  <2>1. Permutation(T, n)
    BY DEF Permutation
  <2>2. Swapped(s, a, b) = Arranged(s, T)
    BY DEF Arranged, Swapped
  <2> QED
    BY <2>1, <2>2
<1>3. ASSUME NEW p \in 1..n, NEW a \in 1..n, NEW b \in 1..n, p < a, a <= b
      PROVE  \E T : Permutation(T, n) /\ Moved(s, p, a, b) = Arranged(s, T)
  <2> DEFINE T == [k \in 1..n |-> From(p, a, b, k)]
  <2>1. T \in [1..n -> 1..n]
    BY <1>3 DEF From
  <2>2. \A j, k \in 1..n : From(p, a, b, j) = From(p, a, b, k) => j = k
    BY <1>3 DEF From
  <2>3. Permutation(T, n)
    BY <2>1, <2>2 DEF Permutation
  <2>4. Moved(s, p, a, b) = Arranged(s, T)
    BY DEF Arranged, Moved
  <2> QED
    BY <2>3, <2>4
<1> QED
  BY <1>1, <1>2, <1>3

-----------------------------------------------------------------------------
(* An item more, an item less *)

\* The items that are on a list after an insertion.
LEMMA ListedPut ==
    ASSUME NEW h, NEW q, Holds(h, q), NEW l \in DOMAIN q, NEW p \in 1..(Len(q[l]) + 1), NEW i \in Items
    PROVE  Listed(With(q, l, Put(q[l], p, i))) = Listed(q) \union {i}
<1> PICK s, n, r : s = q[l] /\ n = Len(s) /\ r = With(q, l, Put(s, p, i))
  OBVIOUS
<1>1. n \in Nat /\ s \in Seq(Items)
  BY DEF Holds, Contents
<1>4. /\ Len(Put(s, p, i)) = n + 1
      /\ \A k \in 1..(n + 1) : Put(s, p, i)[k] = IF k < p THEN s[k] ELSE IF k = p THEN i ELSE s[k - 1]
  BY <1>1 DEF Put
<1>5. ASSUME NEW j
      PROVE  (\E k \in 1..(n + 1) : Put(s, p, i)[k] = j) <=> (\E k \in 1..n : s[k] = j) \/ j = i
  <2>1. ASSUME NEW k \in 1..(n + 1), Put(s, p, i)[k] = j, j # i
        PROVE  \E m \in 1..n : s[m] = j
    <3>1. CASE k < p
      BY <1>1, <1>4, <2>1, <3>1
    <3>2. CASE ~(k < p)
      <4>1. k # p /\ k - 1 \in 1..n /\ s[k - 1] = j
        BY <1>1, <1>4, <2>1, <3>2
      <4> QED
        BY <4>1
    <3> QED
      BY <3>1, <3>2
  <2>2. ASSUME NEW k \in 1..n, s[k] = j
        PROVE  \E m \in 1..(n + 1) : Put(s, p, i)[m] = j
    <3>1. CASE k < p
      BY <1>1, <1>4, <2>2, <3>1
    <3>2. CASE ~(k < p)
      <4>1. k + 1 \in 1..(n + 1) /\ ~(k + 1 < p) /\ k + 1 # p /\ k + 1 - 1 = k
        BY <1>1, <3>2
      <4>2. Put(s, p, i)[k + 1] = s[k + 1 - 1]
        BY <1>4, <4>1
      <4> QED
        BY <2>2, <4>1, <4>2
    <3> QED
      BY <3>1, <3>2
  <2>3. Put(s, p, i)[p] = i
    BY <1>1, <1>4
  <2> QED
    BY <2>1, <2>2, <2>3
<1>6. ASSUME NEW j \in Items
      PROVE  j \in Listed(r) <=> j \in Listed(q) \/ j = i
  <2>1. j \in Listed(r) <=> ((\E k \in 1..(n + 1) : Put(s, p, i)[k] = j)
                              \/ \E m \in DOMAIN q \ {l} : \E k \in 1..Len(q[m]) : q[m][k] = j)
    BY <1>1, <1>4, ListedWith
  <2>2. j \in Listed(q) <=> ((\E k \in 1..n : s[k] = j)
                              \/ \E m \in DOMAIN q \ {l} : \E k \in 1..Len(q[m]) : q[m][k] = j)
    BY <1>1 DEF Listed
  <2> QED
    BY <1>5, <2>1, <2>2
<1>7. \A j \in Listed(r) \union Listed(q) : j \in Items
  BY DEF Listed
<1>8. Listed(r) = Listed(q) \union {i}
  BY <1>6, <1>7
<1> QED
  BY <1>8

\* The items that are on a list after a removal.
LEMMA ListedDrop ==
    ASSUME NEW h, NEW q, Holds(h, q), NEW l \in DOMAIN q, NEW p \in 1..Len(q[l])
    PROVE  Listed(With(q, l, Drop(q[l], p))) = Listed(q) \ {q[l][p]}
<1> PICK s, n, i, r : s = q[l] /\ n = Len(s) /\ i = s[p] /\ r = With(q, l, Drop(s, p))
  OBVIOUS
<1>1. n \in Nat /\ s \in Seq(Items) /\ Contents(q)
  BY DEF Holds, Contents
<1>4. Len(Drop(s, p)) = n - 1 /\ \A k \in 1..(n - 1) : Drop(s, p)[k] = IF k < p THEN s[k] ELSE s[k + 1]
  BY <1>1 DEF Drop
<1>5. ASSUME NEW j
      PROVE  (\E k \in 1..(n - 1) : Drop(s, p)[k] = j) <=> (\E k \in 1..n : s[k] = j) /\ j # i
  <2>0. \A a, b \in 1..n : s[a] = s[b] => a = b
    BY <1>1 DEF Contents
  <2>1. ASSUME NEW k \in 1..(n - 1), Drop(s, p)[k] = j
        PROVE  (\E m \in 1..n : s[m] = j) /\ j # i
    <3>1. CASE k < p
      BY <1>1, <1>4, <2>0, <2>1, <3>1
    <3>2. CASE ~(k < p)
      <4>1. k + 1 # p /\ k + 1 \in 1..n /\ s[k + 1] = j
        BY <1>1, <1>4, <2>1, <3>2
      <4> QED
        BY <2>0, <4>1
    <3> QED
      BY <3>1, <3>2
  <2>2. ASSUME NEW k \in 1..n, s[k] = j, j # i
        PROVE  \E m \in 1..(n - 1) : Drop(s, p)[m] = j
    <3>1. CASE k < p
      BY <1>1, <1>4, <2>2, <3>1
    <3>2. CASE ~(k < p)
      <4>1. k - 1 \in 1..(n - 1) /\ ~(k - 1 < p) /\ k - 1 + 1 = k
        BY <1>1, <2>2, <3>2
      <4>2. Drop(s, p)[k - 1] = s[k - 1 + 1]
        BY <1>4, <4>1
      <4> QED
        BY <2>2, <4>1, <4>2
    <3> QED
      BY <3>1, <3>2
  <2> QED
    BY <2>1, <2>2
<1>6. ASSUME NEW j \in Items
      PROVE  j \in Listed(r) <=> j \in Listed(q) /\ j # i
  <2>1. j \in Listed(r) <=> ((\E k \in 1..(n - 1) : Drop(s, p)[k] = j)
                              \/ \E m \in DOMAIN q \ {l} : \E k \in 1..Len(q[m]) : q[m][k] = j)
    BY <1>1, <1>4, ListedWith
  <2>2. j \in Listed(q) <=> ((\E k \in 1..n : s[k] = j)
                              \/ \E m \in DOMAIN q \ {l} : \E k \in 1..Len(q[m]) : q[m][k] = j)
    BY <1>1 DEF Listed
  <2>3. \A m \in DOMAIN q \ {l} : \A k \in 1..Len(q[m]) : q[m][k] # i
    BY <1>1 DEF Contents
  <2> QED
    BY <1>5, <2>1, <2>2, <2>3
<1>7. \A j \in Listed(r) \union Listed(q) : j \in Items
  BY DEF Listed
<1>8. Listed(r) = Listed(q) \ {i}
  BY <1>6, <1>7
<1> QED
  BY <1>8

-----------------------------------------------------------------------------
(* Ranges that move *)

\* u is x, y and z, or x, y, z and v, one after the other.
Chain3(u, x, y, z) ==
    /\ u \in Seq(Items) /\ Len(u) = Len(x) + Len(y) + Len(z)
    /\ \A k \in 1..(Len(x) + Len(y) + Len(z)) :
          u[k] = IF k <= Len(x) THEN x[k]
                 ELSE IF k <= Len(x) + Len(y) THEN y[k - Len(x)]
                 ELSE z[k - Len(x) - Len(y)]

Chain4(u, x, y, z, v) ==
    /\ u \in Seq(Items) /\ Len(u) = Len(x) + Len(y) + Len(z) + Len(v)
    /\ \A k \in 1..(Len(x) + Len(y) + Len(z) + Len(v)) :
          u[k] = IF k <= Len(x) THEN x[k]
                 ELSE IF k <= Len(x) + Len(y) THEN y[k - Len(x)]
                 ELSE IF k <= Len(x) + Len(y) + Len(z) THEN z[k - Len(x) - Len(y)]
                 ELSE v[k - Len(x) - Len(y) - Len(z)]

\* Three sequences one after the other.
LEMMA ThreeParts ==
    ASSUME NEW x \in Seq(Items), NEW y \in Seq(Items), NEW z \in Seq(Items)
    PROVE  Chain3(x \o y \o z, x, y, z)
<1> PICK a, b, c : a = Len(x) /\ b = Len(y) /\ c = Len(z)
  OBVIOUS
<1>0. a \in Nat /\ b \in Nat /\ c \in Nat
  OBVIOUS
<1>w. PICK w : w = x \o y
  OBVIOUS
<1>1. /\ w \in Seq(Items) /\ Len(w) = a + b
      /\ \A k \in 1..(a + b) : w[k] = IF k <= a THEN x[k] ELSE y[k - a]
  BY <1>w, Chain
<1>u. PICK u : u = w \o z
  OBVIOUS
<1>2. /\ u \in Seq(Items) /\ Len(u) = Len(w) + Len(z)
      /\ \A k \in 1..(Len(w) + Len(z)) : u[k] = IF k <= Len(w) THEN w[k] ELSE z[k - Len(w)]
  BY <1>1, <1>u, Chain
<1>3. ASSUME NEW k \in 1..(a + b + c)
      PROVE  u[k] = IF k <= a THEN x[k] ELSE IF k <= a + b THEN y[k - a] ELSE z[k - a - b]
  <2>1. u[k] = IF k <= a + b THEN w[k] ELSE z[k - (a + b)]
    BY <1>1, <1>2
  <2>2. k - (a + b) = k - a - b /\ k \in Nat /\ (k <= a => k <= a + b)
    BY <1>0
  <2>3. CASE k <= a + b
    <3>1. k \in 1..(a + b)
      BY <1>0, <2>2, <2>3
    <3> QED
      BY <1>1, <2>1, <2>2, <2>3, <3>1
  <2>4. CASE ~(k <= a + b)
    BY <2>1, <2>2, <2>4
  <2> QED
    BY <2>3, <2>4
<1>4. Chain3(u, x, y, z)
  BY <1>1, <1>2, <1>3 DEF Chain3
<1> QED
  BY <1>4, <1>u, <1>w

\* Four sequences one after the other.
LEMMA FourParts ==
    ASSUME NEW x \in Seq(Items), NEW y \in Seq(Items), NEW z \in Seq(Items), NEW v \in Seq(Items)
    PROVE  Chain4(x \o y \o z \o v, x, y, z, v)
<1> PICK a, b, c, d : a = Len(x) /\ b = Len(y) /\ c = Len(z) /\ d = Len(v)
  OBVIOUS
<1>0. a \in Nat /\ b \in Nat /\ c \in Nat /\ d \in Nat
  OBVIOUS
<1>w. PICK w : w = x \o y \o z
  OBVIOUS
<1>1. /\ w \in Seq(Items) /\ Len(w) = a + b + c
      /\ \A k \in 1..(a + b + c) :
            w[k] = IF k <= a THEN x[k] ELSE IF k <= a + b THEN y[k - a] ELSE z[k - a - b]
  BY <1>w, ThreeParts DEF Chain3
<1>u. PICK u : u = w \o v
  OBVIOUS
<1>2. /\ u \in Seq(Items) /\ Len(u) = Len(w) + Len(v)
      /\ \A k \in 1..(Len(w) + Len(v)) : u[k] = IF k <= Len(w) THEN w[k] ELSE v[k - Len(w)]
  BY <1>1, <1>u, Chain
<1>3. ASSUME NEW k \in 1..(a + b + c + d)
      PROVE  u[k] = IF k <= a THEN x[k] ELSE IF k <= a + b THEN y[k - a]
                    ELSE IF k <= a + b + c THEN z[k - a - b] ELSE v[k - a - b - c]
  <2>1. u[k] = IF k <= a + b + c THEN w[k] ELSE v[k - (a + b + c)]
    BY <1>1, <1>2
  <2>2. k - (a + b + c) = k - a - b - c /\ k \in Nat /\ (k <= a => k <= a + b + c)
        /\ (k <= a + b => k <= a + b + c)
    BY <1>0
  <2>3. CASE k <= a + b + c
    <3>1. k \in 1..(a + b + c)
      BY <1>0, <2>2, <2>3
    <3> QED
      BY <1>1, <2>1, <2>2, <2>3, <3>1
  <2>4. CASE ~(k <= a + b + c)
    BY <2>1, <2>2, <2>4
  <2> QED
    BY <2>3, <2>4
<1>4. Chain4(u, x, y, z, v)
  BY <1>1, <1>2, <1>3 DEF Chain4
<1> QED
  BY <1>4, <1>u, <1>w

\* The forms that ListSpec gives to a list whose range from a to b comes in front of p, to one
\* that gets such a range of another list, and to one that loses it.
Shifted(s, p, a, b) ==
    SubSeq(s, 1, p - 1) \o SubSeq(s, a, b) \o SubSeq(s, p, a - 1) \o SubSeq(s, b + 1, Len(s))

Widened(s, p, t, a, b) == SubSeq(s, 1, p - 1) \o SubSeq(t, a, b) \o SubSeq(s, p, Len(s))

Narrowed(t, a, b) == SubSeq(t, 1, a - 1) \o SubSeq(t, b + 1, Len(t))

\* A range moves towards the front.
LEMMA MovedForward ==
    ASSUME NEW s \in Seq(Items), NEW n, n = Len(s), NEW p \in 1..(n + 1), NEW a \in 1..(n + 1), NEW b \in 0..n,
           p <= a, a <= b + 1
    PROVE  Shifted(s, p, a, b) = Moved(s, p, a, b)
<1>p. PICK x, y, z, v : /\ x = SubSeq(s, 1, p - 1) /\ y = SubSeq(s, a, b)
                        /\ z = SubSeq(s, p, a - 1) /\ v = SubSeq(s, b + 1, n)
  OBVIOUS
<1>0. n \in Nat /\ p \in Nat /\ a \in Nat /\ b \in Nat
  OBVIOUS
<1>1. x \in Seq(Items) /\ Len(x) = p - 1 - 1 + 1 /\ \A k \in 1..(p - 1 - 1 + 1) : x[k] = s[k + 1 - 1]
  <2>1. 1 \in 1..(n + 1) /\ p - 1 \in 0..n /\ 1 <= p - 1 + 1
    BY <1>0
  <2> QED
    BY <1>p, <2>1, PartOf
<1>2. y \in Seq(Items) /\ Len(y) = b - a + 1 /\ \A k \in 1..(b - a + 1) : y[k] = s[k + a - 1]
  <2>1. a \in 1..(n + 1) /\ b \in 0..n /\ a <= b + 1
    BY <1>0
  <2> QED
    BY <1>p, <2>1, PartOf
<1>3. z \in Seq(Items) /\ Len(z) = a - 1 - p + 1 /\ \A k \in 1..(a - 1 - p + 1) : z[k] = s[k + p - 1]
  <2>1. p \in 1..(n + 1) /\ a - 1 \in 0..n /\ p <= a - 1 + 1
    BY <1>0
  <2> QED
    BY <1>p, <2>1, PartOf
<1>4. v \in Seq(Items) /\ Len(v) = n - (b + 1) + 1 /\ \A k \in 1..(n - (b + 1) + 1) : v[k] = s[k + (b + 1) - 1]
  <2>1. b + 1 \in 1..(n + 1) /\ n \in 0..n /\ b + 1 <= n + 1
    BY <1>0
  <2> QED
    BY <1>p, <2>1, PartOf
<1>u. PICK u : u = x \o y \o z \o v
  OBVIOUS
<1>5. Chain4(u, x, y, z, v)
  BY <1>1, <1>2, <1>3, <1>4, <1>u, FourParts
<1>6. /\ Len(x) = p - 1 /\ Len(x) + Len(y) = p + b - a /\ Len(x) + Len(y) + Len(z) = b
      /\ Len(x) + Len(y) + Len(z) + Len(v) = n
  BY <1>0, <1>1, <1>2, <1>3, <1>4
<1>7. ASSUME NEW k \in 1..n
      PROVE  u[k] = s[From(p, a, b, k)]
  <2>1. u[k] = IF k <= p - 1 THEN x[k]
               ELSE IF k <= p + b - a THEN y[k - Len(x)]
               ELSE IF k <= b THEN z[k - Len(x) - Len(y)]
               ELSE v[k - Len(x) - Len(y) - Len(z)]
    BY <1>5, <1>6 DEF Chain4
  <2>2. CASE k <= p - 1
    <3>1. k < p /\ k \in 1..(p - 1 - 1 + 1) /\ k + 1 - 1 = k
      BY <1>0, <2>2
    <3> QED
      BY <1>1, <2>1, <2>2, <3>1 DEF From
  <2>3. CASE ~(k <= p - 1) /\ k <= p + b - a
    <3>1. ~(k < p) /\ k - Len(x) \in 1..(b - a + 1) /\ k - Len(x) + a - 1 = k - p + a
      BY <1>0, <1>6, <2>3
    <3> QED
      BY <1>2, <2>1, <2>3, <3>1 DEF From
  <2>4. CASE ~(k <= p - 1) /\ ~(k <= p + b - a) /\ k <= b
    <3>1. /\ ~(k < p) /\ k - Len(x) - Len(y) \in 1..(a - 1 - p + 1)
          /\ k - Len(x) - Len(y) + p - 1 = k - (b - a) - 1
      <4>1. Len(x) = p - 1 /\ Len(y) = b - a + 1
        BY <1>0, <1>1, <1>2
      <4>2. k \in Int
        OBVIOUS
      <4> QED
        BY <1>0, <2>4, <4>1, <4>2
    <3> QED
      BY <1>3, <2>1, <2>4, <3>1 DEF From
  <2>5. CASE ~(k <= p - 1) /\ ~(k <= p + b - a) /\ ~(k <= b)
    <3>1. /\ ~(k < p) /\ k - Len(x) - Len(y) - Len(z) \in 1..(n - (b + 1) + 1)
          /\ k - Len(x) - Len(y) - Len(z) + (b + 1) - 1 = k
      BY <1>0, <1>1, <1>2, <1>3, <2>5
    <3> QED
      BY <1>4, <2>1, <2>5, <3>1 DEF From
  <2> QED
    BY <2>2, <2>3, <2>4, <2>5
<1>8. u = Moved(s, p, a, b)
  <2>1. Array(Moved(s, p, a, b), n) /\ \A k \in 1..n : Moved(s, p, a, b)[k] = s[From(p, a, b, k)]
    BY DEF Moved, Array
  <2>2. u \in Seq(Items) /\ Len(u) = n
    BY <1>5, <1>6 DEF Chain4
  <2> QED
    BY <1>7, <2>1, <2>2, SameSeq
<1> QED
  BY <1>8, <1>p, <1>u DEF Shifted

\* A range in another list moves over.
LEMMA MovedOver ==
    ASSUME NEW s \in Seq(Items), NEW t \in Seq(Items), NEW n, n = Len(s), NEW o, o = Len(t),
           NEW p \in 1..(n + 1), NEW a \in 1..o, NEW b \in 0..o, a <= b + 1
    PROVE  Widened(s, p, t, a, b) = Joined(s, p, t, a, b) /\ Narrowed(t, a, b) = Without(t, a, b)
<1>p. PICK x, y, z : x = SubSeq(s, 1, p - 1) /\ y = SubSeq(t, a, b) /\ z = SubSeq(s, p, n)
  OBVIOUS
<1>q. PICK v, w : v = SubSeq(t, 1, a - 1) /\ w = SubSeq(t, b + 1, o)
  OBVIOUS
<1>0. n \in Nat /\ o \in Nat /\ p \in Nat /\ a \in Nat /\ b \in Nat
  OBVIOUS
<1>1. x \in Seq(Items) /\ Len(x) = p - 1 - 1 + 1 /\ \A k \in 1..(p - 1 - 1 + 1) : x[k] = s[k + 1 - 1]
  <2>1. 1 \in 1..(n + 1) /\ p - 1 \in 0..n /\ 1 <= p - 1 + 1
    BY <1>0
  <2> QED
    BY <1>p, <2>1, PartOf
<1>2. y \in Seq(Items) /\ Len(y) = b - a + 1 /\ \A k \in 1..(b - a + 1) : y[k] = t[k + a - 1]
  <2>1. a \in 1..(o + 1) /\ b \in 0..o /\ a <= b + 1
    BY <1>0
  <2> QED
    BY <1>p, <2>1, PartOf
<1>3. z \in Seq(Items) /\ Len(z) = n - p + 1 /\ \A k \in 1..(n - p + 1) : z[k] = s[k + p - 1]
  <2>1. p \in 1..(n + 1) /\ n \in 0..n /\ p <= n + 1
    BY <1>0
  <2> QED
    BY <1>p, <2>1, PartOf
<1>4. v \in Seq(Items) /\ Len(v) = a - 1 - 1 + 1 /\ \A k \in 1..(a - 1 - 1 + 1) : v[k] = t[k + 1 - 1]
  <2>1. 1 \in 1..(o + 1) /\ a - 1 \in 0..o /\ 1 <= a - 1 + 1
    BY <1>0
  <2> QED
    BY <1>q, <2>1, PartOf
<1>5. w \in Seq(Items) /\ Len(w) = o - (b + 1) + 1 /\ \A k \in 1..(o - (b + 1) + 1) : w[k] = t[k + (b + 1) - 1]
  <2>1. b + 1 \in 1..(o + 1) /\ o \in 0..o /\ b + 1 <= o + 1
    BY <1>0
  <2> QED
    BY <1>q, <2>1, PartOf
<1>u. PICK u : u = x \o y \o z
  OBVIOUS
<1>6. Chain3(u, x, y, z)
  BY <1>1, <1>2, <1>3, <1>u, ThreeParts
<1>7. Len(x) = p - 1 /\ Len(x) + Len(y) = p + b - a /\ Len(x) + Len(y) + Len(z) = n + b - a + 1
  BY <1>0, <1>1, <1>2, <1>3
<1>8. u = Joined(s, p, t, a, b)
  <2>1. Array(Joined(s, p, t, a, b), n + b - a + 1)
    BY DEF Joined, Array
  <2>2. ASSUME NEW k \in 1..(n + b - a + 1)
        PROVE  u[k] = Joined(s, p, t, a, b)[k]
    <3>1. u[k] = IF k <= p - 1 THEN x[k]
                 ELSE IF k <= p + b - a THEN y[k - Len(x)]
                 ELSE z[k - Len(x) - Len(y)]
      BY <1>6, <1>7 DEF Chain3
    <3>2. Joined(s, p, t, a, b)[k] =
             IF k < p THEN s[k] ELSE IF k <= p + b - a THEN t[k - p + a] ELSE s[k - (b - a) - 1]
      BY DEF Joined
    <3>3. CASE k <= p - 1
      <4>1. k < p /\ k \in 1..(p - 1 - 1 + 1) /\ k + 1 - 1 = k
        BY <1>0, <3>3
      <4> QED
        BY <1>1, <3>1, <3>2, <3>3, <4>1
    <3>4. CASE ~(k <= p - 1) /\ k <= p + b - a
      <4>1. ~(k < p) /\ k - Len(x) \in 1..(b - a + 1) /\ k - Len(x) + a - 1 = k - p + a
        BY <1>0, <1>7, <3>4
      <4> QED
        BY <1>2, <3>1, <3>2, <3>4, <4>1
    <3>5. CASE ~(k <= p - 1) /\ ~(k <= p + b - a)
      <4>1. /\ ~(k < p) /\ k - Len(x) - Len(y) \in 1..(n - p + 1)
            /\ k - Len(x) - Len(y) + p - 1 = k - (b - a) - 1
        <5>1. Len(x) = p - 1 /\ Len(y) = b - a + 1
          BY <1>0, <1>1, <1>2
        <5>2. k \in Int
          OBVIOUS
        <5> QED
          BY <1>0, <3>5, <5>1, <5>2
      <4> QED
        BY <1>3, <3>1, <3>2, <3>5, <4>1
    <3> QED
      BY <3>3, <3>4, <3>5
  <2>3. u \in Seq(Items) /\ Len(u) = n + b - a + 1
    BY <1>6, <1>7 DEF Chain3
  <2> QED
    BY <2>1, <2>2, <2>3, SameSeq
<1>r. PICK r : r = v \o w
  OBVIOUS
<1>9. /\ r \in Seq(Items) /\ Len(r) = Len(v) + Len(w)
      /\ \A k \in 1..(Len(v) + Len(w)) : r[k] = IF k <= Len(v) THEN v[k] ELSE w[k - Len(v)]
  BY <1>4, <1>5, <1>r, Chain
<1>10. Len(v) = a - 1 /\ Len(v) + Len(w) = o - (b - a) - 1
  BY <1>0, <1>4, <1>5
<1>11. r = Without(t, a, b)
  <2>1. Array(Without(t, a, b), o - (b - a) - 1)
    BY DEF Without, Array
  <2>2. ASSUME NEW k \in 1..(o - (b - a) - 1)
        PROVE  r[k] = Without(t, a, b)[k]
    <3>1. r[k] = IF k <= a - 1 THEN v[k] ELSE w[k - Len(v)]
      BY <1>9, <1>10
    <3>2. Without(t, a, b)[k] = IF k < a THEN t[k] ELSE t[k + b - a + 1]
      BY DEF Without
    <3>3. CASE k <= a - 1
      <4>1. k < a /\ k \in 1..(a - 1 - 1 + 1) /\ k + 1 - 1 = k
        BY <1>0, <3>3
      <4> QED
        BY <1>4, <3>1, <3>2, <3>3, <4>1
    <3>4. CASE ~(k <= a - 1)
      <4>1. ~(k < a) /\ k - Len(v) \in 1..(o - (b + 1) + 1) /\ k - Len(v) + (b + 1) - 1 = k + b - a + 1
        BY <1>0, <1>10, <3>4
      <4> QED
        BY <1>5, <3>1, <3>2, <3>4, <4>1
    <3> QED
      BY <3>3, <3>4
  <2>3. r \in Seq(Items) /\ Len(r) = o - (b - a) - 1
    BY <1>9, <1>10
  <2> QED
    BY <2>1, <2>2, <2>3, SameSeq
<1> QED
  BY <1>8, <1>11, <1>p, <1>q, <1>r, <1>u DEF Widened, Narrowed

\* What does not move stays.
LEMMA MovedNothing ==
    ASSUME NEW s \in Seq(Items), NEW n, n = Len(s), NEW p \in 1..(n + 1), NEW a \in 1..(n + 1), NEW b \in 0..n,
           p <= a, a = b + 1 \/ (p = a /\ a <= b)
    PROVE  Moved(s, p, a, b) = s
<1>1. \A k \in 1..n : From(p, a, b, k) = k
  <2>1. n \in Nat
    OBVIOUS
  <2> QED
    BY <2>1 DEF From
<1>2. Array(Moved(s, p, a, b), n) /\ \A k \in 1..n : Moved(s, p, a, b)[k] = s[From(p, a, b, k)]
  BY DEF Moved, Array
<1>3. \A k \in 1..n : s[k] = Moved(s, p, a, b)[k]
  BY <1>1, <1>2
<1> QED
  BY <1>2, <1>3, SameSeq

\* Two lists get other contents.
Both(q, l, s, m, t) == [q EXCEPT ![l] = s, ![m] = t]

\* What Both does to the lists.
LEMMA BothIs ==
    ASSUME NEW h, NEW q, Holds(h, q), NEW l \in DOMAIN q, NEW m \in DOMAIN q, l # m, NEW s, NEW t
    PROVE  /\ DOMAIN Both(q, l, s, m, t) = DOMAIN q
           /\ Both(q, l, s, m, t)[l] = s /\ Both(q, l, s, m, t)[m] = t
           /\ \A i \in DOMAIN q \ {l, m} : Both(q, l, s, m, t)[i] = q[i]
           /\ Both(q, l, q[l], m, q[m]) = q
<1>1. q \in [DOMAIN q -> Seq(Items)]
  BY DEF Holds, Contents
<1> QED
  BY <1>1 DEF Both

\* A range that moves over stays allocated.
LEMMA ListedOver ==
    ASSUME NEW h, NEW q, Holds(h, q), NEW l \in DOMAIN q, NEW m \in DOMAIN q, l # m,
           NEW p \in 1..(Len(q[l]) + 1), NEW a \in 1..Len(q[m]), NEW b \in 1..Len(q[m]), a <= b
    PROVE  Listed(Both(q, l, Joined(q[l], p, q[m], a, b), m, Without(q[m], a, b))) = Listed(q)
<1> PICK s, t, n, o : s = q[l] /\ t = q[m] /\ n = Len(s) /\ o = Len(t)
  OBVIOUS
<1> PICK x, y : x = Joined(s, p, t, a, b) /\ y = Without(t, a, b)
  OBVIOUS
<1> PICK r : r = Both(q, l, x, m, y)
  OBVIOUS
<1>0. n \in Nat /\ o \in Nat
  BY NodeType DEF Holds
<1>1. /\ Len(x) = n + b - a + 1
      /\ \A k \in 1..(n + b - a + 1) :
            x[k] = IF k < p THEN s[k] ELSE IF k <= p + b - a THEN t[k - p + a] ELSE s[k - (b - a) - 1]
  <2>1. n + b - a + 1 \in Nat
    BY <1>0
  <2> QED
    BY <2>1 DEF Joined
<1>2. /\ Len(y) = o - (b - a) - 1
      /\ \A k \in 1..(o - (b - a) - 1) : y[k] = IF k < a THEN t[k] ELSE t[k + b - a + 1]
  <2>1. o - (b - a) - 1 \in Nat
    BY <1>0
  <2> QED
    BY <2>1 DEF Without
<1>3. ASSUME NEW i, NEW k \in 1..Len(x), x[k] = i
      PROVE  (\E j \in 1..n : s[j] = i) \/ (\E j \in 1..o : t[j] = i)
  <2>0. /\ k \in 1..(n + b - a + 1)
        /\ x[k] = IF k < p THEN s[k] ELSE IF k <= p + b - a THEN t[k - p + a] ELSE s[k - (b - a) - 1]
    BY <1>1
  <2>1. CASE k < p
    <3>1. k \in 1..n
      BY <1>0, <2>0, <2>1
    <3> QED
      BY <1>3, <2>0, <2>1, <3>1
  <2>2. CASE ~(k < p) /\ k <= p + b - a
    <3>1. k - p + a \in 1..o
      BY <1>0, <2>0, <2>2
    <3>2. x[k] = t[k - p + a]
      BY <2>0, <2>2
    <3> QED
      BY <1>3, <3>1, <3>2
  <2>3. CASE ~(k < p) /\ ~(k <= p + b - a)
    <3>1. k - (b - a) - 1 \in 1..n
      BY <1>0, <2>0, <2>3
    <3>2. x[k] = s[k - (b - a) - 1]
      BY <2>0, <2>3
    <3> QED
      BY <1>3, <3>1, <3>2
  <2> QED
    BY <2>1, <2>2, <2>3
<1>4. ASSUME NEW i, NEW k \in 1..Len(y), y[k] = i
      PROVE  \E j \in 1..o : t[j] = i
  <2>0. k \in 1..(o - (b - a) - 1) /\ y[k] = IF k < a THEN t[k] ELSE t[k + b - a + 1]
    BY <1>2
  <2>1. CASE k < a
    <3>1. k \in 1..o
      BY <1>0, <2>0, <2>1
    <3> QED
      BY <1>4, <2>0, <2>1, <3>1
  <2>2. CASE ~(k < a)
    <3>1. k + b - a + 1 \in 1..o
      BY <1>0, <2>0, <2>2
    <3> QED
      BY <1>4, <2>0, <2>2, <3>1
  <2> QED
    BY <2>1, <2>2
<1>5. ASSUME NEW i, NEW k \in 1..n, s[k] = i
      PROVE  \E j \in 1..Len(x) : x[j] = i
  <2>1. CASE k < p
    <3>1. k \in 1..Len(x) /\ x[k] = i
      BY <1>0, <1>1, <1>5, <2>1
    <3> QED
      BY <3>1
  <2>2. CASE ~(k < p)
    <3>1. /\ k + (b - a) + 1 \in 1..Len(x) /\ ~(k + (b - a) + 1 < p) /\ ~(k + (b - a) + 1 <= p + b - a)
          /\ k + (b - a) + 1 - (b - a) - 1 = k
      BY <1>0, <1>1, <2>2
    <3>2. x[k + (b - a) + 1] = i
      BY <1>1, <1>5, <3>1
    <3> QED
      BY <3>1, <3>2
  <2> QED
    BY <2>1, <2>2
<1>6. ASSUME NEW i, NEW k \in 1..o, t[k] = i
      PROVE  (\E j \in 1..Len(x) : x[j] = i) \/ (\E j \in 1..Len(y) : y[j] = i)
  <2>1. CASE k < a
    <3>1. k \in 1..Len(y) /\ y[k] = i
      BY <1>0, <1>2, <1>6, <2>1
    <3> QED
      BY <3>1
  <2>2. CASE a <= k /\ k <= b
    <3>1. /\ k + p - a \in 1..Len(x) /\ ~(k + p - a < p) /\ k + p - a <= p + b - a
          /\ k + p - a - p + a = k
      BY <1>0, <1>1, <2>2
    <3>2. x[k + p - a] = i
      BY <1>1, <1>6, <3>1
    <3> QED
      BY <3>1, <3>2
  <2>3. CASE b < k
    <3>1. k - (b - a) - 1 \in 1..Len(y) /\ ~(k - (b - a) - 1 < a) /\ k - (b - a) - 1 + b - a + 1 = k
      BY <1>0, <1>2, <2>3
    <3>2. y[k - (b - a) - 1] = i
      BY <1>2, <1>6, <3>1
    <3> QED
      BY <3>1, <3>2
  <2> QED
    BY <1>0, <2>1, <2>2, <2>3
<1>7. DOMAIN r = DOMAIN q /\ r[l] = x /\ r[m] = y /\ \A i \in DOMAIN q \ {l, m} : r[i] = q[i]
  BY BothIs
<1>8. ASSUME NEW i \in Items
      PROVE  i \in Listed(r) <=> i \in Listed(q)
  <2>1. i \in Listed(r) <=> \/ \E k \in 1..Len(x) : x[k] = i
                            \/ \E k \in 1..Len(y) : y[k] = i
                            \/ \E j \in DOMAIN q \ {l, m} : \E k \in 1..Len(q[j]) : q[j][k] = i
    BY <1>7 DEF Listed
  <2>2. i \in Listed(q) <=> \/ \E k \in 1..n : s[k] = i
                            \/ \E k \in 1..o : t[k] = i
                            \/ \E j \in DOMAIN q \ {l, m} : \E k \in 1..Len(q[j]) : q[j][k] = i
    BY DEF Listed
  <2>3. (\E k \in 1..Len(x) : x[k] = i) => (\E k \in 1..n : s[k] = i) \/ (\E k \in 1..o : t[k] = i)
    BY <1>3
  <2>4. (\E k \in 1..Len(y) : y[k] = i) => (\E k \in 1..o : t[k] = i)
    BY <1>4
  <2>5. (\E k \in 1..n : s[k] = i) => (\E k \in 1..Len(x) : x[k] = i)
    BY <1>5
  <2>6. (\E k \in 1..o : t[k] = i)
           => (\E k \in 1..Len(x) : x[k] = i) \/ (\E k \in 1..Len(y) : y[k] = i)
    BY <1>6
  <2> QED
    BY <2>1, <2>2, <2>3, <2>4, <2>5, <2>6
<1>9. Listed(r) = Listed(q)
  BY <1>8 DEF Listed
<1> QED
  BY <1>9

-----------------------------------------------------------------------------
(* list_shuffle *)

\* What list_size and list_elem_at read from the pointers.
LEMMA Reads ==
    ASSUME NEW h, NEW q, Holds(h, q), NEW l \in DOMAIN q
    PROVE  /\ list_size(h, l) = Len(q[l])
           /\ \A k \in 0..(Len(q[l]) - 1) : list_elem_at(h, l, k) = elem(q[l][k + 1])
<1> PICK n, w : n = Len(q[l]) /\ w = Walk(h, list_begin(h, l), tail(l))
  OBVIOUS
<1>1. n \in Nat
  BY NodeType DEF Holds
<1>2. w = [k \in 1..n |-> elem(q[l][k])]
  BY WalkIs
<1>3. Len(w) = n
  BY <1>1, <1>2
<1>4. \A k \in 0..(n - 1) : w[k + 1] = elem(q[l][k + 1])
  BY <1>1, <1>2
<1> QED
  BY <1>3, <1>4 DEF list_size, list_elem_at

\* Two rearrangements are one.
LEMMA ArrangedTwice ==
    ASSUME NEW s, NEW n \in Nat, n = Len(s), NEW T, Permutation(T, n), NEW U, Permutation(U, n)
    PROVE  \E V : Permutation(V, n) /\ Arranged(Arranged(s, T), U) = Arranged(s, V)
<1> DEFINE V == [k \in 1..n |-> T[U[k]]]
<1>1. Permutation(V, n)
  BY DEF Permutation
<1>2. Arranged(s, T) = [k \in 1..n |-> s[T[k]]] /\ Len(Arranged(s, T)) = n
  BY DEF Arranged
<1>3. Arranged(Arranged(s, T), U) = [k \in 1..n |-> s[T[U[k]]]]
  BY <1>2 DEF Arranged, Permutation
<1>4. Arranged(s, V) = [k \in 1..n |-> s[T[U[k]]]]
  BY DEF Arranged
<1> QED
  BY <1>1, <1>3, <1>4

\* Exchanging two is one.
LEMMA SwappedOne ==
    ASSUME NEW s, NEW n \in Nat, n = Len(s), NEW a \in 1..n, NEW b \in 1..n
    PROVE  \E T : Permutation(T, n) /\ Swapped(s, a, b) = Arranged(s, T)
<1>1. \A c, d \in 1..n : \E T : Permutation(T, n) /\ Swapped(s, c, d) = Arranged(s, T)
  BY Permutations
<1> QED
  BY <1>1

\* h holds the lists of q, with the items of list l in any order.
Mixed(h, q, l) == \E T : Permutation(T, Len(q[l])) /\ Holds(h, With(q, l, Arranged(q[l], T)))

\* Before the first swap the items are where they were.
LEMMA MixedFirst ==
    ASSUME NEW h, NEW q, Holds(h, q), NEW l \in DOMAIN q
    PROVE  Mixed(h, q, l)
<1> PICK s, n : s = q[l] /\ n = Len(s)
  OBVIOUS
<1> DEFINE I == [k \in 1..n |-> k]
<1>1. s \in Seq(Items) /\ n \in Nat
  BY DEF Holds, Contents
<1>2. Permutation(I, n)
  BY DEF Permutation
<1>3. s = Arranged(s, I)
  BY <1>1 DEF Arranged
<1>4. With(q, l, s) = q
  BY WithIs
<1> HIDE DEF I
<1> QED
  BY <1>2, <1>3, <1>4 DEF Mixed

\* A round of the shuffle.
LEMMA MixedAgain ==
    ASSUME NEW h, NEW q, Holds(h, q), NEW l \in DOMAIN q, NEW g, Mixed(g, q, l),
           NEW a \in 0..(Len(q[l]) - 1), NEW b \in 0..(Len(q[l]) - 1)
    PROVE  Mixed(list_swap(g, list_elem_at(g, l, a), list_elem_at(g, l, b)), q, l)
<1> PICK s, n : s = q[l] /\ n = Len(s)
  OBVIOUS
<1>0. n \in Nat
  BY NodeType DEF Holds
<1> PICK T : Permutation(T, n) /\ Holds(g, With(q, l, Arranged(s, T)))
  BY DEF Mixed
<1> PICK r, t : t = Arranged(s, T) /\ r = With(q, l, t)
  OBVIOUS
<1>1. DOMAIN r = DOMAIN q /\ r[l] = t
  BY WithIs
<1>2. Len(t) = n
  BY <1>0 DEF Arranged
<1>3. list_elem_at(g, l, a) = elem(r[l][a + 1]) /\ list_elem_at(g, l, b) = elem(r[l][b + 1])
  BY <1>1, <1>2, Reads
<1>4. a + 1 \in 1..n /\ b + 1 \in 1..n
  BY <1>0
<1> PICK f : f = list_swap(g, elem(r[l][a + 1]), elem(r[l][b + 1]))
  OBVIOUS
<1>5. Holds(f, [r EXCEPT ![l] = Swapped(t, a + 1, b + 1)])
  BY <1>1, <1>2, <1>4, SwapHolds
<1>6. PICK U : Permutation(U, n) /\ Swapped(t, a + 1, b + 1) = Arranged(t, U)
  <2> PICK c, d : c = a + 1 /\ d = b + 1
    OBVIOUS
  <2>1. c \in 1..n /\ d \in 1..n
    BY <1>4
  <2>2. \E U : Permutation(U, n) /\ Swapped(t, c, d) = Arranged(t, U)
    <3>1. n = Len(t)
      BY <1>2
    <3> QED
      BY <1>0, <2>1, <3>1, SwappedOne
  <2> QED
    BY <2>2
<1>7. PICK V : Permutation(V, n) /\ Arranged(t, U) = Arranged(s, V)
  BY <1>0, <1>6, ArrangedTwice
<1>8. Holds(f, With(r, l, Arranged(s, V)))
  BY <1>5, <1>6, <1>7 DEF With
<1>9. With(r, l, Arranged(s, V)) = With(q, l, Arranged(s, V))
  BY WithIs
<1> QED
  BY <1>3, <1>7, <1>8, <1>9 DEF Mixed

\* Whatever rand() returns, list_shuffle only changes the order.
LEMMA ShuffleHolds ==
    ASSUME NEW h, NEW q, Holds(h, q), NEW l \in DOMAIN q,
           NEW choice \in [0..(Len(q[l]) - 1) -> 0..(Len(q[l]) - 1)]
    PROVE  Mixed(list_shuffle(h, l, choice), q, l)
<1> PICK n : n = Len(q[l])
  OBVIOUS
<1> DEFINE Y == [heap : Heaps, i : Nat]
           S == {y \in Y : y.i \in 0..n /\ Mixed(y.heap, q, l)}
           F == [y \in Y |->
                   IF y.i >= list_size(h, l) THEN y
                   ELSE [heap |-> list_swap(y.heap, list_elem_at(y.heap, l, y.i),
                                            list_elem_at(y.heap, l, choice[y.i])),
                         i |-> y.i + 1]]
           x == [heap |-> h, i |-> 0]
           rank == [y \in S |-> n - y.i]
<1>1. n \in Nat /\ n <= Rounds /\ list_size(h, l) = n /\ h \in Heaps /\ Mixed(h, q, l)
  BY NodeType, LengthBound, MixedFirst, Reads DEF Holds, Rounds
<1>2. CASE n <= 1
  BY <1>1, <1>2 DEF list_shuffle
<1>3. CASE ~(n <= 1)
  <2>1. list_shuffle(h, l, choice) = While(F, x).heap
    BY <1>1, <1>3 DEF list_shuffle
  <2>2. x \in S /\ rank[x] <= Rounds
    BY <1>1
  <2>3. rank \in [S -> Nat]
    BY <1>1
  <2>4. ASSUME NEW y \in S
        PROVE  F[y] \in S /\ (F[y] = y \/ rank[F[y]] < rank[y])
    <3>1. y \in Y /\ y.i \in 0..n /\ y.heap \in Heaps /\ y.i \in Nat /\ Mixed(y.heap, q, l)
      OBVIOUS
    <3>2. CASE y.i >= n
      <4>1. F[y] = y
        BY <1>1, <3>1, <3>2
      <4> QED
        BY <4>1
    <3>3. CASE ~(y.i >= n)
      <4> PICK g : g = list_swap(y.heap, list_elem_at(y.heap, l, y.i), list_elem_at(y.heap, l, choice[y.i]))
        OBVIOUS
      <4>1. F[y] = [heap |-> g, i |-> y.i + 1]
        BY <1>1, <3>1, <3>3
      <4>2. y.i \in 0..(n - 1) /\ choice[y.i] \in 0..(n - 1)
        BY <1>1, <3>1, <3>3
      <4>3. Mixed(g, q, l)
        BY <3>1, <4>2, MixedAgain
      <4>4. g \in Heaps
        BY <4>3 DEF Mixed, Holds
      <4>5. F[y] \in S /\ F[y].i = y.i + 1
        BY <1>1, <3>1, <4>1, <4>2, <4>3, <4>4
      <4>6. rank[F[y]] = n - (y.i + 1) /\ rank[y] = n - y.i
        BY <4>5
      <4> QED
        BY <1>1, <3>1, <4>5, <4>6
    <3> QED
      BY <3>2, <3>3
  <2>5. While(F, x) \in S
    <3> HIDE DEF F, S, rank, x
    <3> QED
      BY <2>2, <2>3, <2>4, WhileEnds
  <2> QED
    BY <2>1, <2>5
<1> QED
  BY <1>2, <1>3
=============================================================================
