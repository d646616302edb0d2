--------------------------- MODULE PintosListProofs ---------------------------
(***************************************************************************)
(* Theorems about the list commands: the pointers of list.c always hold the  *)
(* lists, linked both ways, and every command does to them what ListSpec     *)
(* says it does to sequences, however many lists, items and values there are.*)
(***************************************************************************)
EXTENDS PintosList, ListHeapProofs

-----------------------------------------------------------------------------
(* Nodes that are freed *)

\* A node that no list holds can lose its pointers.
LEMMA ForgetHolds ==
    ASSUME NEW h, NEW q, Holds(h, q), NEW ns,
           \A m \in DOMAIN q : \A k \in 0..(Len(q[m]) + 1) : Node(m, q[m], k) \notin ns
    PROVE  Holds(Forget(h, ns), q)
<1>1. Contents(q) /\ h \in Heaps /\ \A m \in DOMAIN q : ListAt(h, m, q[m])
  BY DEF Holds
<1> PICK g : g = Forget(h, ns)
  OBVIOUS
<1>2. g \in Heaps /\ \A x \in Nodes \ ns : g.next[x] = h.next[x] /\ g.prev[x] = h.prev[x]
  BY <1>1 DEF Forget, Heaps
<1>3. ASSUME NEW m \in DOMAIN q
      PROVE  ListAt(g, m, q[m])
  <2>1. Len(q[m]) \in Nat /\ ListAt(h, m, q[m])
    BY <1>1, NodeType
  <2>2. ASSUME NEW k \in 0..(Len(q[m]) + 1)
        PROVE  /\ g.next[Node(m, q[m], k)] = h.next[Node(m, q[m], k)]
               /\ g.prev[Node(m, q[m], k)] = h.prev[Node(m, q[m], k)]
    <3>1. Node(m, q[m], k) \in Nodes \ ns
      BY <1>1, NodeType
    <3> QED
      BY <1>2, <3>1
  <2> QED
    BY <2>1, <2>2, ListKept
<1> QED
  BY <1>1, <1>2, <1>3 DEF Holds

\* Without one of the lists the others are what they were.
LEMMA DeleteHolds ==
    ASSUME NEW h, NEW q, Holds(h, q), NEW l \in DOMAIN q, NEW ns,
           ns = {elem(q[l][k]) : k \in 1..Len(q[l])} \union {head(l), tail(l)}
    PROVE  Holds(Forget(h, ns), Minus(q, l))
<1> PICK r : r = [k \in DOMAIN q \ {l} |-> q[k]]
  OBVIOUS
<1>1. DOMAIN r = DOMAIN q \ {l} /\ \A k \in DOMAIN r : r[k] = q[k]
  OBVIOUS
<1>2. Contents(q)
  BY DEF Holds
<1>3. Contents(r)
  <2>1. r = [k \in DOMAIN r |-> r[k]]
    OBVIOUS
  <2> QED
    BY <1>1, <1>2, <2>1 DEF Contents
<1>4. Holds(h, r)
  BY <1>1, <1>3 DEF Holds
<1>5. ASSUME NEW m \in DOMAIN r, NEW k \in 0..(Len(r[m]) + 1), Node(m, r[m], k) \in ns
      PROVE  FALSE
  <2>1. m # l /\ r[m] = q[m] /\ m \in DOMAIN q
    BY <1>1
  <2>2. PICK j \in 0..(Len(q[l]) + 1) : Node(m, r[m], k) = Node(l, q[l], j)
    <3>1. /\ Len(q[l]) \in Nat /\ \A j \in 1..Len(q[l]) : Node(l, q[l], j) = elem(q[l][j])
          /\ Node(l, q[l], 0) = head(l) /\ Node(l, q[l], Len(q[l]) + 1) = tail(l)
      BY <1>2, NodeType
    <3> QED
      BY <1>5, <3>1
  <2> QED
    BY <1>2, <2>1, <2>2, NodeOnce
<1> QED
  BY <1>4, <1>5, ForgetHolds DEF Minus

-----------------------------------------------------------------------------
(* The invariant *)

\* The pointers hold q, and the items on its lists are the allocated ones.
Good(h, v, q) ==
    /\ Holds(h, q)
    /\ v \in [Items -> Values \union {NoValue}]
    /\ \A i \in Items : v[i] # NoValue <=> i \in Listed(q)

IInv == Good(heap, val, Seqs)

\* What a heap holds is what its walks find.
LEMMA SeqsAre ==
    ASSUME NEW q, DOMAIN q = used, Holds(heap, q)
    PROVE  Seqs = q
<1>1. q = [l \in DOMAIN q |-> q[l]]
  BY DEF Holds, Contents
<1>2. \A l \in used : [k \in 1..Size(l) |-> Content(l)[k][2]] = q[l]
  BY WalksGive DEF Size, Content
<1> QED
  BY <1>1, <1>2 DEF Seqs

\* The same of the next state.
LEMMA SeqsWillBe ==
    ASSUME NEW q, DOMAIN q = used', Holds(heap', q)
    PROVE  Seqs' = q
<1>1. q = [l \in DOMAIN q |-> q[l]]
  BY DEF Holds, Contents
<1>2. \A l \in used' : [k \in 1..Size(l)' |-> Content(l)'[k][2]] = q[l]
  BY WalksGive DEF Size, Content
<1> QED
  BY <1>1, <1>2 DEF Seqs

\* What the next state holds is what its walks find.
LEMMA Becomes ==
    ASSUME NEW q, DOMAIN q = used', Good(heap', val', q)
    PROVE  IInv' /\ Seqs' = q
BY SeqsWillBe DEF IInv, Good

\* The facts about a state that the steps below use.
LEMMA Facts ==
    ASSUME IInv
    PROVE  /\ Holds(heap, Seqs) /\ Contents(Seqs) /\ DOMAIN Seqs = used /\ used \subseteq Lists
           /\ val \in [Items -> Values \union {NoValue}] /\ val \in [Items -> Int]
           /\ \A i \in Items : val[i] # NoValue <=> i \in Listed(Seqs)
           /\ \A l \in used : /\ Content(l) = [k \in 1..Len(Seqs[l]) |-> elem(Seqs[l][k])]
                              /\ Size(l) = Len(Seqs[l]) /\ Len(Seqs[l]) \in Nat
                              /\ \A k \in 1..Len(Seqs[l]) : Seqs[l][k] \in Items
<1>1. Holds(heap, Seqs) /\ Contents(Seqs) /\ DOMAIN Seqs = used
  BY DEF IInv, Good, Holds, Seqs
<1>2. val \in [Items -> Values \union {NoValue}] /\ \A i \in Items : val[i] # NoValue <=> i \in Listed(Seqs)
  BY DEF IInv, Good
<1>3. Values \union {NoValue} \subseteq Int
  BY PintosListAssumption DEF NoValue
<1>4. val \in [Items -> Int]
  BY <1>2, <1>3
<1>5. ASSUME NEW l \in used
      PROVE  /\ Content(l) = [k \in 1..Len(Seqs[l]) |-> elem(Seqs[l][k])]
             /\ Size(l) = Len(Seqs[l]) /\ Len(Seqs[l]) \in Nat
             /\ \A k \in 1..Len(Seqs[l]) : Seqs[l][k] \in Items
  <2>1. Len(Seqs[l]) \in Nat /\ \A k \in 1..Len(Seqs[l]) : Seqs[l][k] \in Items
    BY <1>1, NodeType
  <2>2. Content(l) = [k \in 1..Len(Seqs[l]) |-> elem(Seqs[l][k])]
    BY <1>1, WalkIs DEF Content
  <2>3. Size(l) = Len(Seqs[l])
    BY <2>1, <2>2 DEF Size
  <2> QED
    BY <2>1, <2>2, <2>3
<1>6. used \subseteq Lists
  BY <1>1 DEF Contents
<1> QED
  BY <1>1, <1>2, <1>4, <1>5, <1>6

\* The variables have their types.
LEMMA InvTyped == IInv => TypeOK
<1> SUFFICES ASSUME IInv PROVE TypeOK
  OBVIOUS
<1>1. heap \in Heaps
  BY DEF IInv, Good, Holds
<1> QED
  BY <1>1, Facts DEF TypeOK

\* The lists are linked both ways, and every allocated item is on one of them.
LEMMA InvLinked == IInv => Linked
<1> SUFFICES ASSUME IInv PROVE Linked
  OBVIOUS
<1>1. /\ Holds(heap, Seqs) /\ Contents(Seqs) /\ DOMAIN Seqs = used
      /\ \A i \in Items : val[i] # NoValue <=> i \in Listed(Seqs)
  BY Facts
<1>2. ASSUME NEW l \in used
      PROVE  LET w == <<head(l)>> \o Content(l) \o <<tail(l)>>
             IN  /\ \A k \in 1..(Len(w) - 1) : heap.prev[w[k + 1]] = w[k]
                 /\ heap.prev[head(l)] = NULL /\ heap.next[tail(l)] = NULL
  <2> PICK s, n : s = Seqs[l] /\ n = Len(s)
    OBVIOUS
  <2> PICK c : c = Content(l)
    OBVIOUS
  <2> DEFINE w == <<head(l)>> \o c \o <<tail(l)>>
  <2>1. /\ n \in Nat /\ c = [k \in 1..n |-> elem(s[k])] /\ ListAt(heap, l, s)
        /\ \A k \in 1..n : s[k] \in Items
    BY <1>1, Facts DEF Holds
  <2>2. c \in Seq(Nodes) /\ Len(c) = n /\ \A k \in 1..n : c[k] = elem(s[k])
    BY <2>1, NodeFacts
  <2>3. Len(w) = n + 2 /\ \A k \in 1..(n + 2) : w[k] = Node(l, s, k - 1)
    <3>1. head(l) \in Nodes /\ tail(l) \in Nodes
      BY <1>1, NodeFacts DEF Contents
    <3> PICK hd, tl : hd = head(l) /\ tl = tail(l)
      OBVIOUS
    <3>2. <<hd>> \o c \in Seq(Nodes) /\ Len(<<hd>> \o c) = n + 1
      BY <2>1, <2>2, <3>1
    <3>3. Len(w) = n + 2
      BY <2>1, <3>1, <3>2
    <3>4. w[1] = hd /\ w[n + 2] = tl
      BY <2>1, <2>2, <3>1, <3>2
    <3>5. \A k \in 2..(n + 1) : w[k] = c[k - 1]
      BY <2>1, <2>2, <3>1, <3>2
    <3>6. ASSUME NEW k \in 1..(n + 2)
          PROVE  w[k] = Node(l, s, k - 1)
      <4>1. CASE k = 1
        BY <2>1, <3>4, <4>1 DEF Node
      <4>2. CASE k = n + 2
        BY <2>1, <3>4, <4>2 DEF Node
      <4>3. CASE k \in 2..(n + 1)
        <5>1. k - 1 \in 1..n /\ k - 1 # 0 /\ k - 1 # n + 1
          BY <2>1, <4>3
        <5> HIDE DEF w
        <5> QED
          BY <2>2, <3>5, <4>3, <5>1 DEF Node
      <4> QED
        BY <2>1, <4>1, <4>2, <4>3
    <3> QED
      BY <3>3, <3>6
  <2> HIDE DEF w
  <2>4. ASSUME NEW k \in 1..(Len(w) - 1)
        PROVE  heap.prev[w[k + 1]] = w[k]
    <3>1. k - 1 \in 0..n /\ k \in 1..(n + 2) /\ k + 1 \in 1..(n + 2) /\ k + 1 - 1 = k /\ k - 1 + 1 = k
      BY <2>1, <2>3
    <3>2. w[k] = Node(l, s, k - 1) /\ w[k + 1] = Node(l, s, k)
      BY <2>3, <3>1
    <3>3. heap.prev[Node(l, s, k - 1 + 1)] = Node(l, s, k - 1)
      BY <2>1, <3>1 DEF ListAt
    <3> QED
      BY <3>1, <3>2, <3>3
  <2>5. heap.prev[head(l)] = NULL /\ heap.next[tail(l)] = NULL
    BY <2>1 DEF ListAt
  <2> QED
    BY <2>4, <2>5 DEF w
<1>3. ASSUME NEW i \in Allocated
      PROVE  Cardinality({l \in used : \E k \in 1..Size(l) : Content(l)[k] = elem(i)}) = 1
  <2>1. \A l \in used : /\ Size(l) = Len(Seqs[l])
                        /\ \A k \in 1..Size(l) : Content(l)[k] = elem(Seqs[l][k])
    BY Facts
  <2>2. i \in Items /\ i \in Listed(Seqs)
    BY <1>1 DEF Allocated
  <2>a. PICK l \in used : \E k \in 1..Len(Seqs[l]) : Seqs[l][k] = i
    BY <1>1, <2>2 DEF Listed
  <2>3. PICK k \in 1..Len(Seqs[l]) : Seqs[l][k] = i
    BY <2>a
  <2>4. ASSUME NEW m \in used, NEW j \in 1..Size(m), Content(m)[j] = elem(i)
        PROVE  m = l
    <3>1. Seqs[m][j] = i /\ j \in 1..Len(Seqs[m])
      BY <2>1, <2>4, NodeFacts
    <3> QED
      BY <1>1, <2>3, <3>1, OnePlace
  <2>5. k \in 1..Size(l) /\ Content(l)[k] = elem(i)
    BY <2>1, <2>3
  <2>6. {m \in used : \E j \in 1..Size(m) : Content(m)[j] = elem(i)} = {l}
    BY <2>4, <2>5
  <2> QED
    BY <2>6, FS_Singleton, Zenon
<1> QED
  BY <1>2, <1>3 DEF Linked

\* list_max and list_min return the first of several greatest or smallest items.
LEMMA InvExtremes == IInv => ExtremesAreFirst
<1> SUFFICES ASSUME IInv, NEW l \in used, ~list_empty(heap, l)
             PROVE  LET v == [k \in 1..Size(l) |-> val[Content(l)[k][2]]]
                    IN  \E a, b \in 1..Size(l) :
                          /\ list_max(heap, val, l) = Content(l)[a]
                          /\ \A k \in 1..Size(l) : v[k] <= v[a] /\ (v[k] = v[a] => a <= k)
                          /\ list_min(heap, val, l) = Content(l)[b]
                          /\ \A k \in 1..Size(l) : v[b] <= v[k] /\ (v[k] = v[b] => b <= k)
  BY DEF ExtremesAreFirst
<1> PICK s, n : s = Seqs[l] /\ n = Len(s)
  OBVIOUS
<1> DEFINE v == [k \in 1..n |-> val[s[k]]]
<1>1. /\ n \in Nat /\ Size(l) = n /\ \A k \in 1..n : Content(l)[k] = elem(s[k]) /\ s[k] \in Items
      /\ val \in [Items -> Int] /\ l \in DOMAIN Seqs /\ Holds(heap, Seqs)
  BY Facts
<1>2. n # 0
  <2> SUFFICES ASSUME n = 0 PROVE FALSE
    OBVIOUS
  <2>1. ListAt(heap, l, s) /\ 0 \in 0..Len(s)
    BY <1>1 DEF Holds
  <2>2. heap.next[Node(l, s, 0)] = Node(l, s, 0 + 1)
    BY <2>1 DEF ListAt
  <2>3. Node(l, s, 0) = head(l) /\ Node(l, s, 0 + 1) = tail(l)
    BY DEF Node
  <2> QED
    BY <2>2, <2>3 DEF list_empty, list_begin, list_end
<1>3. /\ \E a \in 1..n : list_max(heap, val, l) = elem(s[a]) /\ FirstGreatest(val, s, a)
      /\ \E a \in 1..n : list_min(heap, val, l) = elem(s[a]) /\ FirstSmallest(val, s, a)
  BY <1>1, <1>2, ExtremesFound
<1>4. PICK a \in 1..n : list_max(heap, val, l) = elem(s[a]) /\ FirstGreatest(val, s, a)
  BY <1>3
<1>5. PICK b \in 1..n : list_min(heap, val, l) = elem(s[b]) /\ FirstSmallest(val, s, b)
  BY <1>3
<1>6. ASSUME NEW k \in 1..n
      PROVE  v[k] <= v[a] /\ (v[k] = v[a] => a <= k)
  BY <1>4 DEF FirstBest, FirstGreatest
<1>7. ASSUME NEW k \in 1..n
      PROVE  v[b] <= v[k] /\ (v[k] = v[b] => b <= k)
  <2>1. v[k] = val[s[k]] /\ v[b] = val[s[b]] /\ val[s[k]] \in Int /\ val[s[b]] \in Int
    BY <1>1
  <2>2. -val[s[k]] <= -val[s[b]] /\ (-val[s[k]] = -val[s[b]] => b <= k)
    BY <1>5 DEF FirstBest, FirstSmallest
  <2> QED
    BY <2>1, <2>2
<1>8. v = [k \in 1..Size(l) |-> val[Content(l)[k][2]]]
  BY <1>1, NodeFacts
<1> HIDE DEF v
<1>9. /\ list_max(heap, val, l) = Content(l)[a] /\ list_min(heap, val, l) = Content(l)[b]
      /\ a \in 1..Size(l) /\ b \in 1..Size(l)
  BY <1>1, <1>4, <1>5
<1> QED
  BY <1>1, <1>6, <1>7, <1>8, <1>9

\* No list was created yet.
LEMMA InitGood == Init => IInv
<1> SUFFICES ASSUME Init PROVE IInv
  OBVIOUS
<1>1. Seqs = << >> /\ DOMAIN Seqs = {}
  BY DEF Init, Seqs
<1>2. heap \in Heaps
  BY DEF Init, NoLinks, Heaps
<1>3. Contents(Seqs)
  <2>1. Seqs = [l \in {} |-> Seqs[l]]
    BY DEF Init, Seqs
  <2> QED
    BY <1>1, <2>1 DEF Contents
<1>4. val \in [Items -> Values \union {NoValue}] /\ \A i \in Items : val[i] = NoValue
  BY DEF Init
<1> QED
  BY <1>1, <1>2, <1>3, <1>4 DEF IInv, Good, Holds, Listed

-----------------------------------------------------------------------------
(* Sequences *)

\* An insertion and a removal in terms of places.
LEMMA PutIs ==
    ASSUME NEW s \in Seq(Items), NEW p \in 1..(Len(s) + 1), NEW i \in Items
    PROVE  LS!InsertAt(s, p, i) = Put(s, p, i)
<1> PICK n, x, y : n = Len(s) /\ x = SubSeq(s, 1, p - 1) /\ y = SubSeq(s, p, n)
  OBVIOUS
<1> PICK z : z = <<i>>
  OBVIOUS
<1>1. n \in Nat /\ z \in Seq(Items) /\ Len(z) = 1 /\ z[1] = i
  OBVIOUS
<1>2. x \in Seq(Items) /\ Len(x) = p - 1 /\ \A k \in 1..(p - 1) : x[k] = s[k]
  <2>1. 1 \in 1..(n + 1) /\ p - 1 \in 0..n /\ 1 <= p - 1 + 1 /\ p - 1 - 1 + 1 = p - 1
    BY <1>1
  <2>2. /\ x \in Seq(Items) /\ Len(x) = p - 1 - 1 + 1
        /\ \A k \in 1..(p - 1 - 1 + 1) : x[k] = s[k + 1 - 1]
    BY <2>1, PartOf
  <2>3. \A k \in 1..(p - 1) : k + 1 - 1 = k
    BY <1>1
  <2> QED
    BY <2>1, <2>2, <2>3
<1>3. y \in Seq(Items) /\ Len(y) = n - p + 1 /\ \A k \in 1..(n - p + 1) : y[k] = s[k + p - 1]
  <2>1. p \in 1..(n + 1) /\ n \in 0..n /\ p <= n + 1
    BY <1>1
  <2> QED
    BY <2>1, PartOf
<1>4. x \o z \in Seq(Items) /\ Len(x \o z) = p /\ \A k \in 1..p : (x \o z)[k] = IF k < p THEN s[k] ELSE i
  <2>1. /\ x \o z \in Seq(Items) /\ Len(x \o z) = p - 1 + 1
        /\ \A k \in 1..(p - 1 + 1) : (x \o z)[k] = IF k <= p - 1 THEN x[k] ELSE z[k - (p - 1)]
    BY <1>1, <1>2, Chain
  <2>2. ASSUME NEW k \in 1..p
        PROVE  (x \o z)[k] = IF k < p THEN s[k] ELSE i
    <3>1. k \in 1..(p - 1 + 1) /\ (k <= p - 1 <=> k < p) /\ (k < p => k \in 1..(p - 1))
          /\ (~(k < p) => k - (p - 1) = 1)
      BY <1>1
    <3> QED
      BY <1>1, <1>2, <2>1, <3>1
  <2>3. p - 1 + 1 = p
    BY <1>1
  <2> QED
    BY <2>1, <2>2, <2>3
<1>w. PICK w : w = x \o z
  OBVIOUS
<1>a. w \in Seq(Items) /\ Len(w) = p /\ \A k \in 1..p : w[k] = IF k < p THEN s[k] ELSE i
  BY <1>4, <1>w
<1> PICK u : u = w \o y
  OBVIOUS
<1>5. /\ u \in Seq(Items) /\ Len(u) = p + (n - p + 1)
      /\ \A k \in 1..(p + (n - p + 1)) : u[k] = IF k <= p THEN w[k] ELSE y[k - p]
  <2>1. w \in Seq(Items) /\ y \in Seq(Items) /\ Len(w) = p /\ Len(y) = n - p + 1
    BY <1>3, <1>a
  <2>2. /\ u \in Seq(Items) /\ Len(u) = Len(w) + Len(y)
        /\ \A k \in 1..(Len(w) + Len(y)) : u[k] = IF k <= Len(w) THEN w[k] ELSE y[k - Len(w)]
    BY <2>1, Chain
  <2> QED
    BY <2>1, <2>2
<1>6. ASSUME NEW k \in 1..(n + 1)
      PROVE  u[k] = Put(s, p, i)[k]
  <2>1. k \in 1..(p + (n - p + 1)) /\ k \in Nat /\ p \in Nat
    BY <1>1
  <2>2. Put(s, p, i)[k] = IF k < p THEN s[k] ELSE IF k = p THEN i ELSE s[k - 1]
    BY DEF Put
  <2>3. CASE k <= p
    <3>1. k \in 1..p /\ (~(k < p) => k = p)
      BY <2>1, <2>3
    <3> QED
      BY <1>5, <1>a, <2>1, <2>2, <2>3, <3>1
  <2>4. CASE ~(k <= p)
    <3>1. ~(k < p) /\ k # p /\ k - p \in 1..(n - p + 1) /\ k - p + p - 1 = k - 1
      BY <1>1, <2>1, <2>4
    <3> QED
      BY <1>3, <1>5, <2>1, <2>2, <2>4, <3>1
  <2> QED
    BY <2>3, <2>4
<1>7. u = Put(s, p, i)
  <2>1. p + (n - p + 1) = n + 1 /\ Array(Put(s, p, i), n + 1)
    BY <1>1 DEF Put, Array
  <2> QED
    BY <1>5, <1>6, <2>1, SameSeq
<1> QED
  BY <1>7, <1>w DEF LS!InsertAt

\* Drop is the RemoveAt of ListSpec.
LEMMA DropIs ==
    ASSUME NEW s \in Seq(Items), NEW p \in 1..Len(s)
    PROVE  LS!RemoveAt(s, p) = Drop(s, p)
<1> PICK n, x, y : n = Len(s) /\ x = SubSeq(s, 1, p - 1) /\ y = SubSeq(s, p + 1, n)
  OBVIOUS
<1>1. n \in Nat
  OBVIOUS
<1>2. x \in Seq(Items) /\ Len(x) = p - 1 /\ \A k \in 1..(p - 1) : x[k] = s[k]
  <2>1. 1 \in 1..(n + 1) /\ p - 1 \in 0..n /\ 1 <= p - 1 + 1 /\ p - 1 - 1 + 1 = p - 1
    BY <1>1
  <2>2. /\ x \in Seq(Items) /\ Len(x) = p - 1 - 1 + 1
        /\ \A k \in 1..(p - 1 - 1 + 1) : x[k] = s[k + 1 - 1]
    BY <2>1, PartOf
  <2>3. \A k \in 1..(p - 1) : k + 1 - 1 = k
    BY <1>1
  <2> QED
    BY <2>1, <2>2, <2>3
<1>3. y \in Seq(Items) /\ Len(y) = n - p /\ \A k \in 1..(n - p) : y[k] = s[k + p]
  <2>1. p + 1 \in 1..(n + 1) /\ n \in 0..n /\ p + 1 <= n + 1 /\ n - (p + 1) + 1 = n - p
    BY <1>1
  <2>2. /\ y \in Seq(Items) /\ Len(y) = n - (p + 1) + 1
        /\ \A k \in 1..(n - (p + 1) + 1) : y[k] = s[k + (p + 1) - 1]
    BY <2>1, PartOf
  <2>3. \A k \in 1..(n - p) : k + (p + 1) - 1 = k + p
    BY <1>1
  <2> QED
    BY <2>1, <2>2, <2>3
<1> PICK u : u = x \o y
  OBVIOUS
<1>4. /\ u \in Seq(Items) /\ Len(u) = p - 1 + (n - p)
      /\ \A k \in 1..(p - 1 + (n - p)) : u[k] = IF k <= p - 1 THEN x[k] ELSE y[k - (p - 1)]
  <2>1. x \in Seq(Items) /\ y \in Seq(Items) /\ Len(x) = p - 1 /\ Len(y) = n - p
    BY <1>2, <1>3
  <2>2. /\ u \in Seq(Items) /\ Len(u) = Len(x) + Len(y)
        /\ \A k \in 1..(Len(x) + Len(y)) : u[k] = IF k <= Len(x) THEN x[k] ELSE y[k - Len(x)]
    BY <2>1, Chain
  <2> QED
    BY <2>1, <2>2
<1>5. ASSUME NEW k \in 1..(n - 1)
      PROVE  u[k] = Drop(s, p)[k]
  <2>1. k \in 1..(p - 1 + (n - p)) /\ k \in Nat /\ p \in Nat
    BY <1>1
  <2>2. Drop(s, p)[k] = IF k < p THEN s[k] ELSE s[k + 1]
    BY DEF Drop
  <2>3. CASE k <= p - 1
    <3>1. k \in 1..(p - 1) /\ k < p
      BY <2>1, <2>3
    <3> QED
      BY <1>2, <1>4, <2>1, <2>2, <2>3, <3>1
  <2>4. CASE ~(k <= p - 1)
    <3>1. ~(k < p) /\ k - (p - 1) \in 1..(n - p) /\ k - (p - 1) + p = k + 1
      BY <1>1, <2>1, <2>4
    <3> QED
      BY <1>3, <1>4, <2>1, <2>2, <2>4, <3>1
  <2> QED
    BY <2>3, <2>4
<1>6. u = Drop(s, p)
  <2>1. p - 1 + (n - p) = n - 1 /\ Array(Drop(s, p), n - 1)
    BY <1>1 DEF Drop, Array
  <2> QED
    BY <1>4, <1>5, <2>1, SameSeq
<1> QED
  BY <1>6 DEF LS!RemoveAt

-----------------------------------------------------------------------------
(* The commands that change one place of a list *)

\* Where the places are that a command names.
LEMMA Places ==
    ASSUME IInv, NEW l \in used, NEW s, s = Seqs[l], NEW n, n = Len(s)
    PROVE  /\ n \in Nat /\ s \in Seq(Items) /\ n = Size(l)
           /\ list_begin(heap, l) = Node(l, s, 1) /\ list_end(l) = Node(l, s, n + 1)
           /\ heap.next[head(l)] = Node(l, s, 1) /\ heap.prev[tail(l)] = Node(l, s, n)
           /\ list_empty(heap, l) <=> n = 0
           /\ \A k \in 1..n : Node(l, s, k) = elem(s[k])
           /\ \A idx \in 0..(n - 1) : list_elem_at(heap, l, idx) = Node(l, s, idx + 1)
           /\ \A idx \in 0..n : list_pos_at(heap, l, idx) = Node(l, s, idx + 1)
<1>1. /\ n \in Nat /\ Size(l) = n /\ \A k \in 1..n : Content(l)[k] = elem(s[k])
      /\ l \in DOMAIN Seqs /\ Holds(heap, Seqs) /\ Contents(Seqs)
  BY Facts
<1>2. /\ \A k \in 1..n : Node(l, s, k) = elem(s[k])
      /\ Node(l, s, 0) = head(l) /\ Node(l, s, n + 1) = tail(l)
      /\ s \in Seq(Items)
  BY <1>1, NodeType DEF Contents
<1>3. /\ heap.next[head(l)] = Node(l, s, 1) /\ heap.prev[tail(l)] = Node(l, s, n)
  <2>1. 0 \in 0..n /\ n \in 0..n /\ 0 + 1 = 1
    BY <1>1
  <2>2. ListAt(heap, l, s)
    BY <1>1 DEF Holds
  <2>3. heap.next[Node(l, s, 0)] = Node(l, s, 0 + 1) /\ heap.prev[Node(l, s, n + 1)] = Node(l, s, n)
    BY <2>1, <2>2 DEF ListAt
  <2> QED
    BY <1>2, <2>1, <2>3
<1>4. list_empty(heap, l) <=> n = 0
  <2>1. CASE n = 0
    BY <1>2, <1>3, <2>1 DEF list_empty, list_begin, list_end
  <2>2. CASE n # 0
    <3>1. 1 \in 1..n
      BY <1>1, <2>2
    <3>2. Node(l, s, 1) # tail(l)
      BY <1>2, <3>1, NodeFacts
    <3> QED
      BY <1>3, <2>2, <3>2 DEF list_empty, list_begin, list_end
  <2> QED
    BY <2>1, <2>2
<1>5. ASSUME NEW idx \in 0..(n - 1)
      PROVE  list_elem_at(heap, l, idx) = Node(l, s, idx + 1)
  <2>1. idx + 1 \in 1..n
    BY <1>1
  <2> QED
    BY <1>1, <1>2, <2>1 DEF list_elem_at, Content
<1>6. list_size(heap, l) = n
  BY <1>1 DEF list_size, Size, Content
<1>7. ASSUME NEW idx \in 0..n
      PROVE  list_pos_at(heap, l, idx) = Node(l, s, idx + 1)
  <2>1. CASE idx = n
    BY <1>2, <1>6, <2>1 DEF list_pos_at, list_end
  <2>2. CASE idx # n
    <3>1. idx \in 0..(n - 1)
      BY <1>1, <2>2
    <3> QED
      BY <1>5, <1>6, <2>2, <3>1 DEF list_pos_at
  <2> QED
    BY <2>1, <2>2
<1> QED
  BY <1>1, <1>2, <1>3, <1>4, <1>5, <1>7 DEF list_begin, list_end

\* malloc returns an item that is on no list.
LEMMA FreshIs ==
    ASSUME IInv, Allocated # Items
    PROVE  Fresh \in Items /\ val[Fresh] = NoValue /\ Fresh \notin Listed(Seqs)
<1>1. Items \ Allocated # {} /\ Items \ Allocated \subseteq Nat
  BY ListHeapAssumption DEF Allocated, Items
<1>2. \E i \in Items \ Allocated : \A j \in Items \ Allocated : i <= j
  BY <1>1, LeastNumber
<1>3. Fresh \in Items \ Allocated
  BY <1>2 DEF Fresh
<1> QED
  BY <1>3, Facts DEF Allocated

\* The commands that insert an item.
LEMMA Adds ==
    ASSUME IInv, NEW l \in used, NEW v \in Values, Make(v), NEW p \in 1..(Len(Seqs[l]) + 1),
           heap' = list_insert(heap, Node(l, Seqs[l], p), elem(Fresh)), used' = used
    PROVE  IInv' /\ LS!Add(l, p, v) /\ Seqs' = With(Seqs, l, Put(Seqs[l], p, Fresh))
<1> PICK s, n, i, r : s = Seqs[l] /\ n = Len(s) /\ i = Fresh /\ r = With(Seqs, l, Put(s, p, i))
  OBVIOUS
<1>1. /\ Holds(heap, Seqs) /\ DOMAIN Seqs = used /\ n \in Nat /\ s \in Seq(Items)
      /\ val \in [Items -> Values \union {NoValue}]
      /\ \A k \in Items : val[k] # NoValue <=> k \in Listed(Seqs)
  BY Facts, Places
<1>2. i \in Items /\ val[i] = NoValue /\ i \notin Listed(Seqs) /\ val' = [val EXCEPT ![i] = v]
  BY FreshIs DEF Make
<1>3. Holds(heap', r)
  <2>1. \A m \in DOMAIN Seqs : \A a \in 1..Len(Seqs[m]) : Seqs[m][a] # i
    BY <1>2 DEF Listed
  <2> QED
    BY <1>1, <1>2, <2>1, InsertGives
<1>6. Listed(r) = Listed(Seqs) \union {i}
  BY <1>1, <1>2, ListedPut
<1>7. Good(heap', val', r)
  <2>1. val' \in [Items -> Values \union {NoValue}]
    BY <1>1, <1>2
  <2>2. v # NoValue
    BY PintosListAssumption DEF NoValue
  <2>3. \A j \in Items : val'[j] # NoValue <=> j \in Listed(r)
    BY <1>1, <1>2, <1>6, <2>2
  <2> QED
    BY <1>3, <2>1, <2>3 DEF Good
<1>8. IInv' /\ Seqs' = r
  <2>1. DOMAIN r = used'
    BY <1>1, WithIs
  <2> QED
    BY <1>7, <2>1, Becomes
<1>9. LS!Add(l, p, v)
  <2>1. LS!InsertAt(s, p, i) = Put(s, p, i)
    BY <1>1, <1>2, PutIs
  <2>2. Seqs' = [Seqs EXCEPT ![l] = LS!InsertAt(Seqs[l], p, i)]
    BY <1>8, <2>1 DEF With
  <2> QED
    BY <1>2, <2>2 DEF LS!Add, LS!NoValue, NoValue
<1> QED
  BY <1>8, <1>9

\* list_push_front adds an item in front of the first.
LEMMA PushFrontStep ==
    ASSUME IInv, NEW l \in used, NEW v \in Values, PushFront(l, v)
    PROVE  IInv' /\ LS!Add(l, 1, v)
<1>1. Make(v) /\ heap' = list_insert(heap, list_begin(heap, l), elem(Fresh)) /\ used' = used
  BY DEF PushFront
<1>2. list_begin(heap, l) = Node(l, Seqs[l], 1) /\ 1 \in 1..(Len(Seqs[l]) + 1)
  BY Places
<1> QED
  BY <1>1, <1>2, Adds

\* list_push_back adds an item after the last.
LEMMA PushBackStep ==
    ASSUME IInv, NEW l \in used, NEW v \in Values, PushBack(l, v)
    PROVE  IInv' /\ LS!Add(l, Len(Seqs[l]) + 1, v)
<1>1. Make(v) /\ heap' = list_insert(heap, list_end(l), elem(Fresh)) /\ used' = used
  BY DEF PushBack
<1>2. /\ list_end(l) = Node(l, Seqs[l], Len(Seqs[l]) + 1)
      /\ Len(Seqs[l]) + 1 \in 1..(Len(Seqs[l]) + 1)
  BY Places
<1> QED
  BY <1>1, <1>2, Adds

\* list_insert adds an item at an index.
LEMMA InsertStep ==
    ASSUME IInv, NEW l \in used, NEW v \in Values, NEW idx \in 0..Size(l), Insert(l, idx, v)
    PROVE  IInv' /\ LS!Add(l, idx + 1, v) /\ idx \in 0..Len(Seqs[l])
<1>1. Make(v) /\ heap' = list_insert(heap, list_pos_at(heap, l, idx), elem(Fresh)) /\ used' = used
  BY DEF Insert
<1>2. Len(Seqs[l]) \in Nat /\ Size(l) = Len(Seqs[l])
  BY Places
<1>3. list_pos_at(heap, l, idx) = Node(l, Seqs[l], idx + 1) /\ idx + 1 \in 1..(Len(Seqs[l]) + 1)
  BY <1>2, Places
<1> QED
  BY <1>1, <1>2, <1>3, Adds

\* list_insert_ordered adds an item after those that are not greater.
LEMMA InsertOrderedStep ==
    ASSUME IInv, NEW l \in used, NEW v \in Values, InsertOrdered(l, v)
    PROVE  IInv' /\ LS!InsertOrdered(l, v)
<1> PICK s, n, i : s = Seqs[l] /\ n = Len(s) /\ i = Fresh
  OBVIOUS
<1>1. /\ Make(v) /\ heap' = list_insert_ordered(heap, val', l, elem(i)) /\ used' = used
      /\ val' = [val EXCEPT ![i] = v]
  BY DEF InsertOrdered, Make
<1>2. /\ Holds(heap, Seqs) /\ DOMAIN Seqs = used /\ n \in Nat /\ s \in Seq(Items)
      /\ val \in [Items -> Int] /\ i \in Items /\ val[i] = NoValue /\ i \notin Listed(Seqs)
  BY <1>1, Facts, Places, FreshIs DEF Make
<1>3. val' \in [Items -> Int] /\ val'[i] = v
  <2>1. v \in Int
    BY PintosListAssumption
  <2> QED
    BY <1>1, <1>2, <2>1
<1>4. PICK p \in 1..(n + 1) :
         /\ list_insert_ordered(heap, val', l, elem(i)) = list_insert(heap, Node(l, s, p), elem(i))
         /\ \A k \in 1..(p - 1) : val'[s[k]] <= val'[i]
         /\ p <= n => val'[i] < val'[s[p]]
  BY <1>2, <1>3, OrderedPlace
<1>5. \A k \in 1..n : val'[s[k]] = val[s[k]]
  <2>1. \A k \in 1..n : s[k] # i /\ s[k] \in Items
    BY <1>2 DEF Listed
  <2> QED
    BY <1>1, <1>2, <2>1
<1>6. (\A k \in 1..(p - 1) : val[s[k]] <= v) /\ (p <= n => v < val[s[p]])
  <2>1. (\A k \in 1..(p - 1) : k \in 1..n) /\ (p <= n => p \in 1..n)
    BY <1>2
  <2> QED
    BY <1>3, <1>4, <1>5, <2>1
<1>7. heap' = list_insert(heap, Node(l, Seqs[l], p), elem(Fresh))
  BY <1>1, <1>4
<1>8. IInv' /\ Seqs' = With(Seqs, l, Put(s, p, i))
  BY <1>1, <1>7, Adds
<1>9. Seqs' = [Seqs EXCEPT ![l] = LS!InsertAt(Seqs[l], p, i)]
  <2>1. LS!InsertAt(s, p, i) = Put(s, p, i)
    BY <1>2, PutIs
  <2> QED
    BY <1>8, <2>1 DEF With
<1>10. LS!InsertOrdered(l, v)
  BY <1>1, <1>2, <1>6, <1>9 DEF LS!InsertOrdered, LS!NoValue, NoValue
<1> QED
  BY <1>8, <1>10

\* The commands that remove one item.
LEMMA Removes ==
    ASSUME IInv, NEW l \in used, NEW p \in 1..Len(Seqs[l]), RemoveNode(elem(Seqs[l][p]))
    PROVE  IInv' /\ LS!RemoveOne(l, p)
<1> PICK s, n, i, r : s = Seqs[l] /\ n = Len(s) /\ i = s[p] /\ r = With(Seqs, l, Drop(s, p))
  OBVIOUS
<1>1. /\ Holds(heap, Seqs) /\ Contents(Seqs) /\ DOMAIN Seqs = used /\ n \in Nat /\ s \in Seq(Items)
      /\ val \in [Items -> Values \union {NoValue}]
      /\ \A k \in Items : val[k] # NoValue <=> k \in Listed(Seqs)
  BY Facts, Places
<1>2. /\ heap' = Forget(list_remove(heap, elem(i)), {elem(i)}) /\ used' = used
      /\ val' = [j \in Items |-> IF elem(j) \in {elem(i)} THEN NoValue ELSE val[j]]
  BY DEF RemoveNode, Free
<1>3. i \in Items /\ \A j : elem(j) \in {elem(i)} <=> j = i
  BY <1>1, NodeFacts
<1>6. Listed(r) = Listed(Seqs) \ {i}
  BY <1>1, ListedDrop
<1>7. Holds(heap', r)
  <2>1. Holds(list_remove(heap, elem(i)), r)
    BY <1>1, RemoveHolds DEF With
  <2>2. ASSUME NEW m \in DOMAIN r, NEW k \in 0..(Len(r[m]) + 1)
        PROVE  Node(m, r[m], k) \notin {elem(i)}
    <3>1. CASE k = 0 \/ k = Len(r[m]) + 1
      BY <3>1, NodeFacts DEF Node
    <3>2. CASE k # 0 /\ k # Len(r[m]) + 1
      <4>1. Contents(r) /\ Len(r[m]) \in Nat
        BY <2>1, NodeType DEF Holds
      <4>2. k \in 1..Len(r[m]) /\ Node(m, r[m], k) = elem(r[m][k]) /\ r[m][k] \in Items
        BY <3>2, <4>1, NodeType
      <4>3. r[m][k] \in Listed(r)
        BY <4>2 DEF Listed
      <4> QED
        BY <1>3, <1>6, <4>2, <4>3
    <3> QED
      BY <3>1, <3>2
  <2> QED
    BY <1>2, <2>1, <2>2, ForgetHolds
<1>8. Good(heap', val', r)
  <2>1. val' \in [Items -> Values \union {NoValue}]
    BY <1>1, <1>2
  <2>2. \A j \in Items : val'[j] # NoValue <=> j \in Listed(r)
    BY <1>1, <1>2, <1>3, <1>6
  <2> QED
    BY <1>7, <2>1, <2>2 DEF Good
<1>9. IInv' /\ Seqs' = r
  <2>1. DOMAIN r = used'
    BY <1>1, <1>2, WithIs
  <2> QED
    BY <1>8, <2>1, Becomes
<1>10. LS!RemoveOne(l, p)
  <2>1. LS!RemoveAt(s, p) = Drop(s, p)
    BY <1>1, DropIs
  <2>2. Seqs' = [Seqs EXCEPT ![l] = LS!RemoveAt(Seqs[l], p)]
    BY <1>9, <2>1 DEF With
  <2>3. LS!ToSet(<<Seqs[l][p]>>) = {i}
    BY DEF LS!ToSet
  <2>4. val' = [j \in Items |-> IF j \in LS!ToSet(<<Seqs[l][p]>>) THEN LS!NoValue ELSE val[j]]
    BY <1>2, <1>3, <2>3 DEF LS!NoValue, NoValue
  <2> QED
    BY <2>2, <2>4 DEF LS!RemoveOne, LS!Gone
<1> QED
  BY <1>9, <1>10

\* list_pop_front removes the first item, if there is one.
LEMMA PopFrontStep ==
    ASSUME IInv, NEW l \in used, PopFront(l)
    PROVE  IInv' /\ LS!RemoveOne(l, 1) /\ Seqs[l] # <<>>
<1> PICK n : n = Len(Seqs[l])
  OBVIOUS
<1>1. /\ n \in Nat /\ (list_empty(heap, l) <=> n = 0) /\ heap.next[head(l)] = Node(l, Seqs[l], 1)
      /\ \A k \in 1..n : Node(l, Seqs[l], k) = elem(Seqs[l][k])
  BY Places
<1>2. 1 \in 1..n /\ RemoveNode(elem(Seqs[l][1]))
  BY <1>1 DEF PopFront
<1>3. Seqs[l] # <<>>
  BY <1>2
<1> QED
  BY <1>2, <1>3, Removes

\* list_pop_back removes the last item, if there is one.
LEMMA PopBackStep ==
    ASSUME IInv, NEW l \in used, PopBack(l)
    PROVE  IInv' /\ LS!RemoveOne(l, Len(Seqs[l])) /\ Seqs[l] # <<>>
<1> PICK n : n = Len(Seqs[l])
  OBVIOUS
<1>1. /\ n \in Nat /\ (list_empty(heap, l) <=> n = 0) /\ heap.prev[tail(l)] = Node(l, Seqs[l], n)
      /\ \A k \in 1..n : Node(l, Seqs[l], k) = elem(Seqs[l][k])
  BY Places
<1>2. n \in 1..n /\ RemoveNode(elem(Seqs[l][n]))
  BY <1>1 DEF PopBack
<1>3. Seqs[l] # <<>>
  BY <1>2
<1> QED
  BY <1>2, <1>3, Removes

\* list_remove removes the item at an index.
LEMMA RemoveStep ==
    ASSUME IInv, NEW l \in used, NEW idx \in 0..(Size(l) - 1), Remove(l, idx)
    PROVE  IInv' /\ LS!RemoveOne(l, idx + 1) /\ Seqs[l] # <<>> /\ idx \in 0..(Len(Seqs[l]) - 1)
<1> PICK n : n = Len(Seqs[l])
  OBVIOUS
<1>1. /\ n \in Nat /\ Size(l) = n
      /\ \A k \in 0..(n - 1) : list_elem_at(heap, l, k) = Node(l, Seqs[l], k + 1)
      /\ \A k \in 1..n : Node(l, Seqs[l], k) = elem(Seqs[l][k])
  BY Places
<1>2. idx \in 0..(n - 1) /\ idx + 1 \in 1..n
  BY <1>1
<1>3. RemoveNode(elem(Seqs[l][idx + 1]))
  BY <1>1, <1>2 DEF Remove
<1>4. Seqs[l] # <<>>
  BY <1>2
<1> QED
  BY <1>2, <1>3, <1>4, Removes

-----------------------------------------------------------------------------
(* The commands that move items *)

\* A command that puts the items of one list in another order.
LEMMA Arranges ==
    ASSUME IInv, NEW l \in used, NEW T, Permutation(T, Len(Seqs[l])),
           Holds(heap', With(Seqs, l, Arranged(Seqs[l], T))), val' = val, used' = used
    PROVE  IInv' /\ Seqs' = With(Seqs, l, Arranged(Seqs[l], T))
<1> PICK r : r = With(Seqs, l, Arranged(Seqs[l], T))
  OBVIOUS
<1>1. /\ Holds(heap, Seqs) /\ DOMAIN Seqs = used
      /\ val \in [Items -> Values \union {NoValue}]
      /\ \A k \in Items : val[k] # NoValue <=> k \in Listed(Seqs)
  BY Facts
<1>2. Listed(r) = Listed(Seqs) /\ DOMAIN r = used'
  BY <1>1, ListedArranged, WithIs
<1>3. Good(heap', val', r)
  BY <1>1, <1>2 DEF Good
<1> QED
  BY <1>2, <1>3, Becomes

\* list_reverse reverses the list.
LEMMA ReverseStep ==
    ASSUME IInv, NEW l \in used, Reverse(l)
    PROVE  IInv' /\ LS!ReverseList(l)
<1> PICK s, n : s = Seqs[l] /\ n = Len(s)
  OBVIOUS
<1>1. Holds(heap, Seqs) /\ DOMAIN Seqs = used /\ n \in Nat
  BY Facts, Places
<1>2. heap' = list_reverse(heap, l) /\ val' = val /\ used' = used
  BY DEF Reverse
<1>3. PICK T : Permutation(T, n) /\ Reversed(s) = Arranged(s, T)
  BY <1>1, Permutations
<1>4. Holds(heap', With(Seqs, l, Reversed(s)))
  BY <1>1, <1>2, ReverseHolds DEF With
<1>5. Holds(heap', With(Seqs, l, Arranged(s, T)))
  BY <1>3, <1>4
<1>6. IInv' /\ Seqs' = With(Seqs, l, Arranged(s, T))
  BY <1>2, <1>3, <1>5, Arranges
<1>7. LS!Reverse(s) = Reversed(s)
  <2>1. \A k \in 1..n : (n - k) + 1 = n + 1 - k
    BY <1>1
  <2> QED
    BY <2>1 DEF LS!Reverse, Reversed
<1>8. Seqs' = [Seqs EXCEPT ![l] = LS!Reverse(Seqs[l])]
  BY <1>3, <1>6, <1>7 DEF With
<1> QED
  BY <1>2, <1>6, <1>8 DEF LS!ReverseList

\* list_swap exchanges the items at two indexes.
LEMMA SwapStep ==
    ASSUME IInv, NEW l \in used, NEW a \in 0..(Size(l) - 1), NEW b \in 0..(Size(l) - 1), Swap(l, a, b)
    PROVE  /\ IInv' /\ LS!SwapTwo(l, a + 1, b + 1)
           /\ a \in 0..(Len(Seqs[l]) - 1) /\ b \in 0..(Len(Seqs[l]) - 1)
<1> PICK s, n : s = Seqs[l] /\ n = Len(s)
  OBVIOUS
<1>1. Holds(heap, Seqs) /\ DOMAIN Seqs = used /\ n \in Nat /\ Size(l) = n /\ s \in Seq(Items)
  BY Facts, Places
<1>2. a \in 0..(n - 1) /\ b \in 0..(n - 1) /\ a + 1 \in 1..n /\ b + 1 \in 1..n
  BY <1>1
<1>3. list_elem_at(heap, l, a) = elem(s[a + 1]) /\ list_elem_at(heap, l, b) = elem(s[b + 1])
  BY <1>2, Places
<1>4. heap' = list_swap(heap, elem(s[a + 1]), elem(s[b + 1])) /\ val' = val /\ used' = used
  BY <1>3 DEF Swap
<1>5. Holds(heap', With(Seqs, l, Swapped(s, a + 1, b + 1)))
  BY <1>1, <1>2, <1>4, SwapHolds DEF With
<1>6. PICK T : Permutation(T, n) /\ Swapped(s, a + 1, b + 1) = Arranged(s, T)
  BY <1>1, <1>2, Permutations
<1>7. IInv' /\ Seqs' = With(Seqs, l, Swapped(s, a + 1, b + 1))
  BY <1>4, <1>5, <1>6, Arranges
<1>8. Seqs' = [Seqs EXCEPT ![l][a + 1] = Seqs[l][b + 1], ![l][b + 1] = Seqs[l][a + 1]]
  <2>1. Swapped(s, a + 1, b + 1) = [[s EXCEPT ![a + 1] = s[b + 1]] EXCEPT ![b + 1] = s[a + 1]]
    <3>a. PICK e : e = [[s EXCEPT ![a + 1] = s[b + 1]] EXCEPT ![b + 1] = s[a + 1]]
      OBVIOUS
    <3>1. \A k \in 1..n : s[k] \in Items
      BY <1>1
    <3>2. /\ e \in Seq(Items) /\ Len(e) = n
          /\ \A k \in 1..n : e[k] = IF k = b + 1 THEN s[a + 1] ELSE IF k = a + 1 THEN s[b + 1] ELSE s[k]
      BY <1>1, <1>2, <3>1, <3>a
    <3>3. Array(Swapped(s, a + 1, b + 1), n)
      BY DEF Swapped, Array
    <3>4. \A k \in 1..n : e[k] = Swapped(s, a + 1, b + 1)[k]
      BY <3>2 DEF Swapped
    <3>5. e = Swapped(s, a + 1, b + 1)
      BY <3>2, <3>3, <3>4, SameSeq
    <3> QED
      BY <3>5, <3>a
  <2>2. Seqs = [m \in used |-> Seqs[m]]
    BY <1>1 DEF Holds, Contents
  <2> QED
    BY <1>1, <1>2, <1>7, <2>1, <2>2 DEF With
<1> QED
  BY <1>2, <1>4, <1>7, <1>8 DEF LS!SwapTwo

\* find_empty_list_slot finds a list that is not in use, list_init makes it empty.
LEMMA CreateStep ==
    ASSUME IInv, NEW l \in Lists, Create(l)
    PROVE  IInv' /\ LS!Create(l)
<1> PICK r : r = Plus(Seqs, l)
  OBVIOUS
<1>1. /\ Holds(heap, Seqs) /\ DOMAIN Seqs = used
      /\ val \in [Items -> Values \union {NoValue}]
      /\ \A k \in Items : val[k] # NoValue <=> k \in Listed(Seqs)
  BY Facts
<1>2. l \notin used /\ used' = used \union {l} /\ heap' = list_init(heap, l) /\ val' = val
  BY DEF Create
<1>3. Holds(heap', r)
  BY <1>1, <1>2, InitHolds
<1>4. DOMAIN r = used \union {l} /\ r[l] = <<>> /\ \A m \in used : r[m] = Seqs[m]
  BY <1>1, <1>2 DEF Plus
<1>5. ASSUME NEW i \in Items
      PROVE  i \in Listed(r) <=> i \in Listed(Seqs)
  <2>1. i \in Listed(r) <=> \E m \in used \union {l} : \E k \in 1..Len(r[m]) : r[m][k] = i
    BY <1>4 DEF Listed
  <2>2. ~\E k \in 1..Len(r[l]) : r[l][k] = i
    <3>1. Len(r[l]) = 0
      BY <1>4
    <3> QED
      BY <3>1
  <2>3. i \in Listed(Seqs) <=> \E m \in used : \E k \in 1..Len(Seqs[m]) : Seqs[m][k] = i
    BY <1>1 DEF Listed
  <2> QED
    BY <1>4, <2>1, <2>2, <2>3
<1>6. Good(heap', val', r)
  BY <1>1, <1>2, <1>3, <1>5 DEF Good
<1>7. IInv' /\ Seqs' = r
  BY <1>2, <1>4, <1>6, Becomes
<1>8. l \notin LS!Created /\ Seqs' = [k \in LS!Created \union {l} |-> IF k = l THEN <<>> ELSE Seqs[k]]
  BY <1>1, <1>2, <1>7 DEF LS!Created, Plus
<1> QED
  BY <1>2, <1>7, <1>8 DEF LS!Create

\* delete empties the list and frees its items.
LEMMA DeleteStep ==
    ASSUME IInv, NEW l \in used, Delete(l)
    PROVE  IInv' /\ LS!Delete(l)
<1> PICK s, n, r : s = Seqs[l] /\ n = Len(s) /\ r = Minus(Seqs, l)
  OBVIOUS
<1>1. /\ Holds(heap, Seqs) /\ Contents(Seqs) /\ DOMAIN Seqs = used
      /\ val \in [Items -> Values \union {NoValue}]
      /\ \A k \in Items : val[k] # NoValue <=> k \in Listed(Seqs)
      /\ n \in Nat /\ Size(l) = n /\ \A k \in 1..n : Content(l)[k] = elem(s[k]) /\ s[k] \in Items
  BY Facts
<1>2. {Content(l)[k] : k \in 1..Size(l)} = {elem(s[k]) : k \in 1..n}
  BY <1>1
<1> PICK ns : ns = {elem(s[k]) : k \in 1..n}
  OBVIOUS
<1>3. /\ used' = used \ {l} /\ heap' = Forget(heap, ns \union {head(l), tail(l)})
      /\ val' = [i \in Items |-> IF elem(i) \in ns THEN NoValue ELSE val[i]]
  BY <1>2 DEF Delete, Free
<1>4. Holds(heap', r)
  BY <1>1, <1>3, DeleteHolds
<1>5. DOMAIN r = used \ {l} /\ \A m \in used \ {l} : r[m] = Seqs[m]
  BY <1>1 DEF Minus
<1>6. \A i \in Items : elem(i) \in ns <=> \E k \in 1..n : s[k] = i
  BY NodeFacts
<1>7. ASSUME NEW i \in Items
      PROVE  i \in Listed(r) <=> i \in Listed(Seqs) /\ elem(i) \notin ns
  <2>1. i \in Listed(r) <=> \E m \in used \ {l} : \E k \in 1..Len(Seqs[m]) : Seqs[m][k] = i
    BY <1>5 DEF Listed
  <2>2. i \in Listed(Seqs) <=> ((\E k \in 1..n : s[k] = i)
                                 \/ \E m \in used \ {l} : \E k \in 1..Len(Seqs[m]) : Seqs[m][k] = i)
    BY <1>1 DEF Listed
  <2>3. ASSUME NEW k \in 1..n, s[k] = i, NEW m \in used \ {l}, NEW j \in 1..Len(Seqs[m]), Seqs[m][j] = i
        PROVE  FALSE
    <3>1. k \in 1..Len(Seqs[l]) /\ Seqs[l][k] = Seqs[m][j]
      BY <2>3
    <3> QED
      BY <1>1, <3>1, OnePlace
  <2> QED
    BY <1>6, <2>1, <2>2, <2>3
<1>8. Good(heap', val', r)
  <2>1. val' \in [Items -> Values \union {NoValue}]
    BY <1>1, <1>3
  <2>2. \A j \in Items : val'[j] # NoValue <=> j \in Listed(r)
    BY <1>1, <1>3, <1>7
  <2> QED
    BY <1>4, <2>1, <2>2 DEF Good
<1>9. IInv' /\ Seqs' = r
  BY <1>3, <1>5, <1>8, Becomes
<1>10. Seqs' = [k \in LS!Created \ {l} |-> Seqs[k]]
  BY <1>1, <1>9 DEF LS!Created, Minus
<1>11. LS!Gone(Seqs[l])
  <2>1. \A i : i \in LS!ToSet(Seqs[l]) <=> \E k \in 1..n : s[k] = i
    <3>1. DOMAIN s = 1..n
      BY <1>1 DEF Contents
    <3> QED
      BY <3>1 DEF LS!ToSet
  <2>2. val' = [i \in Items |-> IF i \in LS!ToSet(Seqs[l]) THEN LS!NoValue ELSE val[i]]
    BY <1>3, <1>6, <2>1 DEF LS!NoValue, NoValue
  <2> QED
    BY <2>2 DEF LS!Gone
<1> QED
  BY <1>9, <1>10, <1>11 DEF LS!Delete

\* A command that leaves the pointers and the items as they are.
LEMMA Leaves ==
    ASSUME IInv, heap' = heap, val' = val, used' = used
    PROVE  IInv' /\ Seqs' = Seqs
<1>1. DOMAIN Seqs = used /\ Good(heap', val', Seqs)
  BY Facts DEF IInv
<1> QED
  BY <1>1, Becomes

\* list_splice moves a range in front of an index, within a list or between two.
LEMMA SpliceStep ==
    ASSUME IInv, NEW l \in used, NEW src \in used, NEW idx \in 0..Size(l),
           NEW from \in 0..(Size(src) - 1), NEW to \in 0..Size(src), Splice(l, idx, src, from, to)
    PROVE  /\ IInv' /\ LS!Splice(l, idx + 1, src, from + 1, to)
           /\ idx \in 0..Len(Seqs[l]) /\ from \in 0..(Len(Seqs[src]) - 1) /\ to \in 0..Len(Seqs[src])
<1> PICK s, t, n, o : s = Seqs[l] /\ t = Seqs[src] /\ n = Len(s) /\ o = Len(t)
  OBVIOUS
<1> PICK p, a, b : p = idx + 1 /\ a = from + 1 /\ b = to
  OBVIOUS
<1>1. /\ Holds(heap, Seqs) /\ DOMAIN Seqs = used
      /\ val \in [Items -> Values \union {NoValue}]
      /\ \A k \in Items : val[k] # NoValue <=> k \in Listed(Seqs)
      /\ n \in Nat /\ Size(l) = n /\ s \in Seq(Items)
      /\ o \in Nat /\ Size(src) = o /\ t \in Seq(Items)
  BY Facts, Places
<1>2. /\ p \in 1..(n + 1) /\ a \in 1..o /\ b \in 0..o /\ a <= b + 1 /\ (l = src => p < a \/ b < p)
      /\ idx \in 0..n /\ from \in 0..(o - 1) /\ to \in 0..o
  BY <1>1 DEF Splice
<1>3. heap' = list_splice(heap, Node(l, s, p), Node(src, t, a), Node(src, t, b + 1))
  <2>1. list_pos_at(heap, l, idx) = Node(l, s, p)
    BY <1>2, Places
  <2>2. list_elem_at(heap, src, from) = Node(src, t, a)
    BY <1>2, Places
  <2>3. list_pos_at(heap, src, to) = Node(src, t, b + 1)
    BY <1>2, Places
  <2> QED
    BY <2>1, <2>2, <2>3 DEF Splice
<1>4. val' = val /\ used' = used
  BY DEF Splice
<1>5. ASSUME l = src
      PROVE  IF p <= a THEN Shifted(s, p, a, b) = Moved(s, p, a, b)
             ELSE Shifted(s, a, b + 1, p - 1) = Moved(s, a, b + 1, p - 1)
  <2>1. ASSUME p <= a
        PROVE  Shifted(s, p, a, b) = Moved(s, p, a, b)
    <3>1. p \in 1..(n + 1) /\ a \in 1..(n + 1) /\ b \in 0..n
      BY <1>1, <1>2, <1>5
    <3> QED
      BY <1>1, <1>2, <2>1, <3>1, MovedForward
  <2>2. ASSUME ~(p <= a)
        PROVE  Shifted(s, a, b + 1, p - 1) = Moved(s, a, b + 1, p - 1)
    <3> PICK c, d : c = b + 1 /\ d = p - 1
      OBVIOUS
    <3>1. a \in 1..(n + 1) /\ c \in 1..(n + 1) /\ d \in 0..n /\ a <= c /\ c <= d + 1
      BY <1>1, <1>2, <1>5, <2>2
    <3> QED
      BY <1>1, <3>1, MovedForward
  <2> QED
    BY <2>1, <2>2
<1>6. Widened(s, p, t, a, b) = Joined(s, p, t, a, b) /\ Narrowed(t, a, b) = Without(t, a, b)
  BY <1>1, <1>2, MovedOver
<1>7. ASSUME Seqs' = IF l = src THEN With(Seqs, l, IF p <= a THEN Moved(s, p, a, b) ELSE Moved(s, a, b + 1, p - 1))
                     ELSE Both(Seqs, l, Joined(s, p, t, a, b), src, Without(t, a, b))
      PROVE  LS!Splice(l, idx + 1, src, from + 1, to)
  <2>1. l = src => p \notin a..b
    BY <1>1, <1>2
  <2> DEFINE run == SubSeq(Seqs[src], a, b)
  <2>2. Seqs' =
             IF l = src
             THEN [Seqs EXCEPT ![l] =
                     IF p <= a
                     THEN SubSeq(@, 1, p - 1) \o run \o SubSeq(@, p, a - 1) \o SubSeq(@, b + 1, Len(@))
                     ELSE SubSeq(@, 1, a - 1) \o SubSeq(@, b + 1, p - 1) \o run \o SubSeq(@, p, Len(@))]
             ELSE [Seqs EXCEPT ![l] = SubSeq(@, 1, p - 1) \o run \o SubSeq(@, p, Len(@)),
                               ![src] = SubSeq(@, 1, a - 1) \o SubSeq(@, b + 1, Len(@))]
    <3>1. CASE l = src
      <4>1. CASE p <= a
        BY <1>5, <1>7, <3>1, <4>1 DEF With, Shifted
      <4>2. CASE ~(p <= a)
        <5>1. b + 1 - 1 = b /\ p - 1 + 1 = p
          BY <1>1, <1>2
        <5>3. Shifted(s, a, b + 1, p - 1)
                 = SubSeq(s, 1, a - 1) \o SubSeq(s, b + 1, p - 1) \o SubSeq(s, a, b) \o SubSeq(s, p, n)
          <6> PICK c, d : c = b + 1 /\ d = p - 1
            OBVIOUS
          <6>1. Shifted(s, a, c, d)
                   = SubSeq(s, 1, a - 1) \o SubSeq(s, c, d) \o SubSeq(s, a, c - 1) \o SubSeq(s, d + 1, Len(s))
            BY Zenon DEF Shifted
          <6>2. c - 1 = b /\ d + 1 = p
            BY <5>1
          <6>3. SubSeq(s, a, c - 1) = SubSeq(s, a, b) /\ SubSeq(s, d + 1, Len(s)) = SubSeq(s, p, n)
            BY <6>2
          <6> QED
            BY <6>1, <6>3
        <5>2. SubSeq(s, 1, a - 1) \o SubSeq(s, b + 1, p - 1) \o run \o SubSeq(s, p, n)
                 = Moved(s, a, b + 1, p - 1)
          BY <1>5, <3>1, <4>2, <5>3
        <5> QED
          BY <1>7, <3>1, <4>2, <5>2 DEF With
      <4> QED
        BY <4>1, <4>2
    <3>2. CASE l # src
      <4>1. [Seqs EXCEPT ![l] = SubSeq(s, 1, p - 1) \o run \o SubSeq(s, p, n)][src] = t
        BY <1>1, <3>2 DEF Holds, Contents
      <4> QED
        BY <1>6, <1>7, <3>2, <4>1 DEF Both, Widened, Narrowed
    <3> QED
      BY <3>1, <3>2
  <2> HIDE DEF run
  <2> QED
    BY <1>4, <2>1, <2>2 DEF LS!Splice, run
<1>8. CASE a = b + 1
  <2>1. heap' = heap
    BY <1>3, <1>8 DEF list_splice
  <2>2. IInv' /\ Seqs' = Seqs
    BY <1>4, <2>1, Leaves
  <2>3. CASE l = src
    <3>1. IF p <= a THEN Moved(s, p, a, b) = s ELSE Moved(s, a, b + 1, p - 1) = s
      <4>1. CASE p <= a
        <5>1. a \in 1..(n + 1) /\ b \in 0..n
          BY <1>1, <1>2, <2>3
        <5> QED
          BY <1>1, <1>2, <1>8, <4>1, <5>1, MovedNothing
      <4>2. CASE ~(p <= a)
        <5>1. a \in 1..(n + 1) /\ b + 1 \in 1..(n + 1) /\ p - 1 \in 0..n /\ a <= b + 1 /\ b + 1 <= p - 1
          BY <1>1, <1>2, <1>8, <2>3, <4>2
        <5>2. Moved(s, a, b + 1, p - 1) = s
          BY <1>1, <1>8, <5>1, MovedNothing
        <5> QED
          BY <4>2, <5>2
      <4> QED
        BY <4>1, <4>2
    <3>2. With(Seqs, l, s) = Seqs
      BY <1>1, WithIs
    <3>3. LS!Splice(l, idx + 1, src, from + 1, to)
      BY <1>7, <2>2, <2>3, <3>1, <3>2
    <3> QED
      BY <1>2, <2>2, <3>3
  <2>4. CASE l # src
    <3>1. Joined(s, p, t, a, b) = s
      <4>1. Array(Joined(s, p, t, a, b), n)
        <5>1. n + b - a + 1 = n
          BY <1>1, <1>2, <1>8
        <5> QED
          BY <5>1 DEF Joined, Array
      <4>2. ASSUME NEW k \in 1..n
            PROVE  s[k] = Joined(s, p, t, a, b)[k]
        <5>1. k \in 1..(n + b - a + 1) /\ (k < p \/ ~(k <= p + b - a)) /\ k - (b - a) - 1 = k
          BY <1>1, <1>2, <1>8
        <5> QED
          BY <5>1 DEF Joined
      <4> QED
        BY <1>1, <4>1, <4>2, SameSeq
    <3>2. Without(t, a, b) = t
      <4>1. Array(Without(t, a, b), o)
        <5>1. o - (b - a) - 1 = o
          BY <1>1, <1>2, <1>8
        <5> QED
          BY <5>1 DEF Without, Array
      <4>2. ASSUME NEW k \in 1..o
            PROVE  t[k] = Without(t, a, b)[k]
        <5>1. k \in 1..(o - (b - a) - 1) /\ k + b - a + 1 = k
          BY <1>1, <1>2, <1>8
        <5> QED
          BY <5>1 DEF Without
      <4> QED
        BY <1>1, <4>1, <4>2, SameSeq
    <3>3. Both(Seqs, l, s, src, t) = Seqs
      BY <1>1, <2>4, BothIs
    <3>4. LS!Splice(l, idx + 1, src, from + 1, to)
      BY <1>7, <2>2, <2>4, <3>1, <3>2, <3>3
    <3> QED
      BY <1>2, <2>2, <3>4
  <2> QED
    BY <2>3, <2>4
<1>9. CASE a # b + 1 /\ l = src
  <2>0. b \in 1..n /\ a \in 1..n /\ a <= b /\ p \in Nat
    BY <1>1, <1>2, <1>9
  <2>1. CASE p < a
    <3>1. p \in 1..n /\ p <= a
      BY <1>1, <1>2, <2>0, <2>1
    <3>2. Holds(heap', With(Seqs, l, Moved(s, p, a, b)))
      BY <1>1, <1>3, <1>9, <2>0, <2>1, <3>1, SpliceForward DEF With
    <3>3. PICK T : Permutation(T, n) /\ Moved(s, p, a, b) = Arranged(s, T)
      BY <1>1, <2>0, <2>1, <3>1, Permutations
    <3>4. IInv' /\ Seqs' = With(Seqs, l, Moved(s, p, a, b))
      BY <1>4, <3>2, <3>3, Arranges
    <3>5. LS!Splice(l, idx + 1, src, from + 1, to)
      BY <1>7, <1>9, <3>1, <3>4
    <3> QED
      BY <1>2, <3>4, <3>5
  <2>2. CASE b < p
    <3> PICK u : u = IF p = b + 1 THEN s ELSE Moved(s, a, b + 1, p - 1)
      OBVIOUS
    <3>1. Holds(heap', With(Seqs, l, u))
      <4>1. heap' = list_splice(heap, Node(l, s, p), Node(l, s, a), Node(l, s, b + 1))
        BY <1>3, <1>9
      <4>2. Holds(heap', [Seqs EXCEPT ![l] = MovedBack(s, p, a, b)])
        BY <1>1, <1>2, <2>0, <2>2, <4>1, SpliceBackward
      <4> QED
        BY <4>2 DEF With, MovedBack
    <3>2. u = Moved(s, a, b + 1, p - 1)
      <4>1. CASE p = b + 1
        <5> PICK c, d : c = b + 1 /\ d = p - 1
          OBVIOUS
        <5>1. a \in 1..(n + 1) /\ c \in 1..(n + 1) /\ d \in 0..n /\ a <= c /\ c = d + 1
          BY <1>1, <1>2, <2>0, <4>1
        <5>2. Moved(s, a, c, d) = s
          BY <1>1, <5>1, MovedNothing
        <5> QED
          BY <4>1, <5>2
      <4>2. CASE p # b + 1
        BY <4>2
      <4> QED
        BY <4>1, <4>2
    <3>3. PICK T : Permutation(T, n) /\ u = Arranged(s, T)
      <4>1. CASE p = b + 1
        <5> DEFINE I == [k \in 1..n |-> k]
        <5>1. Permutation(I, n)
          BY DEF Permutation
        <5>2. s = Arranged(s, I)
          BY <1>1 DEF Arranged
        <5> QED
          BY <4>1, <5>1, <5>2
      <4>2. CASE p # b + 1
        <5>1. b + 1 \in 1..n /\ p - 1 \in 1..n /\ a < b + 1 /\ b + 1 <= p - 1
          BY <1>1, <1>2, <2>0, <2>2, <4>2
        <5> QED
          BY <1>1, <2>0, <4>2, <5>1, Permutations
      <4> QED
        BY <4>1, <4>2
    <3>4. IInv' /\ Seqs' = With(Seqs, l, u)
      BY <1>4, <3>1, <3>3, Arranges
    <3>5. ~(p <= a)
      BY <1>2, <2>0, <2>2
    <3>6. LS!Splice(l, idx + 1, src, from + 1, to)
      BY <1>7, <1>9, <3>2, <3>4, <3>5
    <3> QED
      BY <1>2, <3>4, <3>6
  <2> QED
    BY <1>2, <1>9, <2>1, <2>2
<1>10. CASE a # b + 1 /\ l # src
  <2>0. b \in 1..o /\ a <= b
    BY <1>1, <1>2, <1>10
  <2> PICK r : r = Both(Seqs, l, Joined(s, p, t, a, b), src, Without(t, a, b))
    OBVIOUS
  <2>1. Holds(heap', r)
    BY <1>1, <1>2, <1>3, <1>10, <2>0, SpliceOver DEF Both
  <2>2. Listed(r) = Listed(Seqs)
    BY <1>1, <1>2, <1>10, <2>0, ListedOver
  <2>3. DOMAIN r = used'
    BY <1>1, <1>4, <1>10, BothIs
  <2>4. Good(heap', val', r)
    BY <1>1, <1>4, <2>1, <2>2 DEF Good
  <2>5. IInv' /\ Seqs' = r
    BY <2>3, <2>4, Becomes
  <2>6. LS!Splice(l, idx + 1, src, from + 1, to)
    BY <1>7, <1>10, <2>5
  <2> QED
    BY <1>2, <2>5, <2>6
<1> QED
  BY <1>8, <1>9, <1>10

-----------------------------------------------------------------------------
(* list_shuffle *)

\* list_shuffle puts the items in some order.
LEMMA ShuffleStep ==
    ASSUME IInv, NEW l \in used, Shuffle(l)
    PROVE  IInv' /\ LS!Shuffle(l)
<1> PICK s, n : s = Seqs[l] /\ n = Len(s)
  OBVIOUS
<1>1. Holds(heap, Seqs) /\ DOMAIN Seqs = used /\ n \in Nat /\ Size(l) = n /\ s \in Seq(Items)
  BY Facts, Places
<1>2. PICK choice \in [0..(n - 1) -> 0..(n - 1)] : heap' = list_shuffle(heap, l, choice)
  BY <1>1 DEF Shuffle
<1>3. val' = val /\ used' = used
  BY DEF Shuffle
<1>4. PICK T : Permutation(T, n) /\ Holds(heap', With(Seqs, l, Arranged(s, T)))
  <2>1. Mixed(heap', Seqs, l)
    BY <1>1, <1>2, ShuffleHolds
  <2> QED
    BY <2>1 DEF Mixed
<1>5. IInv' /\ Seqs' = With(Seqs, l, Arranged(s, T))
  BY <1>3, <1>4, Arranges
<1>6. DOMAIN s = 1..n
  BY <1>1
<1>7. Seqs' = [Seqs EXCEPT ![l] = [k \in DOMAIN @ |-> @[T[k]]]]
  BY <1>5, <1>6 DEF With, Arranged
<1>8. T \in [DOMAIN s -> DOMAIN s] /\ \A a, b \in DOMAIN T : T[a] = T[b] => a = b
  BY <1>4, <1>6 DEF Permutation
<1> QED
  BY <1>3, <1>5, <1>7, <1>8 DEF LS!Shuffle

-----------------------------------------------------------------------------
(* list_unique *)

\* f[k] are those of the first k of s that are in X, in their order.
Picks(f, s, X) ==
    /\ f \in [0..Len(s) -> Seq(Items)]
    /\ f[0] = <<>>
    /\ \A k \in 1..Len(s) : f[k] = IF s[k] \in X THEN Append(f[k - 1], s[k]) ELSE f[k - 1]

\* The Among of ListSpec picks.
LEMMA AmongIs ==
    ASSUME NEW s \in Seq(Items), NEW X
    PROVE  \E f : Picks(f, s, X) /\ LS!Among(s, X) = f[Len(s)]
<1> PICK n : n = Len(s)
  OBVIOUS
<1> DEFINE S == Nat \X Seq(Items)
           F == [y \in S |-> <<y[1] + 1, IF y[1] + 1 \in 1..n /\ s[y[1] + 1] \in X
                                         THEN Append(y[2], s[y[1] + 1]) ELSE y[2]>>]
           x == <<0, <<>> >>
           among == CHOOSE f : f = [k \in 0..n |->
                                      IF k = 0 THEN <<>>
                                      ELSE IF s[k] \in X THEN Append(f[k - 1], s[k]) ELSE f[k - 1]]
<1>1. n \in Nat /\ \A k \in 1..n : s[k] \in Items
  OBVIOUS
<1>2. x \in S /\ \A y \in S : F[y] \in S
  <2>1. x \in S
    <3>1. <<>> \in Seq(Items)
      OBVIOUS
    <3> QED
      BY <3>1
  <2>2. ASSUME NEW y \in S
        PROVE  F[y] \in S
    <3>1. y[1] \in Nat /\ y[2] \in Seq(Items) /\ y[1] + 1 \in Nat
      OBVIOUS
    <3>2. (IF y[1] + 1 \in 1..n /\ s[y[1] + 1] \in X THEN Append(y[2], s[y[1] + 1]) ELSE y[2]) \in Seq(Items)
      <4>1. CASE y[1] + 1 \in 1..n
        <5>1. s[y[1] + 1] \in Items
          BY <1>1, <4>1
        <5> QED
          BY <3>1, <5>1
      <4> QED
        BY <3>1, <4>1
    <3> QED
      BY <3>1, <3>2
  <2> QED
    BY <2>1, <2>2
<1>3. PICK g : Course(g, n, x, F)
  <2> HIDE DEF S, F, x
  <2> QED
    BY <1>1, <1>2, LoopExists
<1>4. g[0] = x /\ \A k \in 1..n : g[k] = F[g[k - 1]]
  BY <1>1, <1>3 DEF Course
<1>5. \A k \in 0..n : g[k] \in S /\ g[k][1] = k
  <2> DEFINE P == {k \in 0..n : g[k] \in S /\ g[k][1] = k}
  <2>1. 0 \in P
    <3>1. g[0] = x /\ x \in S /\ 0 \in 0..n
      BY <1>1, <1>2, <1>4
    <3>2. x[1] = 0
      OBVIOUS
    <3> QED
      BY <3>1, <3>2
  <2>2. ASSUME NEW k \in 0..(n - 1), k \in P
        PROVE  k + 1 \in P
    <3>1. k + 1 \in 1..n /\ k + 1 - 1 = k /\ k + 1 \in 0..n /\ g[k] \in S /\ g[k][1] = k
      BY <1>1, <2>2
    <3>2. g[k + 1] = F[g[k]]
      <4> HIDE DEF F, x, S
      <4>1. g[k + 1] = F[g[k + 1 - 1]]
        BY <1>4, <3>1
      <4> QED
        BY <3>1, <4>1
    <3>3. g[k + 1] \in S /\ F[g[k]][1] = g[k][1] + 1
      BY <1>2, <3>1, <3>2
    <3> QED
      BY <3>1, <3>2, <3>3
  <2>3. 0..n \subseteq P
    <3> HIDE DEF P
    <3> QED
      BY <1>1, <2>1, <2>2, UpTo
  <2> QED
    BY <2>3
<1> DEFINE e == [k \in 0..n |-> g[k][2]]
<1>6. ASSUME NEW k \in 1..n
      PROVE  e[k] = IF s[k] \in X THEN Append(e[k - 1], s[k]) ELSE e[k - 1]
  <2>1. k - 1 \in 0..n /\ k \in 0..n /\ k - 1 + 1 = k
    BY <1>1
  <2>2. g[k] = F[g[k - 1]] /\ g[k - 1] \in S /\ g[k - 1][1] = k - 1
    BY <1>4, <1>5, <2>1
  <2>3. g[k][2] = IF g[k - 1][1] + 1 \in 1..n /\ s[g[k - 1][1] + 1] \in X
                  THEN Append(g[k - 1][2], s[g[k - 1][1] + 1]) ELSE g[k - 1][2]
    BY <2>2
  <2>4. g[k][2] = IF s[k] \in X THEN Append(g[k - 1][2], s[k]) ELSE g[k - 1][2]
    BY <2>1, <2>2, <2>3
  <2> QED
    BY <2>1, <2>4
<1>7. e[0] = <<>>
  <2>1. 0 \in 0..n
    BY <1>1
  <2> QED
    BY <1>4, <2>1
<1>8. e \in [0..n -> Seq(Items)]
  <2>1. \A k \in 0..n : g[k][2] \in Seq(Items)
    BY <1>5
  <2> QED
    BY <2>1
<1>9. e = [k \in 0..n |-> IF k = 0 THEN <<>>
                          ELSE IF s[k] \in X THEN Append(e[k - 1], s[k]) ELSE e[k - 1]]
  <2>1. e = [k \in 0..n |-> e[k]]
    OBVIOUS
  <2>2. ASSUME NEW k \in 0..n
        PROVE  e[k] = IF k = 0 THEN <<>> ELSE IF s[k] \in X THEN Append(e[k - 1], s[k]) ELSE e[k - 1]
    <3> HIDE DEF e
    <3> QED
      BY <1>1, <1>6, <1>7
  <2> HIDE DEF e
  <2> QED
    BY <2>1, <2>2, Zenon
<1>10. among = [k \in 0..n |-> IF k = 0 THEN <<>>
                          ELSE IF s[k] \in X THEN Append(among[k - 1], s[k]) ELSE among[k - 1]]
  <2>1. \E f : f = [k \in 0..n |-> IF k = 0 THEN <<>>
                          ELSE IF s[k] \in X THEN Append(f[k - 1], s[k]) ELSE f[k - 1]]
    <3> HIDE DEF e
    <3> QED
      BY <1>9, Zenon
  <2> QED
    BY <2>1, Zenon
<1>11. LS!Among(s, X) = among[n]
  BY DEF LS!Among
<1> HIDE DEF among, e
<1>12. \A k \in 0..n : among[k] = e[k]
  <2> DEFINE P == {k \in 0..n : among[k] = e[k]}
  <2>0. among[0] = <<>> /\ \A k \in 1..n : among[k] = IF s[k] \in X THEN Append(among[k - 1], s[k]) ELSE among[k - 1]
    <3>1. 0 \in 0..n /\ \A k \in 1..n : k \in 0..n /\ k # 0
      BY <1>1
    <3>2. \A k \in 0..n : among[k] = IF k = 0 THEN <<>>
                          ELSE IF s[k] \in X THEN Append(among[k - 1], s[k]) ELSE among[k - 1]
      BY <1>10, Zenon
    <3> QED
      BY <3>1, <3>2
  <2>1. 0 \in P
    BY <1>1, <1>7, <2>0
  <2>2. ASSUME NEW k \in 0..(n - 1), k \in P
        PROVE  k + 1 \in P
    <3>1. k + 1 \in 1..n /\ k + 1 - 1 = k /\ k + 1 \in 0..n /\ among[k] = e[k]
      BY <1>1, <2>2
    <3>2. among[k + 1] = IF s[k + 1] \in X THEN Append(among[k + 1 - 1], s[k + 1]) ELSE among[k + 1 - 1]
      BY <2>0, <3>1
    <3>3. e[k + 1] = IF s[k + 1] \in X THEN Append(e[k + 1 - 1], s[k + 1]) ELSE e[k + 1 - 1]
      BY <1>6, <3>1
    <3> QED
      BY <3>1, <3>2, <3>3
  <2>3. 0..n \subseteq P
    <3> HIDE DEF P
    <3> QED
      BY <1>1, <2>1, <2>2, UpTo
  <2> QED
    BY <2>3
<1>13. n \in 0..n /\ Picks(e, s, X)
  BY <1>1, <1>6, <1>7, <1>8 DEF Picks
<1> QED
  BY <1>11, <1>12, <1>13

\* The items of the first c of s that are in X.
Taken(s, X, c) == {s[j] : j \in {i \in 1..c : s[i] \in X}}

TakesNext(s, X, c, d) ==
    Taken(s, X, d) = IF s[d] \in X THEN Taken(s, X, c) \union {s[d]} ELSE Taken(s, X, c)

\* What is taken up to a place, and one place further.
LEMMA TakenNext ==
    ASSUME NEW s \in Seq(Items), NEW X, NEW c \in 0..(Len(s) - 1), NEW d, d = c + 1
    PROVE  TakesNext(s, X, c, d)
<1>1. Len(s) \in Nat /\ \A j : j \in 1..d <=> j \in 1..c \/ j = d
  OBVIOUS
<1> QED
  BY <1>1 DEF Taken, TakesNext

\* Picks leaves out nothing.
LEMMA PicksTake ==
    ASSUME NEW s \in Seq(Items), NEW X, NEW f, Picks(f, s, X)
    PROVE  \A c \in 0..Len(s) : LS!ToSet(f[c]) = Taken(s, X, c)
<1> PICK n : n = Len(s)
  OBVIOUS
<1> DEFINE P == {c \in 0..n : LS!ToSet(f[c]) = Taken(s, X, c)}
<1>1. n \in Nat
  OBVIOUS
<1>2. 0 \in P
  <2>1. 0 \in 0..n /\ f[0] = <<>>
    BY <1>1 DEF Picks
  <2>2. LS!ToSet(<<>>) = {}
    BY DEF LS!ToSet
  <2>3. Taken(s, X, 0) = {}
    BY DEF Taken
  <2> QED
    BY <2>1, <2>2, <2>3
<1>3. ASSUME NEW c \in 0..(n - 1), c \in P
      PROVE  c + 1 \in P
  <2>1. c + 1 \in 1..n /\ c + 1 \in 0..n /\ c \in 0..n /\ c + 1 - 1 = c /\ c \in 0..(Len(s) - 1)
    BY <1>1
  <2>2. f[c + 1] = IF s[c + 1] \in X THEN Append(f[c + 1 - 1], s[c + 1]) ELSE f[c + 1 - 1]
    BY <2>1 DEF Picks
  <2>3. f[c] \in Seq(Items) /\ s[c + 1] \in Items
    BY <2>1 DEF Picks
  <2>4. LS!ToSet(Append(f[c], s[c + 1])) = LS!ToSet(f[c]) \union {s[c + 1]}
    <3> PICK t, m, i : t = f[c] /\ m = Len(t) /\ i = s[c + 1]
      OBVIOUS
    <3>1. t \in Seq(Items) /\ i \in Items /\ m \in Nat
      BY <2>3
    <3> PICK u : u = Append(t, i)
      OBVIOUS
    <3>2. /\ DOMAIN u = 1..(m + 1) /\ u[m + 1] = i /\ \A k \in 1..m : u[k] = t[k]
          /\ DOMAIN t = 1..m
      BY <3>1
    <3>3. \A k : k \in 1..(m + 1) <=> k \in 1..m \/ k = m + 1
      BY <3>1
    <3>4. LS!ToSet(u) = LS!ToSet(t) \union {i}
      BY <3>2, <3>3 DEF LS!ToSet
    <3> QED
      BY <3>4
  <2>5. LS!ToSet(f[c]) = Taken(s, X, c)
    BY <1>3
  <2>6. Taken(s, X, c + 1) = IF s[c + 1] \in X THEN Taken(s, X, c) \union {s[c + 1]} ELSE Taken(s, X, c)
    <3> HIDE DEF P
    <3>d. PICK d : d = c + 1
      OBVIOUS
    <3>0. c \in 0..(Len(s) - 1)
      BY <2>1
    <3>1. TakesNext(s, X, c, d)
      BY <3>0, <3>d, TakenNext
    <3> QED
      BY <3>1, <3>d DEF TakesNext
  <2> QED
    BY <2>1, <2>2, <2>4, <2>5, <2>6
<1>4. 0..n \subseteq P
  <2> HIDE DEF P
  <2> QED
    BY <1>1, <1>2, <1>3, UpTo
<1> QED
  BY <1>4

\* What a list looks like while its repeated items R are taken out of it: those of the first c
\* that stay, then the others.  The list of duplicates grows at its end.
Left(s, f, c) ==
    [k \in 1..(Len(f[c]) + Len(s) - c) |-> IF k <= Len(f[c]) THEN f[c][k] ELSE s[k - Len(f[c]) + c]]

Grown(t, g, c) == [k \in 1..(Len(t) + Len(g[c])) |-> IF k <= Len(t) THEN t[k] ELSE g[c][k - Len(t)]]

LeftShape(s, f, c, w, o, p, d) ==
    /\ o \in Nat /\ Len(w) = o + Len(s) - c
    /\ \A k \in 1..o : w[k] = f[c][k]
    /\ c < Len(s) => w[p] = s[d]

\* The items that are left, one by one.
LEMMA LeftIs ==
    ASSUME NEW s \in Seq(Items), NEW X, NEW f, Picks(f, s, X), NEW c \in 0..Len(s),
           NEW w, w = Left(s, f, c), NEW o, o = Len(f[c]), NEW p, p = o + 1, NEW d, d = c + 1
    PROVE  LeftShape(s, f, c, w, o, p, d)
<1> PICK n : n = Len(s)
  OBVIOUS
<1>1. n \in Nat /\ f[c] \in Seq(Items)
  BY DEF Picks
<1>2. o \in Nat /\ c \in Nat /\ c <= n
  BY <1>1
<1>m. PICK m : m = o + n - c
  OBVIOUS
<1>3. m \in Nat /\ 1..o \subseteq 1..m /\ (c < n => p \in 1..m /\ ~(p <= o) /\ p - o + c = d)
  BY <1>1, <1>2, <1>m
<1>4. w = [k \in 1..m |-> IF k <= o THEN f[c][k] ELSE s[k - o + c]]
  BY <1>m DEF Left
<1> DEFINE x(k) == IF k <= o THEN f[c][k] ELSE s[k - o + c]
<1>5. Len(w) = m /\ \A k \in 1..m : w[k] = x(k)
  <2>1. w = [k \in 1..m |-> x(k)]
    BY <1>4
  <2> HIDE DEF x
  <2> QED
    BY <1>3, <2>1
<1>6. ASSUME NEW k \in 1..o
      PROVE  w[k] = f[c][k]
  <2>1. k \in 1..m /\ k <= o
    BY <1>2, <1>3
  <2>2. x(k) = f[c][k]
    BY <2>1
  <2> HIDE DEF x
  <2> QED
    BY <1>5, <2>1, <2>2
<1>7. c < n => w[p] = s[d]
  <2>1. c < n => w[p] = x(p)
    <3> HIDE DEF x
    <3> QED
      BY <1>3, <1>5
  <2> QED
    BY <1>3, <2>1
<1> QED
  BY <1>2, <1>5, <1>6, <1>7, <1>m DEF LeftShape

\* Nothing is taken out at first, and what is left in the end are the items picked.
LEMMA LeftEnds ==
    ASSUME NEW s \in Seq(Items), NEW t \in Seq(Items), NEW X, NEW f, Picks(f, s, X)
    PROVE  /\ Left(s, f, 0) = s /\ Grown(t, f, 0) = t
           /\ Left(s, f, Len(s)) = f[Len(s)] /\ Grown(t, f, Len(s)) = t \o f[Len(s)]
<1> PICK n, m : n = Len(s) /\ m = Len(t)
  OBVIOUS
<1>1. n \in Nat /\ m \in Nat /\ 0 \in 0..n /\ n \in 0..n
  OBVIOUS
<1>2. f[0] = <<>> /\ Len(f[0]) = 0 /\ f[n] \in Seq(Items) /\ Len(f[n]) \in Nat
  BY <1>1 DEF Picks
<1>3. Left(s, f, 0) = s
  <2>1. Array(Left(s, f, 0), n)
    <3>1. 0 + n - 0 = n
      BY <1>1
    <3> QED
      BY <1>2, <3>1 DEF Array, Left
  <2>2. ASSUME NEW k \in 1..n
        PROVE  s[k] = Left(s, f, 0)[k]
    <3>1. k \in 1..(0 + n - 0) /\ ~(k <= 0) /\ k - 0 + 0 = k
      BY <1>1
    <3> QED
      BY <1>2, <3>1 DEF Left
  <2> QED
    BY <2>1, <2>2, SameSeq
<1>4. Grown(t, f, 0) = t
  <2>1. Array(Grown(t, f, 0), m)
    <3>1. m + 0 = m
      BY <1>1
    <3> QED
      BY <1>2, <3>1 DEF Array, Grown
  <2>2. ASSUME NEW k \in 1..m
        PROVE  t[k] = Grown(t, f, 0)[k]
    <3>1. k \in 1..(m + 0) /\ k <= m
      BY <1>1
    <3> QED
      BY <1>2, <3>1 DEF Grown
  <2> QED
    BY <2>1, <2>2, SameSeq
<1> PICK e, o : e = f[n] /\ o = Len(e)
  OBVIOUS
<1>5. Left(s, f, n) = e
  <2>1. Array(Left(s, f, n), o)
    <3>1. o + n - n = o
      BY <1>1, <1>2
    <3> QED
      BY <1>2, <3>1 DEF Array, Left
  <2>2. ASSUME NEW k \in 1..o
        PROVE  e[k] = Left(s, f, n)[k]
    <3>1. k \in 1..(o + n - n) /\ k <= o
      BY <1>1, <1>2
    <3> QED
      BY <1>2, <3>1 DEF Left
  <2> QED
    BY <1>2, <2>1, <2>2, SameSeq
<1>6. Grown(t, f, n) = t \o e
  <2> PICK u : u = t \o e
    OBVIOUS
  <2>1. /\ u \in Seq(Items) /\ Len(u) = m + o
        /\ \A k \in 1..(m + o) : u[k] = IF k <= m THEN t[k] ELSE e[k - m]
    BY <1>2, Chain
  <2>2. Array(Grown(t, f, n), m + o)
    BY DEF Array, Grown
  <2>3. \A k \in 1..(m + o) : u[k] = Grown(t, f, n)[k]
    BY <2>1 DEF Grown
  <2>4. u = Grown(t, f, n)
    BY <2>1, <2>2, <2>3, SameSeq
  <2> QED
    BY <2>4
<1> QED
  BY <1>3, <1>4, <1>5, <1>6

\* One more item stays.
LEMMA LeftKeep ==
    ASSUME NEW s \in Seq(Items), NEW X, NEW f, Picks(f, s, X), NEW c \in 0..(Len(s) - 1), NEW d, d = c + 1,
           s[d] \in X
    PROVE  /\ Left(s, f, d) = Left(s, f, c)
           /\ Len(f[d]) = Len(f[c]) + 1 /\ f[d][Len(f[d])] = s[d]
<1> PICK n, t, u, o : n = Len(s) /\ t = f[c] /\ u = f[d] /\ o = Len(t)
  OBVIOUS
<1>1. n \in Nat /\ d \in 1..n /\ c \in 0..n /\ d - 1 = c /\ s[d] \in Items
  OBVIOUS
<1>2. u = Append(t, s[d]) /\ t \in Seq(Items)
  <2>1. u = IF s[d] \in X THEN Append(f[d - 1], s[d]) ELSE f[d - 1]
    BY <1>1 DEF Picks
  <2> QED
    BY <1>1, <2>1 DEF Picks
<1>3. o \in Nat /\ Len(u) = o + 1 /\ u[o + 1] = s[d] /\ \A k \in 1..o : u[k] = t[k]
  BY <1>1, <1>2
<1>4. o + 1 + n - d = o + n - c
  BY <1>1, <1>3
<1>5. ASSUME NEW k \in 1..(o + n - c)
      PROVE  (IF k <= o + 1 THEN u[k] ELSE s[k - (o + 1) + d]) = (IF k <= o THEN t[k] ELSE s[k - o + c])
  <2>1. CASE k <= o
    <3>1. k \in 1..o /\ k <= o + 1
      BY <1>3, <2>1
    <3> QED
      BY <1>3, <2>1, <3>1
  <2>2. CASE k = o + 1
    <3>1. k - o + c = d /\ k <= o + 1 /\ ~(k <= o)
      BY <1>1, <1>3, <2>2
    <3> QED
      BY <1>3, <2>2, <3>1
  <2>3. CASE k > o + 1
    <3>1. k - (o + 1) + d = k - o + c /\ ~(k <= o + 1) /\ ~(k <= o)
      BY <1>1, <1>3, <2>3
    <3> QED
      BY <3>1
  <2>4. k <= o \/ k = o + 1 \/ k > o + 1
    BY <1>1, <1>3
  <2> QED
    BY <2>1, <2>2, <2>3, <2>4
<1> DEFINE x(k) == IF k <= o + 1 THEN u[k] ELSE s[k - (o + 1) + d]
           y(k) == IF k <= o THEN t[k] ELSE s[k - o + c]
<1> PICK m : m = o + n - c
  OBVIOUS
<1>6. Left(s, f, d) = [k \in 1..m |-> x(k)]
  BY <1>3, <1>4 DEF Left
<1>7. Left(s, f, c) = [k \in 1..m |-> y(k)]
  BY DEF Left
<1>8. \A k \in 1..m : x(k) = y(k)
  BY <1>5
<1> HIDE DEF x, y
<1>9. Left(s, f, d) = Left(s, f, c)
  <2>1. [k \in 1..m |-> x(k)] = [k \in 1..m |-> y(k)]
    BY <1>8
  <2> QED
    BY <1>6, <1>7, <2>1
<1> QED
  BY <1>3, <1>9

\* One more item goes.
LeftDrops(s, f, c, d, p) == Left(s, f, d) = Drop(Left(s, f, c), p) /\ f[d] = f[c]

\* Taking an item out of what is left is going on by one place.
LEMMA LeftDrop ==
    ASSUME NEW s \in Seq(Items), NEW X, NEW f, Picks(f, s, X), NEW c \in 0..(Len(s) - 1), NEW d, d = c + 1,
           s[d] \notin X, NEW p, p = Len(f[c]) + 1
    PROVE  LeftDrops(s, f, c, d, p)
<1> PICK n, t, o : n = Len(s) /\ t = f[c] /\ o = Len(t)
  OBVIOUS
<1>1. n \in Nat /\ d \in 1..n /\ c \in 0..n /\ d - 1 = c
  OBVIOUS
<1>2. f[d] = t /\ t \in Seq(Items) /\ o \in Nat
  <2>1. f[d] = IF s[d] \in X THEN Append(f[d - 1], s[d]) ELSE f[d - 1]
    BY <1>1 DEF Picks
  <2> QED
    BY <1>1, <2>1 DEF Picks
<1> PICK w : w = Left(s, f, c)
  OBVIOUS
<1>3. /\ Len(w) = o + n - c
      /\ \A k \in 1..(o + n - c) : w[k] = IF k <= o THEN t[k] ELSE s[k - o + c]
  <2>n. PICK N : N = o + n - c
    OBVIOUS
  <2>1. N \in Nat
    BY <1>1, <1>2, <2>n
  <2>2. w = [k \in 1..N |-> IF k <= o THEN t[k] ELSE s[k - o + c]]
    BY <2>n DEF Left
  <2>3. Len(w) = N /\ \A k \in 1..N : w[k] = IF k <= o THEN t[k] ELSE s[k - o + c]
    BY <2>1, <2>2
  <2> QED
    BY <2>3, <2>n
<1>4. ASSUME NEW k \in 1..(o + n - d)
      PROVE  (IF k <= o THEN t[k] ELSE s[k - o + d]) = (IF k < o + 1 THEN w[k] ELSE w[k + 1])
  <2>1. CASE k <= o
    <3>1. k \in 1..(o + n - c) /\ k < o + 1
      BY <1>1, <1>2, <2>1
    <3> QED
      BY <1>3, <2>1, <3>1
  <2>2. CASE ~(k <= o)
    <3>1. k + 1 \in 1..(o + n - c) /\ ~(k < o + 1) /\ ~(k + 1 <= o) /\ k + 1 - o + c = k - o + d
      BY <1>1, <1>2, <2>2
    <3>2. w[k + 1] = s[k + 1 - o + c]
      <4> PICK j : j = k + 1
        OBVIOUS
      <4>1. w[j] = s[j - o + c]
        BY <1>3, <3>1
      <4> QED
        BY <4>1
    <3> QED
      BY <2>2, <3>1, <3>2
  <2> QED
    BY <2>1, <2>2
<1>5. o + n - c - 1 = o + n - d
  BY <1>1, <1>2
<1>6. Drop(w, o + 1) = [k \in 1..(o + n - d) |-> IF k < o + 1 THEN w[k] ELSE w[k + 1]]
  BY <1>3, <1>5 DEF Drop
<1>7. Left(s, f, d) = [k \in 1..(o + n - d) |-> IF k <= o THEN t[k] ELSE s[k - o + d]]
  BY <1>2 DEF Left
<1> DEFINE x(k) == IF k <= o THEN t[k] ELSE s[k - o + d]
           y(k) == IF k < o + 1 THEN w[k] ELSE w[k + 1]
<1>m. PICK m : m = o + n - d
  OBVIOUS
<1>8. Left(s, f, d) = [k \in 1..m |-> x(k)]
  BY <1>7, <1>m
<1>9. Drop(w, p) = [k \in 1..m |-> y(k)]
  BY <1>6, <1>m
<1>10. \A k \in 1..m : x(k) = y(k)
  BY <1>4, <1>m
<1>11. Left(s, f, d) = Drop(w, p)
  <2> HIDE DEF x, y
  <2> QED
    BY <1>8, <1>9, <1>10
<1> QED
  BY <1>2, <1>11 DEF LeftDrops

\* It comes to the end of the list of duplicates.
LEMMA GrownPut ==
    ASSUME NEW s \in Seq(Items), NEW t \in Seq(Items), NEW X, NEW g, Picks(g, s, X),
           NEW c \in 0..(Len(s) - 1), NEW d, d = c + 1, NEW a, a = Len(Grown(t, g, c)) + 1
    PROVE  /\ s[d] \in X => Grown(t, g, d) = Put(Grown(t, g, c), a, s[d])
           /\ s[d] \notin X => Grown(t, g, d) = Grown(t, g, c)
<1> PICK n, m, u, o : n = Len(s) /\ m = Len(t) /\ u = g[c] /\ o = Len(u)
  OBVIOUS
<1>1. n \in Nat /\ d \in 1..n /\ c \in 0..n /\ d - 1 = c /\ m \in Nat /\ s[d] \in Items
  OBVIOUS
<1>2. g[d] = (IF s[d] \in X THEN Append(u, s[d]) ELSE u) /\ u \in Seq(Items) /\ o \in Nat
  <2>1. g[d] = IF s[d] \in X THEN Append(g[d - 1], s[d]) ELSE g[d - 1]
    BY <1>1 DEF Picks
  <2>2. u \in Seq(Items)
    BY <1>1 DEF Picks
  <2>3. o \in Nat
    BY <2>2
  <2>4. g[d - 1] = u
    BY <1>1
  <2> QED
    BY <2>1, <2>2, <2>3, <2>4
<1>3. CASE s[d] \notin X
  BY <1>2, <1>3 DEF Grown
<1>4. CASE s[d] \in X
  <2> PICK e, w : e = g[d] /\ w = Grown(t, g, c)
    OBVIOUS
  <2>1. Len(e) = o + 1 /\ e[o + 1] = s[d] /\ \A k \in 1..o : e[k] = u[k]
    BY <1>1, <1>2, <1>4
  <2>2. Len(w) = m + o /\ \A k \in 1..(m + o) : w[k] = IF k <= m THEN t[k] ELSE u[k - m]
    <3>1. m + o \in Nat
      BY <1>1, <1>2
    <3> QED
      BY <3>1 DEF Grown
  <2>3. ASSUME NEW k \in 1..(m + o + 1)
        PROVE  (IF k <= m THEN t[k] ELSE e[k - m])
                  = (IF k < m + o + 1 THEN w[k] ELSE IF k = m + o + 1 THEN s[d] ELSE w[k - 1])
    <3>1. CASE k <= m
      <4>1. k \in 1..(m + o) /\ k < m + o + 1
        BY <1>1, <1>2, <3>1
      <4> QED
        BY <2>2, <3>1, <4>1
    <3>2. CASE ~(k <= m) /\ k < m + o + 1
      <4>1. k \in 1..(m + o) /\ k - m \in 1..o
        BY <1>1, <1>2, <3>2
      <4>2. e[k - m] = u[k - m] /\ w[k] = u[k - m]
        BY <2>1, <2>2, <3>2, <4>1
      <4> QED
        BY <3>2, <4>2
    <3>3. CASE k = m + o + 1
      <4>1. ~(k <= m) /\ ~(k < m + o + 1) /\ k - m = o + 1
        BY <1>1, <1>2, <3>3
      <4> QED
        BY <2>1, <3>3, <4>1
    <3>0. m \in Nat /\ o \in Nat /\ k \in Nat /\ k <= m + o + 1
      BY <1>1, <1>2
    <3>4. k <= m \/ (~(k <= m) /\ k < m + o + 1) \/ k = m + o + 1
      BY <3>0
    <3> QED
      BY <3>1, <3>2, <3>3, <3>4
  <2>4. m + (o + 1) = m + o + 1
    BY <1>1, <1>2
  <2>5. Grown(t, g, d) = [k \in 1..(m + o + 1) |-> IF k <= m THEN t[k] ELSE e[k - m]]
    BY <2>1, <2>4 DEF Grown
  <2>6. Put(w, m + o + 1, s[d]) = [k \in 1..(m + o + 1) |->
           IF k < m + o + 1 THEN w[k] ELSE IF k = m + o + 1 THEN s[d] ELSE w[k - 1]]
    BY <2>2 DEF Put
  <2>7. Grown(t, g, d) = Put(w, m + o + 1, s[d])
    <3> DEFINE x(k) == IF k <= m THEN t[k] ELSE e[k - m]
               y(k) == IF k < m + o + 1 THEN w[k] ELSE IF k = m + o + 1 THEN s[d] ELSE w[k - 1]
    <3>1. \A k \in 1..(m + o + 1) : x(k) = y(k)
      BY <2>3
    <3>2. Grown(t, g, d) = [k \in 1..(m + o + 1) |-> x(k)]
      BY <2>5
    <3>3. Put(w, m + o + 1, s[d]) = [k \in 1..(m + o + 1) |-> y(k)]
      BY <2>6
    <3> HIDE DEF x, y
    <3> QED
      BY <3>1, <3>2, <3>3
  <2> QED
    BY <1>4, <2>2, <2>7
<1> QED
  BY <1>3, <1>4

\* The lists while list_unique is at place c of list l.
Split(q, l, dup, f, g, c) ==
    IF dup = NoList THEN With(q, l, Left(q[l], f, c))
    ELSE Both(q, l, Left(q[l], f, c), dup, Grown(q[dup], g, c))

\* No list leads to item i, though its prev still leads to a node.
Off(h, i) == h.prev[elem(i)] \in Nodes /\ h.next[h.prev[elem(i)]] # elem(i)

\* What list_unique works on: the repeated items of list l are R.
Setting(h, q, l, dup, R, f, g) ==
    /\ Holds(h, q) /\ l \in DOMAIN q /\ dup \in {NoList} \union DOMAIN q /\ dup # l
    /\ Picks(f, q[l], Items \ R) /\ Picks(g, q[l], R)

\* Where it is after c items.
Dedup(h, q, l, dup, R, f, g, c) ==
    /\ Holds(h, Split(q, l, dup, f, g, c))
    /\ Listed(Split(q, l, dup, f, g, c)) =
          IF dup = NoList THEN Listed(q) \ Taken(q[l], R, c) ELSE Listed(q)
    /\ dup = NoList => \A i \in Taken(q[l], R, c) : Off(h, i)

\* Before the first round nothing was removed.
LEMMA DedupFirst ==
    ASSUME NEW h, NEW q, NEW l, NEW dup, NEW R, NEW f, NEW g, Setting(h, q, l, dup, R, f, g)
    PROVE  Dedup(h, q, l, dup, R, f, g, 0)
<1> PICK s : s = q[l]
  OBVIOUS
<1>1. Holds(h, q) /\ l \in DOMAIN q /\ s \in Seq(Items) /\ Picks(f, s, Items \ R) /\ Picks(g, s, R)
  BY DEF Setting, Holds, Contents
<1>2. Taken(s, R, 0) = {}
  BY DEF Taken
<1>3. CASE dup = NoList
  <2>1. Left(s, f, 0) = s
    BY <1>1, LeftEnds
  <2>2. Split(q, l, dup, f, g, 0) = q
    BY <1>1, <1>3, <2>1, WithIs DEF Split
  <2> QED
    BY <1>1, <1>2, <1>3, <2>2 DEF Dedup
<1>4. CASE dup # NoList
  <2> PICK t : t = q[dup]
    OBVIOUS
  <2>1. dup \in DOMAIN q /\ dup # l /\ t \in Seq(Items)
    BY <1>4 DEF Setting, Holds, Contents
  <2>2. Left(s, f, 0) = s /\ Grown(t, g, 0) = t
    BY <1>1, <2>1, LeftEnds
  <2>3. Both(q, l, s, dup, t) = q
    BY <1>1, <2>1, BothIs
  <2>4. Split(q, l, dup, f, g, 0) = q
    BY <1>4, <2>2, <2>3 DEF Split
  <2> QED
    BY <1>1, <1>4, <2>4 DEF Dedup
<1> QED
  BY <1>3, <1>4

\* An item that is not a repetition stays.
LEMMA DedupKeep ==
    ASSUME NEW h, NEW q, NEW l, NEW dup, NEW R, NEW f, NEW g, Setting(h, q, l, dup, R, f, g),
           NEW c \in 0..(Len(q[l]) - 1), NEW d, d = c + 1, q[l][d] \notin R,
           NEW y, Dedup(y, q, l, dup, R, f, g, c)
    PROVE  Dedup(y, q, l, dup, R, f, g, d)
<1> PICK s : s = q[l]
  OBVIOUS
<1>1. Holds(h, q) /\ l \in DOMAIN q /\ s \in Seq(Items) /\ Picks(f, s, Items \ R) /\ Picks(g, s, R)
  BY DEF Setting, Holds, Contents
<1>2. s[d] \in Items /\ c \in 0..(Len(s) - 1) /\ s[d] \in Items \ R
  BY <1>1
<1>3. Taken(s, R, d) = Taken(s, R, c)
  <2>1. TakesNext(s, R, c, d)
    BY <1>1, <1>2, TakenNext
  <2> QED
    BY <2>1 DEF TakesNext
<1>4. Left(s, f, d) = Left(s, f, c)
  BY <1>1, <1>2, LeftKeep
<1>5. Split(q, l, dup, f, g, d) = Split(q, l, dup, f, g, c)
  <2>1. CASE dup = NoList
    BY <1>4, <2>1 DEF Split
  <2>2. CASE dup # NoList
    <3> PICK t : t = q[dup]
      OBVIOUS
    <3>1. t \in Seq(Items)
      BY <2>2 DEF Setting, Holds, Contents
    <3>2. PICK a : a = Len(Grown(t, g, c)) + 1
      OBVIOUS
    <3>3. Grown(t, g, d) = Grown(t, g, c)
      BY <1>1, <1>2, <3>1, <3>2, GrownPut
    <3> QED
      BY <1>4, <2>2, <3>3 DEF Split
  <2> QED
    BY <2>1, <2>2
<1> QED
  BY <1>3, <1>5 DEF Dedup

\* What the lists are between two rounds.
LEMMA SplitIs ==
    ASSUME NEW h, NEW q, NEW l, NEW dup, NEW R, NEW f, NEW g, Setting(h, q, l, dup, R, f, g),
           NEW c, NEW y, Dedup(y, q, l, dup, R, f, g, c),
           NEW r, r = Split(q, l, dup, f, g, c), NEW w, w = Left(q[l], f, c)
    PROVE  Holds(y, r) /\ DOMAIN r = DOMAIN q /\ r[l] = w
<1>1. Holds(h, q) /\ l \in DOMAIN q
  BY DEF Setting
<1>2. CASE dup = NoList
  BY <1>1, <1>2, WithIs DEF Dedup, Split
<1>3. CASE dup # NoList
  BY <1>1, <1>3, BothIs DEF Dedup, Split, Setting
<1> QED
  BY <1>2, <1>3

\* What list_remove takes out is off, and what was off before is still.
LEMMA OffStays ==
    ASSUME NEW h, NEW r, Holds(h, r), NEW l \in DOMAIN r, NEW p \in 1..Len(r[l]),
           NEW cut, cut = list_remove(h, elem(r[l][p])), NEW i \in Items,
           i = r[l][p] \/ (i \notin Listed(r) /\ Off(h, i))
    PROVE  Off(cut, i)
<1> DEFINE w(k) == Node(l, r[l], k)
<1> PICK n, j : n = Len(r[l]) /\ j = r[l][p]
  OBVIOUS
<1>1. Contents(r) /\ ListAt(h, l, r[l]) /\ h \in Heaps
  BY DEF Holds
<1>2. n \in Nat /\ \A k \in 0..(n + 1) : w(k) \in Nodes
  BY <1>1, NodeType
<1>3. \A a, b \in 0..(n + 1) : w(a) = w(b) => a = b
  BY <1>1, NodeOnce
<1>4. /\ p - 1 \in 0..n /\ p \in 0..n /\ p - 1 + 1 = p /\ p - 1 \in 0..(n + 1) /\ p + 1 \in 0..(n + 1)
      /\ p \in 0..(n + 1) /\ p # p + 1 /\ p # p - 1
  BY <1>2
<1>5. w(p) = elem(j) /\ j \in Items
  BY <1>1, NodeType
<1>6. /\ h.next[w(p - 1)] = w(p) /\ h.prev[w(p)] = w(p - 1) /\ h.next[w(p)] = w(p + 1)
  <2>1. h.next[w(p - 1)] = w(p - 1 + 1) /\ h.prev[w(p - 1 + 1)] = w(p - 1) /\ h.next[w(p)] = w(p + 1)
    BY <1>1, <1>4 DEF ListAt
  <2> QED
    BY <1>4, <2>1
<1>7. /\ \A x \in Nodes \ {w(p - 1)} : cut.next[x] = h.next[x]
      /\ \A x \in Nodes \ {w(p + 1)} : cut.prev[x] = h.prev[x]
  <2>1. cut = list_remove(h, elem(r[l][p]))
    OBVIOUS
  <2> QED
    BY <2>1, RemoveKeeps
<1>8. cut.next[w(p - 1)] = w(p + 1)
  <2>1. cut.next = [h.next EXCEPT ![w(p - 1)] = w(p + 1)]
    BY <1>5, <1>6 DEF list_remove
  <2>2. h.next \in [Nodes -> Nodes \union {NULL}] /\ w(p - 1) \in Nodes
    BY <1>1, <1>2, <1>4, HeapType
  <2> HIDE DEF w
  <2> QED
    BY <2>1, <2>2
<1>9. CASE i = j
  <2>1. elem(i) \in Nodes /\ elem(i) # w(p + 1)
    BY <1>2, <1>3, <1>4, <1>5, <1>9
  <2>2. cut.prev[elem(i)] = w(p - 1)
    BY <1>5, <1>6, <1>7, <1>9, <2>1
  <2> QED
    BY <1>2, <1>4, <1>8, <2>1, <2>2 DEF Off
<1>10. CASE i # j
  <2>1. i \notin Listed(r) /\ Off(h, i) /\ elem(i) \in Nodes
    BY <1>10, NodeFacts
  <2>2. elem(i) # w(p + 1)
    <3>1. CASE p + 1 = n + 1
      BY <1>1, <3>1, NodeType, NodeFacts
    <3>2. CASE p + 1 # n + 1
      <4>1. p + 1 \in 1..n
        BY <1>2, <3>2
      <4>2. w(p + 1) = elem(r[l][p + 1]) /\ r[l][p + 1] \in Items
        BY <1>1, <4>1, NodeType
      <4>3. r[l][p + 1] \in Listed(r)
        BY <4>1, <4>2 DEF Listed
      <4> QED
        BY <2>1, <4>2, <4>3, NodeFacts
    <3> QED
      BY <3>1, <3>2
  <2>3. cut.prev[elem(i)] = h.prev[elem(i)]
    BY <1>7, <2>1, <2>2
  <2> PICK x : x = h.prev[elem(i)]
    OBVIOUS
  <2>4. x \in Nodes /\ h.next[x] # elem(i)
    BY <2>1 DEF Off
  <2>5. cut.next[x] # elem(i)
    <3>1. CASE x = w(p - 1)
      BY <1>8, <2>2, <3>1
    <3>2. CASE x # w(p - 1)
      BY <1>7, <2>4, <3>2
    <3> QED
      BY <3>1, <3>2
  <2> QED
    BY <2>3, <2>4, <2>5 DEF Off
<1> QED
  BY <1>9, <1>10

\* Two changes one after the other.
LEMMA BothTwice ==
    ASSUME NEW h, NEW q, Holds(h, q), NEW l \in DOMAIN q, NEW m \in DOMAIN q, l # m,
           NEW s, NEW t, NEW u, NEW v
    PROVE  With(With(Both(q, l, s, m, t), l, u), m, v) = Both(q, l, u, m, v)
<1>1. q = [k \in DOMAIN q |-> q[k]]
  BY DEF Holds, Contents
<1> QED
  BY <1>1 DEF With, Both

\* A repetition is removed, to the end of dup if there is such a list.
LEMMA DedupCut ==
    ASSUME NEW h, NEW q, NEW l, NEW dup, NEW R, NEW f, NEW g, Setting(h, q, l, dup, R, f, g),
           NEW c \in 0..(Len(q[l]) - 1), NEW d, d = c + 1, q[l][d] \in R,
           NEW y, Dedup(y, q, l, dup, R, f, g, c), NEW e, e = elem(q[l][d])
    PROVE  Dedup(IF dup = NoList THEN list_remove(y, e) ELSE list_insert(list_remove(y, e), tail(dup), e),
                 q, l, dup, R, f, g, d)
<1> PICK s, n : s = q[l] /\ n = Len(s)
  OBVIOUS
<1>1. /\ Holds(h, q) /\ l \in DOMAIN q /\ s \in Seq(Items) /\ Picks(f, s, Items \ R) /\ Picks(g, s, R)
      /\ Contents(q) /\ n \in Nat
  BY DEF Setting, Holds, Contents
<1>2. s[d] \in Items /\ c \in 0..(Len(s) - 1) /\ s[d] \notin Items \ R /\ c \in 0..n /\ d \in 0..n
  BY <1>1
<1>3. TakesNext(s, R, c, d)
  BY <1>1, <1>2, TakenNext
<1> PICK r, w, o, p, i : /\ r = Split(q, l, dup, f, g, c) /\ w = Left(s, f, c)
                         /\ o = Len(f[c]) /\ p = o + 1 /\ i = s[d]
  OBVIOUS
<1>4. Left(s, f, d) = Drop(w, p)
  <2>1. LeftDrops(s, f, c, d, p)
    BY <1>1, <1>2, LeftDrop
  <2> QED
    BY <2>1 DEF LeftDrops
<1>5. o \in Nat /\ p \in 1..Len(w) /\ w[p] = i
  <2>x. PICK X : X = Items \ R
    OBVIOUS
  <2>0. Picks(f, s, X) /\ c < Len(s) /\ c \in 0..Len(s)
    BY <1>1, <1>2, <2>x
  <2>3. LeftShape(s, f, c, w, o, p, d)
    BY <1>1, <2>0, LeftIs
  <2>1. o \in Nat /\ Len(w) = o + n - c /\ w[p] = s[d]
    BY <2>0, <2>3 DEF LeftShape
  <2>2. c \in Nat /\ c < n
    BY <1>1, <1>2
  <2> QED
    BY <1>1, <2>1, <2>2
<1>6. Holds(y, r) /\ DOMAIN r = DOMAIN q /\ r[l] = w
  BY SplitIs
<1> PICK cut, v : cut = list_remove(y, e) /\ v = With(r, l, Drop(w, p))
  OBVIOUS
<1>7. Holds(cut, v)
  <2>1. Holds(list_remove(y, elem(r[l][p])), [r EXCEPT ![l] = Drop(r[l], p)])
    BY <1>1, <1>5, <1>6, RemoveHolds
  <2> QED
    BY <1>5, <1>6, <2>1 DEF With
<1>8. Listed(v) = Listed(r) \ {i}
  <2>1. Listed(With(r, l, Drop(r[l], p))) = Listed(r) \ {r[l][p]}
    BY <1>1, <1>5, <1>6, ListedDrop
  <2> QED
    BY <1>5, <1>6, <2>1
<1>9. CASE dup = NoList
  <2>1. Split(q, l, dup, f, g, d) = v
    <3>1. v = With(With(q, l, w), l, Drop(w, p))
      BY <1>9 DEF Split
    <3>2. v = With(q, l, Drop(w, p))
      BY <1>1, <3>1, WithIs
    <3> QED
      BY <1>4, <1>9, <3>2 DEF Split
  <2>2. Listed(v) = Listed(q) \ Taken(s, R, d)
    <3>1. Listed(r) = Listed(q) \ Taken(s, R, c) /\ Taken(s, R, d) = Taken(s, R, c) \union {i}
      BY <1>3, <1>9 DEF Dedup, TakesNext
    <3> QED
      BY <1>8, <3>1
  <2>3. ASSUME NEW j \in Taken(s, R, d)
        PROVE  Off(cut, j)
    <3>1. j \in Taken(s, R, c) \/ j = i
      BY <1>3 DEF TakesNext
    <3>2. j \in Items
      BY <1>1, <1>2 DEF Taken
    <3>3. j \in Taken(s, R, c) => j \notin Listed(r) /\ Off(y, j)
      BY <1>9 DEF Dedup
    <3>4. j = r[l][p] \/ (j \notin Listed(r) /\ Off(y, j))
      BY <1>5, <1>6, <3>1, <3>3
    <3>5. cut = list_remove(y, elem(r[l][p])) /\ p \in 1..Len(r[l])
      BY <1>5, <1>6
    <3> QED
      BY <1>1, <1>6, <3>2, <3>4, <3>5, OffStays
  <2> QED
    BY <1>7, <1>9, <2>1, <2>2, <2>3 DEF Dedup
<1>10. CASE dup # NoList
  <2> PICK t, u, a : t = q[dup] /\ u = Grown(t, g, c) /\ a = Len(u) + 1
    OBVIOUS
  <2>0. dup \in DOMAIN q /\ dup # l /\ t \in Seq(Items)
    BY <1>1, <1>10 DEF Setting, Contents
  <2>1. Grown(t, g, d) = Put(u, a, i)
    BY <1>1, <1>2, <2>0, GrownPut
  <2>2. r = Both(q, l, w, dup, u)
    BY <1>10 DEF Split
  <2>3. v[dup] = u /\ DOMAIN v = DOMAIN q
    <3>1. r[dup] = u
      BY <1>1, <2>0, <2>2, BothIs
    <3> QED
      BY <1>1, <1>6, <2>0, <3>1, WithIs
  <2>4. Split(q, l, dup, f, g, d) = With(v, dup, Put(v[dup], a, i))
    <3>1. With(With(Both(q, l, w, dup, u), l, Drop(w, p)), dup, Put(u, a, i))
             = Both(q, l, Drop(w, p), dup, Put(u, a, i))
      BY <1>1, <2>0, BothTwice
    <3> QED
      BY <1>4, <1>10, <2>1, <2>2, <2>3, <3>1 DEF Split
  <2>5. a \in 1..(Len(v[dup]) + 1) /\ Node(dup, v[dup], a) = tail(dup)
    <3>1. Contents(v) /\ dup \in DOMAIN v
      BY <1>7, <2>0, <2>3 DEF Holds
    <3>2. Len(v[dup]) \in Nat
      BY <3>1, NodeType
    <3>3. Node(dup, v[dup], Len(v[dup]) + 1) = tail(dup)
      BY <3>1, NodeType
    <3> QED
      BY <2>3, <3>2, <3>3
  <2>6. i \in Items /\ \A m \in DOMAIN v : \A b \in 1..Len(v[m]) : v[m][b] # i
    BY <1>2, <1>8 DEF Listed
  <2>7. Holds(list_insert(cut, tail(dup), elem(i)), With(v, dup, Put(v[dup], a, i)))
    <3>1. Holds(list_insert(cut, Node(dup, v[dup], a), elem(i)), With(v, dup, Put(v[dup], a, i)))
      BY <1>7, <2>0, <2>3, <2>5, <2>6, InsertGives
    <3> QED
      BY <2>5, <3>1
  <2>8. Listed(With(v, dup, Put(v[dup], a, i))) = Listed(q)
    <3>1. Listed(With(v, dup, Put(v[dup], a, i))) = Listed(v) \union {i}
      BY <1>7, <2>0, <2>3, <2>5, <2>6, ListedPut
    <3>2. Listed(r) = Listed(q)
      BY <1>10 DEF Dedup
    <3>3. i \in Listed(q)
      <4>1. d \in 1..Len(q[l]) /\ q[l][d] = i
        BY <1>1, <1>2
      <4> QED
        BY <1>1, <1>2, <4>1 DEF Listed
    <3>4. Listed(v) \union {i} = Listed(q)
      BY <1>8, <3>2, <3>3
    <3> QED
      BY <3>1, <3>4
  <2> QED
    BY <1>10, <2>4, <2>7, <2>8 DEF Dedup
<1> QED
  BY <1>9, <1>10

\* While items are left, there is a place after the ones that were kept.
LEMMA PlacesLeft ==
    ASSUME NEW o \in Nat, NEW n \in Nat, NEW c \in Nat, c < n, o > 0, NEW p, p = o + 1
    PROVE  p \in 1..(o + n - c) /\ o \in 1..(o + n - c)
<1>1. o + n - c \in Nat /\ 1 <= p /\ p <= o + n - c
  OBVIOUS
<1> QED
  BY <1>1

\* The items equal to the one before them.
Doubles(v, s) == {s[k] : k \in {m \in 2..Len(s) : v[s[m]] = v[s[m - 1]]}}

DoublesAt(v, s) ==
    /\ Len(s) > 0 => s[1] \notin Doubles(v, s)
    /\ \A c \in 1..(Len(s) - 1) : s[c + 1] \in Doubles(v, s) <=> v[s[c + 1]] = v[s[c]]

\* An item is a repeated one at the place where it is.
LEMMA RepeatsAt ==
    ASSUME NEW s \in Seq(Items), \A a, b \in 1..Len(s) : s[a] = s[b] => a = b, NEW v
    PROVE  DoublesAt(v, s)
<1> PICK R : R = Doubles(v, s)
  OBVIOUS
<1> PICK n : n = Len(s)
  OBVIOUS
<1>1. n \in Nat
  OBVIOUS
<1>2. \A k \in 1..n : s[k] \in R <=> k \in 2..n /\ v[s[k]] = v[s[k - 1]]
  BY DEF Doubles
<1>3. n > 0 => s[1] \notin R
  BY <1>1, <1>2
<1>4. ASSUME NEW c \in 1..(n - 1)
      PROVE  s[c + 1] \in R <=> v[s[c + 1]] = v[s[c]]
  <2>1. c + 1 \in 1..n /\ c + 1 \in 2..n /\ c + 1 - 1 = c
    BY <1>1
  <2>2. s[c + 1] \in R <=> c + 1 \in 2..n /\ v[s[c + 1]] = v[s[c + 1 - 1]]
    BY <1>2, <2>1
  <2> QED
    BY <2>1, <2>2
<1> QED
  BY <1>3, <1>4 DEF DoublesAt

\* The loop of list_unique takes out the repeated items.
LEMMA UniqueHolds ==
    ASSUME NEW h, NEW q, NEW l, NEW dup, NEW R, NEW f, NEW g, Setting(h, q, l, dup, R, f, g),
           NEW v \in [Items -> Int],
           R = Doubles(v, q[l])
    PROVE  Dedup(list_unique(h, v, l, dup), q, l, dup, R, f, g, Len(q[l]))
<1> PICK s, n : s = q[l] /\ n = Len(s)
  OBVIOUS
<1>1. /\ Holds(h, q) /\ l \in DOMAIN q /\ s \in Seq(Items) /\ Picks(f, s, Items \ R)
      /\ Contents(q) /\ n \in Nat /\ n <= Rounds /\ h \in Heaps /\ ListAt(h, l, s)
      /\ \A k \in 1..n : s[k] \in Items
  BY NodeType, LengthBound DEF Setting, Holds, Contents, Rounds
<1>2. list_begin(h, l) = Node(l, s, 1)
  <2>1. 0 \in 0..n /\ 0 + 1 = 1 /\ Node(l, s, 0) = head(l)
    BY <1>1 DEF Node
  <2>2. h.next[Node(l, s, 0)] = Node(l, s, 0 + 1)
    BY <1>1, <2>1 DEF ListAt
  <2> QED
    BY <2>1, <2>2 DEF list_begin
<1>3. /\ n > 0 => s[1] \notin R
      /\ \A c \in 1..(n - 1) : s[c + 1] \in R <=> v[s[c + 1]] = v[s[c]]
  <2>1. \A a, b \in 1..Len(s) : s[a] = s[b] => a = b
    BY <1>1 DEF Contents
  <2>3. s \in Seq(Items)
    BY <1>1
  <2>2. R = Doubles(v, s)
    OBVIOUS
  <2>4. DoublesAt(v, s)
    BY <2>1, <2>3, RepeatsAt
  <2> QED
    BY <2>2, <2>4 DEF DoublesAt
<1>4. CASE n = 0
  <2>1. list_empty(h, l)
    BY <1>2, <1>4 DEF list_empty, list_end, Node
  <2>2. list_unique(h, v, l, dup) = h
    BY <2>1 DEF list_unique
  <2> QED
    BY <1>4, <2>2, DedupFirst
<1>5. CASE n > 0
  <2> DEFINE Y == [heap : Heaps, at : Nodes]
             F == [y \in Y |->
                    LET m == y.heap.next[y.at]
                        cut == list_remove(y.heap, m)
                    IN  IF m = tail(l) THEN y
                        ELSE IF less(v, y.at, m) \/ less(v, m, y.at) THEN [y EXCEPT !.at = m]
                        ELSE IF dup = NoList THEN [y EXCEPT !.heap = cut]
                        ELSE [y EXCEPT !.heap = list_insert(cut, tail(dup), m)]]
             x == [heap |-> h, at |-> list_begin(h, l)]
             U(y, c) == /\ Dedup(y.heap, q, l, dup, R, f, g, c)
                        /\ Len(f[c]) > 0 /\ y.at = Node(l, Left(s, f, c), Len(f[c]))
                        /\ v[f[c][Len(f[c])]] = v[s[c]]
             P == {e \in Nat \X Y : \E c \in 1..n : e[1] = n - c /\ U(e[2], c)}
  <2>1. list_unique(h, v, l, dup) = While(F, x).heap
    <3>1. ~list_empty(h, l)
      <4>1. Node(l, s, 1) = elem(s[1])
        BY <1>1, <1>5 DEF Node
      <4> QED
        BY <1>2, <4>1, NodeFacts DEF list_empty, list_end
    <3> QED
      BY <3>1 DEF list_unique
  <2>2. x \in Y /\ U(x, 1)
    <3>0. 1 \in 1..n /\ 0 \in 0..(n - 1) /\ 1 = 0 + 1 /\ s[1] \in Items \ R
      BY <1>1, <1>3, <1>5
    <3>1. Dedup(h, q, l, dup, R, f, g, 1)
      BY <3>0, DedupFirst, DedupKeep
    <3>2. /\ Left(s, f, 1) = Left(s, f, 0) /\ Len(f[1]) = Len(f[0]) + 1 /\ f[1][Len(f[1])] = s[1]
      BY <1>1, <3>0, LeftKeep
    <3>3. Left(s, f, 0) = s
      BY <1>1, LeftEnds
    <3>4. Len(f[0]) = 0
      BY DEF Setting, Picks
    <3>5. Len(f[1]) = 1
      BY <3>2, <3>4
    <3>6. Node(l, s, 1) \in Nodes
      BY <1>1, <1>5, NodeType
    <3> QED
      BY <1>1, <1>2, <3>1, <3>2, <3>3, <3>5, <3>6
  <2>3. ASSUME NEW y \in Y, NEW c \in 1..n, U(y, c)
        PROVE  /\ F[y] \in Y
               /\ IF c = n THEN F[y] = y ELSE U(F[y], c + 1)
    <3> PICK r, w, o, m, d : /\ r = Split(q, l, dup, f, g, c) /\ w = Left(s, f, c) /\ o = Len(f[c])
                             /\ m = y.heap.next[y.at] /\ d = c + 1
      OBVIOUS
    <3> PICK cut, z : /\ cut = list_remove(y.heap, m)
                      /\ z = IF dup = NoList THEN cut ELSE list_insert(cut, tail(dup), m)
      OBVIOUS
    <3>1. /\ Dedup(y.heap, q, l, dup, R, f, g, c) /\ y.at = Node(l, w, o)
          /\ v[f[c][o]] = v[s[c]] /\ o > 0
      BY <2>3
    <3>2. Holds(y.heap, r) /\ DOMAIN r = DOMAIN q /\ r[l] = w /\ Contents(r) /\ ListAt(y.heap, l, w)
      <4>1. Holds(y.heap, r) /\ DOMAIN r = DOMAIN q /\ r[l] = w
        BY <3>1, SplitIs
      <4> QED
        BY <1>1, <4>1 DEF Holds
    <3>p. PICK p : p = o + 1
      OBVIOUS
    <3>3. /\ o \in Nat /\ Len(w) = o + n - c /\ w[o] = f[c][o]
          /\ (c < n => w[p] = s[d])
      <4>x. PICK X : X = Items \ R
        OBVIOUS
      <4>1. c \in 0..Len(s) /\ Picks(f, s, X)
        BY <1>1, <4>x
      <4>2. /\ o \in Nat /\ Len(w) = o + n - c /\ \A k \in 1..o : w[k] = f[c][k]
            /\ (c < n => w[p] = s[d])
        <5>1. LeftShape(s, f, c, w, o, p, d)
          BY <1>1, <3>p, <4>1, LeftIs
        <5> QED
          BY <5>1 DEF LeftShape
      <4>3. o \in 1..o
        BY <3>1, <4>2
      <4> QED
        BY <4>2, <4>3
    <3>4. m = Node(l, w, p)
      <4>1. o \in 0..Len(w)
        BY <1>1, <3>3
      <4> QED
        BY <3>1, <3>2, <3>p, <4>1 DEF ListAt
    <3>5. F[y] = IF m = tail(l) THEN y
                 ELSE IF less(v, y.at, m) \/ less(v, m, y.at) THEN [y EXCEPT !.at = m]
                 ELSE [y EXCEPT !.heap = z]
      OBVIOUS
    <3>6. y = [heap |-> y.heap, at |-> y.at] /\ y.heap \in Heaps /\ y.at \in Nodes
      OBVIOUS
    <3> HIDE DEF F, Y
    <3>7. CASE c = n
      <4>1. p = Len(w) + 1
        BY <1>1, <3>3, <3>7, <3>p
      <4>2. m = tail(l)
        BY <1>1, <3>2, <3>4, <4>1, NodeType
      <4> QED
        BY <3>5, <3>7, <4>2
    <3>8. CASE c # n
      <4>1. c \in 0..(n - 1) /\ c \in 1..(n - 1) /\ c < n /\ d \in 1..n
        BY <1>1, <3>8
      <4>2. p \in 1..Len(w) /\ o \in 1..Len(w)
        <5>1. o \in Nat /\ o > 0 /\ p = o + 1 /\ Len(w) = o + n - c /\ n \in Nat /\ c \in Nat /\ c < n
          BY <1>1, <3>1, <3>3, <3>p, <4>1
        <5>2. p \in 1..(o + n - c) /\ o \in 1..(o + n - c)
          BY <5>1, PlacesLeft
        <5> QED
          BY <5>1, <5>2
      <4>3. m = elem(s[d]) /\ y.at = elem(f[c][o]) /\ m \in Nodes /\ m # tail(l)
        <5>1. Node(l, w, p) = elem(w[p]) /\ Node(l, w, o) = elem(w[o]) /\ w[p] \in Items
          BY <1>1, <3>2, <4>2, NodeType
        <5>2. m = elem(s[d]) /\ y.at = elem(f[c][o]) /\ s[d] \in Items
          BY <3>1, <3>3, <3>4, <4>1, <5>1
        <5> QED
          BY <5>2, NodeFacts
      <4>4. s[d] \in R <=> ~(less(v, y.at, m) \/ less(v, m, y.at))
        <5>1. s[d] \in R <=> v[s[d]] = v[s[c]]
          BY <1>3, <4>1
        <5>2. less(v, y.at, m) <=> v[s[c]] < v[s[d]]
          BY <3>1, <4>3, NodeFacts DEF less
        <5>3. less(v, m, y.at) <=> v[s[d]] < v[s[c]]
          BY <3>1, <4>3, NodeFacts DEF less
        <5>4. v[s[c]] \in Int /\ v[s[d]] \in Int
          BY <1>1, <4>1
        <5> QED
          BY <5>1, <5>2, <5>3, <5>4
      <4>5. CASE s[d] \notin R
        <5>1. F[y] = [heap |-> y.heap, at |-> m]
          BY <3>5, <3>6, <4>3, <4>4, <4>5
        <5>2. Dedup(y.heap, q, l, dup, R, f, g, d)
          BY <3>1, <4>1, <4>5, DedupKeep
        <5>x. PICK X : X = Items \ R
          OBVIOUS
        <5>y. Picks(f, s, X) /\ s[d] \in X /\ c \in 0..(Len(s) - 1)
          BY <1>1, <4>1, <4>5, <5>x
        <5>3. Left(s, f, d) = w /\ Len(f[d]) = p /\ f[d][Len(f[d])] = s[d]
          BY <1>1, <3>p, <5>y, LeftKeep
        <5>4. F[y] \in Y
          BY <3>6, <4>3, <5>1 DEF Y
        <5>5. U(F[y], d)
          BY <3>3, <3>4, <3>p, <5>1, <5>2, <5>3
        <5> QED
          BY <3>8, <5>4, <5>5
      <4>6. CASE s[d] \in R
        <5>1. F[y] = [heap |-> z, at |-> y.at]
          BY <3>5, <3>6, <4>3, <4>4, <4>6
        <5>2. Dedup(z, q, l, dup, R, f, g, d)
          BY <3>1, <4>1, <4>3, <4>6, DedupCut
        <5>x. PICK X : X = Items \ R
          OBVIOUS
        <5>y. Picks(f, s, X) /\ s[d] \notin X /\ c \in 0..(Len(s) - 1)
          BY <1>1, <4>1, <4>6, <5>x
        <5>3. Left(s, f, d) = Drop(w, p) /\ f[d] = f[c]
          <6>1. LeftDrops(s, f, c, d, p)
            BY <1>1, <3>p, <5>y, LeftDrop
          <6> QED
            BY <6>1 DEF LeftDrops
        <5>4. z \in Heaps
          BY <5>2 DEF Dedup, Holds
        <5>5. F[y] \in Y
          BY <3>6, <5>1, <5>4 DEF Y
        <5>6. Node(l, w, o) = Node(l, Drop(w, p), o)
          <6>1. Len(w) - 1 \in Nat /\ o \in 1..(Len(w) - 1) /\ o < p /\ o # 0 /\ o # Len(w) + 1
            BY <1>1, <3>1, <3>3, <3>p, <4>1
          <6>2. Len(Drop(w, p)) = Len(w) - 1 /\ Drop(w, p)[o] = w[o]
            BY <6>1 DEF Drop
          <6> QED
            BY <6>1, <6>2 DEF Node
        <5>7. v[s[d]] = v[s[c]]
          BY <1>3, <4>1, <4>6
        <5>8. U(F[y], d)
          BY <3>1, <5>1, <5>2, <5>3, <5>6, <5>7
        <5> QED
          BY <3>8, <5>5, <5>8
      <4> QED
        BY <4>5, <4>6
    <3> QED
      BY <3>7, <3>8
  <2> HIDE DEF F, Y, U, x
  <2>4. <<n - 1, x>> \in P
    <3>1. n - 1 \in Nat /\ 1 \in 1..n
      BY <1>1, <1>5
    <3> QED
      BY <2>2, <3>1
  <2>5. ASSUME NEW k \in 0..(n - 1), NEW y \in Y, <<k, y>> \in P
        PROVE  F[y] \in Y /\ IF k = 0 THEN F[y] = y ELSE \E j \in 0..(k - 1) : <<j, F[y]>> \in P
    <3>1. PICK c \in 1..n : k = n - c /\ U(y, c)
      BY <2>5
    <3>2. F[y] \in Y /\ IF c = n THEN F[y] = y ELSE U(F[y], c + 1)
      BY <2>3, <3>1
    <3>3. CASE c = n
      BY <1>1, <3>1, <3>2, <3>3
    <3>4. CASE c # n
      <4>1. c + 1 \in 1..n /\ n - (c + 1) \in 0..(k - 1) /\ n - (c + 1) \in Nat /\ k # 0
        BY <1>1, <3>1, <3>4
      <4>2. <<n - (c + 1), F[y]>> \in P
        BY <3>2, <3>4, <4>1
      <4> QED
        BY <3>2, <4>1, <4>2
    <3> QED
      BY <3>3, <3>4
  <2>6. <<0, While(F, x)>> \in P
    <3>1. n - 1 \in Nat /\ n - 1 <= Rounds
      <4>1. Rounds \in Nat
        BY ListHeapAssumption DEF Rounds
      <4> QED
        BY <1>1, <1>5, <4>1
    <3>n. PICK N : N = n - 1
      OBVIOUS
    <3> HIDE DEF P
    <3>2. N \in Nat /\ N <= Rounds /\ <<N, x>> \in P /\ x \in Y /\ Nears(F, Y, N, P)
      BY <2>2, <2>4, <2>5, <3>1, <3>n DEF Nears
    <3> QED
      BY <3>2, WhileGoes
  <2>7. PICK c \in 1..n : 0 = n - c /\ U(While(F, x), c)
    BY <2>6
  <2>8. c = n
    BY <1>1, <2>7
  <2> QED
    BY <2>1, <2>7, <2>8 DEF U
<1> QED
  BY <1>1, <1>4, <1>5

\* What the list of duplicates is in the end.
Grows(t, g, n) == Grown(t, g, n) = t \o g[n]

\* What was removed is appended to dup in its order.
LEMMA GrowsTo ==
    ASSUME NEW s \in Seq(Items), NEW t \in Seq(Items), NEW X, NEW f, Picks(f, s, X)
    PROVE  Grows(t, f, Len(s))
BY LeftEnds DEF Grows

\* The item of a list is where its predecessor points to.
LEMMA ListedLinked ==
    ASSUME NEW h, NEW q, Holds(h, q), NEW i, i \in Listed(q)
    PROVE  h.prev[elem(i)] \in Nodes /\ h.next[h.prev[elem(i)]] = elem(i)
<1>a. PICK m \in DOMAIN q : \E k \in 1..Len(q[m]) : q[m][k] = i
  BY DEF Listed
<1>b. PICK k \in 1..Len(q[m]) : q[m][k] = i
  BY <1>a
<1>1. Contents(q) /\ ListAt(h, m, q[m]) /\ Len(q[m]) \in Nat
  BY NodeType DEF Holds
<1>2. k - 1 \in 0..Len(q[m]) /\ k - 1 + 1 = k /\ k - 1 \in 0..(Len(q[m]) + 1)
  BY <1>1
<1>3. Node(m, q[m], k) = elem(i) /\ Node(m, q[m], k - 1) \in Nodes
  BY <1>1, <1>2, <1>b, NodeType
<1>4. h.next[Node(m, q[m], k - 1)] = Node(m, q[m], k - 1 + 1) /\ h.prev[Node(m, q[m], k - 1 + 1)] = Node(m, q[m], k - 1)
  BY <1>1, <1>2 DEF ListAt
<1> QED
  BY <1>2, <1>3, <1>4

\* Picks looks at the items of s only.
LEMMA PicksSame ==
    ASSUME NEW s \in Seq(Items), NEW f, NEW X, NEW Y, Picks(f, s, X),
           \A k \in 1..Len(s) : s[k] \in X <=> s[k] \in Y
    PROVE  Picks(f, s, Y)
BY DEF Picks

\* A heap from which the nodes of unlisted items have gone.
LEMMA ForgetsUnlisted ==
    ASSUME NEW h, NEW q, Holds(h, q), NEW ns, \A x \in ns : \E i \in Items \ Listed(q) : x = elem(i)
    PROVE  Holds(Forget(h, ns), q)
<1>1. ASSUME NEW m \in DOMAIN q, NEW k \in 0..(Len(q[m]) + 1)
      PROVE  Node(m, q[m], k) \notin ns
  <2>1. CASE k = 0 \/ k = Len(q[m]) + 1
    BY <2>1, NodeFacts DEF Node
  <2>2. CASE k # 0 /\ k # Len(q[m]) + 1
    <3>1. Contents(q) /\ Len(q[m]) \in Nat
      BY NodeType DEF Holds
    <3>2. k \in 1..Len(q[m]) /\ Node(m, q[m], k) = elem(q[m][k]) /\ q[m][k] \in Items
      BY <2>2, <3>1, NodeType
    <3>3. q[m][k] \in Listed(q)
      BY <3>2 DEF Listed
    <3> QED
      BY <3>2, <3>3, NodeFacts
  <2> QED
    BY <2>1, <2>2
<1> QED
  BY <1>1, ForgetHolds

\* list_unique does what ListSpec says, and forgets what it has lost.
LEMMA UniqueStep ==
    ASSUME IInv, NEW l \in used, NEW dup \in {NoList} \union used, Unique(l, dup)
    PROVE  IInv' /\ LS!Unique(l, dup)
<1> PICK s, n, R : s = Seqs[l] /\ n = Len(s) /\ R = LS!Repeats(s)
  OBVIOUS
<1>1. /\ Holds(heap, Seqs) /\ DOMAIN Seqs = used
      /\ val \in [Items -> Values \union {NoValue}] /\ val \in [Items -> Int]
      /\ \A k \in Items : val[k] # NoValue <=> k \in Listed(Seqs)
      /\ n \in Nat /\ s \in Seq(Items) /\ \A k \in 1..n : s[k] \in Items
  BY Facts, Places
<1> PICK h, lost : /\ h = list_unique(heap, val, l, dup)
                   /\ lost = {elem(i) : i \in {j \in Allocated : h.next[h.prev[elem(j)]] # elem(j)}}
  OBVIOUS
<1>2. /\ heap' = Forget(h, lost) /\ used' = used /\ dup # l
      /\ val' = [i \in Items |-> IF elem(i) \in lost THEN NoValue ELSE val[i]]
  BY DEF Unique, Free
<1>3. R = Doubles(val, s)
  BY DEF LS!Repeats, Doubles
<1>x. PICK X : X = LS!ToSet(s) \ R
  OBVIOUS
<1>f. PICK f : Picks(f, s, X) /\ LS!Among(s, X) = f[Len(s)]
  BY <1>1, AmongIs
<1>g. PICK g : Picks(g, s, R) /\ LS!Among(s, R) = g[Len(s)]
  BY <1>1, AmongIs
<1>4. Picks(f, s, Items \ R)
  <2>1. \A k \in 1..n : s[k] \in X <=> s[k] \in Items \ R
    <3>1. \A k \in 1..n : s[k] \in LS!ToSet(s)
      BY <1>1 DEF LS!ToSet
    <3> QED
      BY <1>1, <1>x, <3>1
  <2>y. PICK Z : Z = Items \ R
    OBVIOUS
  <2>2. Picks(f, s, Z)
    BY <1>1, <1>f, <2>1, <2>y, PicksSame
  <2> QED
    BY <2>2, <2>y
<1>5. Setting(heap, Seqs, l, dup, R, f, g)
  BY <1>1, <1>2, <1>4, <1>g DEF Setting
<1>6. Dedup(h, Seqs, l, dup, R, f, g, n)
  BY <1>1, <1>3, <1>5, UniqueHolds
<1> PICK r : r = Split(Seqs, l, dup, f, g, n)
  OBVIOUS
<1>7. Holds(h, r) /\ DOMAIN r = used
  BY <1>1, <1>5, <1>6, SplitIs DEF Dedup
<1>8. Listed(r) = IF dup = NoList THEN Listed(Seqs) \ Taken(s, R, n) ELSE Listed(Seqs)
  BY <1>6 DEF Dedup
<1>9. ASSUME NEW i \in Items
      PROVE  elem(i) \in lost <=> i \in Listed(Seqs) /\ i \notin Listed(r)
  <2>1. elem(i) \in lost <=> i \in Allocated /\ h.next[h.prev[elem(i)]] # elem(i)
    <3>1. \A j : elem(j) = elem(i) <=> j = i
      BY NodeFacts
    <3> QED
      BY <3>1
  <2>2. i \in Allocated <=> i \in Listed(Seqs)
    BY <1>1 DEF Allocated
  <2>3. i \in Listed(r) => h.next[h.prev[elem(i)]] = elem(i)
    BY <1>7, ListedLinked
  <2>4. i \in Listed(Seqs) /\ i \notin Listed(r) => h.next[h.prev[elem(i)]] # elem(i)
    <3>1. i \in Listed(Seqs) /\ i \notin Listed(r) => dup = NoList /\ i \in Taken(s, R, n)
      BY <1>8
    <3> QED
      BY <1>6, <3>1 DEF Dedup, Off
  <2> QED
    BY <2>1, <2>2, <2>3, <2>4
<1>10. Holds(heap', r)
  <2>1. ASSUME NEW x \in lost
        PROVE  \E i \in Items \ Listed(r) : x = elem(i)
    <3>1. PICK i \in Items : x = elem(i)
      BY DEF Allocated
    <3> QED
      BY <1>9, <3>1
  <2> QED
    BY <1>2, <1>7, <2>1, ForgetsUnlisted
<1>11. IInv' /\ Seqs' = r
  <2>1. val' \in [Items -> Values \union {NoValue}]
    BY <1>1, <1>2
  <2>2. Listed(r) \subseteq Listed(Seqs)
    BY <1>8
  <2>3. \A i \in Items : val'[i] # NoValue <=> i \in Listed(r)
    BY <1>1, <1>2, <1>9, <2>2
  <2>4. Good(heap', val', r)
    BY <1>10, <2>1, <2>3 DEF Good
  <2> QED
    BY <1>2, <1>7, <2>4, Becomes
<1> PICK kept, out : kept = LS!Among(s, X) /\ out = LS!Among(s, R)
  OBVIOUS
<1>12. Left(s, f, n) = kept
  BY <1>1, <1>f, LeftEnds
<1>13. r = IF dup = NoList THEN With(Seqs, l, kept) ELSE Both(Seqs, l, kept, dup, Seqs[dup] \o out)
  <2>1. CASE dup = NoList
    BY <1>12, <2>1 DEF Split
  <2>2. CASE dup # NoList
    <3> PICK t : t = Seqs[dup]
      OBVIOUS
    <3>1. t \in Seq(Items)
      BY <1>1, <2>2, Places
    <3>2. Grows(t, g, Len(s))
      BY <1>1, <1>g, <3>1, GrowsTo
    <3>3. Grown(t, g, n) = t \o out
      BY <1>g, <3>2 DEF Grows
    <3> QED
      BY <1>12, <2>2, <3>3 DEF Split
  <2> QED
    BY <2>1, <2>2
<1>14. Seqs' = IF dup = LS!NoList THEN [Seqs EXCEPT ![l] = kept]
               ELSE [Seqs EXCEPT ![l] = kept, ![dup] = @ \o out]
  <2>1. CASE dup = NoList
    BY <1>11, <1>13, <2>1 DEF With, NoList, LS!NoList
  <2>2. CASE dup # NoList
    <3>1. [Seqs EXCEPT ![l] = kept, ![dup] = @ \o out] = [Seqs EXCEPT ![l] = kept, ![dup] = Seqs[dup] \o out]
      <4>1. dup \in DOMAIN Seqs /\ dup # l
        BY <1>1, <1>2, <2>2
      <4>2. Seqs \in [DOMAIN Seqs -> Seq(Items)]
        BY <1>1 DEF Holds, Contents
      <4> QED
        BY <4>1, <4>2
    <3> QED
      BY <1>11, <1>13, <2>2, <3>1 DEF Both, NoList, LS!NoList
  <2> QED
    BY <2>1, <2>2
<1>15. dup = NoList => LS!Gone(out)
  <2> SUFFICES ASSUME dup = NoList PROVE LS!Gone(out)
    OBVIOUS
  <2>1. LS!ToSet(out) = Taken(s, R, n)
    BY <1>1, <1>g, PicksTake
  <2>2. Taken(s, R, n) \subseteq Listed(Seqs)
    BY <1>1 DEF Taken, Listed
  <2>3. \A i \in Items : elem(i) \in lost <=> i \in LS!ToSet(out)
    BY <1>8, <1>9, <2>1, <2>2
  <2> QED
    BY <1>2, <2>3 DEF LS!Gone, LS!NoValue, NoValue
<1>16. dup # NoList => val' = val
  <2> SUFFICES ASSUME dup # NoList PROVE val' = val
    OBVIOUS
  <2>1. \A i \in Items : elem(i) \notin lost
    BY <1>8, <1>9
  <2>2. val = [i \in Items |-> val[i]]
    BY <1>1
  <2> QED
    BY <1>2, <2>1, <2>2
<1> QED
  BY <1>2, <1>11, <1>14, <1>15, <1>16, <1>x DEF LS!Unique, LS!NoList, NoList

-----------------------------------------------------------------------------
(* list_sort *)

\* Places a to b hold a nondecreasing run.
Rising(v, s, a, b) == \A x, y \in a..b : x < y => v[s[x]] <= v[s[y]]

\* The order that T makes of s keeps equal items in theirs.
Stable(v, s, T) == \A x, y \in 1..Len(s) : x < y /\ v[s[T[x]]] = v[s[T[y]]] => T[x] < T[y]

\* h holds the lists of q, with s in list l: its items in an order that is stable.
Sorting(h, q, l, v, s) ==
    /\ Holds(h, With(q, l, s))
    /\ \E T : Permutation(T, Len(q[l])) /\ Stable(v, q[l], T) /\ s = Arranged(q[l], T)

\* What a heap that is being sorted holds in the list.
SortingShape(h, l, s, n) ==
    /\ n \in Nat /\ n <= Rounds /\ h \in Heaps /\ s \in Seq(Items) /\ Len(s) = n
    /\ ListAt(h, l, s) /\ \A i \in 1..n : s[i] \in Items
    /\ \A i \in 0..(n + 1) : Node(l, s, i) \in Nodes
    /\ \A i, j \in 0..(n + 1) : Node(l, s, i) = Node(l, s, j) => i = j
    /\ \A i \in 1..n : Node(l, s, i) = elem(s[i])
    /\ Node(l, s, n + 1) = tail(l) /\ Node(l, s, 0) = head(l)

\* It does.
LEMMA SortingIs ==
    ASSUME NEW q, NEW k, Holds(k, q), NEW l \in DOMAIN q, NEW n, n = Len(q[l]),
           NEW h, NEW v, NEW s, Sorting(h, q, l, v, s)
    PROVE  SortingShape(h, l, s, n)
<1> PICK r : r = With(q, l, s)
  OBVIOUS
<1>1. Holds(h, r) /\ l \in DOMAIN r /\ r[l] = s
  BY WithIs DEF Sorting
<1>2. Contents(r) /\ s \in Seq(Items) /\ h \in Heaps /\ ListAt(h, l, s)
  BY <1>1 DEF Holds, Contents
<1>3. n \in Nat /\ n <= Rounds
  BY NodeType, LengthBound DEF Holds, Rounds
<1>4. Len(s) = n
  BY <1>3 DEF Sorting, Arranged
<1>5. \A i, j \in 0..(n + 1) : Node(l, s, i) = Node(l, s, j) => i = j
  BY <1>1, <1>2, <1>4, NodeOnce
<1>6. /\ \A i \in 1..n : s[i] \in Items /\ Node(l, s, i) = elem(s[i])
      /\ \A i \in 0..(n + 1) : Node(l, s, i) \in Nodes
      /\ Node(l, s, n + 1) = tail(l) /\ Node(l, s, 0) = head(l)
  BY <1>1, <1>2, <1>4, NodeType
<1> QED
  BY <1>2, <1>3, <1>4, <1>5, <1>6 DEF SortingShape

\* Every list is in its own order.
LEMMA SortingFirst ==
    ASSUME NEW h, NEW q, Holds(h, q), NEW l \in DOMAIN q, NEW v
    PROVE  Sorting(h, q, l, v, q[l])
<1> PICK s, n : s = q[l] /\ n = Len(s)
  OBVIOUS
<1> DEFINE I == [k \in 1..n |-> k]
<1>1. s \in Seq(Items) /\ n \in Nat
  BY DEF Holds, Contents
<1>2. Permutation(I, n) /\ Stable(v, s, I)
  BY DEF Permutation, Stable
<1>3. s = Arranged(s, I)
  BY <1>1 DEF Arranged
<1>4. With(q, l, s) = q
  BY WithIs
<1> HIDE DEF I
<1> QED
  BY <1>2, <1>3, <1>4 DEF Sorting

\* An item that is smaller than those in front of it may go before them.
LEMMA SortingMoves ==
    ASSUME NEW q, NEW k, Holds(k, q), NEW l \in DOMAIN q, NEW n, n = Len(q[l]),
           NEW h, NEW v, NEW s, Sorting(h, q, l, v, s),
           NEW p \in 1..n, NEW c \in 1..n, p < c, \A x \in p..(c - 1) : v[s[x]] # v[s[c]],
           NEW d, d = c + 1
    PROVE  Sorting(list_splice(h, Node(l, s, p), Node(l, s, c), Node(l, s, d)), q, l, v, Moved(s, p, c, c))
<1> PICK t, g, r : /\ t = Moved(s, p, c, c) /\ r = With(q, l, s)
                   /\ g = list_splice(h, Node(l, s, p), Node(l, s, c), Node(l, s, d))
  OBVIOUS
<1>1. n \in Nat /\ Len(s) = n
  BY SortingIs DEF SortingShape
<1>2. Holds(g, With(q, l, t))
  <2>1. Holds(h, r) /\ l \in DOMAIN r /\ r[l] = s
    BY WithIs DEF Sorting
  <2>2. Holds(g, With(r, l, t))
    <3>1. n = Len(r[l]) /\ c <= c
      BY <1>1, <2>1
    <3>2. Holds(list_splice(h, Node(l, r[l], p), Node(l, r[l], c), Node(l, r[l], c + 1)),
                [r EXCEPT ![l] = Moved(r[l], p, c, c)])
      BY <2>1, <3>1, SpliceForward
    <3> QED
      BY <2>1, <3>2 DEF With
  <2>3. With(r, l, t) = With(q, l, t)
    BY WithIs
  <2> QED
    BY <2>2, <2>3
<1>t. PICK T : Permutation(T, n) /\ Stable(v, q[l], T) /\ s = Arranged(q[l], T)
  BY DEF Sorting
<1> DEFINE e(x) == From(p, c, c, x)
           U == [x \in 1..n |-> T[e(x)]]
<1>3. /\ \A x \in 1..n : e(x) \in 1..n
      /\ \A x, y \in 1..n : e(x) = e(y) => x = y
      /\ \A x, y \in 1..n : x < y => e(x) < e(y) \/ (e(x) = c /\ e(y) \in p..(c - 1))
  <2>1. \A x \in 1..n : e(x) \in 1..n
    BY <1>1 DEF From
  <2>2. \A x, y \in 1..n : e(x) = e(y) => x = y
    BY <1>1 DEF From
  <2>3. \A x, y \in 1..n : x < y => e(x) < e(y) \/ (e(x) = c /\ e(y) \in p..(c - 1))
    BY <1>1 DEF From
  <2> QED
    BY <2>1, <2>2, <2>3
<1>4. \A x \in 1..n : t[x] = s[e(x)] /\ s[x] = q[l][T[x]]
  BY <1>1, <1>t DEF Moved, Arranged
<1> HIDE DEF e
<1>5. Permutation(U, n)
  <2>1. \A x \in 1..n : T[e(x)] \in 1..n
    BY <1>t, <1>3 DEF Permutation
  <2>2. ASSUME NEW x \in 1..n, NEW y \in 1..n, T[e(x)] = T[e(y)]
        PROVE  x = y
    <3>1. e(x) = e(y)
      BY <1>t, <1>3, <2>2 DEF Permutation
    <3> QED
      BY <1>3, <3>1
  <2>3. U \in [1..n -> 1..n]
    BY <2>1
  <2>4. \A x, y \in 1..n : U[x] = U[y] => x = y
    BY <2>2
  <2> HIDE DEF U
  <2> QED
    BY <2>3, <2>4 DEF Permutation
<1>6. \A x \in 1..n : U[x] = T[e(x)] /\ q[l][U[x]] = s[e(x)]
  BY <1>3, <1>4
<1>7. t = Arranged(q[l], U)
  BY <1>1, <1>4, <1>6 DEF Moved, Arranged
<1>8. ASSUME NEW x \in 1..n, NEW y \in 1..n, x < y, v[q[l][U[x]]] = v[q[l][U[y]]]
      PROVE  U[x] < U[y]
  <2> PICK a, b : a = e(x) /\ b = e(y)
    OBVIOUS
  <2>1. a \in 1..n /\ b \in 1..n /\ (a < b \/ (a = c /\ b \in p..(c - 1)))
    BY <1>3, <1>8
  <2>2. v[s[a]] = v[s[b]]
    BY <1>6, <1>8
  <2>3. a < b
    BY <2>1, <2>2
  <2>4. v[q[l][T[a]]] = v[q[l][T[b]]]
    BY <1>4, <2>1, <2>2
  <2>5. T[a] < T[b]
    BY <1>t, <2>1, <2>3, <2>4 DEF Stable
  <2> QED
    BY <1>6, <2>5
<1> HIDE DEF U
<1>9. Stable(v, q[l], U)
  BY <1>8 DEF Stable
<1> QED
  BY <1>2, <1>5, <1>7, <1>9 DEF Sorting

\* While places a to r - 1 are merged from the runs p to c - 1 and c to r - 1: what is in front of
\* p is in its place, and each run is nondecreasing.
Merged(v, s, a, p, c, r) ==
    \A x, y \in a..(r - 1) : x < y /\ (x < p \/ y < c \/ c <= x) => v[s[x]] <= v[s[y]]

\* s differs from u only in places a to r - 1.
Within(u, s, a, r) == \A k \in 1..Len(u) : k < a \/ r <= k => s[k] = u[k]

\* The first item of the first run is not greater than that of the second.
LEMMA MergedFirst ==
    ASSUME NEW v, NEW s, NEW n \in Nat, \A k \in 1..n : v[s[k]] \in Int,
           NEW a \in 1..n, NEW p \in 1..n, NEW c \in 1..n, NEW r \in 1..(n + 1), a <= p, p < c, c < r,
           Merged(v, s, a, p, c, r), v[s[p]] <= v[s[c]], NEW d, d = p + 1
    PROVE  Merged(v, s, a, d, c, r)
<1> SUFFICES ASSUME NEW x \in a..(r - 1), NEW y \in a..(r - 1), x < y, x < d \/ y < c \/ c <= x
             PROVE  v[s[x]] <= v[s[y]]
  BY DEF Merged
<1>1. CASE x < p \/ y < c \/ c <= x
  BY <1>1 DEF Merged
<1>2. CASE x = p /\ y = c
  BY <1>2
<1>3. CASE x = p /\ c < y
  <2>1. c \in a..(r - 1) /\ y \in a..(r - 1) /\ c < y /\ c <= c
    BY <1>3
  <2>2. v[s[c]] <= v[s[y]]
    BY <1>3, <2>1 DEF Merged
  <2>3. v[s[p]] \in Int /\ v[s[c]] \in Int /\ v[s[y]] \in Int
    OBVIOUS
  <2> QED
    BY <1>3, <2>2, <2>3
<1> QED
  BY <1>1, <1>2, <1>3

\* It is greater, and the first item of the second run goes before it.
LEMMA MergedSecond ==
    ASSUME NEW v, NEW s, NEW n \in Nat, Len(s) = n, \A k \in 1..n : v[s[k]] \in Int,
           NEW a \in 1..n, NEW p \in 1..n, NEW c \in 1..n, NEW r \in 1..(n + 1), a <= p, p < c, c < r,
           Merged(v, s, a, p, c, r), v[s[c]] < v[s[p]], NEW d, d = p + 1, NEW f, f = c + 1
    PROVE  /\ \A x \in p..(c - 1) : v[s[c]] < v[s[x]]
           /\ Merged(v, Moved(s, p, c, c), a, d, f, r)
<1> PICK t : t = Moved(s, p, c, c)
  OBVIOUS
<1>1. \A k \in 1..n : t[k] = s[From(p, c, c, k)]
  BY DEF Moved
<1>2. ASSUME NEW x \in p..(c - 1)
      PROVE  v[s[c]] < v[s[x]]
  <2>1. v[s[p]] \in Int /\ v[s[c]] \in Int /\ v[s[x]] \in Int
    OBVIOUS
  <2>2. x = p \/ v[s[p]] <= v[s[x]]
    <3>1. x \in a..(r - 1) /\ p \in a..(r - 1) /\ x < c
      OBVIOUS
    <3>2. x = p \/ p < x
      OBVIOUS
    <3> QED
      BY <3>1, <3>2 DEF Merged
  <2> QED
    BY <2>1, <2>2
<1>3. /\ t[p] = s[c] /\ \A k \in (p + 1)..c : t[k] = s[k - 1]
      /\ \A k \in 1..n : k < p \/ c < k => t[k] = s[k]
  <2>1. From(p, c, c, p) = c
    BY DEF From
  <2>2. \A k \in (p + 1)..c : From(p, c, c, k) = k - 1
    BY DEF From
  <2>3. \A k \in 1..n : k < p \/ c < k => From(p, c, c, k) = k
    BY DEF From
  <2>4. t[p] = s[c]
    BY <1>1, <2>1
  <2>5. \A k \in (p + 1)..c : t[k] = s[k - 1]
    <3>1. \A k \in (p + 1)..c : k \in 1..n
      OBVIOUS
    <3> QED
      BY <1>1, <2>2, <3>1
  <2>6. \A k \in 1..n : k < p \/ c < k => t[k] = s[k]
    BY <1>1, <2>3
  <2> QED
    BY <2>4, <2>5, <2>6
<1>4. ASSUME NEW x \in a..(r - 1), NEW y \in a..(r - 1), x < y, x < d \/ y < f \/ f <= x
      PROVE  v[t[x]] <= v[t[y]]
  <2>0. x \in 1..n /\ y \in 1..n
    OBVIOUS
  <2>1. CASE x < p
    <3>1. t[x] = s[x]
      BY <1>3, <2>0, <2>1
    <3>2. PICK z \in a..(r - 1) : t[y] = s[z] /\ x < z
      <4>1. CASE y < p \/ c < y
        BY <1>3, <1>4, <2>0, <4>1
      <4>2. CASE y = p
        BY <1>3, <2>1, <4>2
      <4>3. CASE y \in (p + 1)..c
        <5>1. y - 1 \in a..(r - 1) /\ x < y - 1
          BY <2>1, <4>3
        <5> QED
          BY <1>3, <4>3, <5>1
      <4> QED
        BY <2>0, <4>1, <4>2, <4>3
    <3>3. v[s[x]] <= v[s[z]]
      BY <2>1, <3>2 DEF Merged
    <3> QED
      BY <3>1, <3>2, <3>3
  <2>2. CASE x = p
    <3>1. CASE y <= c
      <4>1. y \in (p + 1)..c /\ y - 1 \in p..(c - 1)
        BY <1>4, <2>2, <3>1
      <4>2. v[s[c]] < v[s[y - 1]]
        BY <1>2, <4>1
      <4>3. t[x] = s[c] /\ t[y] = s[y - 1]
        BY <1>3, <2>2, <4>1
      <4>4. v[s[c]] \in Int /\ v[s[y - 1]] \in Int
        BY <4>1
      <4> QED
        BY <4>2, <4>3, <4>4
    <3>2. CASE c < y
      <4>1. c \in a..(r - 1) /\ c <= c
        OBVIOUS
      <4>2. v[s[c]] <= v[s[y]]
        BY <3>2, <4>1 DEF Merged
      <4>3. t[x] = s[c] /\ t[y] = s[y]
        BY <1>3, <2>0, <2>2, <3>2
      <4> QED
        BY <4>2, <4>3
    <3> QED
      BY <3>1, <3>2
  <2>3. CASE p < x /\ y <= c
    <3>1. x \in (p + 1)..c /\ y \in (p + 1)..c
      BY <1>4, <2>0, <2>3
    <3>2. x - 1 \in a..(r - 1) /\ y - 1 \in a..(r - 1) /\ x - 1 < y - 1 /\ y - 1 < c
      BY <1>4, <3>1
    <3>3. v[s[x - 1]] <= v[s[y - 1]]
      BY <3>2 DEF Merged
    <3>4. t[x] = s[x - 1] /\ t[y] = s[y - 1]
      BY <1>3, <3>1
    <3> QED
      BY <3>3, <3>4
  <2>4. CASE c < x
    <3>1. t[x] = s[x] /\ t[y] = s[y]
      BY <1>3, <1>4, <2>0, <2>4
    <3>2. c <= x
      BY <2>4
    <3>3. v[s[x]] <= v[s[y]]
      BY <1>4, <3>2 DEF Merged
    <3> QED
      BY <3>1, <3>3
  <2> QED
    BY <1>4, <2>0, <2>1, <2>2, <2>3, <2>4
<1>5. Merged(v, t, a, d, f, r)
  BY <1>4 DEF Merged
<1> QED
  BY <1>2, <1>5

\* When one of the two runs is empty, everything is in its place.
LEMMA MergedAll ==
    ASSUME NEW v, NEW s, NEW a \in Nat, NEW p \in Nat, NEW c \in Nat, NEW r \in Nat,
           Merged(v, s, a, p, c, r), p = c \/ c = r
    PROVE  Rising(v, s, a, r - 1)
BY DEF Merged, Rising

\* Two runs one after the other.
LEMMA MergedStart ==
    ASSUME NEW v, NEW s, NEW a \in Nat, NEW c \in Nat, NEW r \in Nat,
           Rising(v, s, a, c - 1), Rising(v, s, c, r - 1)
    PROVE  Merged(v, s, a, a, c, r)
BY DEF Merged, Rising

\* Where inplace_merge is in its range: s is in list l, a0 and a1b0 are at p and c.
MergingAt(y, q, l, v, u, a, r, s, p, c) ==
    /\ Sorting(y.heap, q, l, v, s)
    /\ p \in a..r /\ c \in p..r
    /\ y.a0 = Node(l, s, p) /\ y.a1b0 = Node(l, s, c)
    /\ Merged(v, s, a, p, c, r) /\ Within(u, s, a, r)

\* What the loop of inplace_merge does in a round.
MergeRound(y, v, b1) ==
    IF y.a0 = y.a1b0 \/ y.a1b0 = b1 THEN y
    ELSE IF ~less(v, y.a1b0, y.a0) THEN [y EXCEPT !.a0 = y.heap.next[@]]
    ELSE LET m == y.heap.next[y.a1b0]
         IN  [heap |-> list_splice(y.heap, y.a0, y.heap.prev[m], m),
              a0 |-> y.a0, a1b0 |-> m]

MergeStep(y, z, q, l, v, u, a, r, p, c) ==
    /\ z \in Merging
    /\ IF p = c \/ c = r THEN z = y ELSE \E t, f : MergingAt(z, q, l, v, u, a, r, t, p + 1, f)

\* In every round but the last, one more item comes to its place.
LEMMA MergeGoes ==
    ASSUME NEW q, NEW k, Holds(k, q), NEW l \in DOMAIN q, NEW n, n = Len(q[l]), NEW v \in [Items -> Int],
           NEW u \in Seq(Items), Len(u) = n,
           NEW a \in 1..n, NEW r \in 1..(n + 1), a < r,
           NEW y \in Merging, NEW s, NEW p, NEW c, MergingAt(y, q, l, v, u, a, r, s, p, c),
           NEW z, z = MergeRound(y, v, Node(l, u, r)), NEW d, d = p + 1
    PROVE  MergeStep(y, z, q, l, v, u, a, r, p, c)
<1> DEFINE w(i) == Node(l, s, i)
<1>1. /\ Sorting(y.heap, q, l, v, s) /\ p \in a..r /\ c \in p..r
      /\ y.a0 = w(p) /\ y.a1b0 = w(c)
      /\ Merged(v, s, a, p, c, r) /\ Within(u, s, a, r)
  BY DEF MergingAt
<1>2. /\ n \in Nat /\ s \in Seq(Items) /\ Len(s) = n /\ y.heap \in Heaps
      /\ ListAt(y.heap, l, s) /\ \A i \in 1..n : s[i] \in Items
      /\ \A i \in 0..(n + 1) : w(i) \in Nodes
      /\ \A i, j \in 0..(n + 1) : w(i) = w(j) => i = j
      /\ \A i \in 1..n : w(i) = elem(s[i])
  <2>1. SortingShape(y.heap, l, s, n)
    BY <1>1, SortingIs
  <2> QED
    BY <2>1 DEF SortingShape
<1>n. n \in Nat /\ p \in a..r /\ c \in p..r
  BY <1>1, <1>2
<1>3. Node(l, u, r) = w(r)
  <2>1. CASE r = n + 1
    BY <1>2, <2>1 DEF Node
  <2>2. CASE r # n + 1
    <3>1. r \in 1..n /\ r <= r /\ r # 0
      BY <1>n, <2>2
    <3>2. s[r] = u[r]
      BY <1>1, <3>1 DEF Within
    <3> QED
      BY <1>2, <2>2, <3>1, <3>2 DEF Node
  <2> QED
    BY <2>1, <2>2
<1>4. p \in 0..(n + 1) /\ c \in 0..(n + 1) /\ r \in 0..(n + 1) /\ p <= c /\ c <= r
  BY <1>1, <1>2
<1>5. w(p) = w(c) <=> p = c
  BY <1>2, <1>4
<1>6. w(c) = w(r) <=> c = r
  BY <1>2, <1>4
<1> HIDE DEF w
<1>7. CASE p = c \/ c = r
  <2>1. z = y
    BY <1>1, <1>3, <1>5, <1>6, <1>7 DEF MergeRound
  <2> QED
    BY <1>7, <2>1 DEF MergeStep
<1>8. CASE ~(p = c \/ c = r)
  <2>1. /\ p \in 1..n /\ c \in 1..n /\ p < c /\ c < r /\ a <= p /\ d \in 1..n /\ d \in a..r /\ c \in d..r
        /\ c \in 0..n /\ p \in 0..n /\ c + 1 \in d..r /\ c + 1 \in 0..(n + 1)
    BY <1>n, <1>8
  <2>2. less(v, y.a1b0, y.a0) <=> v[s[c]] < v[s[p]]
    BY <1>1, <1>2, <2>1, NodeFacts DEF less
  <2>3. \A i \in 1..n : v[s[i]] \in Int
    BY <1>2
  <2>4. ~(y.a0 = y.a1b0 \/ y.a1b0 = Node(l, u, r))
    BY <1>1, <1>3, <1>5, <1>6, <1>8
  <2>5. CASE ~(v[s[c]] < v[s[p]])
    <3>1. z = [y EXCEPT !.a0 = y.heap.next[@]]
      BY <2>2, <2>4, <2>5 DEF MergeRound
    <3>2. y.heap.next[w(p)] = w(d)
      BY <1>2, <2>1 DEF ListAt, w
    <3>3. z = [heap |-> y.heap, a0 |-> w(d), a1b0 |-> w(c)]
      BY <1>1, <3>1, <3>2 DEF Merging
    <3>4. w(d) \in Nodes /\ w(c) \in Nodes
      BY <1>2, <1>4, <2>1
    <3>5. z \in Merging
      BY <1>2, <3>3, <3>4 DEF Merging
    <3>6. v[s[p]] <= v[s[c]]
      BY <2>1, <2>3, <2>5
    <3>7. Merged(v, s, a, d, c, r)
      BY <1>1, <1>2, <2>1, <2>3, <3>6, MergedFirst
    <3>8. MergingAt(z, q, l, v, u, a, r, s, d, c)
      BY <1>1, <2>1, <3>3, <3>7 DEF MergingAt, w
    <3> QED
      BY <1>8, <3>5, <3>8 DEF MergeStep
  <2>6. CASE v[s[c]] < v[s[p]]
    <3> PICK m, g, t, f : /\ m = w(c + 1) /\ g = list_splice(y.heap, w(p), w(c), m)
                          /\ t = Moved(s, p, c, c) /\ f = c + 1
      OBVIOUS
    <3>1. y.heap.next[w(c)] = m /\ y.heap.prev[m] = w(c)
      BY <1>2, <2>1 DEF ListAt, w
    <3>2. z = [heap |-> g, a0 |-> w(p), a1b0 |-> m]
      BY <1>1, <2>2, <2>4, <2>6, <3>1 DEF MergeRound
    <3>3. Merged(v, t, a, d, f, r) /\ \A x \in p..(c - 1) : v[s[c]] < v[s[x]]
      BY <1>1, <1>2, <2>1, <2>3, <2>6, MergedSecond
    <3>4. \A x \in p..(c - 1) : v[s[x]] # v[s[c]]
      <4>1. \A x \in p..(c - 1) : x \in 1..n
        BY <1>2, <2>1
      <4> QED
        BY <2>1, <2>3, <3>3, <4>1
    <3>5. Sorting(g, q, l, v, t)
      <4>1. g = list_splice(y.heap, Node(l, s, p), Node(l, s, c), Node(l, s, f))
        BY DEF w
      <4>2. Sorting(list_splice(y.heap, Node(l, s, p), Node(l, s, c), Node(l, s, f)), q, l, v, Moved(s, p, c, c))
        BY <1>1, <2>1, <3>4, SortingMoves
      <4> QED
        BY <4>1, <4>2
    <3>6. /\ \A i \in 1..n : i < p \/ c < i => t[i] = s[i]
          /\ t[d] = s[p] /\ Len(t) = n
      <4>1. \A i \in 1..n : t[i] = s[From(p, c, c, i)]
        BY <1>2 DEF Moved
      <4>2. \A i \in 1..n : i < p \/ c < i => From(p, c, c, i) = i
        BY <2>1 DEF From
      <4>3. From(p, c, c, d) = p
        BY <2>1 DEF From
      <4>4. t[d] = s[p]
        BY <2>1, <4>1, <4>3
      <4>5. Len(t) = n
        BY <1>2 DEF Moved
      <4> QED
        BY <4>1, <4>2, <4>4, <4>5
    <3>7. w(p) = Node(l, t, d)
      <4>1. w(p) = elem(s[p])
        BY <1>2, <2>1
      <4>2. d # 0 /\ d # n + 1
        BY <2>1
      <4> QED
        BY <3>6, <4>1, <4>2 DEF Node
    <3>8. m = Node(l, t, f)
      <4>1. CASE f = n + 1
        BY <1>2, <3>6, <4>1 DEF Node, w
      <4>2. CASE f # n + 1
        <5>a. c # n
          BY <4>2
        <5>b. c \in 1..n /\ n \in Nat
          BY <1>n, <2>1
        <5>c. c + 1 \in 1..n /\ c < c + 1 /\ c + 1 # 0
          BY <5>a, <5>b
        <5>1. f \in 1..n /\ c < f /\ f # 0
          BY <5>c
        <5>2. t[f] = s[f]
          BY <3>6, <5>1
        <5> QED
          BY <1>2, <3>6, <4>2, <5>1, <5>2 DEF Node, w
      <4> QED
        BY <4>1, <4>2
    <3>9. Within(u, t, a, r)
      <4>1. \A i \in 1..n : i < a \/ r <= i => i < p \/ c < i
        BY <1>n, <2>1
      <4>2. \A i \in 1..n : i < a \/ r <= i => s[i] = u[i]
        BY <1>1 DEF Within
      <4> QED
        BY <3>6, <4>1, <4>2 DEF Within
    <3>10. z \in Merging
      <4>1. g \in Heaps
        BY <3>5 DEF Sorting, Holds
      <4>2. w(p) \in Nodes /\ m \in Nodes
        BY <1>2, <1>4, <2>1
      <4> QED
        BY <3>2, <4>1, <4>2 DEF Merging
    <3>11. MergingAt(z, q, l, v, u, a, r, t, d, f)
      BY <2>1, <3>2, <3>3, <3>5, <3>7, <3>8, <3>9 DEF MergingAt
    <3> QED
      BY <1>8, <3>10, <3>11 DEF MergeStep
  <2> QED
    BY <2>5, <2>6
<1> QED
  BY <1>7, <1>8

\* h has the two runs of u merged.
MergeDone(h, q, l, v, u, a, r) ==
    \E s : Sorting(h, q, l, v, s) /\ Rising(v, s, a, r - 1) /\ Within(u, s, a, r)

\* inplace_merge merges two runs, and changes nothing else.
LEMMA MergeHolds ==
    ASSUME NEW q, NEW k, Holds(k, q), NEW l \in DOMAIN q, NEW n, n = Len(q[l]), NEW v \in [Items -> Int],
           NEW h, NEW u, Sorting(h, q, l, v, u),
           NEW a \in 1..n, NEW b \in 1..n, NEW r \in 1..(n + 1), a < b, b < r,
           Rising(v, u, a, b - 1), Rising(v, u, b, r - 1)
    PROVE  MergeDone(inplace_merge(h, v, Node(l, u, a), Node(l, u, b), Node(l, u, r)), q, l, v, u, a, r)
<1> PICK b1 : b1 = Node(l, u, r)
  OBVIOUS
<1> DEFINE Y == Merging
           F == [y \in Y |->
             IF y.a0 = y.a1b0 \/ y.a1b0 = b1 THEN y
             ELSE IF ~less(v, y.a1b0, y.a0) THEN [y EXCEPT !.a0 = y.heap.next[@]]
             ELSE LET m == y.heap.next[y.a1b0]
                  IN  [heap |-> list_splice(y.heap, y.a0, y.heap.prev[m], m),
                       a0 |-> y.a0, a1b0 |-> m]]
           x == [heap |-> h, a0 |-> Node(l, u, a), a1b0 |-> Node(l, u, b)]
           U(y, s, p, c) == MergingAt(y, q, l, v, u, a, r, s, p, c)
           Far(y, e) == \E s, p, c : U(y, s, p, c) /\ (p = c \/ c = r \/ r - p <= e)
           P == {e \in Nat \X Y : Far(e[2], e[1])}
<1>1. SortingShape(h, l, u, n)
  BY SortingIs
<1>2. /\ n \in Nat /\ u \in Seq(Items) /\ Len(u) = n /\ h \in Heaps /\ n <= Rounds /\ Rounds \in Nat
      /\ \A i \in 0..(n + 1) : Node(l, u, i) \in Nodes
  BY <1>1, ListHeapAssumption DEF SortingShape, Rounds
<1>3. inplace_merge(h, v, Node(l, u, a), Node(l, u, b), Node(l, u, r)) = While(F, x).heap
  BY DEF inplace_merge
<1>4. \A y \in Y : F[y] = MergeRound(y, v, b1)
  BY DEF MergeRound
<1>5. x \in Y /\ U(x, u, a, b)
  <2>1. a \in 0..(n + 1) /\ b \in 0..(n + 1) /\ a \in a..r /\ b \in a..r /\ a \in Nat /\ b \in Nat /\ r \in Nat
    BY <1>2
  <2>2. x \in Y
    BY <1>2, <2>1 DEF Merging
  <2>3. Merged(v, u, a, a, b, r)
    BY <2>1, MergedStart
  <2>4. Within(u, u, a, r)
    BY DEF Within
  <2> QED
    BY <2>1, <2>2, <2>3, <2>4 DEF MergingAt
<1>6. ASSUME NEW y \in Y, NEW s, NEW p, NEW c, U(y, s, p, c)
      PROVE  /\ F[y] \in Y /\ p \in a..r /\ c \in p..r
             /\ IF p = c \/ c = r THEN F[y] = y ELSE \E t, f : U(F[y], t, p + 1, f)
  <2> PICK z, d : z = MergeRound(y, v, Node(l, u, r)) /\ d = p + 1
    OBVIOUS
  <2>1. F[y] = z
    BY <1>4
  <2>2. /\ z \in Merging
        /\ IF p = c \/ c = r THEN z = y ELSE \E t, f : MergingAt(z, q, l, v, u, a, r, t, d, f)
    <3>1. MergingAt(y, q, l, v, u, a, r, s, p, c) /\ a < r
      BY <1>2, <1>6
    <3> HIDE DEF F, U, x, P, Far
    <3>2. MergeStep(y, z, q, l, v, u, a, r, p, c)
      BY <1>2, <3>1, MergeGoes
    <3> QED
      BY <3>2 DEF MergeStep
  <2>3. p \in a..r /\ c \in p..r
    BY <1>6 DEF MergingAt
  <2> HIDE DEF F
  <2> QED
    BY <2>1, <2>2, <2>3
<1> HIDE DEF F, U, x, Y
<1>7. r - a \in Nat /\ r - a <= Rounds
  BY <1>2
<1>8. <<r - a, x>> \in P
  BY <1>5, <1>7
<1>9. ASSUME NEW e \in 0..(r - a), NEW y \in Y, <<e, y>> \in P
      PROVE  F[y] \in Y /\ IF e = 0 THEN F[y] = y ELSE \E j \in 0..(e - 1) : <<j, F[y]>> \in P
  <2>a. Far(y, e)
    BY <1>9
  <2>1. PICK s, p, c : U(y, s, p, c) /\ (p = c \/ c = r \/ r - p <= e)
    BY <2>a
  <2>2. /\ F[y] \in Y /\ p \in a..r /\ c \in p..r
        /\ IF p = c \/ c = r THEN F[y] = y ELSE \E t, f : U(F[y], t, p + 1, f)
    BY <1>6, <2>1
  <2>3. CASE p = c \/ c = r
    <3>1. F[y] = y
      BY <2>2, <2>3
    <3>2. CASE e = 0
      BY <2>2, <3>1, <3>2
    <3>3. CASE e # 0
      <4>1. e - 1 \in 0..(e - 1) /\ e - 1 \in Nat
        BY <1>7, <3>3
      <4>2. Far(y, e - 1)
        BY <2>1, <2>3
      <4>3. <<e - 1, F[y]>> \in P
        BY <3>1, <4>1, <4>2
      <4> QED
        BY <2>2, <3>3, <4>1, <4>3
    <3> QED
      BY <3>2, <3>3
  <2>4. CASE ~(p = c \/ c = r)
    <3>1. r - p <= e /\ p < r /\ e # 0 /\ e - 1 \in 0..(e - 1) /\ e - 1 \in Nat /\ r - (p + 1) <= e - 1
      <4>1. /\ r - p <= e /\ p \in a..r /\ c \in p..r /\ p # c /\ c # r /\ e \in 0..(r - a)
            /\ r \in 1..(n + 1) /\ a \in 1..n /\ n \in Nat
        BY <1>2, <2>1, <2>2, <2>4
      <4>2. p \in Nat /\ r \in Nat /\ e \in Nat /\ p < r
        BY <4>1
      <4> QED
        BY <4>1, <4>2
    <3>a. \E t, f : U(F[y], t, p + 1, f)
      BY <2>2, <2>4
    <3>2. Far(F[y], e - 1)
      BY <3>1, <3>a
    <3>3. <<e - 1, F[y]>> \in P
      BY <2>2, <3>1, <3>2
    <3> QED
      BY <2>2, <3>1, <3>3
  <2> QED
    BY <2>3, <2>4
<1>10. <<0, While(F, x)>> \in P
  <2>n. PICK N : N = r - a
    OBVIOUS
  <2> HIDE DEF P
  <2>1. N \in Nat /\ N <= Rounds /\ <<N, x>> \in P /\ x \in Y /\ Nears(F, Y, N, P)
    BY <1>5, <1>7, <1>8, <1>9, <2>n DEF Nears
  <2> QED
    BY <2>1, WhileGoes
<1> PICK z : z = While(F, x)
  OBVIOUS
<1>a. Far(z, 0)
  BY <1>10
<1>11. PICK s, p, c : U(z, s, p, c) /\ (p = c \/ c = r \/ r - p <= 0)
  BY <1>a
<1>12. /\ Sorting(z.heap, q, l, v, s) /\ p \in a..r /\ c \in p..r
       /\ Merged(v, s, a, p, c, r) /\ Within(u, s, a, r)
  BY <1>11 DEF U, MergingAt
<1>13. /\ p \in Nat /\ c \in Nat /\ r \in Nat /\ a \in Nat /\ (p = c \/ c = r)
  BY <1>2, <1>11, <1>12
<1>14. Rising(v, s, a, r - 1)
  BY <1>12, <1>13, MergedAll
<1> QED
  BY <1>3, <1>12, <1>14 DEF MergeDone

\* A run whose neighbours are in order is in order.
LEMMA RisingBySteps ==
    ASSUME NEW v, NEW s, NEW a \in Nat, NEW b \in Nat, \A j \in a..b : v[s[j]] \in Int,
           \A j \in a..(b - 1) : v[s[j]] <= v[s[j + 1]]
    PROVE  Rising(v, s, a, b)
<1> SUFFICES ASSUME NEW x \in a..b, NEW y \in a..b, x < y PROVE v[s[x]] <= v[s[y]]
  BY DEF Rising
<1> DEFINE P == {m \in 0..(b - x) : v[s[x]] <= v[s[x + m]]}
<1> PICK n : n = b - x
  OBVIOUS
<1>1. n \in Nat
  OBVIOUS
<1>2. 0 \in P
  <2>1. x + 0 = x /\ v[s[x]] \in Int /\ 0 \in 0..(b - x)
    OBVIOUS
  <2> QED
    BY <2>1
<1>3. ASSUME NEW k \in 0..(n - 1), k \in P
      PROVE  k + 1 \in P
  <2>1. /\ x + k \in a..(b - 1) /\ x + k \in a..b /\ x + k + 1 \in a..b /\ k + 1 \in 0..(b - x)
        /\ x + (k + 1) = x + k + 1
    OBVIOUS
  <2>2. v[s[x]] <= v[s[x + k]] /\ v[s[x + k]] <= v[s[x + k + 1]]
    BY <1>3, <2>1
  <2>3. v[s[x]] \in Int /\ v[s[x + k]] \in Int /\ v[s[x + k + 1]] \in Int
    BY <2>1
  <2>4. v[s[x]] <= v[s[x + (k + 1)]]
    BY <2>1, <2>2, <2>3
  <2> QED
    BY <2>1, <2>4
<1>4. 0..n \subseteq P
  <2> HIDE DEF P
  <2> QED
    BY <1>1, <1>2, <1>3, UpTo
<1>5. y - x \in 0..n /\ x + (y - x) = y
  OBVIOUS
<1>6. y - x \in P
  BY <1>4, <1>5
<1> QED
  BY <1>5, <1>6

\* e is where the nondecreasing run that begins at place a ends.
RunEnd(v, s, a, e) ==
    /\ e \in (a + 1)..(Len(s) + 1)
    /\ Rising(v, s, a, e - 1)
    /\ e <= Len(s) => v[s[e]] < v[s[e - 1]]

\* find_end_of_run finds it.
LEMMA RunFound ==
    ASSUME NEW h, NEW q, Holds(h, q), NEW l \in DOMAIN q, NEW n, n = Len(q[l]), NEW v \in [Items -> Int],
           NEW a \in 1..n
    PROVE  \E e : RunEnd(v, q[l], a, e) /\ find_end_of_run(h, v, Node(l, q[l], a), tail(l)) = Node(l, q[l], e)
<1> PICK s, p : s = q[l] /\ p = a + 1
  OBVIOUS
<1> DEFINE w(k) == Node(l, s, k)
           F == [y \in Nodes |-> IF y # tail(l) /\ ~less(v, y, h.prev[y]) THEN h.next[y] ELSE y]
           C == {k \in 2..n : ~(v[s[k]] < v[s[k - 1]])}
<1>1. Contents(q) /\ ListAt(h, l, s)
  BY DEF Holds
<1>2. /\ n \in Nat
      /\ \A k \in 0..(n + 1) : w(k) \in Nodes
      /\ \A k \in 1..n : w(k) = elem(s[k]) /\ s[k] \in Items
      /\ w(n + 1) = tail(l)
  BY <1>1, NodeType
<1>n. n \in Nat /\ p \in 2..(n + 1) /\ n + 1 \in 1..(n + 1) /\ p \in 1..(n + 1) /\ p <= n + 1 /\ a \in 0..n
  BY <1>2
<1>3. find_end_of_run(h, v, w(a), tail(l)) = While(F, w(p))
  <2>1. h.next[w(a)] = w(p)
    BY <1>1, <1>n DEF ListAt
  <2> HIDE DEF w
  <2> QED
    BY <2>1 DEF find_end_of_run
<1>4. ASSUME NEW k \in p..(n + 1)
      PROVE  F[w(k)] = IF k # n + 1 /\ k \in C THEN w(k + 1) ELSE w(k)
  <2>1. CASE k = n + 1
    <3>1. tail(l) \in Nodes
      BY <1>2, <1>n
    <3> QED
      BY <1>2, <2>1, <3>1
  <2>2. CASE k # n + 1
    <3>1. k \in 2..n /\ k \in 1..n /\ k \in 0..Len(s) /\ k - 1 \in 1..n /\ k - 1 \in 0..Len(s) /\ k - 1 + 1 = k
          /\ k \in 0..(n + 1)
      BY <1>n, <2>2
    <3>2. w(k) # tail(l) /\ w(k) \in Nodes
      BY <1>2, <3>1, NodeFacts
    <3>3. h.next[w(k)] = w(k + 1)
      BY <1>1, <3>1 DEF ListAt
    <3>4. h.prev[w(k - 1 + 1)] = w(k - 1)
      BY <1>1, <3>1 DEF ListAt
    <3>5. h.prev[w(k)] = elem(s[k - 1]) /\ w(k) = elem(s[k])
      BY <1>2, <3>1, <3>4
    <3>6. less(v, w(k), h.prev[w(k)]) <=> v[s[k]] < v[s[k - 1]]
      BY <3>5, NodeFacts DEF less
    <3> HIDE DEF w
    <3> QED
      BY <2>2, <3>1, <3>2, <3>3, <3>6
  <2> QED
    BY <2>1, <2>2
<1>5. PICK e \in p..(n + 1) : /\ While(F, w(p)) = w(e) /\ (e = n + 1 \/ e \notin C)
                              /\ \A j \in p..(e - 1) : j \in C
  <2>2. Searching(F, C, l, q[l], p, n + 1)
    BY <1>4 DEF Searching
  <2> HIDE DEF F, C
  <2> QED
    BY <1>n, <2>2, Scan
<1>6. \A j \in 1..n : v[s[j]] \in Int
  BY <1>2
<1>7. Rising(v, s, a, e - 1)
  <2> PICK b : b = e - 1
    OBVIOUS
  <2>1. a \in Nat /\ b \in Nat /\ b <= n /\ 1 <= a
    BY <1>n
  <2>2. \A j \in a..b : v[s[j]] \in Int
    <3>1. \A j \in a..b : j \in 1..n
      BY <1>n, <2>1
    <3> QED
      BY <1>6, <3>1
  <2>3. ASSUME NEW j \in a..(b - 1)
        PROVE  v[s[j]] <= v[s[j + 1]]
    <3>1. j + 1 \in p..b /\ j + 1 - 1 = j /\ j \in 1..n /\ j + 1 \in 1..n
      BY <1>n, <2>1
    <3>2. j + 1 \in C
      BY <1>5, <3>1
    <3>3. ~(v[s[j + 1]] < v[s[j]])
      BY <3>1, <3>2
    <3> QED
      BY <1>6, <3>1, <3>3
  <2> QED
    BY <2>1, <2>2, <2>3, RisingBySteps
<1>8. e <= n => v[s[e]] < v[s[e - 1]]
  <2>1. e <= n => e \in 2..n /\ e # n + 1
    BY <1>n
  <2> QED
    BY <1>5, <2>1
<1>9. RunEnd(v, s, a, e)
  BY <1>5, <1>7, <1>8 DEF RunEnd
<1> QED
  BY <1>3, <1>5, <1>9

\* g numbers the first m places of s by runs, from 1 to R at most.
Labels(g, v, s, m, R) ==
    /\ g \in [1..m -> 1..R]
    /\ \A x, y \in 1..m : x < y => g[x] <= g[y] /\ (g[x] = g[y] => v[s[x]] <= v[s[y]])

\* The first m places of s are R runs at most.
Ran(v, s, m, R) == \E g : Labels(g, v, s, m, R)

\* One more run behind them.
LEMMA RanOn ==
    ASSUME NEW v, NEW s, NEW t, NEW m \in Nat, NEW R \in Nat, Ran(v, s, m, R),
           \A k \in 1..m : t[k] = s[k], NEW p, p = m + 1, NEW b \in Nat, m <= b, Rising(v, t, p, b),
           NEW Q, Q = R + 1
    PROVE  Ran(v, t, b, Q)
<1>g. PICK g : Labels(g, v, s, m, R)
  BY DEF Ran
<1> DEFINE f == [k \in 1..b |-> IF k <= m THEN g[k] ELSE Q]
<1>1. \A k \in 1..m : k \in 1..b /\ f[k] = g[k] /\ g[k] \in 1..R
  BY <1>g DEF Labels
<1>2. \A k \in p..b : k \in 1..b /\ f[k] = Q
  OBVIOUS
<1>3. f \in [1..b -> 1..Q]
  <2>1. ASSUME NEW k \in 1..b
        PROVE  (IF k <= m THEN g[k] ELSE Q) \in 1..Q
    <3>1. CASE k <= m
      <4>1. k \in 1..m
        BY <3>1
      <4>2. g[k] \in 1..R
        BY <1>1, <4>1
      <4> QED
        BY <3>1, <4>2
    <3>2. CASE ~(k <= m)
      BY <3>2
    <3> QED
      BY <3>1, <3>2
  <2> QED
    BY <2>1
<1> HIDE DEF f
<1>4. ASSUME NEW x \in 1..b, NEW y \in 1..b, x < y
      PROVE  f[x] <= f[y] /\ (f[x] = f[y] => v[t[x]] <= v[t[y]])
  <2>1. CASE y <= m
    <3>1. x \in 1..m /\ y \in 1..m
      BY <1>4, <2>1
    <3>2. g[x] <= g[y] /\ (g[x] = g[y] => v[s[x]] <= v[s[y]])
      BY <1>g, <1>4, <3>1 DEF Labels
    <3>3. f[x] = g[x] /\ f[y] = g[y] /\ t[x] = s[x] /\ t[y] = s[y]
      BY <1>1, <3>1
    <3> QED
      BY <3>2, <3>3
  <2>2. CASE x <= m /\ m < y
    <3>1. x \in 1..m /\ y \in p..b
      BY <2>2
    <3>2. f[x] \in 1..R /\ f[y] = Q
      BY <1>1, <1>2, <3>1
    <3> QED
      BY <3>2
  <2>3. CASE m < x
    <3>1. x \in p..b /\ y \in p..b
      BY <1>4, <2>3
    <3>2. f[x] = Q /\ f[y] = Q
      BY <1>2, <3>1
    <3>3. v[t[x]] <= v[t[y]]
      BY <1>4, <3>1 DEF Rising
    <3> QED
      BY <3>2, <3>3
  <2> QED
    BY <2>1, <2>2, <2>3
<1>5. Labels(f, v, t, b, Q)
  BY <1>3, <1>4 DEF Labels
<1> QED
  BY <1>5 DEF Ran

\* s and u are the same from place p on.
SameFrom(s, u, p, n) == \A k \in p..n : s[k] = u[k]

\* Where a run ends, another one begins.
LEMMA LabelGrows ==
    ASSUME NEW v \in [Items -> Int], NEW u, NEW n \in Nat, NEW R \in Nat, NEW g, Labels(g, v, u, n, R),
           NEW s \in Seq(Items), Len(s) = n, NEW p \in 1..n, SameFrom(s, u, p, n),
           NEW b \in 1..n, RunEnd(v, s, p, b)
    PROVE  g[p] < g[b] /\ g[p] \in 1..R /\ g[b] \in 1..R
<1> PICK c : c = b - 1
  OBVIOUS
<1>1. b \in (p + 1)..(n + 1) /\ v[s[b]] < v[s[c]]
  BY DEF RunEnd
<1>2. c \in p..n /\ c \in 1..n /\ c < b /\ p <= c /\ b \in p..n
  BY <1>1
<1>3. g[p] \in 1..R /\ g[b] \in 1..R /\ g[c] \in 1..R
  BY <1>2 DEF Labels
<1>4. g[p] <= g[c]
  <2>1. CASE p = c
    BY <1>3, <2>1
  <2>2. CASE p # c
    <3>1. p < c
      BY <1>2, <2>2
    <3> QED
      BY <1>2, <3>1 DEF Labels
  <2> QED
    BY <2>1, <2>2
<1>5. g[c] <= g[b] /\ (g[c] = g[b] => v[u[c]] <= v[u[b]])
  BY <1>2 DEF Labels
<1>6. v[u[c]] = v[s[c]] /\ v[u[b]] = v[s[b]] /\ v[s[c]] \in Int /\ v[s[b]] \in Int
  BY <1>2 DEF SameFrom
<1>7. g[c] # g[b]
  BY <1>1, <1>5, <1>6
<1> QED
  BY <1>3, <1>4, <1>5, <1>7

\* A pass over the R runs of u is at place p; g numbers the runs.
PassAt(y, q, l, v, u, g, R, s, p) ==
    /\ Sorting(y.heap, q, l, v, s)
    /\ p \in 1..(Len(u) + 1) /\ y.a0 = Node(l, s, p)
    /\ \A k \in p..Len(u) : s[k] = u[k]
    /\ Ran(v, s, p - 1, y.runs)
    /\ y.runs \in 0..(p - 1)
    /\ IF p <= Len(u) THEN 2 * y.runs + 1 <= g[p] ELSE 2 * y.runs <= R + 1

\* What the loop of MergePass does in a round.
PassRound(y, v, l) ==
    LET a1b0 == find_end_of_run(y.heap, v, y.a0, tail(l))
        b1 == find_end_of_run(y.heap, v, a1b0, tail(l))
    IN  IF y.a0 = tail(l) THEN y
        ELSE IF a1b0 = tail(l) THEN [heap |-> y.heap, a0 |-> a1b0, runs |-> y.runs + 1]
        ELSE [heap |-> inplace_merge(y.heap, v, y.a0, a1b0, b1), a0 |-> b1, runs |-> y.runs + 1]

PassStep(y, z, q, l, v, u, g, R, p) ==
    /\ z \in Passing
    /\ IF p = Len(u) + 1 THEN z = y
       ELSE \E t, r : r \in (p + 1)..(Len(u) + 1) /\ PassAt(z, q, l, v, u, g, R, t, r)

\* find_end_of_run finds the end of the run at place p.
RunAt(h, v, l, s, p) ==
    \E e : RunEnd(v, s, p, e) /\ find_end_of_run(h, v, Node(l, s, p), tail(l)) = Node(l, s, e)

\* The run at place p of a heap that is being sorted.
LEMMA SortingRun ==
    ASSUME NEW q, NEW k, Holds(k, q), NEW l \in DOMAIN q, NEW n, n = Len(q[l]), NEW v \in [Items -> Int],
           NEW h, NEW s, Sorting(h, q, l, v, s), NEW p \in 1..n
    PROVE  RunAt(h, v, l, s, p)
<1> PICK r : r = With(q, l, s)
  OBVIOUS
<1>1. Holds(h, r) /\ l \in DOMAIN r /\ r[l] = s
  BY WithIs DEF Sorting
<1>2. SortingShape(h, l, s, n)
  BY SortingIs
<1>3. p \in 1..Len(r[l])
  BY <1>1, <1>2 DEF SortingShape
<1>4. \E e : RunEnd(v, r[l], p, e) /\ find_end_of_run(h, v, Node(l, r[l], p), tail(l)) = Node(l, r[l], e)
  BY <1>1, <1>3, RunFound
<1> QED
  BY <1>1, <1>4 DEF RunAt

\* A round of a pass puts out one run and takes one or two.
LEMMA PassGoes ==
    ASSUME NEW q, NEW k, Holds(k, q), NEW l \in DOMAIN q, NEW n, n = Len(q[l]), NEW v \in [Items -> Int],
           NEW u \in Seq(Items), Len(u) = n, NEW R \in Nat, NEW g, Labels(g, v, u, n, R),
           NEW y \in Passing, NEW s, NEW p, PassAt(y, q, l, v, u, g, R, s, p)
    PROVE  PassStep(y, PassRound(y, v, l), q, l, v, u, g, R, p)
<1>p. PICK z, h, o, m : z = PassRound(y, v, l) /\ h = y.heap /\ o = y.runs /\ m = p - 1
  OBVIOUS
<1>1. /\ Sorting(h, q, l, v, s) /\ p \in 1..(n + 1) /\ y.a0 = Node(l, s, p)
      /\ \A i \in p..n : s[i] = u[i]
      /\ Ran(v, s, m, o) /\ o \in 0..m
      /\ IF p <= n THEN 2 * o + 1 <= g[p] ELSE 2 * o <= R + 1
  BY <1>p DEF PassAt
<1>2. SortingShape(h, l, s, n)
  BY <1>1, SortingIs
<1>3. /\ n \in Nat /\ s \in Seq(Items) /\ Len(s) = n /\ h \in Heaps
      /\ \A i \in 1..n : s[i] \in Items /\ Node(l, s, i) = elem(s[i]) /\ Node(l, s, i) # tail(l)
      /\ \A i \in 0..(n + 1) : Node(l, s, i) \in Nodes
      /\ Node(l, s, n + 1) = tail(l)
  BY <1>2, NodeFacts DEF SortingShape
<1>n. n \in Nat /\ m \in Nat /\ o \in Nat /\ p = m + 1 /\ o <= m /\ p \in 1..(n + 1) /\ R \in Nat
  BY <1>1, <1>3, <1>p
<1>4. CASE p = n + 1
  <2>1. z = y
    BY <1>1, <1>3, <1>4, <1>p DEF PassRound
  <2> QED
    BY <1>4, <1>p, <2>1 DEF PassStep
<1>5. CASE p # n + 1
  <2>1. p \in 1..n /\ p \in 0..(n + 1) /\ p # Len(u) + 1
    BY <1>n, <1>5
  <2>2. y.a0 # tail(l)
    BY <1>1, <1>3, <2>1
  <2>3. 2 * o + 1 <= g[p] /\ g[p] \in 1..R
    BY <1>1, <2>1 DEF Labels
  <2>b. PICK b : RunEnd(v, s, p, b) /\ find_end_of_run(h, v, Node(l, s, p), tail(l)) = Node(l, s, b)
    <3>1. RunAt(h, v, l, s, p)
      BY <1>1, <2>1, SortingRun
    <3> QED
      BY <3>1 DEF RunAt
  <2>4. b \in (p + 1)..(n + 1) /\ Rising(v, s, p, b - 1)
    BY <1>3, <2>b DEF RunEnd
  <2>5. CASE b = n + 1
    <3>1. z = [heap |-> h, a0 |-> tail(l), runs |-> o + 1]
      BY <1>1, <1>3, <1>p, <2>2, <2>5, <2>b DEF PassRound
    <3>2. tail(l) \in Nodes
      <4>1. n + 1 \in 0..(n + 1)
        BY <1>n
      <4> QED
        BY <1>3, <4>1
    <3>3. z \in Passing
      <4>1. h \in Heaps /\ o + 1 \in Nat
        BY <1>3, <1>n
      <4> QED
        BY <3>1, <3>2, <4>1 DEF Passing
    <3>4. Ran(v, s, n, o + 1)
      <4>1. m <= n /\ n = b - 1 /\ \A i \in 1..m : s[i] = s[i]
        BY <1>n, <2>5
      <4>2. Rising(v, s, p, n)
        BY <2>4, <4>1
      <4> QED
        BY <1>1, <1>n, <4>1, <4>2, RanOn
    <3>5. /\ b - 1 = n /\ o + 1 \in 0..(b - 1) /\ ~(b <= n) /\ 2 * (o + 1) <= R + 1
          /\ b \in 1..(n + 1) /\ b \in (p + 1)..(n + 1) /\ b..n = {}
      BY <1>n, <2>1, <2>3, <2>5
    <3>6. PassAt(z, q, l, v, u, g, R, s, b)
      BY <1>1, <1>3, <2>5, <3>1, <3>4, <3>5, <1>p DEF PassAt
    <3> QED
      BY <1>p, <2>1, <3>3, <3>5, <3>6 DEF PassStep
  <2>6. CASE b # n + 1
    <3>1. b \in 1..n /\ p < b
      BY <1>n, <2>4, <2>6
    <3>r. PICK r : RunEnd(v, s, b, r) /\ find_end_of_run(h, v, Node(l, s, b), tail(l)) = Node(l, s, r)
      <4>1. RunAt(h, v, l, s, b)
        BY <1>1, <3>1, SortingRun
      <4> QED
        BY <4>1 DEF RunAt
    <3>2. r \in (b + 1)..(n + 1) /\ Rising(v, s, b, r - 1)
      BY <1>3, <3>r DEF RunEnd
    <3>3. b < r /\ r \in 1..(n + 1) /\ r \in (p + 1)..(n + 1) /\ r \in 0..(n + 1) /\ r - 1 \in Nat /\ m <= r - 1
      BY <1>n, <3>1, <3>2
    <3>f. PICK f : f = inplace_merge(h, v, Node(l, s, p), Node(l, s, b), Node(l, s, r))
      OBVIOUS
    <3>4. z = [heap |-> f, a0 |-> Node(l, s, r), runs |-> o + 1]
      <4>1. Node(l, s, b) # tail(l)
        BY <1>3, <3>1
      <4> QED
        BY <1>1, <1>p, <2>2, <2>b, <3>r, <3>f, <4>1 DEF PassRound
    <3>5. MergeDone(f, q, l, v, s, p, r)
      BY <1>1, <2>1, <2>4, <3>1, <3>2, <3>3, <3>f, MergeHolds
    <3>t. PICK t : Sorting(f, q, l, v, t) /\ Rising(v, t, p, r - 1) /\ Within(s, t, p, r)
      BY <3>5 DEF MergeDone
    <3>6. SortingShape(f, l, t, n)
      BY <3>t, SortingIs
    <3>7. /\ f \in Heaps /\ Len(t) = n
          /\ \A i \in 1..m : t[i] = s[i]
          /\ \A i \in r..n : t[i] = s[i] /\ s[i] = u[i]
      <4>1. \A i \in 1..m : i \in 1..n /\ i < p
        BY <1>n
      <4>2. \A i \in r..n : i \in 1..n /\ r <= i /\ i \in p..n
        BY <1>n, <3>3
      <4>3. \A i \in 1..n : i < p \/ r <= i => t[i] = s[i]
        BY <1>3, <3>t DEF Within
      <4> QED
        BY <1>1, <3>6, <4>1, <4>2, <4>3 DEF SortingShape
    <3>8. Node(l, s, r) = Node(l, t, r) /\ Node(l, s, r) \in Nodes
      <4>1. CASE r = n + 1
        BY <1>3, <3>3, <3>7, <4>1 DEF Node
      <4>2. CASE r # n + 1
        <5>1. r \in r..n /\ r # 0
          BY <1>n, <3>3, <4>2
        <5> QED
          BY <1>3, <3>3, <3>7, <4>2, <5>1 DEF Node
      <4> QED
        BY <4>1, <4>2
    <3>9. z \in Passing
      BY <1>n, <3>4, <3>7, <3>8 DEF Passing
    <3>10. Ran(v, t, r - 1, o + 1)
      BY <1>1, <1>n, <3>3, <3>7, <3>t, RanOn
    <3>11. g[p] < g[b] /\ g[b] \in 1..R
      <4>1. SameFrom(s, u, p, n)
        BY <1>1 DEF SameFrom
      <4> QED
        BY <1>3, <2>1, <2>b, <3>1, <4>1, LabelGrows
    <3>12. IF r <= n THEN 2 * (o + 1) + 1 <= g[r] ELSE 2 * (o + 1) <= R + 1
      <4>1. CASE r <= n
        <5>1. r \in 1..n /\ SameFrom(s, u, b, n)
          <6>1. \A i \in b..n : i \in p..n
            BY <1>n, <3>1
          <6>2. r \in 1..n
            BY <1>n, <3>3, <4>1
          <6> QED
            BY <1>1, <6>1, <6>2 DEF SameFrom
        <5>2. g[b] < g[r] /\ g[r] \in 1..R
          BY <1>3, <3>1, <3>r, <5>1, LabelGrows
        <5> QED
          BY <1>n, <2>3, <3>11, <4>1, <5>2
      <4>2. CASE ~(r <= n)
        BY <1>n, <2>3, <3>11, <4>2
      <4> QED
        BY <4>1, <4>2
    <3>13. o + 1 \in 0..(r - 1)
      BY <1>n, <3>1, <3>3
    <3>14. PassAt(z, q, l, v, u, g, R, t, r)
      BY <3>3, <3>4, <3>7, <3>8, <3>10, <3>12, <3>13, <3>t, <1>p DEF PassAt
    <3> QED
      BY <1>p, <2>1, <3>3, <3>9, <3>14 DEF PassStep
  <2> QED
    BY <2>5, <2>6
<1> QED
  BY <1>4, <1>5

\* z is what a pass over R runs ends with.
PassDone(z, q, l, v, n, R) ==
    /\ z \in Passing
    /\ 2 * z.runs <= R + 1
    /\ \E s : Sorting(z.heap, q, l, v, s) /\ Ran(v, s, n, z.runs)

\* A pass leaves half of the runs.
LEMMA PassHolds ==
    ASSUME NEW q, NEW k, Holds(k, q), NEW l \in DOMAIN q, NEW n, n = Len(q[l]), NEW v \in [Items -> Int],
           NEW h, NEW u, Sorting(h, q, l, v, u), NEW R \in Nat, Ran(v, u, n, R)
    PROVE  PassDone(MergePass(h, v, l), q, l, v, n, R)
<1> DEFINE Y == Passing
           F == [y \in Y |->
             LET a1b0 == find_end_of_run(y.heap, v, y.a0, tail(l))
                 b1 == find_end_of_run(y.heap, v, a1b0, tail(l))
             IN  IF y.a0 = tail(l) THEN y
                 ELSE IF a1b0 = tail(l) THEN [heap |-> y.heap, a0 |-> a1b0, runs |-> y.runs + 1]
                 ELSE [heap |-> inplace_merge(y.heap, v, y.a0, a1b0, b1),
                       a0 |-> b1, runs |-> y.runs + 1]]
           x == [heap |-> h, a0 |-> list_begin(h, l), runs |-> 0]
<1>g. PICK g : Labels(g, v, u, n, R)
  BY DEF Ran
<1> DEFINE U(y, s, p) == PassAt(y, q, l, v, u, g, R, s, p)
           Far(y, e) == \E s, p : U(y, s, p) /\ n + 1 - p <= e
           P == {e \in Nat \X Y : Far(e[2], e[1])}
<1>1. SortingShape(h, l, u, n)
  BY SortingIs
<1>2. /\ n \in Nat /\ u \in Seq(Items) /\ Len(u) = n /\ h \in Heaps /\ n <= Rounds /\ ListAt(h, l, u)
      /\ \A i \in 0..(n + 1) : Node(l, u, i) \in Nodes
      /\ Node(l, u, 0) = head(l)
  BY <1>1 DEF SortingShape
<1>n. n \in Nat /\ n <= Rounds
  BY <1>2
<1>3. MergePass(h, v, l) = While(F, x)
  BY DEF MergePass
<1>4. \A y \in Y : F[y] = PassRound(y, v, l)
  BY DEF PassRound
<1>5. x \in Y /\ U(x, u, 1)
  <2>1. list_begin(h, l) = Node(l, u, 1)
    <3>1. 0 \in 0..Len(u) /\ 0 + 1 = 1
      BY <1>2
    <3>2. h.next[Node(l, u, 0)] = Node(l, u, 0 + 1)
      BY <1>2, <3>1 DEF ListAt
    <3> QED
      BY <1>2, <3>1, <3>2 DEF list_begin
  <2>2. 1 \in 0..(n + 1) /\ 1 \in 1..(n + 1) /\ 0 \in 0..(1 - 1) /\ 0 \in Nat
    BY <1>n
  <2>3. x \in Y
    BY <1>2, <2>1, <2>2 DEF Passing
  <2>4. Ran(v, u, 1 - 1, 0)
    <3>1. Labels(<< >>, v, u, 1 - 1, 0)
      BY DEF Labels
    <3> QED
      BY <3>1 DEF Ran
  <2>5. IF 1 <= n THEN 2 * 0 + 1 <= g[1] ELSE 2 * 0 <= R + 1
    <3>1. CASE 1 <= n
      <4>1. g[1] \in 1..R
        BY <1>n, <1>g, <3>1 DEF Labels
      <4> QED
        BY <3>1, <4>1
    <3>2. CASE ~(1 <= n)
      BY <3>2
    <3> QED
      BY <3>1, <3>2
  <2>6. \A i \in 1..n : u[i] = u[i]
    OBVIOUS
  <2> QED
    BY <1>2, <2>1, <2>2, <2>3, <2>4, <2>5, <2>6 DEF PassAt
<1>6. ASSUME NEW y \in Y, NEW s, NEW p, U(y, s, p)
      PROVE  /\ F[y] \in Y /\ p \in 1..(n + 1)
             /\ IF p = n + 1 THEN F[y] = y ELSE \E t, r : r \in (p + 1)..(n + 1) /\ U(F[y], t, r)
  <2>1. F[y] = PassRound(y, v, l)
    BY <1>4
  <2>2. PassStep(y, PassRound(y, v, l), q, l, v, u, g, R, p)
    <3>1. PassAt(y, q, l, v, u, g, R, s, p)
      BY <1>6
    <3> HIDE DEF F, U, x, P, Far
    <3> QED
      BY <1>2, <1>g, <3>1, PassGoes
  <2>3. p \in 1..(n + 1)
    BY <1>2, <1>6 DEF PassAt
  <2> HIDE DEF F
  <2> QED
    BY <1>2, <2>1, <2>2, <2>3 DEF PassStep
<1> HIDE DEF F, U, x, Y
<1>8. <<n, x>> \in P
  BY <1>5, <1>n
<1>9. ASSUME NEW e \in 0..n, NEW y \in Y, <<e, y>> \in P
      PROVE  F[y] \in Y /\ IF e = 0 THEN F[y] = y ELSE \E j \in 0..(e - 1) : <<j, F[y]>> \in P
  <2>a. Far(y, e)
    BY <1>9
  <2>1. PICK s, p : U(y, s, p) /\ n + 1 - p <= e
    BY <2>a
  <2>2. /\ F[y] \in Y /\ p \in 1..(n + 1)
        /\ IF p = n + 1 THEN F[y] = y ELSE \E t, r : r \in (p + 1)..(n + 1) /\ U(F[y], t, r)
    BY <1>6, <2>1
  <2>3. CASE p = n + 1
    <3>1. F[y] = y
      BY <2>2, <2>3
    <3>2. CASE e = 0
      BY <2>2, <3>1, <3>2
    <3>3. CASE e # 0
      <4>1. e - 1 \in 0..(e - 1) /\ e - 1 \in Nat /\ n + 1 - p <= e - 1
        BY <1>n, <2>3, <3>3
      <4>2. Far(y, e - 1)
        BY <2>1, <4>1
      <4>3. <<e - 1, F[y]>> \in P
        BY <3>1, <4>1, <4>2
      <4> QED
        BY <2>2, <3>3, <4>1, <4>3
    <3> QED
      BY <3>2, <3>3
  <2>4. CASE p # n + 1
    <3>0. \E t, r : r \in (p + 1)..(n + 1) /\ U(F[y], t, r)
      BY <2>2, <2>4
    <3>1. PICK t, r : r \in (p + 1)..(n + 1) /\ U(F[y], t, r)
      BY <3>0
    <3>2. e # 0 /\ e - 1 \in 0..(e - 1) /\ e - 1 \in Nat /\ n + 1 - r <= e - 1
      <4>1. p \in 1..(n + 1) /\ p # n + 1 /\ n + 1 - p <= e /\ r \in (p + 1)..(n + 1) /\ e \in 0..n
        BY <2>1, <2>2, <2>4, <3>1
      <4> QED
        BY <1>n, <4>1
    <3>3. Far(F[y], e - 1)
      BY <3>1, <3>2
    <3>4. <<e - 1, F[y]>> \in P
      BY <2>2, <3>2, <3>3
    <3> QED
      BY <2>2, <3>2, <3>4
  <2> QED
    BY <2>3, <2>4
<1>10. While(F, x) \in Y /\ <<0, While(F, x)>> \in P
  <2> HIDE DEF P
  <2>1. <<n, x>> \in P /\ x \in Y /\ Nears(F, Y, n, P)
    BY <1>5, <1>8, <1>9 DEF Nears
  <2> QED
    BY <1>n, <2>1, WhileGoes
<1>z. PICK z : z = While(F, x)
  OBVIOUS
<1>a. Far(z, 0) /\ z \in Y
  BY <1>10, <1>z
<1>11. PICK s, p : U(z, s, p) /\ n + 1 - p <= 0
  BY <1>a
<1>12. p = n + 1 /\ p - 1 = n /\ ~(p <= n)
  <2>1. p \in 1..(n + 1)
    BY <1>6, <1>11, <1>a
  <2> QED
    BY <1>n, <1>11, <2>1
<1>13. Sorting(z.heap, q, l, v, s) /\ Ran(v, s, n, z.runs) /\ 2 * z.runs <= R + 1
  BY <1>2, <1>11, <1>12 DEF U, PassAt
<1> QED
  BY <1>3, <1>13, <1>a, <1>z DEF PassDone, Y

\* list_sort leaves the items of the list in an order that is nondecreasing and stable.
LEMMA SortHolds ==
    ASSUME NEW h, NEW q, Holds(h, q), NEW l \in DOMAIN q, NEW n, n = Len(q[l]), NEW v \in [Items -> Int]
    PROVE  \E s : Sorting(list_sort(h, v, l), q, l, v, s) /\ Rising(v, s, 1, n)
<1> DEFINE Y == Passing
           F == [y \in Y |-> IF y.runs <= 1 THEN y ELSE MergePass(y.heap, v, l)]
           Far(y, e) == /\ \E s : Sorting(y.heap, q, l, v, s) /\ Ran(v, s, n, y.runs)
                        /\ y.runs <= 1 \/ y.runs <= e
           P == {e \in Nat \X Y : Far(e[2], e[1])}
<1>x. PICK x : x = MergePass(h, v, l)
  OBVIOUS
<1>1. Sorting(h, q, l, v, q[l])
  BY SortingFirst
<1>2. n \in Nat /\ n <= Rounds
  <2>1. SortingShape(h, l, q[l], n)
    BY <1>1, SortingIs
  <2> QED
    BY <2>1 DEF SortingShape
<1>3. list_sort(h, v, l) = While(F, x).heap
  BY <1>x DEF list_sort
<1>4. Ran(v, q[l], n, n)
  <2> DEFINE g == [i \in 1..n |-> i]
  <2>1. Labels(g, v, q[l], n, n)
    BY <1>2 DEF Labels
  <2> HIDE DEF g
  <2> QED
    BY <2>1 DEF Ran
<1>5. x \in Y /\ Far(x, n)
  <2>1. PassDone(x, q, l, v, n, n)
    BY <1>1, <1>2, <1>4, <1>x, PassHolds
  <2>2. x \in Passing /\ 2 * x.runs <= n + 1 /\ x.runs \in Nat
    BY <2>1 DEF PassDone, Passing
  <2>3. x.runs <= 1 \/ x.runs <= n
    BY <1>2, <2>2
  <2> QED
    BY <2>1, <2>2, <2>3 DEF PassDone
<1>6. ASSUME NEW y \in Y, NEW e \in 0..n, Far(y, e)
      PROVE  F[y] \in Y /\ IF y.runs <= 1 THEN F[y] = y ELSE e # 0 /\ Far(F[y], e - 1)
  <2> PICK R : R = y.runs
    OBVIOUS
  <2>0. R \in Nat
    BY DEF Passing
  <2>1. CASE R <= 1
    <3>1. F[y] = y
      BY <2>1
    <3> QED
      BY <2>1, <3>1
  <2>2. CASE ~(R <= 1)
    <3>1. F[y] = MergePass(y.heap, v, l)
      BY <2>2
    <3>a. \E s : Sorting(y.heap, q, l, v, s) /\ Ran(v, s, n, R)
      BY <1>6
    <3>s. PICK s : Sorting(y.heap, q, l, v, s) /\ Ran(v, s, n, R)
      BY <3>a
    <3>z. PICK z : z = MergePass(y.heap, v, l)
      OBVIOUS
    <3>2. PassDone(z, q, l, v, n, R)
      BY <2>0, <3>s, <3>z, PassHolds
    <3>3. z \in Passing /\ 2 * z.runs <= R + 1 /\ z.runs \in Nat
      BY <3>2 DEF PassDone, Passing
    <3>4. R <= e
      BY <1>6, <2>2
    <3>5. e # 0 /\ z.runs <= e - 1
      BY <1>2, <2>0, <2>2, <3>3, <3>4
    <3>6. Far(z, e - 1)
      BY <3>2, <3>5 DEF PassDone
    <3> HIDE DEF F, Far
    <3> QED
      BY <2>2, <3>1, <3>3, <3>5, <3>6, <3>z
  <2> QED
    BY <2>1, <2>2
<1> HIDE DEF F, Y
<1>7. <<n, x>> \in P
  BY <1>2, <1>5
<1>8. ASSUME NEW e \in 0..n, NEW y \in Y, <<e, y>> \in P
      PROVE  F[y] \in Y /\ IF e = 0 THEN F[y] = y ELSE \E j \in 0..(e - 1) : <<j, F[y]>> \in P
  <2>1. Far(y, e)
    BY <1>8
  <2> HIDE DEF Far
  <2>2. F[y] \in Y /\ IF y.runs <= 1 THEN F[y] = y ELSE e # 0 /\ Far(F[y], e - 1)
    BY <1>6, <2>1
  <2>3. CASE e = 0
    BY <2>2, <2>3
  <2>4. CASE e # 0
    <3>1. e - 1 \in 0..(e - 1) /\ e - 1 \in Nat
      BY <1>2, <2>4
    <3>2. Far(F[y], e - 1)
      <4>1. CASE y.runs <= 1
        <5>1. F[y] = y
          BY <2>2, <4>1
        <5> QED
          BY <2>1, <4>1, <5>1 DEF Far
      <4>2. CASE ~(y.runs <= 1)
        BY <2>2, <4>2
      <4> QED
        BY <4>1, <4>2
    <3>3. <<e - 1, F[y]>> \in P
      BY <2>2, <3>1, <3>2
    <3> QED
      BY <2>2, <2>4, <3>1, <3>3
  <2> QED
    BY <2>3, <2>4
<1>9. While(F, x) \in Y /\ <<0, While(F, x)>> \in P
  <2> HIDE DEF P
  <2>1. <<n, x>> \in P /\ x \in Y /\ Nears(F, Y, n, P)
    BY <1>5, <1>7, <1>8 DEF Nears
  <2> QED
    BY <1>2, <2>1, WhileGoes
<1>z. PICK z : z = While(F, x)
  OBVIOUS
<1>10. z \in Y /\ Far(z, 0)
  BY <1>9, <1>z
<1>s. PICK s : Sorting(z.heap, q, l, v, s) /\ Ran(v, s, n, z.runs)
  BY <1>10
<1>11. z.runs \in Nat /\ z.runs <= 1
  BY <1>10 DEF Y, Passing
<1>g. PICK g : Labels(g, v, s, n, z.runs)
  BY <1>s DEF Ran
<1>12. ASSUME NEW a \in 1..n, NEW b \in 1..n, a < b
       PROVE  v[s[a]] <= v[s[b]]
  <2>1. g[a] \in 1..z.runs /\ g[b] \in 1..z.runs
    BY <1>g DEF Labels
  <2>2. g[a] = g[b]
    BY <1>11, <2>1
  <2> QED
    BY <1>12, <1>g, <2>2 DEF Labels
<1>13. Rising(v, s, 1, n)
  BY <1>12 DEF Rising
<1> QED
  BY <1>3, <1>13, <1>s, <1>z

\* How many places of s come before place k in its order.
Before(s, k) == {m \in DOMAIN s : \/ val[s[m]] < val[s[k]]
                                  \/ val[s[m]] = val[s[k]] /\ m < k}

\* ListSpec counts as the standard module does.
LEMMA CountsAlike == ASSUME NEW S PROVE LS!Cardinality(S) = Cardinality(S)
BY Zenon DEF LS!Cardinality, Cardinality

\* They are what ListSpec counts.
LEMMA PlaceCounts ==
    ASSUME NEW s, NEW k
    PROVE  LS!Place(s, k) = 1 + Cardinality(Before(s, k))
<1>1. LS!Cardinality(Before(s, k)) = Cardinality(Before(s, k))
  BY CountsAlike
<1>2. LS!Place(s, k) = 1 + LS!Cardinality(Before(s, k))
  BY Zenon DEF LS!Place, Before
<1> QED
  BY <1>1, <1>2

\* There are as many as T says.
LEMMA PlaceIs ==
    ASSUME NEW s \in Seq(Items), NEW n, n = Len(s), val \in [Items -> Int], NEW T, Permutation(T, n),
           Stable(val, s, T), Rising(val, Arranged(s, T), 1, n), NEW p \in 1..n
    PROVE  LS!Place(s, T[p]) = p
<1> PICK B : B = Before(s, T[p])
  OBVIOUS
<1> DEFINE f == [i \in 1..(p - 1) |-> T[i]]
<1>1. /\ n \in Nat /\ DOMAIN s = 1..n /\ \A i \in 1..n : T[i] \in 1..n
      /\ \A i, j \in 1..n : T[i] = T[j] => i = j
      /\ \A i \in 1..n : val[s[T[i]]] \in Int
  <2>1. n \in Nat /\ DOMAIN s = 1..n /\ \A i \in 1..n : s[i] \in Items
    OBVIOUS
  <2>2. \A i \in 1..n : T[i] \in 1..n
    BY DEF Permutation
  <2>3. \A i, j \in 1..n : T[i] = T[j] => i = j
    BY DEF Permutation
  <2>4. \A i \in 1..n : val[s[T[i]]] \in Int
    BY <2>1, <2>2
  <2> QED
    BY <2>1, <2>2, <2>3, <2>4
<1>2. \A i, j \in 1..n : i < j => /\ val[s[T[i]]] <= val[s[T[j]]]
                                  /\ val[s[T[i]]] = val[s[T[j]]] => T[i] < T[j]
  <2>1. ASSUME NEW i \in 1..n, NEW j \in 1..n, i < j
        PROVE  val[s[T[i]]] <= val[s[T[j]]] /\ (val[s[T[i]]] = val[s[T[j]]] => T[i] < T[j])
    <3>1. Arranged(s, T)[i] = s[T[i]] /\ Arranged(s, T)[j] = s[T[j]]
      BY DEF Arranged
    <3>2. val[s[T[i]]] <= val[s[T[j]]]
      BY <2>1, <3>1 DEF Rising
    <3>3. val[s[T[i]]] = val[s[T[j]]] => T[i] < T[j]
      BY <2>1 DEF Stable
    <3> QED
      BY <3>2, <3>3
  <2> QED
    BY <2>1
<1>3. ASSUME NEW i \in 1..n
      PROVE  T[i] \in B <=> i < p
  <2>1. T[i] \in B <=> \/ val[s[T[i]]] < val[s[T[p]]]
                       \/ val[s[T[i]]] = val[s[T[p]]] /\ T[i] < T[p]
    BY <1>1 DEF Before
  <2>2. val[s[T[i]]] \in Int /\ val[s[T[p]]] \in Int /\ T[i] \in Int /\ T[p] \in Int
    BY <1>1
  <2>3. CASE i < p
    <3>1. val[s[T[i]]] <= val[s[T[p]]] /\ (val[s[T[i]]] = val[s[T[p]]] => T[i] < T[p])
      BY <1>2, <2>3
    <3> QED
      BY <2>1, <2>2, <2>3, <3>1
  <2>4. CASE i = p
    BY <2>1, <2>2, <2>4
  <2>5. CASE p < i
    <3>1. val[s[T[p]]] <= val[s[T[i]]] /\ (val[s[T[p]]] = val[s[T[i]]] => T[p] < T[i])
      BY <1>2, <2>5
    <3> QED
      BY <1>1, <2>1, <2>2, <2>5, <3>1
  <2> QED
    BY <1>1, <2>3, <2>4, <2>5
<1>4. f \in Bijection(1..(p - 1), B)
  <2>1. \A i \in 1..(p - 1) : i \in 1..n /\ i < p
    BY <1>1
  <2>2. f \in [1..(p - 1) -> B]
    BY <1>3, <2>1
  <2>3. \A i, j \in 1..(p - 1) : f[i] = f[j] => i = j
    BY <1>1, <2>1
  <2>4. ASSUME NEW m \in B
        PROVE  \E i \in 1..(p - 1) : f[i] = m
    <3>1. m \in 1..n
      BY <1>1 DEF Before
    <3>2. PICK i \in 1..n : T[i] = m
      BY <1>1, <3>1, Onto
    <3>3. i \in 1..(p - 1)
      BY <1>1, <1>3, <3>2
    <3> QED
      BY <3>2, <3>3
  <2> HIDE DEF f
  <2> QED
    BY <2>2, <2>3, <2>4 DEF Bijection, Injection, Surjection, IsInjective
<1>5. Cardinality(B) = p - 1
  <2>1. ExistsBijection(1..(p - 1), B)
    BY <1>4 DEF ExistsBijection
  <2>2. p - 1 \in Nat
    BY <1>1
  <2> HIDE DEF f
  <2> QED
    BY <2>1, <2>2, FS_CountingElements
<1>6. LS!Place(s, T[p]) = 1 + Cardinality(B)
  <2> HIDE DEF f
  <2> QED
    BY PlaceCounts
<1> QED
  BY <1>1, <1>5, <1>6

\* A stable nondecreasing order is what ListSpec means by sorted.
LEMMA SortedIs ==
    ASSUME NEW s \in Seq(Items), NEW n, n = Len(s), val \in [Items -> Int], NEW T, Permutation(T, n),
           Stable(val, s, T), Rising(val, Arranged(s, T), 1, n)
    PROVE  LS!Sorted(s) = Arranged(s, T)
<1>1. n \in Nat /\ DOMAIN s = 1..n /\ \A i \in 1..n : T[i] \in 1..n
  BY DEF Permutation
<1>2. ASSUME NEW p \in 1..n
      PROVE  (CHOOSE k \in DOMAIN s : LS!Place(s, k) = p) = T[p]
  <2>1. \A i \in 1..n : LS!Place(s, T[i]) = i
    BY PlaceIs
  <2>2. T[p] \in 1..n /\ LS!Place(s, T[p]) = p
    BY <1>1, <2>1
  <2>3. ASSUME NEW k \in 1..n, LS!Place(s, k) = p
        PROVE  k = T[p]
    <3>1. PICK i \in 1..n : T[i] = k
      BY <1>1, Onto
    <3>2. i = p
      BY <2>1, <2>3, <3>1
    <3> QED
      BY <3>1, <3>2
  <2> QED
    BY <1>1, <2>2, <2>3
<1> DEFINE x(p) == s[CHOOSE k \in DOMAIN s : LS!Place(s, k) = p]
           y(p) == s[T[p]]
<1>3. \A p \in 1..n : x(p) = y(p)
  BY <1>2
<1>4. LS!Sorted(s) = [p \in 1..n |-> x(p)]
  BY <1>1, Zenon DEF LS!Sorted
<1>5. Arranged(s, T) = [p \in 1..n |-> y(p)]
  BY DEF Arranged
<1> HIDE DEF x, y
<1>6. [p \in 1..n |-> x(p)] = [p \in 1..n |-> y(p)]
  BY <1>3
<1> QED
  BY <1>4, <1>5, <1>6

\* The merge sort sorts, and is stable.
LEMMA SortStep ==
    ASSUME IInv, NEW l \in used, Sort(l)
    PROVE  IInv' /\ LS!Sort(l)
<1>p. PICK s, n : s = Seqs[l] /\ n = Len(s)
  OBVIOUS
<1>1. /\ Holds(heap, Seqs) /\ DOMAIN Seqs = used /\ n \in Nat /\ s \in Seq(Items)
      /\ val \in [Items -> Int]
  BY <1>p, Facts, Places
<1>2. heap' = list_sort(heap, val, l) /\ val' = val /\ used' = used
  BY DEF Sort
<1>3. \E t : Sorting(list_sort(heap, val, l), Seqs, l, val, t) /\ Rising(val, t, 1, n)
  BY <1>1, <1>p, SortHolds
<1>t. PICK t : Sorting(heap', Seqs, l, val, t) /\ Rising(val, t, 1, n)
  BY <1>2, <1>3
<1>4. Holds(heap', With(Seqs, l, t))
  BY <1>t DEF Sorting
<1>T. PICK T : Permutation(T, n) /\ Stable(val, s, T) /\ t = Arranged(s, T)
  BY <1>p, <1>t DEF Sorting
<1>5. LS!Sorted(s) = Arranged(s, T)
  BY <1>1, <1>p, <1>t, <1>T, SortedIs
<1>6. IInv' /\ Seqs' = With(Seqs, l, Arranged(Seqs[l], T))
  BY <1>2, <1>4, <1>p, <1>T, Arranges
<1>7. Seqs' = [Seqs EXCEPT ![l] = LS!Sorted(Seqs[l])]
  BY <1>5, <1>6, <1>p DEF With
<1> QED
  BY <1>2, <1>6, <1>7 DEF LS!Sort

-----------------------------------------------------------------------------
(* The theorems *)

\* Every list command keeps the invariant and does what ListSpec says.
LEMMA ListCommand ==
    ASSUME IInv, NEW l \in used, Command(l)
    PROVE  /\ IInv'
           /\ \/ LS!Delete(l) /\ cmd' = <<"delete", l>>
              \/ LS!Adding(l) \/ LS!Removing(l) \/ LS!Ordering(l) \/ LS!Moving(l)
<1>0. LS!Created = used /\ LS!NoList = NoList
  BY Facts DEF LS!Created, LS!NoList, NoList
<1>1. CASE Delete(l)
  <2>1. IInv' /\ LS!Delete(l)
    BY <1>1, DeleteStep
  <2>2. cmd' = <<"delete", l>>
    BY <1>1 DEF Delete
  <2> QED
    BY <2>1, <2>2
<1>2. ASSUME NEW v \in Values, PushFront(l, v)
      PROVE  IInv' /\ LS!Adding(l)
  <2>1. IInv' /\ LS!Add(l, 1, v)
    BY <1>2, PushFrontStep
  <2>2. cmd' = <<"list_push_front", l, v>>
    BY <1>2 DEF PushFront
  <2> QED
    BY <2>1, <2>2 DEF LS!Adding
<1>3. ASSUME NEW v \in Values, PushBack(l, v)
      PROVE  IInv' /\ LS!Adding(l)
  <2>1. IInv' /\ LS!Add(l, Len(Seqs[l]) + 1, v)
    BY <1>3, PushBackStep
  <2>2. cmd' = <<"list_push_back", l, v>>
    BY <1>3 DEF PushBack
  <2> QED
    BY <2>1, <2>2 DEF LS!Adding
<1>4. ASSUME NEW v \in Values, NEW idx \in 0..Size(l), Insert(l, idx, v)
      PROVE  IInv' /\ LS!Adding(l)
  <2>1. IInv' /\ LS!Add(l, idx + 1, v) /\ idx \in 0..Len(Seqs[l])
    BY <1>4, InsertStep
  <2>2. cmd' = <<"list_insert", l, idx, v>>
    BY <1>4 DEF Insert
  <2> QED
    BY <2>1, <2>2 DEF LS!Adding
<1>5. ASSUME NEW v \in Values, InsertOrdered(l, v)
      PROVE  IInv' /\ LS!Adding(l)
  <2>1. IInv' /\ LS!InsertOrdered(l, v)
    BY <1>5, InsertOrderedStep
  <2>2. cmd' = <<"list_insert_ordered", l, v>>
    BY <1>5 DEF InsertOrdered
  <2> QED
    BY <2>1, <2>2 DEF LS!Adding
<1>6. CASE PopFront(l)
  <2>1. IInv' /\ LS!RemoveOne(l, 1) /\ Seqs[l] # <<>>
    BY <1>6, PopFrontStep
  <2>2. cmd' = <<"list_pop_front", l>>
    BY <1>6 DEF PopFront
  <2> QED
    BY <2>1, <2>2 DEF LS!Removing
<1>7. CASE PopBack(l)
  <2>1. IInv' /\ LS!RemoveOne(l, Len(Seqs[l])) /\ Seqs[l] # <<>>
    BY <1>7, PopBackStep
  <2>2. cmd' = <<"list_pop_back", l>>
    BY <1>7 DEF PopBack
  <2> QED
    BY <2>1, <2>2 DEF LS!Removing
<1>8. ASSUME NEW idx \in 0..(Size(l) - 1), Remove(l, idx)
      PROVE  IInv' /\ LS!Removing(l)
  <2>1. IInv' /\ LS!RemoveOne(l, idx + 1) /\ Seqs[l] # <<>> /\ idx \in 0..(Len(Seqs[l]) - 1)
    BY <1>8, RemoveStep
  <2>2. cmd' = <<"list_remove", l, idx>>
    BY <1>8 DEF Remove
  <2> QED
    BY <2>1, <2>2 DEF LS!Removing
<1>9. CASE Reverse(l)
  <2>1. IInv' /\ LS!ReverseList(l)
    BY <1>9, ReverseStep
  <2>2. cmd' = <<"list_reverse", l>>
    BY <1>9 DEF Reverse
  <2> QED
    BY <2>1, <2>2 DEF LS!Ordering
<1>10. CASE Sort(l)
  <2>1. IInv' /\ LS!Sort(l)
    BY <1>10, SortStep
  <2>2. cmd' = <<"list_sort", l>>
    BY <1>10 DEF Sort
  <2> QED
    BY <2>1, <2>2 DEF LS!Ordering
<1>11. ASSUME NEW src \in used, NEW idx \in 0..Size(l), NEW from \in 0..(Size(src) - 1),
              NEW to \in 0..Size(src), Splice(l, idx, src, from, to)
       PROVE  IInv' /\ LS!Moving(l)
  <2>1. /\ IInv' /\ LS!Splice(l, idx + 1, src, from + 1, to)
        /\ idx \in 0..Len(Seqs[l]) /\ from \in 0..(Len(Seqs[src]) - 1) /\ to \in 0..Len(Seqs[src])
    BY <1>11, SpliceStep
  <2>2. cmd' = <<"list_splice", l, idx, src, from, to>>
    BY <1>11 DEF Splice
  <2> QED
    BY <1>0, <2>1, <2>2 DEF LS!Moving
<1>12. ASSUME NEW dup \in {NoList} \union used, Unique(l, dup)
       PROVE  IInv' /\ LS!Moving(l)
  <2>1. IInv' /\ LS!Unique(l, dup)
    BY <1>12, UniqueStep
  <2>2. cmd' = <<"list_unique", l, dup>>
    BY <1>12 DEF Unique
  <2> QED
    BY <1>0, <2>1, <2>2 DEF LS!Moving
<1>13. ASSUME NEW a \in 0..(Size(l) - 1), NEW b \in 0..(Size(l) - 1), Swap(l, a, b)
       PROVE  IInv' /\ LS!Ordering(l)
  <2>1. /\ IInv' /\ LS!SwapTwo(l, a + 1, b + 1)
        /\ a \in 0..(Len(Seqs[l]) - 1) /\ b \in 0..(Len(Seqs[l]) - 1)
    BY <1>13, SwapStep
  <2>2. cmd' = <<"list_swap", l, a, b>>
    BY <1>13 DEF Swap
  <2> QED
    BY <2>1, <2>2 DEF LS!Ordering
<1>14. CASE Shuffle(l)
  <2>1. IInv' /\ LS!Shuffle(l)
    BY <1>14, ShuffleStep
  <2>2. cmd' = <<"list_shuffle", l>>
    BY <1>14 DEF Shuffle
  <2> QED
    BY <2>1, <2>2 DEF LS!Ordering
<1> QED
  BY <1>1, <1>2, <1>3, <1>4, <1>5, <1>6, <1>7, <1>8, <1>9, <1>10, <1>11, <1>12, <1>13, <1>14, Zenon
     DEF Command

\* So does every command.
LEMMA NextStep ==
    ASSUME IInv, Next
    PROVE  IInv' /\ LS!Next
<1>0. LS!Created = used
  BY Facts DEF LS!Created
<1>1. ASSUME NEW l \in Lists, Create(l)
      PROVE  IInv' /\ LS!Next
  <2>1. IInv' /\ LS!Create(l)
    BY <1>1, CreateStep
  <2>2. cmd' = <<"create list", l>>
    BY <1>1 DEF Create
  <2> QED
    BY <2>1, <2>2 DEF LS!Next
<1>2. ASSUME NEW l \in used, Command(l)
      PROVE  IInv' /\ LS!Next
  <2>1. /\ IInv'
        /\ \/ LS!Delete(l) /\ cmd' = <<"delete", l>>
           \/ LS!Adding(l) \/ LS!Removing(l) \/ LS!Ordering(l) \/ LS!Moving(l)
    BY <1>2, ListCommand
  <2> QED
    BY <1>0, <2>1 DEF LS!Next
<1> QED
  BY <1>1, <1>2, Zenon DEF Next

\* A step that changes nothing keeps the invariant and what the lists hold.
LEMMA Stutters ==
    ASSUME IInv, UNCHANGED vars
    PROVE  IInv' /\ UNCHANGED LS!lsVars
<1>1. heap' = heap /\ val' = val /\ used' = used /\ cmd' = cmd
  BY DEF vars
<1>2. IInv' /\ Seqs' = Seqs
  BY <1>1, Leaves
<1> QED
  BY <1>1, <1>2 DEF LS!lsVars

\* No lists hold nothing.
LEMMA InitMaps == Init => LS!Init
<1> SUFFICES ASSUME Init PROVE LS!Init
  OBVIOUS
<1>1. used = {} /\ val = [i \in Items |-> NoValue] /\ cmd = << >>
  BY DEF Init
<1>2. Seqs = << >>
  BY <1>1 DEF Seqs
<1> QED
  BY <1>1, <1>2 DEF LS!Init, LS!NoValue, NoValue

\* In every state the pointers hold the lists, and the items on them are the allocated ones.
THEOREM ListsHold == Spec => []IInv
<1>1. Init => IInv
  BY InitGood
<1>2. IInv /\ [Next]_vars => IInv'
  BY NextStep, Stutters
<1> QED
  BY <1>1, <1>2, PTL DEF Spec

\* Every pointer of the heap is a node or NULL, and every value one of Values or NoValue.
THEOREM ListsTyped == Spec => []TypeOK
BY ListsHold, InvTyped, PTL

\* The library never breaks a list: after every command the prev pointers retrace the walk along
\* next, the outer pointers of the ends are NULL, and no item is lost or on two lists.
THEOREM ListsLinked == Spec => []Linked
BY ListsHold, InvLinked, PTL

\* list_max and list_min find a greatest and a smallest item, and the first of several.
THEOREM FirstExtremes == Spec => []ExtremesAreFirst
BY ListsHold, InvExtremes, PTL

\* Every command does to the pointers what ListSpec says it does to a sequence.
THEOREM ListsImplementSpec == Spec => ImplementsListSpec
<1>1. Init => LS!Init
  BY InitMaps
<1>2. IInv /\ [Next]_vars => [LS!Next]_LS!lsVars
  BY NextStep, Stutters
<1> QED
  BY <1>1, <1>2, ListsHold, PTL DEF Spec, ImplementsListSpec, LS!Spec
=============================================================================
