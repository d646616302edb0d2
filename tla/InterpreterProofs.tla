---------------------------- MODULE InterpreterProofs ----------------------------
(***************************************************************************)
(* Theorems about the interpreter of project 1: its bitmaps, its hash        *)
(* tables, and what its commands reach; for every number of slots and items, *)
(* any buckets to begin with, elements to a bucket and size of bitmap.       *)
(*                                                                           *)
(* Bitmaps first: who owns the memory they are allocated in, and that the    *)
(* elements, masks and loops of bitmap.c do to a bitmap what BitmapSpec says *)
(* of an array of booleans, whatever the size of an element and however many *)
(* of its bits the instructions reach.                                       *)
(*                                                                           *)
(* Then hash tables.  Their operations are proved first, as functions of a   *)
(* table and the values of items: Holds(h, X) says that the buckets of h     *)
(* have the items X, each once, and Placed that each is in the bucket of its *)
(* value.  The loop of rehash, the bytes of a hash and the buckets one after *)
(* the other are folds: functions on the parts of a finite set, which exist  *)
(* by FoldExists; that the loop of rehash loses nothing is shown for each of *)
(* its rounds.  The invariant of the interpreter, HashInv, follows, and with *)
(* it each command refines HashSpec.                                         *)
(***************************************************************************)
EXTENDS Interpreter, FiniteSetTheorems, SequenceTheorems, WellFoundedInduction, TLAPS

-----------------------------------------------------------------------------
(* Loops *)

\* The least number of a set, which is what searches return.
LEMMA LeastNumber ==
    ASSUME NEW S, S \subseteq Nat, S # {}
    PROVE  Min(S) \in S /\ \A y \in S : Min(S) <= y
<1>1. IsWellFoundedOn(OpToRel(<, Nat), Nat)
  BY NatLessThanWellFounded
<1>2. PICK x \in S : \A y \in S : ~(<<y, x>> \in OpToRel(<, Nat))
  BY <1>1, WFMin, Zenon
<1>3. ASSUME NEW y \in S
      PROVE  x <= y
  <2>1. x \in Nat /\ y \in Nat
    OBVIOUS
  <2>2. ~(y < x)
    BY <1>2, <2>1 DEF OpToRel
  <2> QED
    BY <2>1, <2>2
<1> QED
  BY <1>3 DEF Min

\* What holds before a loop, and after a round if it held before it, holds to the end.
LEMMA UpTo ==
    ASSUME NEW n \in Nat, NEW P, 0 \in P, \A k \in 0..(n - 1) : k \in P => k + 1 \in P
    PROVE  0..n \subseteq P
<1> DEFINE bad == (0..n) \ P
<1> SUFFICES ASSUME bad # {} PROVE FALSE
  OBVIOUS
<1>1. Min(bad) \in bad /\ \A y \in bad : Min(bad) <= y
  BY LeastNumber
<1> PICK m : m = Min(bad)
  OBVIOUS
<1>2. m \in 1..n /\ m - 1 \in P
  BY <1>1
<1> QED
  BY <1>1, <1>2

\* A loop of n rounds: f[k] is the state after k of them.
Course(f, n, x, F) == f[0] = x /\ \A k \in 1..n : f[k] = F[k][f[k - 1]]

\* A loop whose rounds make one state of S another has a course.
LEMMA LoopExists ==
    ASSUME NEW n \in Nat, NEW S, NEW x \in S, NEW F \in [1..n -> [S -> S]]
    PROVE  \E f \in [0..n -> S] : Course(f, n, x, F)
<1> DEFINE P == {m \in 0..n : \E f \in [0..m -> S] : Course(f, m, x, F)}
<1>1. 0 \in P
  <2> DEFINE f == [k \in 0..0 |-> x]
  <2>1. f \in [0..0 -> S] /\ Course(f, 0, x, F)
    BY DEF Course
  <2>2. 0 \in 0..n
    OBVIOUS
  <2> HIDE DEF f
  <2> QED
    BY <2>1, <2>2
<1>2. ASSUME NEW k \in 0..(n - 1), k \in P
      PROVE  k + 1 \in P
  <2>1. PICK f \in [0..k -> S] : Course(f, k, x, F)
    BY <1>2
  <2> DEFINE g == [j \in 0..(k + 1) |-> IF j = k + 1 THEN F[k + 1][f[k]] ELSE f[j]]
  <2>2. g \in [0..(k + 1) -> S]
    OBVIOUS
  <2>3. Course(g, k + 1, x, F)
    BY <2>1 DEF Course
  <2>4. k + 1 \in 0..n
    OBVIOUS
  <2> HIDE DEF g
  <2> QED
    BY <2>2, <2>3, <2>4
<1>3. n \in P
  <2>1. 0..n \subseteq P
    <3> HIDE DEF P
    <3> QED
      BY <1>1, <1>2, UpTo
  <2>2. n \in 0..n
    OBVIOUS
  <2> HIDE DEF P
  <2> QED
    BY <2>1, <2>2
<1> QED
  BY <1>3

-----------------------------------------------------------------------------
(* Bits *)

\* Division with remainder.
LEMMA DivMod ==
    ASSUME NEW n \in Nat, NEW d \in Nat \ {0}
    PROVE  /\ n \div d \in Nat /\ n % d \in 0..(d - 1)
           /\ n = (d * (n \div d)) + (n % d)
OBVIOUS

\* A product is smaller only if a factor is.
LEMMA LessProduct ==
    ASSUME NEW a \in Nat, NEW b \in Nat, NEW d \in Nat \ {0}, d * a < d * b
    PROVE  a < b
OBVIOUS

\* Every bit of a bitmap is in one of its elements: those that elem_cnt counts.
LEMMA ElemIdx ==
    ASSUME NEW cnt \in Nat, NEW idx \in 0..(cnt - 1)
    PROVE  elem_idx(idx) \in 0..(elem_cnt(cnt) - 1)
<1> PICK q, Q, d : q = idx \div ElemBits /\ Q = (cnt + ElemBits - 1) \div ElemBits /\ d = ElemBits
  OBVIOUS
<1>1. d \in Nat \ {0} /\ cnt + d - 1 \in Nat /\ idx \in Nat
  BY BitmapAssumption
<1>2. q \in Nat /\ d * q <= idx
  BY <1>1, DivMod
<1>3. Q \in Nat /\ cnt + d - 1 < d * Q + d
  BY <1>1, DivMod
<1>4. d * q < d * Q
  BY <1>1, <1>2, <1>3
<1>5. q < Q
  BY <1>1, <1>2, <1>3, <1>4, LessProduct
<1> QED
  BY <1>2, <1>3, <1>5 DEF elem_idx, elem_cnt

\* Two bits have the same element and position only if they are one.
LEMMA OnePlace ==
    ASSUME NEW i \in Nat, NEW j \in Nat, elem_idx(i) = elem_idx(j), i % ElemBits = j % ElemBits
    PROVE  i = j
<1> PICK d : d = ElemBits
  OBVIOUS
<1>1. d \in Nat \ {0}
  BY BitmapAssumption
<1>2. i \div d = j \div d /\ i % d = j % d
  BY DEF elem_idx
<1>3. /\ i = (d * (i \div d)) + (i % d)
      /\ j = (d * (j \div d)) + (j % d)
  BY <1>1, DivMod
<1> QED
  BY <1>2, <1>3

\* What a test sees.
LEMMA TestBit ==
    ASSUME NEW b, NEW i
    PROVE  bitmap_test(b, i) <=> i % ElemBits \in b.bits[elem_idx(i)]
BY DEF bitmap_test, bit_mask

\* Where a bit is.
LEMMA BitPlace ==
    ASSUME NEW cnt \in Nat, NEW b \in BitmapsOf(cnt), NEW idx \in 0..(cnt - 1)
    PROVE  /\ idx \in Nat /\ idx % ElemBits \in Positions
           /\ elem_idx(idx) \in DOMAIN b.bits
           /\ b.bits[elem_idx(idx)] \in SUBSET Positions
<1>1. elem_idx(idx) \in 0..(elem_cnt(cnt) - 1)
  BY ElemIdx
<1>2. b.bits \in [0..(elem_cnt(cnt) - 1) -> SUBSET Positions]
  BY DEF BitmapsOf, Elements
<1>3. idx \in Nat /\ idx % ElemBits \in Positions
  BY DivMod, BitmapAssumption DEF Positions
<1> QED
  BY <1>1, <1>2, <1>3

\* What an instruction does that leaves a bitmap a bitmap and every bit but one as it is.
OnlyBit(new, b, cnt, idx) ==
    /\ new \in BitmapsOf(cnt)
    /\ \A i \in 0..(cnt - 1) : i # idx => (bitmap_test(new, i) <=> bitmap_test(b, i))

\* The bitmap with e for the element of bit idx.
WithElement(b, idx, e) == [b EXCEPT !.bits[elem_idx(idx)] = e]

\* An instruction that changes at most one position of one element changes one bit.
LEMMA WriteElement ==
    ASSUME NEW cnt \in Nat, NEW b \in BitmapsOf(cnt), NEW idx \in 0..(cnt - 1),
           NEW e \in SUBSET Positions,
           \A p \in Positions : p # idx % ElemBits => (p \in e <=> p \in b.bits[elem_idx(idx)])
    PROVE  /\ OnlyBit(WithElement(b, idx, e), b, cnt, idx)
           /\ bitmap_test(WithElement(b, idx, e), idx) <=> idx % ElemBits \in e
<1> PICK new : new = WithElement(b, idx, e)
  OBVIOUS
<1>1. elem_idx(idx) \in DOMAIN b.bits
  BY BitPlace
<1>2. /\ new \in BitmapsOf(cnt)
      /\ \A k \in DOMAIN b.bits : new.bits[k] = IF k = elem_idx(idx) THEN e ELSE b.bits[k]
  BY <1>1 DEF BitmapsOf, Elements, WithElement
<1>3. ASSUME NEW i \in 0..(cnt - 1), i # idx
      PROVE  bitmap_test(new, i) <=> bitmap_test(b, i)
  <2>1. elem_idx(i) \in DOMAIN b.bits /\ i \in Nat /\ idx \in Nat /\ i % ElemBits \in Positions
    BY BitPlace
  <2>2. elem_idx(i) = elem_idx(idx) => i % ElemBits # idx % ElemBits
    BY <1>3, <2>1, OnePlace
  <2> QED
    BY <1>2, <2>1, <2>2, TestBit
<1>4. bitmap_test(new, idx) <=> idx % ElemBits \in e
  BY <1>1, <1>2, TestBit
<1> QED
  BY <1>2, <1>3, <1>4 DEF OnlyBit

\* The instructions reach the bits that Works says, and no others.
LEMMA Reach ==
    ASSUME NEW idx \in Nat
    PROVE  Operand(bit_mask(idx)) = IF Works(idx) THEN {idx % ElemBits} ELSE {}
BY BitmapAssumption, DivMod DEF Operand, bit_mask, Works

\* bitmap_mark sets the bit it names, where the instruction reaches it, and no other.
LEMMA MarkBit ==
    ASSUME NEW cnt \in Nat, NEW b \in BitmapsOf(cnt), NEW idx \in 0..(cnt - 1)
    PROVE  /\ OnlyBit(bitmap_mark(b, idx), b, cnt, idx)
           /\ bitmap_test(bitmap_mark(b, idx), idx) <=> Works(idx) \/ bitmap_test(b, idx)
<1> PICK e : e = b.bits[elem_idx(idx)] \union Operand(bit_mask(idx))
  OBVIOUS
<1>1. idx \in Nat /\ idx % ElemBits \in Positions /\ b.bits[elem_idx(idx)] \in SUBSET Positions
  BY BitPlace
<1>2. e \in SUBSET Positions
  BY <1>1, Reach
<1>3. bitmap_mark(b, idx) = WithElement(b, idx, e)
  BY DEF bitmap_mark, WithElement
<1>4. \A p \in Positions : p # idx % ElemBits => (p \in e <=> p \in b.bits[elem_idx(idx)])
  BY <1>1, Reach
<1>5. idx % ElemBits \in e <=> Works(idx) \/ idx % ElemBits \in b.bits[elem_idx(idx)]
  BY <1>1, Reach
<1> QED
  BY <1>2, <1>3, <1>4, <1>5, WriteElement, TestBit

\* bitmap_reset clears the bit it names, where the instruction reaches it, and no other.
LEMMA ResetBit ==
    ASSUME NEW cnt \in Nat, NEW b \in BitmapsOf(cnt), NEW idx \in 0..(cnt - 1)
    PROVE  /\ OnlyBit(bitmap_reset(b, idx), b, cnt, idx)
           /\ bitmap_test(bitmap_reset(b, idx), idx) <=> ~Works(idx) /\ bitmap_test(b, idx)
<1> PICK e : e = b.bits[elem_idx(idx)] \ Operand(bit_mask(idx))
  OBVIOUS
<1>1. idx \in Nat /\ idx % ElemBits \in Positions /\ b.bits[elem_idx(idx)] \in SUBSET Positions
  BY BitPlace
<1>2. e \in SUBSET Positions
  BY <1>1
<1>3. bitmap_reset(b, idx) = WithElement(b, idx, e)
  BY DEF bitmap_reset, WithElement
<1>4. \A p \in Positions : p # idx % ElemBits => (p \in e <=> p \in b.bits[elem_idx(idx)])
  BY <1>1, Reach
<1>5. idx % ElemBits \in e <=> ~Works(idx) /\ idx % ElemBits \in b.bits[elem_idx(idx)]
  BY <1>1, Reach
<1> QED
  BY <1>2, <1>3, <1>4, <1>5, WriteElement, TestBit

\* bitmap_flip flips the bit it names, where the instruction reaches it, and no other.
LEMMA FlipBit ==
    ASSUME NEW cnt \in Nat, NEW b \in BitmapsOf(cnt), NEW idx \in 0..(cnt - 1)
    PROVE  /\ OnlyBit(bitmap_flip(b, idx), b, cnt, idx)
           /\ bitmap_test(bitmap_flip(b, idx), idx)
              <=> (IF Works(idx) THEN ~bitmap_test(b, idx) ELSE bitmap_test(b, idx))
<1> PICK e : e = SymDiff(b.bits[elem_idx(idx)], Operand(bit_mask(idx)))
  OBVIOUS
<1>1. idx \in Nat /\ idx % ElemBits \in Positions /\ b.bits[elem_idx(idx)] \in SUBSET Positions
  BY BitPlace
<1>2. e \in SUBSET Positions
  BY <1>1, Reach DEF SymDiff
<1>3. bitmap_flip(b, idx) = WithElement(b, idx, e)
  BY DEF bitmap_flip, WithElement
<1>4. \A p \in Positions : p # idx % ElemBits => (p \in e <=> p \in b.bits[elem_idx(idx)])
  BY <1>1, Reach DEF SymDiff
<1>5. idx % ElemBits \in e
      <=> (IF Works(idx) THEN idx % ElemBits \notin b.bits[elem_idx(idx)]
                         ELSE idx % ElemBits \in b.bits[elem_idx(idx)])
  BY <1>1, Reach DEF SymDiff
<1> QED
  BY <1>2, <1>3, <1>4, <1>5, WriteElement, TestBit

\* bitmap_set is one of the first two.
LEMMA SetBit ==
    ASSUME NEW cnt \in Nat, NEW b \in BitmapsOf(cnt), NEW idx \in 0..(cnt - 1), NEW v \in BOOLEAN
    PROVE  /\ OnlyBit(bitmap_set(b, idx, v), b, cnt, idx)
           /\ bitmap_test(bitmap_set(b, idx, v), idx)
              <=> (IF Works(idx) THEN v ELSE bitmap_test(b, idx))
BY MarkBit, ResetBit DEF bitmap_set

-----------------------------------------------------------------------------
(* Ranges of bits *)

\* What the loop of bitmap_set_multiple has done after k rounds, of a bitmap b of cnt bits.
SetSoFar(new, b, cnt, start, k, v) ==
    /\ new \in BitmapsOf(cnt)
    /\ \A i \in 0..(cnt - 1) :
          bitmap_test(new, i)
          <=> (IF i \in start..(start + k - 1) /\ Works(i) THEN v ELSE bitmap_test(b, i))

\* One round of the loop of bitmap_set_multiple.
LEMMA SetOneMore ==
    ASSUME NEW cnt \in Nat, NEW b \in BitmapsOf(cnt), NEW start \in Nat, NEW k \in Nat,
           start + k + 1 <= cnt, NEW v \in BOOLEAN, NEW x, SetSoFar(x, b, cnt, start, k, v)
    PROVE  SetSoFar(bitmap_set(x, start + k, v), b, cnt, start, k + 1, v)
<1> PICK idx : idx = start + k
  OBVIOUS
<1> PICK new : new = bitmap_set(x, idx, v)
  OBVIOUS
<1>1. idx \in 0..(cnt - 1) /\ x \in BitmapsOf(cnt)
  BY DEF SetSoFar
<1>2. OnlyBit(new, x, cnt, idx)
      /\ (bitmap_test(new, idx) <=> (IF Works(idx) THEN v ELSE bitmap_test(x, idx)))
  BY <1>1, SetBit
<1>3. ASSUME NEW i \in 0..(cnt - 1)
      PROVE  bitmap_test(new, i)
             <=> (IF i \in start..(start + k) /\ Works(i) THEN v ELSE bitmap_test(b, i))
  <2>1. CASE i = idx
    <3>1. i \in start..(start + k) /\ i \notin start..(start + k - 1)
      BY <2>1
    <3> QED
      BY <1>2, <2>1, <3>1 DEF SetSoFar
  <2>2. CASE i # idx
    <3>1. i \in start..(start + k) <=> i \in start..(start + k - 1)
      BY <2>2
    <3> QED
      BY <1>2, <2>2, <3>1 DEF SetSoFar, OnlyBit
  <2> QED
    BY <2>1, <2>2
<1>4. start + (k + 1) - 1 = start + k
  OBVIOUS
<1> QED
  BY <1>2, <1>3, <1>4 DEF SetSoFar, OnlyBit

\* So bitmap_set_multiple writes the bits of its range, where they work, and no others.
LEMMA SetMultiple ==
    ASSUME NEW cnt \in Nat, NEW b \in BitmapsOf(cnt), NEW start \in Nat, NEW n \in Nat,
           start + n <= cnt, NEW v \in BOOLEAN
    PROVE  SetSoFar(bitmap_set_multiple(b, start, n, v), b, cnt, start, n, v)
<1> DEFINE S == BitmapsOf(cnt)
<1> DEFINE Loop(f) == f = [k \in 0..n |-> IF k = 0 THEN b ELSE bitmap_set(f[k - 1], start + k - 1, v)]
<1>1. \E f : Loop(f)
  <2> DEFINE Round(k) == [x \in S |-> bitmap_set(x, start + k - 1, v)]
  <2> DEFINE F == [k \in 1..n |-> Round(k)]
  <2>1. F \in [1..n -> [S -> S]]
    <3>1. ASSUME NEW k \in 1..n, NEW x \in S
          PROVE  bitmap_set(x, start + k - 1, v) \in S
      <4> PICK idx : idx = start + k - 1
        OBVIOUS
      <4>1. idx \in 0..(cnt - 1)
        OBVIOUS
      <4>2. bitmap_set(x, idx, v) \in S
        BY <4>1, SetBit DEF OnlyBit
      <4> QED
        BY <4>2
    <3>2. ASSUME NEW k \in 1..n
          PROVE  Round(k) \in [S -> S]
      <4> HIDE DEF S
      <4> QED
        BY <3>1
    <3> HIDE DEF S, Round
    <3> QED
      BY <3>2
  <2>2. PICK f \in [0..n -> S] : Course(f, n, b, F)
    <3>1. b \in S
      OBVIOUS
    <3> HIDE DEF F, S
    <3> QED
      BY <2>1, <3>1, LoopExists
  <2>3. ASSUME NEW k \in 1..n
        PROVE  F[k][f[k - 1]] = bitmap_set(f[k - 1], start + k - 1, v)
    <3>1. f[k - 1] \in S
      OBVIOUS
    <3> QED
      BY <3>1
  <2>4. Loop(f)
    <3> HIDE DEF F
    <3> QED
      BY <2>2, <2>3 DEF Course
  <2> QED
    BY <2>4
<1> DEFINE after == CHOOSE f : Loop(f)
<1>2. Loop(after)
  BY <1>1
<1>3. bitmap_set_multiple(b, start, n, v) = after[n]
  BY DEF bitmap_set_multiple
<1> HIDE DEF after
<1>4. after[0] = b /\ \A k \in 0..(n - 1) : after[k + 1] = bitmap_set(after[k], start + k, v)
  BY <1>2
<1> DEFINE P == {k \in 0..n : SetSoFar(after[k], b, cnt, start, k, v)}
<1>5. 0 \in P
  BY <1>4 DEF SetSoFar
<1>6. ASSUME NEW k \in 0..(n - 1), k \in P
      PROVE  k + 1 \in P
  <2>1. start + k + 1 <= cnt /\ k \in Nat /\ k + 1 \in 0..n
    OBVIOUS
  <2> QED
    BY <1>4, <1>6, <2>1, SetOneMore
<1>7. n \in P
  <2> HIDE DEF P
  <2>1. n \in 0..n /\ 0..n \subseteq P
    BY <1>5, <1>6, UpTo
  <2> QED
    BY <2>1
<1> QED
  BY <1>3, <1>7

\* bitmap_set_all writes the whole bitmap.
LEMMA SetAll ==
    ASSUME NEW cnt \in Nat, NEW b \in BitmapsOf(cnt), NEW v \in BOOLEAN
    PROVE  SetSoFar(bitmap_set_all(b, v), b, cnt, 0, cnt, v)
<1>1. b.bit_cnt = cnt
  BY DEF BitmapsOf
<1> QED
  BY <1>1, SetMultiple DEF bitmap_set_all

\* Of a new bitmap the bits that work are FALSE.
LEMMA CreatedFalse ==
    ASSUME NEW cnt \in Nat, NEW junk \in Elements(cnt)
    PROVE  /\ bitmap_create(cnt, junk) \in BitmapsOf(cnt)
           /\ \A i \in 0..(cnt - 1) : Works(i) => ~bitmap_test(bitmap_create(cnt, junk), i)
<1> PICK b : b = [bit_cnt |-> cnt, bits |-> junk]
  OBVIOUS
<1>1. b \in BitmapsOf(cnt)
  BY DEF BitmapsOf
<1>2. SetSoFar(bitmap_set_all(b, FALSE), b, cnt, 0, cnt, FALSE)
  BY <1>1, SetAll
<1>3. bitmap_create(cnt, junk) = bitmap_set_all(b, FALSE)
  BY DEF bitmap_create
<1>4. ASSUME NEW i \in 0..(cnt - 1)
      PROVE  i \in 0..(0 + cnt - 1)
  OBVIOUS
<1> QED
  BY <1>2, <1>3, <1>4 DEF SetSoFar

\* What the loop of bitmap_expand has done after k rounds: new has all bits, of which it
\* has copied k from b.
CopiedSoFar(new, b, all, k) ==
    /\ new \in BitmapsOf(all)
    /\ \A i \in 0..(all - 1) : Works(i) => (bitmap_test(new, i) <=> i < k /\ bitmap_test(b, i))

\* One round of the loop of bitmap_expand.
LEMMA CopyOneMore ==
    ASSUME NEW all \in Nat, NEW b, NEW k \in Nat, k < all,
           NEW x, CopiedSoFar(x, b, all, k)
    PROVE  CopiedSoFar(bitmap_set(x, k, bitmap_test(b, k)), b, all, k + 1)
<1> PICK v, new : v = bitmap_test(b, k) /\ new = bitmap_set(x, k, v)
  OBVIOUS
<1>1. k \in 0..(all - 1) /\ x \in BitmapsOf(all) /\ v \in BOOLEAN
  BY DEF CopiedSoFar, bitmap_test
<1>2. OnlyBit(new, x, all, k)
      /\ (bitmap_test(new, k) <=> (IF Works(k) THEN v ELSE bitmap_test(x, k)))
  BY <1>1, SetBit
<1>3. ASSUME NEW i \in 0..(all - 1), Works(i)
      PROVE  bitmap_test(new, i) <=> i < k + 1 /\ bitmap_test(b, i)
  <2>1. CASE i = k
    BY <1>2, <1>3, <2>1
  <2>2. CASE i # k
    <3>1. i < k + 1 <=> i < k
      BY <2>2
    <3> QED
      BY <1>2, <1>3, <2>2, <3>1 DEF CopiedSoFar, OnlyBit
  <2> QED
    BY <2>1, <2>2
<1> QED
  BY <1>2, <1>3 DEF CopiedSoFar, OnlyBit

\* An expanded bitmap has the bits it had, and FALSE from there on, where they work.
LEMMA Expanded ==
    ASSUME NEW cnt \in Nat, NEW b \in BitmapsOf(cnt), NEW size \in Nat,
           NEW junk \in Elements(cnt + size)
    PROVE  CopiedSoFar(bitmap_expand(b, size, junk), b, cnt + size, cnt)
<1> PICK all : all = cnt + size
  OBVIOUS
<1> PICK new : new = bitmap_create(all, junk)
  OBVIOUS
<1>1. all \in Nat /\ cnt <= all /\ b.bit_cnt = cnt
  BY DEF BitmapsOf
<1>2. new \in BitmapsOf(all) /\ \A i \in 0..(all - 1) : Works(i) => ~bitmap_test(new, i)
  BY <1>1, CreatedFalse
<1> DEFINE S == BitmapsOf(all)
<1> DEFINE Loop(f) == f = [k \in 0..cnt |-> IF k = 0 THEN new
                                           ELSE bitmap_set(f[k - 1], k - 1, bitmap_test(b, k - 1))]
<1>3. \E f : Loop(f)
  <2> DEFINE Round(k) == [x \in S |-> bitmap_set(x, k - 1, bitmap_test(b, k - 1))]
  <2> DEFINE F == [k \in 1..cnt |-> Round(k)]
  <2>1. F \in [1..cnt -> [S -> S]]
    <3>1. ASSUME NEW k \in 1..cnt, NEW x \in S
          PROVE  bitmap_set(x, k - 1, bitmap_test(b, k - 1)) \in S
      <4> PICK idx, v : idx = k - 1 /\ v = bitmap_test(b, idx)
        OBVIOUS
      <4>1. idx \in 0..(all - 1) /\ v \in BOOLEAN
        BY <1>1 DEF bitmap_test
      <4>2. bitmap_set(x, idx, v) \in S
        BY <1>1, <4>1, SetBit DEF OnlyBit
      <4> QED
        BY <4>2
    <3>2. ASSUME NEW k \in 1..cnt
          PROVE  Round(k) \in [S -> S]
      <4> HIDE DEF S
      <4> QED
        BY <3>1
    <3> HIDE DEF S, Round
    <3> QED
      BY <3>2
  <2>2. PICK f \in [0..cnt -> S] : Course(f, cnt, new, F)
    <3>1. new \in S
      BY <1>2
    <3> HIDE DEF F, S
    <3> QED
      BY <2>1, <3>1, LoopExists
  <2>3. ASSUME NEW k \in 1..cnt
        PROVE  F[k][f[k - 1]] = bitmap_set(f[k - 1], k - 1, bitmap_test(b, k - 1))
    <3>1. f[k - 1] \in S
      OBVIOUS
    <3> QED
      BY <3>1
  <2>4. Loop(f)
    <3> HIDE DEF F
    <3> QED
      BY <2>2, <2>3 DEF Course
  <2> QED
    BY <2>4
<1> DEFINE copied == CHOOSE f : Loop(f)
<1>4. Loop(copied)
  BY <1>3
<1>5. bitmap_expand(b, size, junk) = copied[cnt]
  BY <1>1 DEF bitmap_expand
<1> HIDE DEF copied
<1>6. /\ copied[0] = new
      /\ \A k \in 0..(cnt - 1) : copied[k + 1] = bitmap_set(copied[k], k, bitmap_test(b, k))
  BY <1>4
<1> DEFINE P == {k \in 0..cnt : CopiedSoFar(copied[k], b, all, k)}
<1>7. 0 \in P
  BY <1>2, <1>6 DEF CopiedSoFar
<1>8. ASSUME NEW k \in 0..(cnt - 1), k \in P
      PROVE  k + 1 \in P
  <2>1. k < all /\ k \in Nat /\ k + 1 \in 0..cnt
    BY <1>1
  <2> QED
    BY <1>1, <1>6, <1>8, <2>1, CopyOneMore
<1>9. cnt \in P
  <2> HIDE DEF P
  <2>1. cnt \in 0..cnt /\ 0..cnt \subseteq P
    BY <1>7, <1>8, UpTo
  <2> QED
    BY <2>1
<1> QED
  BY <1>5, <1>9

-----------------------------------------------------------------------------
(* Who owns the memory of bitmaps *)

Used == UsedSlots("bitmap")
Owner(s) == table["bitmap"][s].obj
BitmapRecord == UNION {BitmapsOf(cnt) : cnt \in 0..MaxBits}

\* What a bitmap is to the commands.
Array(b) == [i \in 0..(b.bit_cnt - 1) |-> bitmap_test(b, i)]

\* Arrays sees of every bitmap in use its Array, before and after a step.
LEMMA ArraysAre ==
    /\ Arrays = [s \in Used |-> Arrays[s]]
    /\ \A s \in Used : Arrays[s] = Array(BitmapAt(s))
    /\ Arrays' = [s \in Used' |-> Arrays'[s]]
    /\ \A s \in Used' : Arrays'[s] = Array(BitmapAt(s)')
BY DEF Arrays, Array, Used

TableShape ==
    /\ DOMAIN table = Kinds
    /\ \A k \in Kinds : DOMAIN table[k] = Slots
    /\ \A k \in Kinds, s \in Slots :
          /\ table[k][s] = [used |-> table[k][s].used, name |-> table[k][s].name,
                            obj |-> table[k][s].obj]
          /\ table[k][s].used \in BOOLEAN

BlocksAre == block \in [Blocks -> BitmapRecord \union {Unallocated}]

\* Each object in use has a block of its own, which is allocated; and there are no others.
Owned ==
    /\ \A s \in Used : Owner(s) \in Blocks \ FreeBlocks
    /\ \A s, t \in Used : Owner(s) = Owner(t) => s = t
    /\ \A b \in Blocks \ FreeBlocks : \E s \in Used : Owner(s) = b

MemoryInv ==
    /\ TableShape
    /\ BlocksAre
    /\ Owned
    /\ ~running => Used = {}

\* An allocated bitmap is never taken for free memory.
LEMMA RecordsAllocated == Unallocated \notin BitmapRecord
BY DEF Unallocated, BitmapRecord, BitmapsOf

\* How many slots and blocks there are.
LEMMA Sizes ==
    /\ MAX_DS \in Nat \ {0} /\ MaxBits \in Nat
    /\ Slots = 1..MAX_DS /\ Blocks = 1..(MAX_DS + 1)
    /\ IsFiniteSet(Slots) /\ Cardinality(Slots) = MAX_DS
    /\ IsFiniteSet(Blocks) /\ Cardinality(Blocks) = MAX_DS + 1
BY InterpreterAssumption, FS_Interval DEF Slots, Blocks

\* What the searches of the registry return.
LEMMA FindUsed ==
    ASSUME NEW k, NEW n
    PROVE  find_used(k, n) # NoSlot => /\ find_used(k, n) \in Slots
                                       /\ table[k][find_used(k, n)].used
                                       /\ table[k][find_used(k, n)].name = n
<1> DEFINE found == {s \in Slots : table[k][s].used /\ table[k][s].name = n}
<1>1. found \subseteq Nat
  BY Sizes
<1>2. CASE found # {}
  <2>1. Min(found) \in found
    BY <1>1, <1>2, LeastNumber
  <2> QED
    BY <1>2, <2>1 DEF find_used
<1> QED
  BY <1>2 DEF find_used

\* find_empty returns a slot that is not in use.
LEMMA FindEmpty ==
    ASSUME NEW k
    PROVE  find_empty(k) # NoSlot => find_empty(k) \in Slots /\ ~table[k][find_empty(k)].used
<1> DEFINE found == {s \in Slots : ~table[k][s].used}
<1>1. found \subseteq Nat
  BY Sizes
<1>2. CASE found # {}
  <2>1. Min(found) \in found
    BY <1>1, <1>2, LeastNumber
  <2> QED
    BY <1>2, <2>1 DEF find_empty
<1> QED
  BY <1>2 DEF find_empty

\* There is always memory for one more bitmap than there are objects; so the bound on
\* blocks is none on the program.
LEMMA FreshIsFree ==
    ASSUME MemoryInv
    PROVE  FreshBlock \in Blocks /\ FreshBlock \in FreeBlocks
<1>1. FreeBlocks # {}
  <2> SUFFICES ASSUME FreeBlocks = {} PROVE FALSE
    OBVIOUS
  <2> DEFINE f == [s \in Used |-> Owner(s)]
  <2>1. f \in Surjection(Used, Blocks)
    BY DEF MemoryInv, Owned, Surjection
  <2>2. IsFiniteSet(Used) /\ Cardinality(Used) <= MAX_DS
    <3>1. Used \in SUBSET Slots
      BY DEF Used, UsedSlots
    <3> QED
      BY <3>1, Sizes, FS_Subset
  <2> HIDE DEF f
  <2>3. Cardinality(Blocks) <= Cardinality(Used)
    BY <2>1, <2>2, FS_Surjection
  <2>4. Cardinality(Used) \in Nat
    BY <2>2, FS_CardinalityType
  <2> QED
    BY <2>2, <2>3, <2>4, Sizes
<1>2. FreeBlocks \subseteq Blocks /\ Blocks \subseteq Nat
  BY Sizes DEF FreeBlocks
<1> QED
  BY <1>1, <1>2, LeastNumber DEF FreshBlock

WithObj(T, k, s, h) == [T EXCEPT ![k][s].obj = h]

\* An object that is given other data keeps its slot and its name.
LEMMA ObjReplaced ==
    ASSUME TableShape, NEW k \in Kinds, NEW s \in Slots, NEW h,
           table' = WithObj(table, k, s, h)
    PROVE  /\ TableShape'
           /\ \A j \in Kinds, t \in Slots :
                 /\ table'[j][t].used = table[j][t].used
                 /\ table'[j][t].name = table[j][t].name
                 /\ table'[j][t].obj = IF j = k /\ t = s THEN h ELSE table[j][t].obj
<1> PICK e : e = [used |-> table[k][s].used, name |-> table[k][s].name, obj |-> h]
  OBVIOUS
<1>1. [table[k][s] EXCEPT !.obj = h] = e
  <2>1. table[k][s] = [used |-> table[k][s].used, name |-> table[k][s].name,
                       obj |-> table[k][s].obj]
    BY DEF TableShape
  <2> PICK u, n, o : table[k][s] = [used |-> u, name |-> n, obj |-> o]
    BY <2>1
  <2> QED
    OBVIOUS
<1>2. table' = [table EXCEPT ![k] = [table[k] EXCEPT ![s] = e]]
  BY <1>1 DEF WithObj
<1>3. \A j \in Kinds, t \in Slots : table'[j][t] = IF j = k /\ t = s THEN e ELSE table[j][t]
  BY <1>2 DEF TableShape
<1>4. DOMAIN table' = Kinds /\ \A j \in Kinds : DOMAIN table'[j] = Slots
  BY <1>2 DEF TableShape
<1>5. /\ e = [used |-> e.used, name |-> e.name, obj |-> e.obj] /\ e.obj = h
      /\ e.used = table[k][s].used /\ e.used \in BOOLEAN /\ e.name = table[k][s].name
  BY DEF TableShape
<1>6. TableShape'
  <2>1. ASSUME NEW j \in Kinds, NEW t \in Slots
        PROVE  /\ table'[j][t] = [used |-> table'[j][t].used, name |-> table'[j][t].name,
                                  obj |-> table'[j][t].obj]
               /\ table'[j][t].used \in BOOLEAN
    <3>1. CASE j = k /\ t = s
      <4>1. table'[j][t] = e
        BY <1>3, <3>1
      <4> QED
        BY <1>5, <4>1
    <3>2. CASE ~(j = k /\ t = s)
      <4>1. table'[j][t] = table[j][t]
        BY <1>3, <3>2
      <4> QED
        BY <4>1 DEF TableShape
    <3> QED
      BY <3>1, <3>2
  <2> QED
    BY <1>4, <2>1 DEF TableShape
<1> QED
  BY <1>3, <1>5, <1>6

\* Steps that touch neither the bitmaps nor their slots.
QuietTable ==
    /\ TableShape'
    /\ \A s \in Slots : /\ table'["bitmap"][s].used = table["bitmap"][s].used
                        /\ table'["bitmap"][s].obj = table["bitmap"][s].obj

\* Such a step keeps the invariant, and every array.
LEMMA MemoryKept ==
    ASSUME MemoryInv, QuietTable, block' = block, running' = running
    PROVE  MemoryInv' /\ Arrays' = Arrays
<1>1. Used' = Used /\ \A s \in Used : Owner(s)' = Owner(s)
  BY DEF QuietTable, Used, UsedSlots, Owner
<1>2. FreeBlocks' = FreeBlocks
  BY DEF FreeBlocks
<1>3. Owned'
  BY <1>1, <1>2 DEF MemoryInv, Owned
<1>4. Arrays' = Arrays
  <2>1. \A s \in Used : BitmapAt(s)' = BitmapAt(s)
    BY <1>1 DEF BitmapAt, Owner
  <2>2. \A s \in Used : Arrays'[s] = Arrays[s]
    BY <1>1, <2>1, ArraysAre
  <2> QED
    BY <1>1, <2>2, ArraysAre
<1> QED
  BY <1>1, <1>3, <1>4 DEF MemoryInv, QuietTable, BlocksAre

\* A command that writes the bitmap in slot s.
LEMMA MemoryWritten ==
    ASSUME MemoryInv, NEW s \in Used, NEW new \in BitmapRecord, InBitmap(s, new),
           running' = running
    PROVE  MemoryInv' /\ Arrays' = [Arrays EXCEPT ![s] = Array(new)]
<1> PICK o : o = Owner(s)
  OBVIOUS
<1>1. /\ block \in [Blocks -> BitmapRecord \union {Unallocated}]
      /\ block' = [block EXCEPT ![o] = new] /\ o \in Blocks \ FreeBlocks
  BY DEF MemoryInv, BlocksAre, Owned, InBitmap, Owner
<1>2. Used' = Used /\ \A t : Owner(t)' = Owner(t)
  BY DEF InBitmap, Used, UsedSlots, Owner
<1>3. FreeBlocks' = FreeBlocks
  BY <1>1, RecordsAllocated DEF FreeBlocks
<1>4. TableShape'
  BY DEF MemoryInv, TableShape, InBitmap
<1>5. BlocksAre'
  BY <1>1 DEF BlocksAre
<1>6. Owned'
  BY <1>2, <1>3 DEF MemoryInv, Owned
<1>7. \A t \in Used : BitmapAt(t)' = IF t = s THEN new ELSE BitmapAt(t)
  <2>1. ASSUME NEW t \in Used
        PROVE  BitmapAt(t)' = IF t = s THEN new ELSE BitmapAt(t)
    <3>1. Owner(t) \in Blocks /\ (t # s => Owner(t) # o)
      BY DEF MemoryInv, Owned
    <3>2. BitmapAt(t) = block[Owner(t)] /\ BitmapAt(t)' = block'[Owner(t)]
      BY <1>2 DEF BitmapAt, Owner
    <3> QED
      BY <1>1, <3>1, <3>2
  <2> QED
    BY <2>1
<1>8. Arrays' = [Arrays EXCEPT ![s] = Array(new)]
  <2>1. \A t \in Used : Arrays'[t] = IF t = s THEN Array(new) ELSE Arrays[t]
    BY <1>2, <1>7, ArraysAre
  <2> QED
    BY <1>2, <2>1, ArraysAre
<1> QED
  BY <1>2, <1>4, <1>5, <1>6, <1>8 DEF MemoryInv

\* create_bitmap_object takes a slot and a block that were free.
LEMMA MemoryCreated ==
    ASSUME MemoryInv, NEW s \in Slots \ Used, NEW n, NEW new \in BitmapRecord,
           Register("bitmap", s, n, FreshBlock), block' = [block EXCEPT ![FreshBlock] = new],
           running' = running, running
    PROVE  /\ MemoryInv'
           /\ Arrays' = [t \in Used \union {s} |-> IF t = s THEN Array(new) ELSE Arrays[t]]
<1> PICK o : o = FreshBlock
  OBVIOUS
<1>1. /\ block \in [Blocks -> BitmapRecord \union {Unallocated}]
      /\ block' = [block EXCEPT ![o] = new] /\ o \in Blocks /\ o \in FreeBlocks
  BY FreshIsFree DEF MemoryInv, BlocksAre
<1>2. /\ table' = [table EXCEPT !["bitmap"][s] = [used |-> TRUE, name |-> copy_name(n), obj |-> o]]
      /\ TableShape
  BY DEF Register, MemoryInv
<1>3. /\ TableShape'
      /\ \A t \in Slots : /\ table'["bitmap"][t].used <=> t = s \/ table["bitmap"][t].used
                          /\ table'["bitmap"][t].obj = IF t = s THEN o ELSE table["bitmap"][t].obj
  BY <1>2 DEF TableShape, Kinds
<1>4. Used' = Used \union {s} /\ \A t \in Slots : Owner(t)' = IF t = s THEN o ELSE Owner(t)
  BY <1>3 DEF Used, UsedSlots, Owner
<1>5. FreeBlocks' = FreeBlocks \ {o}
  BY <1>1, RecordsAllocated DEF FreeBlocks
<1>6. Used \subseteq Slots
  BY DEF Used, UsedSlots
<1>7. Owned'
  <2>1. \A t \in Used : Owner(t) # o
    BY <1>1 DEF MemoryInv, Owned
  <2>2. ASSUME NEW t \in Used'
        PROVE  Owner(t)' \in Blocks \ FreeBlocks'
    BY <1>1, <1>4, <1>5, <1>6 DEF MemoryInv, Owned
  <2>3. ASSUME NEW t \in Used', NEW u \in Used', Owner(t)' = Owner(u)'
        PROVE  t = u
    BY <1>4, <1>6, <2>1, <2>3 DEF MemoryInv, Owned
  <2>4. ASSUME NEW b \in Blocks \ FreeBlocks'
        PROVE  \E t \in Used' : Owner(t)' = b
    BY <1>4, <1>5, <1>6 DEF MemoryInv, Owned
  <2> QED
    BY <2>2, <2>3, <2>4 DEF Owned
<1>8. \A t \in Used' : BitmapAt(t)' = IF t = s THEN new ELSE BitmapAt(t)
  <2>1. ASSUME NEW t \in Used'
        PROVE  BitmapAt(t)' = IF t = s THEN new ELSE BitmapAt(t)
    <3>1. BitmapAt(t)' = block'[Owner(t)'] /\ BitmapAt(t) = block[Owner(t)]
      BY DEF BitmapAt, Owner
    <3>2. t # s => Owner(t)' = Owner(t) /\ Owner(t) \in Blocks /\ Owner(t) # o
      BY <1>1, <1>4, <1>6 DEF MemoryInv, Owned
    <3> QED
      BY <1>1, <1>4, <3>1, <3>2
  <2> QED
    BY <2>1
<1>9. Arrays' = [t \in Used \union {s} |-> IF t = s THEN Array(new) ELSE Arrays[t]]
  <2>1. \A t \in Used' : Arrays'[t] = IF t = s THEN Array(new) ELSE Arrays[t]
    BY <1>4, <1>8, ArraysAre
  <2> QED
    BY <1>4, <2>1, ArraysAre
<1>10. BlocksAre'
  BY <1>1 DEF BlocksAre
<1> QED
  BY <1>3, <1>7, <1>9, <1>10 DEF MemoryInv

\* bitmap_expand: the object moves to a block that was free, and the old one is freed.
LEMMA MemoryMoved ==
    ASSUME MemoryInv, NEW s \in Used, NEW new \in BitmapRecord, running' = running,
           block' = [FreedBlocks({Owner(s)}) EXCEPT ![FreshBlock] = new],
           table' = [table EXCEPT !["bitmap"][s].obj = FreshBlock]
    PROVE  MemoryInv' /\ Arrays' = [Arrays EXCEPT ![s] = Array(new)]
<1> PICK o, old : o = FreshBlock /\ old = Owner(s)
  OBVIOUS
<1>1. /\ block \in [Blocks -> BitmapRecord \union {Unallocated}]
      /\ o \in Blocks /\ o \in FreeBlocks /\ old \in Blocks \ FreeBlocks /\ o # old
      /\ block' = [b \in Blocks |-> IF b = o THEN new ELSE IF b = old THEN Unallocated ELSE block[b]]
  <2>1. /\ block \in [Blocks -> BitmapRecord \union {Unallocated}]
        /\ o \in Blocks /\ o \in FreeBlocks /\ old \in Blocks \ FreeBlocks /\ o # old
    BY FreshIsFree DEF MemoryInv, BlocksAre, Owned
  <2>2. block' = [[b \in Blocks |-> IF b \in {old} THEN Unallocated ELSE block[b]] EXCEPT ![o] = new]
    BY DEF FreedBlocks
  <2> QED
    BY <2>1, <2>2
<1>2. table' = [table EXCEPT !["bitmap"][s].obj = o] /\ TableShape /\ s \in Slots
  BY DEF MemoryInv, Used, UsedSlots
<1>3. /\ TableShape'
      /\ \A t \in Slots : /\ table'["bitmap"][t].used = table["bitmap"][t].used
                          /\ table'["bitmap"][t].obj = IF t = s THEN o ELSE table["bitmap"][t].obj
  <2>1. "bitmap" \in Kinds
    BY DEF Kinds
  <2>2. table' = WithObj(table, "bitmap", s, o)
    BY <1>2 DEF WithObj
  <2> QED
    BY <1>2, <2>1, <2>2, ObjReplaced
<1>4. Used' = Used /\ \A t \in Slots : Owner(t)' = IF t = s THEN o ELSE Owner(t)
  BY <1>3 DEF Used, UsedSlots, Owner
<1>5. FreeBlocks' = (FreeBlocks \ {o}) \union {old}
  BY <1>1, RecordsAllocated DEF FreeBlocks
<1>6. Used \subseteq Slots
  BY DEF Used, UsedSlots
<1>7. \A t \in Used : Owner(t) # o /\ (t # s => Owner(t) # old)
  BY <1>1 DEF MemoryInv, Owned
<1>8. Owned'
  <2>1. ASSUME NEW t \in Used'
        PROVE  Owner(t)' \in Blocks \ FreeBlocks'
    BY <1>1, <1>4, <1>5, <1>6, <1>7 DEF MemoryInv, Owned
  <2>2. ASSUME NEW t \in Used', NEW u \in Used', Owner(t)' = Owner(u)'
        PROVE  t = u
    BY <1>4, <1>6, <1>7, <2>2 DEF MemoryInv, Owned
  <2>3. ASSUME NEW b \in Blocks \ FreeBlocks'
        PROVE  \E t \in Used' : Owner(t)' = b
    <3>1. CASE b = o
      BY <1>2, <1>4, <3>1
    <3>2. CASE b # o
      <4>1. b \in Blocks \ FreeBlocks /\ b # old
        BY <1>5, <3>2
      <4>2. PICK t \in Used : Owner(t) = b
        BY <4>1 DEF MemoryInv, Owned
      <4> QED
        BY <1>4, <1>6, <4>1, <4>2
    <3> QED
      BY <3>1, <3>2
  <2> QED
    BY <2>1, <2>2, <2>3 DEF Owned
<1>9. \A t \in Used : BitmapAt(t)' = IF t = s THEN new ELSE BitmapAt(t)
  <2>1. ASSUME NEW t \in Used
        PROVE  BitmapAt(t)' = IF t = s THEN new ELSE BitmapAt(t)
    <3>1. BitmapAt(t)' = block'[Owner(t)'] /\ BitmapAt(t) = block[Owner(t)]
      BY DEF BitmapAt, Owner
    <3>2. t # s => Owner(t)' = Owner(t) /\ Owner(t) \in Blocks
      BY <1>4, <1>6 DEF MemoryInv, Owned
    <3> QED
      BY <1>1, <1>2, <1>4, <1>7, <3>1, <3>2
  <2> QED
    BY <2>1
<1>10. Arrays' = [Arrays EXCEPT ![s] = Array(new)]
  <2>1. \A t \in Used : Arrays'[t] = IF t = s THEN Array(new) ELSE Arrays[t]
    BY <1>4, <1>9, ArraysAre
  <2> QED
    BY <1>4, <2>1, ArraysAre
<1>11. BlocksAre'
  BY <1>1 DEF BlocksAre
<1> QED
  BY <1>3, <1>4, <1>8, <1>10, <1>11 DEF MemoryInv

\* A deletion, or cleanup_all_objects, frees what it takes out of the table.
LEMMA MemoryDestroyed ==
    ASSUME MemoryInv, NEW ss \in [Kinds -> SUBSET Slots], Destroy(ss), ss["bitmap"] \subseteq Used,
           running' # running => Used \subseteq ss["bitmap"]
    PROVE  MemoryInv' /\ Arrays' = [t \in Used \ ss["bitmap"] |-> Arrays[t]]
<1> PICK gone : gone = ss["bitmap"]
  OBVIOUS
<1>1. /\ block \in [Blocks -> BitmapRecord \union {Unallocated}]
      /\ gone \subseteq Used /\ Used \subseteq Slots
  BY DEF MemoryInv, BlocksAre, Used, UsedSlots
<1>2. block' = [b \in Blocks |-> IF \E s \in gone : b = Owner(s) THEN Unallocated ELSE block[b]]
  BY DEF Destroy, FreedBlocks, Owner
<1>3. TableShape'
  BY DEF Destroy, MemoryInv, TableShape, NotUsed
<1>4. ASSUME NEW t \in Slots
      PROVE  /\ t \in gone => table'["bitmap"][t].used = FALSE
             /\ t \notin gone => table'["bitmap"][t] = table["bitmap"][t]
  <2>1. table'["bitmap"] = [u \in Slots |-> IF u \in gone THEN NotUsed ELSE table["bitmap"][u]]
    BY DEF Destroy, Kinds
  <2>2. NotUsed.used = FALSE
    BY DEF NotUsed
  <2> QED
    BY <2>1, <2>2
<1>5. Used' = Used \ gone /\ \A t \in Used' : Owner(t)' = Owner(t)
  <2>1. ASSUME NEW t \in Slots
        PROVE  t \in Used' <=> t \in Used \ gone
    <3>1. CASE t \in gone
      BY <1>4, <3>1 DEF Used, UsedSlots
    <3>2. CASE t \notin gone
      BY <1>4, <3>2 DEF Used, UsedSlots
    <3> QED
      BY <3>1, <3>2
  <2>2. Used' \subseteq Slots
    BY DEF Used, UsedSlots
  <2>3. Used' = Used \ gone
    BY <1>1, <2>1, <2>2
  <2> QED
    BY <1>1, <1>4, <2>3 DEF Owner
<1>6. \A b \in Blocks : b \in FreeBlocks' <=> b \in FreeBlocks \/ \E s \in gone : b = Owner(s)
  BY <1>1, <1>2 DEF FreeBlocks
<1>7. Owned'
  <2>1. ASSUME NEW t \in Used'
        PROVE  Owner(t)' \in Blocks \ FreeBlocks'
    BY <1>1, <1>5, <1>6 DEF MemoryInv, Owned
  <2>2. ASSUME NEW t \in Used', NEW u \in Used', Owner(t)' = Owner(u)'
        PROVE  t = u
    BY <1>5, <2>2 DEF MemoryInv, Owned
  <2>3. ASSUME NEW b \in Blocks \ FreeBlocks'
        PROVE  \E t \in Used' : Owner(t)' = b
    <3>1. PICK t \in Used : Owner(t) = b
      BY <1>6 DEF MemoryInv, Owned
    <3> QED
      BY <1>5, <1>6, <3>1
  <2> QED
    BY <2>1, <2>2, <2>3 DEF Owned
<1>8. \A t \in Used' : BitmapAt(t)' = BitmapAt(t)
  <2>1. ASSUME NEW t \in Used'
        PROVE  BitmapAt(t)' = BitmapAt(t)
    <3>1. BitmapAt(t)' = block'[Owner(t)'] /\ BitmapAt(t) = block[Owner(t)]
      BY DEF BitmapAt, Owner
    <3>2. Owner(t)' = Owner(t) /\ Owner(t) \in Blocks /\ \A s \in gone : Owner(t) # Owner(s)
      BY <1>1, <1>5 DEF MemoryInv, Owned
    <3> QED
      BY <1>2, <3>1, <3>2
  <2> QED
    BY <2>1
<1>9. Arrays' = [t \in Used \ gone |-> Arrays[t]]
  <2>1. \A t \in Used' : Arrays'[t] = Arrays[t]
    BY <1>5, <1>8, ArraysAre
  <2> QED
    BY <1>5, <2>1, ArraysAre
<1>10. BlocksAre'
  BY <1>1, <1>2 DEF BlocksAre
<1>11. ~running' => Used' = {}
  BY <1>5 DEF MemoryInv
<1> QED
  BY <1>3, <1>7, <1>9, <1>10, <1>11 DEF MemoryInv

\* Commands on hash tables touch no bitmap.
LEMMA HashKeepsBitmaps ==
    ASSUME TableShape, NEW n, do_hash_command(n)
    PROVE  QuietTable /\ block' = block
<1>1. ASSUME NEW s \in Slots, NEW h, InHash(s, h)
      PROVE  QuietTable
  <2>1. "hashtable" \in Kinds /\ "bitmap" \in Kinds /\ "hashtable" # "bitmap"
    BY DEF Kinds
  <2>2. table' = WithObj(table, "hashtable", s, h)
    BY <1>1 DEF InHash, WithObj
  <2> QED
    BY <2>1, <2>2, ObjReplaced DEF QuietTable
<1>2. UNCHANGED table => QuietTable
  BY DEF QuietTable, TableShape
<1> PICK s : s = find_used("hashtable", n)
  OBVIOUS
<1>3. s \in Slots
  BY FindUsed DEF do_hash_command
<1>4. ASSUME NEW v, HashInsert(s, n, v) \/ HashReplace(s, n, v) \/ HashDelete(s, n, v)
      PROVE  QuietTable /\ block' = block
  BY <1>1, <1>3, <1>4 DEF HashInsert, HashReplace, HashDelete
<1>5. ASSUME HashClear(s, n)
      PROVE  QuietTable /\ block' = block
  BY <1>1, <1>3, <1>5 DEF HashClear
<1>6. ASSUME HashApply(s, n) \/ HashQuery(s, n)
      PROVE  QuietTable /\ block' = block
  BY <1>2, <1>6 DEF HashApply, HashQuery
<1>7. ASSUME NEW word, NEW v, ItemNotMade(s, n, word, v)
      PROVE  QuietTable /\ block' = block
  BY <1>2, <1>7 DEF ItemNotMade
<1> QED
  BY <1>4, <1>5, <1>6, <1>7 DEF do_hash_command

-----------------------------------------------------------------------------
(* Each command on a bitmap and the step of BitmapSpec that it is *)

\* Cardinality is the same in the abstract specification.
LEMMA SameCardinality == \A S : BitmapObjects!Cardinality(S) = Cardinality(S)
BY DEF BitmapObjects!Cardinality, Cardinality

\* What is known of the bitmap in a slot that is in use.
LEMMA BitmapInUse ==
    ASSUME MemoryInv, NEW s \in Used
    PROVE  /\ BitmapAt(s).bit_cnt \in 0..MaxBits /\ BitmapAt(s).bit_cnt \in Nat
           /\ BitmapAt(s) \in BitmapsOf(BitmapAt(s).bit_cnt)
           /\ Arrays[s] = Array(BitmapAt(s)) /\ DOMAIN Arrays = Used
           /\ DOMAIN Arrays[s] = 0..(BitmapAt(s).bit_cnt - 1)
           /\ BitmapObjects!Size(s) = BitmapAt(s).bit_cnt
<1> PICK b : b = BitmapAt(s)
  OBVIOUS
<1>1. b \in BitmapRecord
  <2>1. Owner(s) \in Blocks /\ block[Owner(s)] # Unallocated /\ b = block[Owner(s)]
    BY DEF MemoryInv, Owned, FreeBlocks, BitmapAt, Owner
  <2> QED
    BY <2>1 DEF MemoryInv, BlocksAre
<1>2. b.bit_cnt \in 0..MaxBits /\ b \in BitmapsOf(b.bit_cnt)
  BY <1>1 DEF BitmapRecord, BitmapsOf
<1>3. Arrays[s] = Array(b) /\ DOMAIN Arrays = Used
  BY ArraysAre
<1>4. DOMAIN Arrays[s] = 0..(b.bit_cnt - 1)
  BY <1>3 DEF Array
<1> PICK n : n = b.bit_cnt
  OBVIOUS
<1>5. n \in Nat
  BY <1>2, Sizes
<1>6. Cardinality(0..(n - 1)) = n
  <2>1. 0 \in Int /\ n - 1 \in Int
    BY <1>5
  <2>2. Cardinality(0..(n - 1)) = IF 0 > n - 1 THEN 0 ELSE (n - 1) - 0 + 1
    BY <2>1, FS_Interval, Zenon
  <2> QED
    BY <1>5, <2>2
<1>7. BitmapObjects!Size(s) = Cardinality(DOMAIN Arrays[s])
  BY SameCardinality DEF BitmapObjects!Size
<1> QED
  BY <1>2, <1>3, <1>4, <1>5, <1>6, <1>7

\* A test is true or false.
LEMMA TestIsBoolean == \A b, i : bitmap_test(b, i) \in BOOLEAN
BY DEF bitmap_test

\* The array a with the bits in I, as far as they work, taken from the array to.
Over(a, I, to) == [i \in DOMAIN a |-> IF i \in I /\ Works(i) THEN to[i] ELSE a[i]]

\* A bitmap whose tests are those of b but in I has the array of b but in I.
LEMMA OverArray ==
    ASSUME NEW cnt \in Nat, NEW b \in BitmapsOf(cnt), NEW new \in BitmapsOf(cnt), NEW I,
           NEW to \in [0..(cnt - 1) -> BOOLEAN],
           \A i \in 0..(cnt - 1) :
              bitmap_test(new, i) <=> (IF i \in I /\ Works(i) THEN to[i] ELSE bitmap_test(b, i))
    PROVE  Array(new) = Over(Array(b), I, to)
<1>1. b.bit_cnt = cnt /\ new.bit_cnt = cnt
  BY DEF BitmapsOf
<1> DEFINE a == Array(b)
<1>2. DOMAIN a = 0..(cnt - 1) /\ \A i \in 0..(cnt - 1) : a[i] = bitmap_test(b, i)
  BY <1>1 DEF Array
<1>3. Array(new) = [i \in 0..(cnt - 1) |-> bitmap_test(new, i)]
  BY <1>1 DEF Array
<1>4. ASSUME NEW i \in 0..(cnt - 1)
      PROVE  bitmap_test(new, i) = IF i \in I /\ Works(i) THEN to[i] ELSE bitmap_test(b, i)
  BY TestIsBoolean
<1> HIDE DEF a
<1>5. /\ Over(a, I, to) = [i \in 0..(cnt - 1) |-> Over(a, I, to)[i]]
      /\ \A i \in 0..(cnt - 1) : Over(a, I, to)[i] = IF i \in I /\ Works(i) THEN to[i] ELSE a[i]
  BY <1>2 DEF Over
<1>6. \A i \in 0..(cnt - 1) : Array(new)[i] = Over(a, I, to)[i]
  BY <1>2, <1>3, <1>4, <1>5
<1> QED
  BY <1>3, <1>5, <1>6 DEF a

\* A step is one of the abstract specification if it is an update of the bitmap it names.
LEMMA IsUpdate ==
    ASSUME NEW s \in Used, cmd'.at = s, BitmapObjects!Updates(s, cmd'.do, cmd'.arg)
    PROVE  BitmapObjects!Next
BY ArraysAre DEF BitmapObjects!Next

\* A command that writes bits of the bitmap in slot s.
LEMMA WriteRefines ==
    ASSUME MemoryInv, NEW s \in Used, NEW new, InBitmap(s, new), running' = running,
           new \in BitmapsOf(BitmapAt(s).bit_cnt), NEW I,
           NEW to \in [DOMAIN Arrays[s] -> BOOLEAN],
           \A i \in DOMAIN Arrays[s] :
              bitmap_test(new, i)
              <=> (IF i \in I /\ Works(i) THEN to[i] ELSE bitmap_test(BitmapAt(s), i))
    PROVE  MemoryInv' /\ Arrays' = [Arrays EXCEPT ![s] = Over(Arrays[s], I, to)]
<1> PICK b, cnt : b = BitmapAt(s) /\ cnt = b.bit_cnt
  OBVIOUS
<1>1. /\ cnt \in 0..MaxBits /\ cnt \in Nat /\ b \in BitmapsOf(cnt) /\ Arrays[s] = Array(b)
      /\ DOMAIN Arrays[s] = 0..(cnt - 1)
  BY BitmapInUse
<1>2. new \in BitmapRecord
  BY <1>1 DEF BitmapRecord
<1>3. Array(new) = Over(Array(b), I, to)
  BY <1>1, OverArray
<1> QED
  BY <1>1, <1>2, <1>3, MemoryWritten

\* The bits in I of the bitmap in slot s become v, as far as they work.
SetTo(s, I, v) ==
    Arrays' = [Arrays EXCEPT ![s] = Over(Arrays[s], I, [k \in DOMAIN Arrays[s] |-> v])]

\* A command that writes one bit.
LEMMA BitWritten ==
    ASSUME MemoryInv, NEW s \in Used, NEW idx \in 0..(BitmapAt(s).bit_cnt - 1), NEW new,
           NEW v \in BOOLEAN, OnlyBit(new, BitmapAt(s), BitmapAt(s).bit_cnt, idx),
           bitmap_test(new, idx) <=> (IF Works(idx) THEN v ELSE bitmap_test(BitmapAt(s), idx)),
           InBitmap(s, new), running' = running
    PROVE  /\ MemoryInv'
           /\ SetTo(s, {idx}, v)
<1> PICK b, cnt : b = BitmapAt(s) /\ cnt = b.bit_cnt
  OBVIOUS
<1>1. DOMAIN Arrays[s] = 0..(cnt - 1)
  BY BitmapInUse
<1> DEFINE to == [k \in DOMAIN Arrays[s] |-> v]
<1>2. to \in [DOMAIN Arrays[s] -> BOOLEAN] /\ new \in BitmapsOf(cnt)
  BY DEF OnlyBit
<1>3. ASSUME NEW k \in DOMAIN Arrays[s]
      PROVE  bitmap_test(new, k)
             <=> (IF k \in {idx} /\ Works(k) THEN to[k] ELSE bitmap_test(b, k))
  <2>1. k \in 0..(cnt - 1) /\ to[k] = v
    BY <1>1
  <2>2. k # idx => (bitmap_test(new, k) <=> bitmap_test(b, k))
    BY <2>1 DEF OnlyBit
  <2>3. k = idx => (bitmap_test(new, k) <=> (IF Works(idx) THEN v ELSE bitmap_test(b, k)))
    OBVIOUS
  <2> HIDE DEF to
  <2> QED
    BY <2>1, <2>2, <2>3
<1> HIDE DEF to
<1>4. MemoryInv' /\ Arrays' = [Arrays EXCEPT ![s] = Over(Arrays[s], {idx}, to)]
  BY <1>2, <1>3, WriteRefines
<1> QED
  BY <1>4 DEF to, SetTo

\* The command bitmap_mark is the update of that name: the bit becomes TRUE.
LEMMA MarkRefines ==
    ASSUME MemoryInv, NEW n, NEW s \in Used, NEW i \in 0..(BitmapAt(s).bit_cnt - 1),
           InBitmap(s, bitmap_mark(BitmapAt(s), i)), Does("bitmap_mark", n, s, <<i>>, {}),
           running' = running
    PROVE  MemoryInv' /\ BitmapObjects!Next
<1>1. /\ BitmapAt(s).bit_cnt \in Nat /\ BitmapAt(s) \in BitmapsOf(BitmapAt(s).bit_cnt)
      /\ DOMAIN Arrays = Used
  BY BitmapInUse
<1>2. /\ MemoryInv'
      /\ SetTo(s, {i}, TRUE)
  BY <1>1, MarkBit, BitWritten
<1>3. cmd'.do = "bitmap_mark" /\ cmd'.arg[1] = i /\ cmd'.at = s
  BY DEF Does
<1>4. BitmapObjects!Updates(s, cmd'.do, cmd'.arg)
  BY <1>2, <1>3 DEF BitmapObjects!Updates, BitmapObjects!Write, Over, SetTo
<1> QED
  BY <1>2, <1>3, <1>4, IsUpdate

\* bitmap_reset makes it FALSE.
LEMMA ResetRefines ==
    ASSUME MemoryInv, NEW n, NEW s \in Used, NEW i \in 0..(BitmapAt(s).bit_cnt - 1),
           InBitmap(s, bitmap_reset(BitmapAt(s), i)), Does("bitmap_reset", n, s, <<i>>, {}),
           running' = running
    PROVE  MemoryInv' /\ BitmapObjects!Next
<1>1. /\ BitmapAt(s).bit_cnt \in Nat /\ BitmapAt(s) \in BitmapsOf(BitmapAt(s).bit_cnt)
      /\ DOMAIN Arrays = Used
  BY BitmapInUse
<1>2. /\ MemoryInv'
      /\ SetTo(s, {i}, FALSE)
  BY <1>1, ResetBit, BitWritten
<1>3. cmd'.do = "bitmap_reset" /\ cmd'.arg[1] = i /\ cmd'.at = s
  BY DEF Does
<1>4. BitmapObjects!Updates(s, cmd'.do, cmd'.arg)
  BY <1>2, <1>3 DEF BitmapObjects!Updates, BitmapObjects!Write, Over, SetTo
<1> QED
  BY <1>2, <1>3, <1>4, IsUpdate

\* bitmap_flip makes it what it was not.
LEMMA FlipRefines ==
    ASSUME MemoryInv, NEW n, NEW s \in Used, NEW i \in 0..(BitmapAt(s).bit_cnt - 1),
           InBitmap(s, bitmap_flip(BitmapAt(s), i)), Does("bitmap_flip", n, s, <<i>>, {}),
           running' = running
    PROVE  MemoryInv' /\ BitmapObjects!Next
<1>1. /\ BitmapAt(s).bit_cnt \in Nat /\ BitmapAt(s) \in BitmapsOf(BitmapAt(s).bit_cnt)
      /\ DOMAIN Arrays = Used /\ Arrays[s] = Array(BitmapAt(s))
  BY BitmapInUse
<1>2. Arrays[s][i] = bitmap_test(BitmapAt(s), i)
  BY <1>1 DEF Array
<1> PICK v : v = ~bitmap_test(BitmapAt(s), i)
  OBVIOUS
<1>3. v \in BOOLEAN /\ v = ~Arrays[s][i]
  BY <1>2, TestIsBoolean
<1>4. /\ MemoryInv'
      /\ SetTo(s, {i}, v)
  BY <1>1, <1>3, FlipBit, BitWritten
<1>5. cmd'.do = "bitmap_flip" /\ cmd'.arg[1] = i /\ cmd'.at = s
  BY DEF Does
<1>6. BitmapObjects!Updates(s, cmd'.do, cmd'.arg)
  <2>1. PICK a : a = Arrays[s]
    OBVIOUS
  <2>2. Over(a, {i}, [k \in DOMAIN a |-> v])
        = [k \in DOMAIN a |-> IF k \in {i} /\ Works(k) THEN ~a[k] ELSE a[k]]
    BY <1>3, <2>1 DEF Over
  <2>3. Arrays' = [Arrays EXCEPT ![s] = [k \in DOMAIN a |-> IF k \in {i} /\ Works(k) THEN ~a[k]
                                                                                  ELSE a[k]]]
    BY <1>4, <2>1, <2>2 DEF SetTo
  <2> QED
    BY <1>5, <2>1, <2>3 DEF BitmapObjects!Updates, BitmapObjects!Write
<1> QED
  BY <1>4, <1>5, <1>6, IsUpdate

\* bitmap_set makes it what the command says.
LEMMA SetRefines ==
    ASSUME MemoryInv, NEW n, NEW s \in Used, NEW i \in 0..(BitmapAt(s).bit_cnt - 1),
           NEW v \in BOOLEAN, InBitmap(s, bitmap_set(BitmapAt(s), i, v)),
           Does("bitmap_set", n, s, <<i, v>>, {}), running' = running
    PROVE  MemoryInv' /\ BitmapObjects!Next
<1>1. /\ BitmapAt(s).bit_cnt \in Nat /\ BitmapAt(s) \in BitmapsOf(BitmapAt(s).bit_cnt)
      /\ DOMAIN Arrays = Used
  BY BitmapInUse
<1>2. /\ MemoryInv'
      /\ SetTo(s, {i}, v)
  BY <1>1, SetBit, BitWritten
<1>3. cmd'.do = "bitmap_set" /\ cmd'.arg[1] = i /\ cmd'.arg[2] = v /\ cmd'.at = s
  BY DEF Does
<1>4. BitmapObjects!Updates(s, cmd'.do, cmd'.arg)
  BY <1>2, <1>3 DEF BitmapObjects!Updates, BitmapObjects!Write, Over, SetTo
<1> QED
  BY <1>2, <1>3, <1>4, IsUpdate

\* A command that makes cnt bits from start on the same.
LEMMA RangeWritten ==
    ASSUME MemoryInv, NEW s \in Used, NEW start \in Nat, NEW cnt \in Nat,
           start + cnt <= BitmapAt(s).bit_cnt, NEW v \in BOOLEAN, NEW new,
           SetSoFar(new, BitmapAt(s), BitmapAt(s).bit_cnt, start, cnt, v),
           InBitmap(s, new), running' = running
    PROVE  /\ MemoryInv'
           /\ SetTo(s, start..(start + cnt - 1), v)
<1> PICK b, all : b = BitmapAt(s) /\ all = b.bit_cnt
  OBVIOUS
<1> DEFINE I == start..(start + cnt - 1)
<1>1. DOMAIN Arrays[s] = 0..(all - 1)
  BY BitmapInUse
<1> DEFINE to == [k \in DOMAIN Arrays[s] |-> v]
<1>2. to \in [DOMAIN Arrays[s] -> BOOLEAN] /\ new \in BitmapsOf(all)
  BY DEF SetSoFar
<1>3. ASSUME NEW k \in DOMAIN Arrays[s]
      PROVE  bitmap_test(new, k) <=> (IF k \in I /\ Works(k) THEN to[k] ELSE bitmap_test(b, k))
  <2>1. k \in 0..(all - 1) /\ to[k] = v
    BY <1>1
  <2>2. bitmap_test(new, k) <=> (IF k \in I /\ Works(k) THEN v ELSE bitmap_test(b, k))
    BY <2>1 DEF SetSoFar
  <2> HIDE DEF to
  <2> QED
    BY <2>1, <2>2
<1> HIDE DEF to, I
<1>4. MemoryInv' /\ Arrays' = [Arrays EXCEPT ![s] = Over(Arrays[s], I, to)]
  BY <1>2, <1>3, WriteRefines
<1> QED
  BY <1>4 DEF to, I, SetTo

\* bitmap_set_all does so with every bit.
LEMMA SetAllRefines ==
    ASSUME MemoryInv, NEW n, NEW s \in Used, NEW v \in BOOLEAN,
           InBitmap(s, bitmap_set_all(BitmapAt(s), v)),
           Does("bitmap_set_all", n, s, <<v>>, {}), running' = running
    PROVE  MemoryInv' /\ BitmapObjects!Next
<1> PICK b, cnt : b = BitmapAt(s) /\ cnt = b.bit_cnt
  OBVIOUS
<1>1. /\ cnt \in Nat /\ b \in BitmapsOf(cnt)
      /\ DOMAIN Arrays = Used /\ DOMAIN Arrays[s] = 0..(cnt - 1)
  BY BitmapInUse
<1>2. SetSoFar(bitmap_set_all(b, v), b, cnt, 0, cnt, v)
  BY <1>1, SetAll
<1>3. 0 \in Nat /\ 0 + cnt <= cnt /\ 0..(0 + cnt - 1) = DOMAIN Arrays[s]
  BY <1>1
<1>4. /\ MemoryInv'
      /\ SetTo(s, 0..(0 + cnt - 1), v)
  BY <1>1, <1>2, <1>3, RangeWritten
<1>5. cmd'.do = "bitmap_set_all" /\ cmd'.arg[1] = v /\ cmd'.at = s
  BY DEF Does
<1>6. BitmapObjects!Updates(s, cmd'.do, cmd'.arg)
  BY <1>3, <1>4, <1>5 DEF BitmapObjects!Updates, BitmapObjects!Write, Over, SetTo
<1> QED
  BY <1>4, <1>5, <1>6, IsUpdate

\* bitmap_set_multiple does so with the bits of a range, which may be empty.
LEMMA SetMultipleRefines ==
    ASSUME MemoryInv, NEW n, NEW s \in Used, NEW start \in Nat, NEW cnt \in Nat,
           start + cnt <= BitmapAt(s).bit_cnt, NEW v \in BOOLEAN,
           InBitmap(s, bitmap_set_multiple(BitmapAt(s), start, cnt, v)),
           Does("bitmap_set_multiple", n, s, <<start, cnt, v>>, {}), running' = running
    PROVE  MemoryInv' /\ BitmapObjects!Next
<1> PICK b, all : b = BitmapAt(s) /\ all = b.bit_cnt
  OBVIOUS
<1>1. all \in Nat /\ b \in BitmapsOf(all) /\ DOMAIN Arrays = Used
  BY BitmapInUse
<1>2. SetSoFar(bitmap_set_multiple(b, start, cnt, v), b, all, start, cnt, v)
  BY <1>1, SetMultiple
<1>3. /\ MemoryInv'
      /\ SetTo(s, start..(start + cnt - 1), v)
  BY <1>1, <1>2, RangeWritten
<1>4. /\ cmd'.do = "bitmap_set_multiple" /\ cmd'.at = s
      /\ cmd'.arg[1] = start /\ cmd'.arg[2] = cnt /\ cmd'.arg[3] = v
  BY DEF Does
<1>5. BitmapObjects!Updates(s, cmd'.do, cmd'.arg)
  BY <1>3, <1>4 DEF BitmapObjects!Updates, BitmapObjects!Write, BitmapObjects!Range_, Over, SetTo
<1> QED
  BY <1>3, <1>4, <1>5, IsUpdate

\* Whatever malloc leaves in the elements is junk, and the object moves.
LEMMA ExpandRefines ==
    ASSUME MemoryInv, NEW n, NEW s \in Used, BitmapExpand(s, n), running' = running
    PROVE  MemoryInv' /\ BitmapObjects!Next
<1> PICK b, cnt : b = BitmapAt(s) /\ cnt = b.bit_cnt
  OBVIOUS
<1>1. /\ cnt \in 0..MaxBits /\ cnt \in Nat /\ b \in BitmapsOf(cnt) /\ DOMAIN Arrays = Used
      /\ Arrays[s] = Array(b) /\ BitmapObjects!Size(s) = cnt /\ b = block[Owner(s)]
  BY BitmapInUse DEF BitmapAt, Owner
<1>2. PICK size \in 0..(MaxBits - cnt) :
        \E junk \in Junk(cnt + size) :
           /\ block' = [FreedBlocks({Owner(s)}) EXCEPT ![FreshBlock] = bitmap_expand(b, size, junk)]
           /\ table' = [table EXCEPT !["bitmap"][s].obj = FreshBlock]
           /\ Does("bitmap_expand", n, s, <<size>>, {})
  BY <1>1 DEF BitmapExpand, Owner
<1>3. PICK junk \in Elements(cnt + size) :
         /\ block' = [FreedBlocks({Owner(s)}) EXCEPT ![FreshBlock] = bitmap_expand(b, size, junk)]
         /\ table' = [table EXCEPT !["bitmap"][s].obj = FreshBlock]
         /\ Does("bitmap_expand", n, s, <<size>>, {})
  BY <1>2 DEF Junk
<1> PICK new, all : new = bitmap_expand(b, size, junk) /\ all = cnt + size
  OBVIOUS
<1>4. size \in Nat /\ all \in Nat /\ all \in 0..MaxBits /\ cnt <= all
  BY <1>1, Sizes
<1>5. CopiedSoFar(new, b, all, cnt)
  BY <1>1, <1>4, Expanded
<1>6. new \in BitmapRecord /\ new.bit_cnt = all
  BY <1>4, <1>5 DEF CopiedSoFar, BitmapRecord, BitmapsOf
<1>7. MemoryInv' /\ Arrays' = [Arrays EXCEPT ![s] = Array(new)]
  BY <1>3, <1>6, MemoryMoved
<1>8. cmd'.do = "bitmap_expand" /\ cmd'.arg[1] = size /\ cmd'.at = s
  BY <1>3 DEF Does
<1>9. BitmapObjects!Expand(s, size)
  <2> DEFINE a == Array(new)
  <2>1. /\ a \in [0..(all - 1) -> BOOLEAN] /\ DOMAIN a = 0..(all - 1)
        /\ \A i \in 0..(all - 1) : a[i] = bitmap_test(new, i)
    BY <1>6, TestIsBoolean DEF Array
  <2>2. \A i \in 0..(cnt - 1) : Arrays[s][i] = bitmap_test(b, i)
    BY <1>1 DEF Array
  <2> HIDE DEF a
  <2>3. ASSUME NEW i \in 0..(all - 1), Works(i)
        PROVE  a[i] <=> i < cnt /\ Arrays[s][i]
    <3>1. bitmap_test(new, i) <=> i < cnt /\ bitmap_test(b, i)
      BY <1>5, <2>3 DEF CopiedSoFar
    <3>2. i < cnt => i \in 0..(cnt - 1)
      BY <1>1, <1>4
    <3> QED
      BY <2>1, <2>2, <3>1, <3>2
  <2>4. Arrays' = [Arrays EXCEPT ![s] = a]
    BY <1>7 DEF a
  <2>5. BitmapObjects!Size(s) + size - 1 = all - 1
    BY <1>1
  <2> QED
    BY <1>1, <2>1, <2>3, <2>4, <2>5 DEF BitmapObjects!Expand
<1>10. BitmapObjects!Updates(s, cmd'.do, cmd'.arg)
  BY <1>8, <1>9 DEF BitmapObjects!Updates
<1> QED
  BY <1>7, <1>8, <1>10, IsUpdate

\* A command that answers what Queries says and leaves the bitmaps as they are.
LEMMA IsQuery ==
    ASSUME NEW s \in Used, cmd'.at = s, Arrays' = Arrays,
           BitmapObjects!Queries(s, cmd'.do, cmd'.arg, cmd'.out)
    PROVE  BitmapObjects!Next
BY ArraysAre DEF BitmapObjects!Next

\* A command that only prints keeps the invariant and the arrays.
LEMMA NothingChanges ==
    ASSUME MemoryInv, UNCHANGED <<table, val, block>>, running' = running
    PROVE  MemoryInv' /\ Arrays' = Arrays
<1>1. QuietTable
  BY DEF MemoryInv, TableShape, QuietTable
<1> QED
  BY <1>1, MemoryKept

\* The bits of a range that lies in the bitmap.
LEMMA BitsOfRange ==
    ASSUME MemoryInv, NEW s \in Used, NEW start \in Nat, NEW cnt \in Nat,
           start + cnt <= BitmapAt(s).bit_cnt, NEW i \in start..(start + cnt - 1)
    PROVE  Arrays[s][i] = bitmap_test(BitmapAt(s), i)
<1>1. BitmapAt(s).bit_cnt \in Nat /\ Arrays[s] = Array(BitmapAt(s))
  BY BitmapInUse
<1>2. i \in 0..(BitmapAt(s).bit_cnt - 1)
  BY <1>1
<1> QED
  BY <1>1, <1>2 DEF Array

\* What the loop of bitmap_contains, and of those that are made from it, finds in the array.
LEMMA ContainsFinds ==
    ASSUME MemoryInv, NEW s \in Used, NEW start \in Nat, NEW cnt \in Nat,
           start + cnt <= BitmapAt(s).bit_cnt, NEW v \in BOOLEAN
    PROVE  bitmap_contains(BitmapAt(s), start, cnt, v)
           <=> \E i \in start..(start + cnt - 1) : Arrays[s][i] = v
BY BitsOfRange DEF bitmap_contains

\* bitmap_any, bitmap_none and bitmap_all print what the array has in the range, empty or not.
LEMMA AnswersRefine ==
    ASSUME MemoryInv, NEW n, NEW s \in Used, NEW start \in Nat, NEW cnt \in Nat, NEW r,
           r = <<start, cnt>>, start + cnt <= BitmapAt(s).bit_cnt,
           UNCHANGED <<table, val, block>>, running' = running,
           \/ Does("bitmap_any", n, s, r, bitmap_any(BitmapAt(s), start, cnt))
           \/ Does("bitmap_none", n, s, r, bitmap_none(BitmapAt(s), start, cnt))
           \/ Does("bitmap_all", n, s, r, bitmap_all(BitmapAt(s), start, cnt))
    PROVE  MemoryInv' /\ BitmapObjects!Next
<1> PICK b : b = BitmapAt(s)
  OBVIOUS
<1>1. MemoryInv' /\ Arrays' = Arrays
  BY NothingChanges
<1> DEFINE within == start..(start + cnt - 1)
           ones == {i \in within : Arrays[s][i]}
<1>2. \A i \in within : Arrays[s][i] \in BOOLEAN
  BY BitsOfRange, TestIsBoolean
<1>3. /\ bitmap_contains(b, start, cnt, TRUE) <=> ones # {}
      /\ bitmap_contains(b, start, cnt, FALSE) <=> ones # within
  <2>1. /\ bitmap_contains(b, start, cnt, TRUE) <=> \E i \in within : Arrays[s][i] = TRUE
        /\ bitmap_contains(b, start, cnt, FALSE) <=> \E i \in within : Arrays[s][i] = FALSE
    BY ContainsFinds
  <2> HIDE DEF within
  <2> QED
    BY <1>2, <2>1
<1>4. cmd'.at = s /\ cmd'.arg[1] = start /\ cmd'.arg[2] = cnt
  BY DEF Does
<1>5. BitmapObjects!Range_(cmd'.arg[1], cmd'.arg[2]) = within
  BY <1>4 DEF BitmapObjects!Range_
<1> HIDE DEF within
<1>6. CASE Does("bitmap_any", n, s, r, bitmap_any(b, start, cnt))
  <2>1. cmd'.do = "bitmap_any" /\ cmd'.out = (ones # {})
    BY <1>3, <1>6 DEF Does, bitmap_any, bitmap_contains
  <2> QED
    BY <1>1, <1>4, <1>5, <2>1, IsQuery DEF BitmapObjects!Queries
<1>7. CASE Does("bitmap_none", n, s, r, bitmap_none(b, start, cnt))
  <2>1. cmd'.do = "bitmap_none" /\ cmd'.out = (ones = {})
    BY <1>3, <1>7 DEF Does, bitmap_none
  <2> QED
    BY <1>1, <1>4, <1>5, <2>1, IsQuery DEF BitmapObjects!Queries
<1>8. CASE Does("bitmap_all", n, s, r, bitmap_all(b, start, cnt))
  <2>1. cmd'.do = "bitmap_all" /\ cmd'.out = (ones = within)
    BY <1>3, <1>8 DEF Does, bitmap_all
  <2> QED
    BY <1>1, <1>4, <1>5, <2>1, IsQuery DEF BitmapObjects!Queries
<1> QED
  BY <1>6, <1>7, <1>8

\* So do bitmap_count and bitmap_contains.
LEMMA CountsRefine ==
    ASSUME MemoryInv, NEW n, NEW s \in Used, NEW start \in Nat, NEW cnt \in Nat,
           NEW v \in BOOLEAN, start + cnt <= BitmapAt(s).bit_cnt,
           UNCHANGED <<table, val, block>>, running' = running,
           \/ Does("bitmap_count", n, s, <<start, cnt, v>>,
                   bitmap_count(BitmapAt(s), start, cnt, v))
           \/ Does("bitmap_contains", n, s, <<start, cnt, v>>,
                   bitmap_contains(BitmapAt(s), start, cnt, v))
    PROVE  MemoryInv' /\ BitmapObjects!Next
<1> PICK b : b = BitmapAt(s)
  OBVIOUS
<1>1. MemoryInv' /\ Arrays' = Arrays
  BY NothingChanges
<1> DEFINE within == start..(start + cnt - 1)
           ones == {i \in within : Arrays[s][i]}
<1>2. \A i \in within : Arrays[s][i] \in BOOLEAN /\ Arrays[s][i] = bitmap_test(b, i)
  BY BitsOfRange, TestIsBoolean
<1>3. bitmap_contains(b, start, cnt, v) <=> (IF v THEN ones # {} ELSE ones # within)
  <2>1. bitmap_contains(b, start, cnt, v) <=> \E i \in within : Arrays[s][i] = v
    BY ContainsFinds
  <2> HIDE DEF within
  <2> QED
    BY <1>2, <2>1
<1>4. {i \in within : bitmap_test(b, i) = v} = IF v THEN ones ELSE within \ ones
  <2> HIDE DEF within
  <2> QED
    BY <1>2
<1>5. cmd'.at = s /\ cmd'.arg[1] = start /\ cmd'.arg[2] = cnt /\ cmd'.arg[3] = v
  BY DEF Does
<1>6. BitmapObjects!Range_(cmd'.arg[1], cmd'.arg[2]) = within
  BY <1>5 DEF BitmapObjects!Range_
<1>7. CASE Does("bitmap_count", n, s, <<start, cnt, v>>, bitmap_count(b, start, cnt, v))
  <2>1. cmd'.do = "bitmap_count" /\ cmd'.out = bitmap_count(b, start, cnt, v)
    BY <1>7 DEF Does
  <2>2. bitmap_count(b, start, cnt, v) = Cardinality(IF v THEN ones ELSE within \ ones)
    BY <1>4 DEF bitmap_count
  <2> HIDE DEF within
  <2> QED
    BY <1>1, <1>5, <1>6, <2>1, <2>2, IsQuery, SameCardinality DEF BitmapObjects!Queries
<1>8. CASE Does("bitmap_contains", n, s, <<start, cnt, v>>, bitmap_contains(b, start, cnt, v))
  <2>1. cmd'.do = "bitmap_contains" /\ cmd'.out = bitmap_contains(b, start, cnt, v)
    BY <1>8 DEF Does
  <2>2. bitmap_contains(b, start, cnt, v) \in BOOLEAN
    BY DEF bitmap_contains
  <2> HIDE DEF within
  <2> QED
    BY <1>1, <1>3, <1>5, <1>6, <2>1, <2>2, IsQuery DEF BitmapObjects!Queries
<1> QED
  BY <1>7, <1>8

\* Every command that only asks is the query of its name.
LEMMA QueriesRefine ==
    ASSUME MemoryInv, NEW n, NEW s \in Used, BitmapQuery(s, n), running' = running
    PROVE  MemoryInv' /\ BitmapObjects!Next
<1> PICK b : b = BitmapAt(s)
  OBVIOUS
<1>1. /\ MemoryInv' /\ Arrays' = Arrays /\ UNCHANGED <<table, val, block>>
  BY NothingChanges DEF BitmapQuery
<1>2. /\ b.bit_cnt \in Nat /\ Arrays[s] = Array(b) /\ BitmapObjects!Size(s) = b.bit_cnt
  BY BitmapInUse
<1>3. CASE Does("bitmap_size", n, s, << >>, b.bit_cnt)
  <2>1. cmd'.at = s /\ cmd'.do = "bitmap_size" /\ cmd'.out = b.bit_cnt
    BY <1>3 DEF Does
  <2> QED
    BY <1>1, <1>2, <2>1, IsQuery DEF BitmapObjects!Queries
<1>4. ASSUME NEW i \in 0..(b.bit_cnt - 1), Does("bitmap_test", n, s, <<i>>, bitmap_test(b, i))
      PROVE  MemoryInv' /\ BitmapObjects!Next
  <2>1. cmd'.at = s /\ cmd'.do = "bitmap_test" /\ cmd'.arg[1] = i /\ cmd'.out = bitmap_test(b, i)
    BY <1>4 DEF Does
  <2>2. Arrays[s][i] = bitmap_test(b, i)
    BY <1>2 DEF Array
  <2> QED
    BY <1>1, <2>1, <2>2, IsQuery DEF BitmapObjects!Queries
<1>5. ASSUME NEW r \in RangesIn(b)
      PROVE  r[1] \in Nat /\ r[2] \in Nat /\ r = <<r[1], r[2]>> /\ r[1] + r[2] <= b.bit_cnt
  BY <1>2 DEF RangesIn
<1>6. ASSUME NEW r \in RangesIn(b),
             \/ Does("bitmap_any", n, s, r, bitmap_any(b, r[1], r[2]))
             \/ Does("bitmap_none", n, s, r, bitmap_none(b, r[1], r[2]))
             \/ Does("bitmap_all", n, s, r, bitmap_all(b, r[1], r[2]))
      PROVE  MemoryInv' /\ BitmapObjects!Next
  BY <1>1, <1>5, <1>6, AnswersRefine
<1>7. ASSUME NEW r \in RangesIn(b), NEW v \in BOOLEAN,
             \/ Does("bitmap_count", n, s, <<r[1], r[2], v>>, bitmap_count(b, r[1], r[2], v))
             \/ Does("bitmap_contains", n, s, <<r[1], r[2], v>>,
                     bitmap_contains(b, r[1], r[2], v))
      PROVE  MemoryInv' /\ BitmapObjects!Next
  BY <1>1, <1>5, <1>7, CountsRefine
<1> QED
  BY <1>3, <1>4, <1>6, <1>7 DEF BitmapQuery

\* bitmap_scan finds the first group, or reports that there is none.
LEMMA ScanFinds ==
    ASSUME MemoryInv, NEW s \in Used, NEW start \in 0..(BitmapAt(s).bit_cnt), NEW cnt \in Nat,
           NEW v \in BOOLEAN, NEW found, found = bitmap_scan(BitmapAt(s), start, cnt, v)
    PROVE  /\ BitmapObjects!FirstGroup(s, start, cnt, v, found)
           /\ found = BITMAP_ERROR \/ (found \in Nat /\ found + cnt <= BitmapAt(s).bit_cnt)
<1> PICK b, all : b = BitmapAt(s) /\ all = b.bit_cnt
  OBVIOUS
<1>1. all \in Nat /\ BitmapObjects!Size(s) = all
  BY BitmapInUse
<1> DEFINE places == {k \in start..(all - cnt) : ~bitmap_contains(b, k, cnt, ~v)}
           groups == {k \in start..all : BitmapObjects!Group(s, k, cnt, v)}
<1>2. places = groups
  <2>1. ASSUME NEW k \in start..all
        PROVE  k \in places <=> k \in groups
    <3>1. k \in Nat /\ (k \in start..(all - cnt) <=> k + cnt <= all)
      BY <1>1
    <3>2. CASE k + cnt <= all
      <4>1. bitmap_contains(b, k, cnt, ~v) <=> \E i \in k..(k + cnt - 1) : Arrays[s][i] = ~v
        BY <3>1, <3>2, ContainsFinds
      <4>2. \A i \in k..(k + cnt - 1) : Arrays[s][i] \in BOOLEAN
        BY <3>1, <3>2, BitsOfRange, TestIsBoolean
      <4>3. BitmapObjects!Group(s, k, cnt, v) <=> \A i \in k..(k + cnt - 1) : Arrays[s][i] = v
        BY <1>1, <3>2 DEF BitmapObjects!Group, BitmapObjects!Range_
      <4> QED
        BY <3>1, <3>2, <4>1, <4>2, <4>3
    <3>3. CASE ~(k + cnt <= all)
      BY <1>1, <3>1, <3>3 DEF BitmapObjects!Group
    <3> QED
      BY <3>2, <3>3
  <2>2. start..(all - cnt) \subseteq start..all
    BY <1>1
  <2> QED
    BY <2>1, <2>2
<1>3. found = IF places = {} THEN BITMAP_ERROR ELSE Min(places)
  BY DEF bitmap_scan
<1>4. CASE places = {}
  BY <1>1, <1>2, <1>3, <1>4 DEF BitmapObjects!FirstGroup
<1>5. CASE places # {}
  <2>1. places \subseteq Nat
    BY <1>1
  <2>2. found \in places /\ \A k \in places : found <= k
    <3> HIDE DEF places
    <3> QED
      BY <1>3, <1>5, <2>1, LeastNumber
  <2>3. found \in start..(all - cnt)
    BY <2>2
  <2>4. BitmapObjects!FirstGroup(s, start, cnt, v, found)
    <3> HIDE DEF places
    <3> QED
      BY <1>1, <1>2, <1>5, <2>2 DEF BitmapObjects!FirstGroup
  <2> QED
    BY <1>1, <2>3, <2>4
<1> QED
  BY <1>4, <1>5

\* bitmap_scan, and bitmap_scan_and_flip, which writes the group that was found, or nothing.
LEMMA ScanRefines ==
    ASSUME MemoryInv, NEW n, NEW s \in Used, BitmapScan(s, n), running' = running
    PROVE  MemoryInv' /\ BitmapObjects!Next
<1> PICK b, all : b = BitmapAt(s) /\ all = b.bit_cnt
  OBVIOUS
<1>1. all \in Nat /\ b \in BitmapsOf(all) /\ DOMAIN Arrays = Used /\ b \in BitmapRecord
  <2>1. all \in 0..MaxBits /\ all \in Nat /\ b \in BitmapsOf(all) /\ DOMAIN Arrays = Used
    BY BitmapInUse
  <2> QED
    BY <2>1 DEF BitmapRecord
<1>2. PICK start \in 0..all, cnt \in 0..(MaxBits + 1), v \in BOOLEAN :
        \/ /\ Does("bitmap_scan", n, s, <<start, cnt, v>>, bitmap_scan(b, start, cnt, v))
           /\ UNCHANGED <<table, val, block>>
        \/ /\ InBitmap(s, bitmap_scan_and_flip(b, start, cnt, v))
           /\ Does("bitmap_scan_and_flip", n, s, <<start, cnt, v>>, bitmap_scan(b, start, cnt, v))
  BY DEF BitmapScan
<1> PICK found : found = bitmap_scan(b, start, cnt, v)
  OBVIOUS
<1>3. cnt \in Nat
  BY Sizes
<1>4. /\ BitmapObjects!FirstGroup(s, start, cnt, v, found)
      /\ found = BITMAP_ERROR \/ (found \in Nat /\ found + cnt <= all)
  BY <1>3, ScanFinds
<1>5. /\ cmd'.at = s /\ cmd'.out = found
      /\ cmd'.arg[1] = start /\ cmd'.arg[2] = cnt /\ cmd'.arg[3] = v
  BY <1>2 DEF Does
<1>6. CASE Does("bitmap_scan", n, s, <<start, cnt, v>>, found) /\ UNCHANGED <<table, val, block>>
  <2>1. MemoryInv' /\ Arrays' = Arrays /\ cmd'.do = "bitmap_scan"
    BY <1>6, NothingChanges DEF Does
  <2> QED
    BY <1>4, <1>5, <2>1, IsQuery DEF BitmapObjects!Queries
<1>7. CASE /\ InBitmap(s, bitmap_scan_and_flip(b, start, cnt, v))
           /\ Does("bitmap_scan_and_flip", n, s, <<start, cnt, v>>, found)
  <2>1. cmd'.do = "bitmap_scan_and_flip"
    BY <1>7 DEF Does
  <2>2. ASSUME MemoryInv', BitmapObjects!ScanAndFlip(s, cmd'.arg, cmd'.out)
        PROVE  MemoryInv' /\ BitmapObjects!Next
    BY <1>1, <1>5, <2>1, <2>2 DEF BitmapObjects!Next
  <2>3. CASE found = BITMAP_ERROR
    <3>1. InBitmap(s, b)
      BY <1>7, <2>3 DEF bitmap_scan_and_flip
    <3>2. MemoryInv' /\ Arrays' = [Arrays EXCEPT ![s] = Array(b)]
      BY <1>1, <3>1, MemoryWritten
    <3>3. Arrays' = Arrays
      BY <3>2, ArraysAre
    <3> QED
      BY <1>4, <1>5, <2>2, <2>3, <3>2, <3>3 DEF BitmapObjects!ScanAndFlip
  <2>4. CASE found # BITMAP_ERROR
    <3>1. found \in Nat /\ found + cnt <= all
      BY <1>4, <2>4
    <3> PICK w : w = ~v
      OBVIOUS
    <3>2. w \in BOOLEAN
      OBVIOUS
    <3>3. InBitmap(s, bitmap_set_multiple(b, found, cnt, w))
      BY <1>7, <2>4 DEF bitmap_scan_and_flip
    <3>4. SetSoFar(bitmap_set_multiple(b, found, cnt, w), b, all, found, cnt, w)
      BY <1>1, <1>3, <3>1, <3>2, SetMultiple
    <3>5. MemoryInv' /\ SetTo(s, found..(found + cnt - 1), w)
      BY <1>3, <3>1, <3>2, <3>3, <3>4, RangeWritten
    <3>6. BitmapObjects!ScanAndFlip(s, cmd'.arg, cmd'.out)
      BY <1>4, <1>5, <2>4, <3>5
         DEF BitmapObjects!ScanAndFlip, BitmapObjects!Write, BitmapObjects!Range_, Over, SetTo
    <3> QED
      BY <2>2, <3>5, <3>6
  <2> QED
    BY <2>3, <2>4
<1> QED
  BY <1>2, <1>6, <1>7

\* Every command that writes bits is the update of its name.
LEMMA UpdatesRefine ==
    ASSUME MemoryInv, NEW n, NEW s \in Used, BitmapUpdate(s, n), running' = running
    PROVE  MemoryInv' /\ BitmapObjects!Next
<1> PICK b : b = BitmapAt(s)
  OBVIOUS
<1>1. b.bit_cnt \in Nat
  BY BitmapInUse
<1>2. ASSUME NEW i \in 0..(b.bit_cnt - 1),
             \/ InBitmap(s, bitmap_mark(b, i)) /\ Does("bitmap_mark", n, s, <<i>>, {})
             \/ InBitmap(s, bitmap_reset(b, i)) /\ Does("bitmap_reset", n, s, <<i>>, {})
             \/ InBitmap(s, bitmap_flip(b, i)) /\ Does("bitmap_flip", n, s, <<i>>, {})
             \/ \E v \in BOOLEAN : /\ InBitmap(s, bitmap_set(b, i, v))
                                   /\ Does("bitmap_set", n, s, <<i, v>>, {})
      PROVE  MemoryInv' /\ BitmapObjects!Next
  BY <1>2, MarkRefines, ResetRefines, FlipRefines, SetRefines
<1>3. ASSUME NEW v \in BOOLEAN, InBitmap(s, bitmap_set_all(b, v)),
             Does("bitmap_set_all", n, s, <<v>>, {})
      PROVE  MemoryInv' /\ BitmapObjects!Next
  BY <1>3, SetAllRefines
<1>4. ASSUME NEW r \in RangesIn(b), NEW v \in BOOLEAN,
             InBitmap(s, bitmap_set_multiple(b, r[1], r[2], v)),
             Does("bitmap_set_multiple", n, s, <<r[1], r[2], v>>, {})
      PROVE  MemoryInv' /\ BitmapObjects!Next
  <2>1. r[1] \in Nat /\ r[2] \in Nat /\ r[1] + r[2] <= b.bit_cnt
    BY <1>1 DEF RangesIn
  <2> QED
    BY <1>4, <2>1, SetMultipleRefines
<1> QED
  BY <1>2, <1>3, <1>4 DEF BitmapUpdate

\* do_bitmap_command keeps the invariant and does what BitmapSpec says.
LEMMA BitmapCommandsRefine ==
    ASSUME MemoryInv, NEW n, do_bitmap_command(n), running' = running
    PROVE  MemoryInv' /\ BitmapObjects!Next
<1> PICK s : s = find_used("bitmap", n)
  OBVIOUS
<1>1. /\ s \in Used
      /\ BitmapUpdate(s, n) \/ BitmapQuery(s, n) \/ BitmapScan(s, n) \/ BitmapExpand(s, n)
  BY FindUsed DEF do_bitmap_command, Used, UsedSlots
<1> QED
  BY <1>1, UpdatesRefine, QueriesRefine, ScanRefines, ExpandRefines

-----------------------------------------------------------------------------
(* The other commands *)

\* The commands that bitmaps know nothing of.
LEMMA IsOther ==
    ASSUME Arrays' = Arrays, cmd'.do \notin BitmapObjects!BitmapWords \union {"quit"}
    PROVE  BitmapObjects!Next
BY DEF BitmapObjects!Next

\* do_hash_command keeps the invariant and changes no bitmap.
LEMMA HashCommandsRefine ==
    ASSUME MemoryInv, NEW n, do_hash_command(n), running' = running
    PROVE  MemoryInv' /\ BitmapObjects!Next
<1>1. MemoryInv' /\ Arrays' = Arrays
  BY HashKeepsBitmaps, MemoryKept DEF MemoryInv
<1>2. cmd'.do \in {"ignored", "hash_insert", "hash_replace", "hash_delete", "hash_clear",
                   "hash_apply", "hash_find", "hash_size", "hash_empty"}
  <2> PICK s : s = find_used("hashtable", n)
    OBVIOUS
  <2>1. ASSUME NEW v, HashInsert(s, n, v) \/ HashReplace(s, n, v) \/ HashDelete(s, n, v)
        PROVE  cmd'.do \in {"hash_insert", "hash_replace", "hash_delete"}
    BY <2>1 DEF HashInsert, HashReplace, HashDelete, Does
  <2>2. ASSUME HashClear(s, n) \/ HashApply(s, n)
        PROVE  cmd'.do \in {"hash_clear", "hash_apply"}
    BY <2>2 DEF HashClear, HashApply, Does
  <2>3. ASSUME HashQuery(s, n)
        PROVE  cmd'.do \in {"hash_find", "hash_size", "hash_empty"}
    BY <2>3 DEF HashQuery, Does
  <2>4. ASSUME NEW word, NEW v, ItemNotMade(s, n, word, v)
        PROVE  cmd'.do = "ignored"
    BY <2>4 DEF ItemNotMade, Does
  <2> QED
    BY <2>1, <2>2, <2>3, <2>4 DEF do_hash_command
<1>3. cmd'.do \notin BitmapObjects!BitmapWords \union {"quit"}
  BY <1>2 DEF BitmapObjects!BitmapWords
<1> QED
  BY <1>1, <1>3, IsOther

\* An object of another kind is put into a slot of its kind.
LEMMA OtherCreated ==
    ASSUME MemoryInv, NEW k \in Kinds \ {"bitmap"}, NEW s \in Slots, NEW n, NEW obj,
           Register(k, s, n, obj), block' = block, running' = running
    PROVE  MemoryInv' /\ Arrays' = Arrays
<1> PICK e : e = [used |-> TRUE, name |-> copy_name(n), obj |-> obj]
  OBVIOUS
<1>1. e = [used |-> e.used, name |-> e.name, obj |-> e.obj] /\ e.used \in BOOLEAN
  OBVIOUS
<1>2. table' = [table EXCEPT ![k][s] = e] /\ TableShape
  BY DEF Register, MemoryInv
<1>3. /\ DOMAIN table' = Kinds /\ \A j \in Kinds : DOMAIN table'[j] = Slots
      /\ \A j \in Kinds, t \in Slots :
            table'[j][t] = IF j = k /\ t = s THEN e ELSE table[j][t]
  BY <1>2 DEF TableShape
<1>4. "bitmap" \in Kinds
  BY DEF Kinds
<1>5. TableShape'
  <2>1. ASSUME NEW j \in Kinds, NEW t \in Slots
        PROVE  /\ table'[j][t] = [used |-> table'[j][t].used, name |-> table'[j][t].name,
                                  obj |-> table'[j][t].obj]
               /\ table'[j][t].used \in BOOLEAN
    <3>1. CASE j = k /\ t = s
      <4>1. table'[j][t] = e
        BY <1>3, <3>1
      <4> QED
        BY <1>1, <4>1
    <3>2. CASE ~(j = k /\ t = s)
      <4>1. table'[j][t] = table[j][t]
        BY <1>3, <3>2
      <4> QED
        BY <1>2, <4>1 DEF TableShape
    <3> QED
      BY <3>1, <3>2
  <2> QED
    BY <1>3, <2>1 DEF TableShape
<1>6. QuietTable
  BY <1>3, <1>4, <1>5 DEF QuietTable
<1> QED
  BY <1>6, MemoryKept

\* create_bitmap_object makes an array whose bits are FALSE, where they work.
LEMMA CreateBitmapRefines ==
    ASSUME MemoryInv, running, NEW n, NEW cnt \in 0..MaxBits, create_bitmap_object(n, cnt),
           running' = running
    PROVE  MemoryInv' /\ BitmapObjects!Next
<1> PICK s : s = find_empty("bitmap")
  OBVIOUS
<1>1. s \in Slots \ Used /\ cnt \in Nat
  <2>1. s # NoSlot
    BY DEF create_bitmap_object
  <2>2. s \in Slots /\ ~table["bitmap"][s].used
    BY <2>1, FindEmpty
  <2>3. cnt \in Nat
    BY Sizes
  <2> QED
    BY <2>2, <2>3 DEF Used, UsedSlots
<1>2. /\ Register("bitmap", s, n, FreshBlock)
      /\ cmd'.do = "create bitmap" /\ cmd'.at = s /\ cmd'.arg[1] = cnt
  BY DEF create_bitmap_object, Does
<1>3. PICK junk \in Elements(cnt) :
         block' = [block EXCEPT ![FreshBlock] = bitmap_create(cnt, junk)]
  BY DEF create_bitmap_object, Junk
<1> PICK new : new = bitmap_create(cnt, junk)
  OBVIOUS
<1>4. /\ new \in BitmapsOf(cnt)
      /\ \A i \in 0..(cnt - 1) : Works(i) => ~bitmap_test(new, i)
  BY <1>1, CreatedFalse
<1>5. new \in BitmapRecord /\ new.bit_cnt = cnt
  BY <1>4 DEF BitmapRecord, BitmapsOf
<1>6. /\ MemoryInv'
      /\ Arrays' = [t \in Used \union {s} |-> IF t = s THEN Array(new) ELSE Arrays[t]]
  BY <1>1, <1>2, <1>3, <1>5, MemoryCreated
<1>7. BitmapObjects!Create(s, cnt)
  <2> DEFINE a == Array(new)
  <2>1. /\ a \in [0..(cnt - 1) -> BOOLEAN] /\ DOMAIN a = 0..(cnt - 1)
        /\ \A i \in 0..(cnt - 1) : a[i] = bitmap_test(new, i)
    BY <1>5, TestIsBoolean DEF Array
  <2>2. DOMAIN Arrays = Used
    BY ArraysAre
  <2>3. Arrays' = [t \in Used \union {s} |-> IF t = s THEN a ELSE Arrays[t]]
    BY <1>6
  <2> HIDE DEF a
  <2> QED
    BY <1>1, <1>4, <2>1, <2>2, <2>3 DEF BitmapObjects!Create
<1> QED
  BY <1>2, <1>6, <1>7 DEF BitmapObjects!Next

\* do_create, of any kind, with or without a free slot and memory.
LEMMA CreateRefines ==
    ASSUME MemoryInv, running, NEW n, do_create(n), running' = running
    PROVE  MemoryInv' /\ BitmapObjects!Next
<1>1. CASE create_list_object(n)
  <2>1. MemoryInv' /\ Arrays' = Arrays
    BY <1>1, FindEmpty, OtherCreated DEF create_list_object, Kinds
  <2>2. cmd'.do = "create list"
    BY <1>1 DEF create_list_object, Does
  <2> QED
    BY <2>1, <2>2, IsOther DEF BitmapObjects!BitmapWords
<1>2. CASE create_hash_object(n)
  <2>1. MemoryInv' /\ Arrays' = Arrays
    BY <1>2, FindEmpty, OtherCreated DEF create_hash_object, Kinds
  <2>2. cmd'.do = "create hashtable"
    BY <1>2 DEF create_hash_object, Does
  <2> QED
    BY <2>1, <2>2, IsOther DEF BitmapObjects!BitmapWords
<1>3. ASSUME NEW cnt \in 0..MaxBits, create_bitmap_object(n, cnt)
      PROVE  MemoryInv' /\ BitmapObjects!Next
  BY <1>3, CreateBitmapRefines
<1>4. ASSUME OutOfMemory(n) \/ \E k \in Kinds : CreateIgnored(k, n)
      PROVE  MemoryInv' /\ BitmapObjects!Next
  <2>1. UNCHANGED <<table, val, block>> /\ cmd'.do = "ignored"
    BY <1>4 DEF OutOfMemory, CreateIgnored, Does
  <2> QED
    BY <2>1, NothingChanges, IsOther DEF BitmapObjects!BitmapWords
<1> QED
  BY <1>1, <1>2, <1>3, <1>4 DEF do_create, Kinds

\* The words for the deletion and the dump of an object, by its kind.
LEMMA Words ==
    /\ DeleteWord["list"] = "delete list" /\ DeleteWord["hashtable"] = "delete hashtable"
    /\ DeleteWord["bitmap"] = "delete bitmap"
    /\ DumpWord["list"] = "dump list" /\ DumpWord["hashtable"] = "dump hashtable"
    /\ DumpWord["bitmap"] = "dump bitmap"
BY DEF DeleteWord, DumpWord

\* The kind of a name is one of the three.
LEMMA ObjectKind ==
    ASSUME NEW n
    PROVE  find_object(n) \in Kinds
BY DEF find_object, Kinds

\* do_delete takes the bitmap away if it is one that the name finds first.
LEMMA DeleteRefines ==
    ASSUME MemoryInv, NEW n, do_delete(n), running' = running
    PROVE  MemoryInv' /\ BitmapObjects!Next
<1> PICK kind, s : kind = find_object(n) /\ s = find_used(kind, n)
  OBVIOUS
<1> DEFINE ss == [k \in Kinds |-> IF k = kind THEN {s} ELSE {}]
<1>1. /\ kind \in Kinds /\ s \in Slots /\ table[kind][s].used
      /\ Destroy(ss) /\ cmd'.do = DeleteWord[kind] /\ cmd'.at = s
  BY FindUsed, ObjectKind DEF do_delete, Does
<1>2. ss \in [Kinds -> SUBSET Slots] /\ ss["bitmap"] = IF kind = "bitmap" THEN {s} ELSE {}
  BY <1>1 DEF Kinds
<1> HIDE DEF ss
<1>3. kind = "bitmap" => s \in Used
  BY <1>1 DEF Used, UsedSlots
<1>4. MemoryInv' /\ Arrays' = [t \in Used \ ss["bitmap"] |-> Arrays[t]]
  BY <1>1, <1>2, <1>3, MemoryDestroyed
<1>5. CASE kind = "bitmap"
  <2>1. /\ cmd'.do = "delete bitmap" /\ Arrays' = [t \in Used \ {s} |-> Arrays[t]]
        /\ DOMAIN Arrays = Used
    BY <1>1, <1>2, <1>4, <1>5, ArraysAre, Words
  <2>2. BitmapObjects!Updates(s, cmd'.do, cmd'.arg)
    BY <2>1 DEF BitmapObjects!Updates, BitmapObjects!Restrict
  <2> QED
    BY <1>1, <1>3, <1>4, <1>5, <2>2, IsUpdate
<1>6. CASE kind # "bitmap"
  <2>1. Arrays' = [t \in Used |-> Arrays[t]]
    BY <1>2, <1>4, <1>6
  <2>2. Arrays' = Arrays
    BY <2>1, ArraysAre
  <2>3. cmd'.do \in {"delete list", "delete hashtable"}
    BY <1>1, <1>6, Words DEF Kinds
  <2> QED
    BY <1>4, <2>2, <2>3, IsOther DEF BitmapObjects!BitmapWords
<1> QED
  BY <1>5, <1>6

\* do_dumpdata prints the array of a bitmap.
LEMMA DumpRefines ==
    ASSUME MemoryInv, NEW n, do_dumpdata(n), running' = running
    PROVE  MemoryInv' /\ BitmapObjects!Next
<1> PICK kind, s : kind = find_object(n) /\ s = find_used(kind, n)
  OBVIOUS
<1>1. /\ kind \in Kinds /\ s \in Slots /\ table[kind][s].used
      /\ cmd'.do = DumpWord[kind] /\ cmd'.at = s
      /\ kind = "bitmap" => cmd'.out = Array(BitmapAt(s))
  BY FindUsed, ObjectKind DEF do_dumpdata, Does, Array
<1>2. MemoryInv' /\ Arrays' = Arrays
  BY NothingChanges DEF do_dumpdata
<1>3. CASE kind = "bitmap"
  <2>1. s \in Used /\ cmd'.do = "dump bitmap" /\ cmd'.out = Arrays[s]
    BY <1>1, <1>3, ArraysAre, Words DEF Used, UsedSlots
  <2> QED
    BY <1>1, <1>2, <2>1, IsQuery DEF BitmapObjects!Queries
<1>4. CASE kind # "bitmap"
  <2>1. cmd'.do \in {"dump list", "dump hashtable"}
    BY <1>1, <1>4, Words DEF Kinds
  <2> QED
    BY <1>2, <2>1, IsOther DEF BitmapObjects!BitmapWords
<1> QED
  BY <1>3, <1>4

\* cleanup_all_objects leaves no bitmap.
LEMMA QuitRefines ==
    ASSUME MemoryInv, Quit
    PROVE  MemoryInv' /\ BitmapObjects!Next
<1> DEFINE ss == [k \in Kinds |-> {s \in Slots : table[k][s].used}]
<1>1. /\ Destroy(ss) /\ cmd'.do = "quit"
      /\ ss \in [Kinds -> SUBSET Slots] /\ ss["bitmap"] = Used
  BY DEF Quit, cleanup_all_objects, Does, Kinds, Used, UsedSlots
<1> HIDE DEF ss
<1>2. MemoryInv' /\ Arrays' = [t \in Used \ ss["bitmap"] |-> Arrays[t]]
  BY <1>1, MemoryDestroyed
<1>3. Used \ ss["bitmap"] = {}
  BY <1>1
<1>4. Arrays' = << >>
  BY <1>2, <1>3
<1> QED
  BY <1>1, <1>2, <1>4 DEF BitmapObjects!Next

-----------------------------------------------------------------------------
\* There are no objects and no blocks at the beginning.
LEMMA InitMemory == Init => MemoryInv /\ BitmapObjects!Init
<1> SUFFICES ASSUME Init PROVE MemoryInv /\ BitmapObjects!Init
  OBVIOUS
<1>1. NotUsed = [used |-> FALSE, name |-> NotUsed.name, obj |-> NotUsed.obj]
      /\ NotUsed.used = FALSE
  BY DEF NotUsed
<1>2. table = [k \in Kinds |-> [s \in Slots |-> NotUsed]] /\ "bitmap" \in Kinds
  BY DEF Init, Kinds
<1>3. TableShape
  BY <1>1, <1>2 DEF TableShape
<1>4. Used = {}
  BY <1>1, <1>2 DEF Used, UsedSlots
<1>5. BlocksAre /\ FreeBlocks = Blocks
  BY DEF Init, BlocksAre, FreeBlocks
<1>6. MemoryInv
  BY <1>3, <1>4, <1>5 DEF MemoryInv, Owned
<1>7. Arrays = << >>
  BY <1>4, ArraysAre
<1>8. cmd.do = "start"
  BY DEF Init
<1> QED
  BY <1>6, <1>7, <1>8 DEF BitmapObjects!Init

\* Every step keeps the invariant, and is one of BitmapSpec or changes nothing it sees.
LEMMA NextMemory ==
    ASSUME MemoryInv, [Next]_vars
    PROVE  MemoryInv' /\ [BitmapObjects!Next]_(BitmapObjects!bsVars)
<1>1. CASE UNCHANGED vars
  <2>1. UNCHANGED <<table, val, block, running, cmd>>
    BY <1>1 DEF vars
  <2> QED
    BY <2>1, NothingChanges DEF BitmapObjects!bsVars
<1>2. CASE Quit
  BY <1>2, QuitRefines
<1>3. ASSUME NEW n \in Names, running, running' = running, Command(n)
      PROVE  MemoryInv' /\ BitmapObjects!Next
  BY <1>3, CreateRefines, DeleteRefines, DumpRefines, HashCommandsRefine, BitmapCommandsRefine
     DEF Command
<1> QED
  BY <1>1, <1>2, <1>3 DEF Next

\* What the memory invariant says of the blocks and the objects together.
LEMMA MemoryMeans == MemoryInv => BitmapsHaveOwners
<1> SUFFICES ASSUME MemoryInv PROVE BitmapsHaveOwners
  OBVIOUS
<1>1. /\ \A s \in Used : Owner(s) \in Blocks \ FreeBlocks
      /\ \A s, t \in Used : Owner(s) = Owner(t) => s = t
      /\ \A b \in Blocks \ FreeBlocks : \E s \in Used : Owner(s) = b
  BY DEF MemoryInv, Owned
<1>2. Blocks \ FreeBlocks = {Owner(s) : s \in Used}
  BY <1>1
<1>3. IsFiniteSet(Used)
  <2>1. Used \in SUBSET Slots
    BY DEF Used, UsedSlots
  <2> QED
    BY <2>1, Sizes, FS_Subset
<1>4. Cardinality(Blocks \ FreeBlocks) = Cardinality(Used)
  <2> DEFINE f == [s \in Used |-> Owner(s)]
             T == Blocks \ FreeBlocks
  <2>1. f \in Surjection(Used, T) /\ f \in Injection(Used, T)
    BY <1>1 DEF Surjection, Injection, IsInjective
  <2> HIDE DEF f, T
  <2>2. Cardinality(T) = Cardinality(Used)
    BY <1>3, <2>1, FS_Surjection
  <2> QED
    BY <2>2 DEF T
<1>5. ~running => FreeBlocks = Blocks
  <2>1. FreeBlocks \subseteq Blocks
    BY DEF FreeBlocks
  <2> QED
    BY <1>1, <2>1 DEF MemoryInv
<1> QED
  BY <1>2, <1>4, <1>5 DEF BitmapsHaveOwners, Used, Owner

\* No bitmap is lost, shared or used after it was freed, whatever bitmap_expand allocates and
\* frees, and none is left when the interpreter ends.
THEOREM BitmapsOwned == Spec => []BitmapsHaveOwners
<1>1. Init => MemoryInv
  BY InitMemory
<1>2. MemoryInv /\ [Next]_vars => MemoryInv'
  BY NextMemory
<1> QED
  BY <1>1, <1>2, MemoryMeans, PTL DEF Spec

\* Every command on bitmaps does to the elements what BitmapSpec says of an array of booleans,
\* for every size of element, every reach of the instructions and every size of bitmap.
THEOREM BitmapsImplemented == Spec => ImplementsBitmapSpec
<1>1. Init => MemoryInv /\ BitmapObjects!Init
  BY InitMemory
<1>2. MemoryInv /\ [Next]_vars => MemoryInv' /\ [BitmapObjects!Next]_(BitmapObjects!bsVars)
  BY NextMemory
<1> QED
  BY <1>1, <1>2, PTL DEF Spec, ImplementsBitmapSpec, BitmapObjects!Spec

-----------------------------------------------------------------------------
(* Sequences without repetition *)

\* A list of items in which none is twice.
Chain(s) ==
    /\ s \in Seq(Items)
    /\ \A p, q \in 1..Len(s) : s[p] = s[q] => p = q

\* The items of a list.
LEMMA ChainRange ==
    ASSUME NEW s \in Seq(Items)
    PROVE  /\ Len(s) \in Nat /\ DOMAIN s = 1..Len(s)
           /\ Range(s) = {s[p] : p \in 1..Len(s)}
           /\ Range(s) \subseteq Items
BY LenProperties, ElementOfSeq DEF Range

\* Lists without an item in common, one after the other.
LEMMA ChainConcat ==
    ASSUME NEW s, NEW t, Chain(s), Chain(t), Range(s) \intersect Range(t) = {}
    PROVE  Chain(s \o t) /\ Range(s \o t) = Range(s) \union Range(t)
<1> PICK m, n, st : m = Len(s) /\ n = Len(t) /\ st = s \o t
  OBVIOUS
<1>1. /\ s \in Seq(Items) /\ t \in Seq(Items) /\ m \in Nat /\ n \in Nat
      /\ Range(s) = {s[p] : p \in 1..m} /\ Range(t) = {t[p] : p \in 1..n}
  BY ChainRange DEF Chain
<1>2. /\ st \in Seq(Items) /\ Len(st) = m + n
      /\ \A p \in 1..(m + n) : st[p] = IF p <= m THEN s[p] ELSE t[p - m]
  BY <1>1, ConcatProperties
<1>3. ASSUME NEW p \in 1..(m + n), NEW q \in 1..(m + n), st[p] = st[q]
      PROVE  p = q
  <2>1. CASE p <= m /\ q <= m
    BY <1>1, <1>2, <1>3, <2>1 DEF Chain
  <2>2. CASE p > m /\ q > m
    <3>1. p - m \in 1..n /\ q - m \in 1..n /\ t[p - m] = t[q - m]
      BY <1>1, <1>2, <1>3, <2>2
    <3>2. p - m = q - m
      BY <3>1 DEF Chain
    <3> QED
      BY <1>1, <3>2
  <2>3. ASSUME NEW i \in 1..m, NEW j \in 1..n
        PROVE  s[i] # t[j]
    BY <1>1
  <2>4. CASE p <= m /\ q > m
    <3>1. p \in 1..m /\ q - m \in 1..n /\ s[p] = t[q - m]
      BY <1>1, <1>2, <1>3, <2>4
    <3> QED
      BY <2>3, <3>1
  <2>5. CASE p > m /\ q <= m
    <3>1. q \in 1..m /\ p - m \in 1..n /\ s[q] = t[p - m]
      BY <1>1, <1>2, <1>3, <2>5
    <3> QED
      BY <2>3, <3>1
  <2> QED
    BY <1>1, <2>1, <2>2, <2>4, <2>5
<1>4. Range(st) = Range(s) \union Range(t)
  BY <1>1, RangeConcatenation
<1> QED
  BY <1>1, <1>2, <1>3, <1>4 DEF Chain

\* A new item in front.
LEMMA ChainCons ==
    ASSUME NEW s, Chain(s), NEW i \in Items \ Range(s)
    PROVE  Chain(<<i>> \o s) /\ Range(<<i>> \o s) = Range(s) \union {i}
<1> PICK one : one = <<i>>
  OBVIOUS
<1>1. one \in Seq(Items) /\ Len(one) = 1 /\ one[1] = i
  OBVIOUS
<1>2. Chain(one)
  BY <1>1 DEF Chain
<1>3. Range(one) = {i}
  <2>1. Range(one) = {one[p] : p \in 1..1}
    BY <1>1, ChainRange
  <2> QED
    BY <1>1, <2>1
<1>4. Range(one) \intersect Range(s) = {}
  BY <1>3
<1>5. Chain(one \o s) /\ Range(one \o s) = Range(one) \union Range(s)
  BY <1>2, <1>4, ChainConcat
<1> QED
  BY <1>3, <1>5

\* What is before position k of a list.
LEMMA Before ==
    ASSUME NEW S, NEW s \in Seq(S), NEW k \in 1..Len(s), NEW a, a = SubSeq(s, 1, k - 1)
    PROVE  /\ a \in Seq(S) /\ Len(a) = k - 1
           /\ \A p \in 1..(k - 1) : a[p] = s[p]
<1>1. a \in Seq(S)
  OBVIOUS
<1>2. Len(a) = k - 1
  OBVIOUS
<1>3. \A p \in 1..(k - 1) : a[p] = s[p]
  OBVIOUS
<1> QED
  BY <1>1, <1>2, <1>3

\* And what is after it.
LEMMA After ==
    ASSUME NEW S, NEW s \in Seq(S), NEW k \in 1..Len(s), NEW c, c = SubSeq(s, k + 1, Len(s))
    PROVE  /\ c \in Seq(S) /\ Len(c) = Len(s) - k
           /\ \A p \in 1..(Len(s) - k) : c[p] = s[k + p]
<1>1. c \in Seq(S)
  OBVIOUS
<1>2. Len(c) = Len(s) - k
  OBVIOUS
<1>3. \A p \in 1..(Len(s) - k) : c[p] = s[k + p]
  OBVIOUS
<1> QED
  BY <1>1, <1>2, <1>3

\* A list without the item at position k.
LEMMA ChainCut ==
    ASSUME NEW s, Chain(s), NEW k \in 1..Len(s)
    PROVE  Chain(RemoveAt(s, k)) /\ Range(RemoveAt(s, k)) = Range(s) \ {s[k]}
<1> PICK n, a, c : n = Len(s) /\ a = SubSeq(s, 1, k - 1) /\ c = SubSeq(s, k + 1, Len(s))
  OBVIOUS
<1>1. /\ s \in Seq(Items) /\ n \in Nat /\ k \in 1..n
      /\ Range(s) = {s[p] : p \in 1..n}
      /\ \A p, q \in 1..n : s[p] = s[q] => p = q
  BY ChainRange DEF Chain
<1>2. /\ a \in Seq(Items) /\ Len(a) = k - 1
      /\ \A p \in 1..(k - 1) : a[p] = s[p]
  BY <1>1, Before
<1>3. /\ c \in Seq(Items) /\ Len(c) = n - k
      /\ \A p \in 1..(n - k) : c[p] = s[k + p]
  BY <1>1, After
<1>4. RemoveAt(s, k) = a \o c
  BY DEF RemoveAt
<1>5. Chain(a)
  <2>1. ASSUME NEW p \in 1..(k - 1), NEW q \in 1..(k - 1), a[p] = a[q]
        PROVE  p = q
    <3>1. p \in 1..n /\ q \in 1..n
      BY <1>1
    <3> QED
      BY <1>1, <1>2, <2>1, <3>1
  <2> QED
    BY <1>2, <2>1 DEF Chain
<1>6. Chain(c)
  <2>1. ASSUME NEW p \in 1..(n - k), NEW q \in 1..(n - k), c[p] = c[q]
        PROVE  p = q
    <3>1. k + p \in 1..n /\ k + q \in 1..n
      BY <1>1
    <3>2. s[k + p] = s[k + q]
      BY <1>3, <2>1
    <3>3. k + p = k + q
      BY <1>1, <3>1, <3>2
    <3> QED
      BY <1>1, <3>3
  <2> QED
    BY <1>3, <2>1 DEF Chain
<1>7. Range(a) = {s[p] : p \in 1..(k - 1)}
  <2>1. Range(a) = {a[p] : p \in 1..(k - 1)}
    BY <1>2, ChainRange
  <2> QED
    BY <1>2, <2>1
<1>8. Range(c) = {s[k + p] : p \in 1..(n - k)}
  <2>1. Range(c) = {c[p] : p \in 1..(n - k)}
    BY <1>3, ChainRange
  <2> QED
    BY <1>3, <2>1
<1>9. Range(a) \intersect Range(c) = {}
  <2> SUFFICES ASSUME NEW p \in 1..(k - 1), NEW q \in 1..(n - k), s[p] = s[k + q] PROVE FALSE
    BY <1>7, <1>8
  <2>1. p \in 1..n /\ k + q \in 1..n /\ p # k + q
    BY <1>1
  <2> QED
    BY <1>1, <2>1
<1>10. Chain(a \o c) /\ Range(a \o c) = Range(a) \union Range(c)
  BY <1>5, <1>6, <1>9, ChainConcat
<1>11. ASSUME NEW x
       PROVE  x \in Range(s) \ {s[k]} <=> x \in Range(a) \/ x \in Range(c)
  <2>1. ASSUME NEW p \in 1..(k - 1)
        PROVE  s[p] \in Range(s) \ {s[k]}
    <3>1. p \in 1..n /\ p # k
      BY <1>1
    <3> QED
      BY <1>1, <3>1
  <2>2. ASSUME NEW p \in 1..(n - k)
        PROVE  s[k + p] \in Range(s) \ {s[k]}
    <3>1. k + p \in 1..n /\ k + p # k
      BY <1>1
    <3> QED
      BY <1>1, <3>1
  <2>3. ASSUME NEW p \in 1..n, p # k, s[p] = x
        PROVE  x \in Range(a) \/ x \in Range(c)
    <3>1. p \in 1..(k - 1) \/ (p - k \in 1..(n - k) /\ k + (p - k) = p)
      BY <1>1, <2>3
    <3> QED
      BY <1>7, <1>8, <2>3, <3>1
  <2> QED
    BY <1>1, <1>7, <1>8, <2>1, <2>2, <2>3
<1> QED
  BY <1>4, <1>10, <1>11

\* list_remove takes one item out and leaves the others.
LEMMA ChainRemove ==
    ASSUME NEW s, Chain(s), NEW i
    PROVE  Chain(RemoveFirst(s, i)) /\ Range(RemoveFirst(s, i)) = Range(s) \ {i}
<1> PICK n : n = Len(s)
  OBVIOUS
<1>1. /\ n \in Nat
      /\ Range(s) = {s[p] : p \in 1..n}
  BY ChainRange DEF Chain
<1>2. CASE \E p \in 1..n : s[p] = i
  <2> DEFINE I == {p \in 1..n : s[p] = i}
  <2>1. I # {} /\ I \subseteq Nat
    BY <1>1, <1>2
  <2> PICK k : k = Min(I)
    OBVIOUS
  <2>2. k \in I
    <3> HIDE DEF I
    <3> QED
      BY <2>1, LeastNumber
  <2>3. SelectInSeq(s, LAMBDA v : v = i) = k
    BY <2>1 DEF SelectInSeq
  <2>4. RemoveFirst(s, i) = RemoveAt(s, k)
    BY <1>2, <2>3 DEF RemoveFirst
  <2>5. k \in 1..Len(s) /\ s[k] = i
    BY <2>2
  <2>6. Chain(RemoveAt(s, k)) /\ Range(RemoveAt(s, k)) = Range(s) \ {s[k]}
    BY <2>5, ChainCut
  <2> QED
    BY <2>4, <2>5, <2>6
<1>3. CASE ~\E p \in 1..n : s[p] = i
  <2>1. RemoveFirst(s, i) = s
    BY <1>3 DEF RemoveFirst
  <2> QED
    BY <1>1, <1>3, <2>1
<1> QED
  BY <1>2, <1>3

-----------------------------------------------------------------------------
(* Folds *)

\* c takes one element of every part of T.
Chooses(c, T) == \A s \in SUBSET T : s # {} => c[s] \in s

\* Q has the part without elements, and a part if it has it without the element c takes.
Grows(Q, T, c) == {} \in Q /\ \A s \in SUBSET T : s # {} /\ s \ {c[s]} \in Q => s \in Q

\* The sizes of the parts of a set of n elements; c takes one element of a part.
SizesOf(size, T, n, c) ==
    /\ \A s \in SUBSET T : size[s] \in 0..n /\ (size[s] = 0 <=> s = {})
    /\ \A s \in SUBSET T : s # {} => /\ c[s] \in T /\ s \ {c[s]} \in SUBSET T
                                     /\ size[s \ {c[s]}] = size[s] - 1

\* The parts of a finite set have sizes; without one of its elements a part is smaller.
LEMMA PartSizes ==
    ASSUME NEW T, IsFiniteSet(T), NEW c, Chooses(c, T)
    PROVE  \E n \in Nat : \E size : SizesOf(size, T, n, c)
<1>1. PICK n \in Nat : n = Cardinality(T)
  BY FS_CardinalityType
<1>0. PICK size : size = [s \in SUBSET T |-> Cardinality(s)]
  OBVIOUS
<1>2. SizesOf(size, T, n, c)
  <2> SUFFICES ASSUME NEW s \in SUBSET T
               PROVE  /\ size[s] \in 0..n /\ (size[s] = 0 <=> s = {})
                      /\ s # {} => /\ c[s] \in T /\ s \ {c[s]} \in SUBSET T
                                   /\ size[s \ {c[s]}] = size[s] - 1
    BY DEF SizesOf
  <2>1. IsFiniteSet(s) /\ Cardinality(s) \in Nat /\ Cardinality(s) <= n
    BY <1>1, FS_Subset, FS_CardinalityType
  <2>2. Cardinality(s) = 0 <=> s = {}
    BY <2>1, FS_EmptySet
  <2>3. ASSUME s # {}
        PROVE  Cardinality(s \ {c[s]}) = Cardinality(s) - 1
    <3>1. c[s] \in s
      BY <2>3 DEF Chooses
    <3> QED
      BY <2>1, <3>1, FS_RemoveElement
  <2> QED
    BY <1>0, <1>1, <2>1, <2>2, <2>3 DEF Chooses
<1> QED
  BY <1>2

\* A set that grows so has every part.
LEMMA AllParts ==
    ASSUME NEW T, IsFiniteSet(T), NEW c, Chooses(c, T),
           NEW Q, Grows(Q, T, c)
    PROVE  SUBSET T \subseteq Q
<1>0. PICK n \in Nat : \E size : SizesOf(size, T, n, c)
  BY PartSizes
<1>1. PICK size : SizesOf(size, T, n, c)
  BY <1>0
<1> USE DEF SizesOf, Grows
<1> DEFINE P == {k \in 0..n : \A s \in SUBSET T : size[s] <= k => s \in Q}
<1>2. 0 \in P
  <2> SUFFICES ASSUME NEW s \in SUBSET T, size[s] <= 0 PROVE s \in Q
    OBVIOUS
  <2>1. size[s] = 0
    BY <1>1
  <2> QED
    BY <1>1, <2>1
<1>3. ASSUME NEW k \in 0..(n - 1), k \in P
      PROVE  k + 1 \in P
  <2> SUFFICES ASSUME NEW s \in SUBSET T, size[s] <= k + 1, s # {} PROVE s \in Q
    OBVIOUS
  <2> PICK r : r = s \ {c[s]}
    OBVIOUS
  <2>1. r \in SUBSET T /\ size[r] = size[s] - 1 /\ size[s] \in 0..n
    BY <1>1
  <2>2. size[r] <= k
    BY <2>1
  <2>3. r \in Q
    BY <1>3, <2>1, <2>2
  <2> QED
    BY <2>3
<1>4. n \in P
  <2>1. 0..n \subseteq P
    <3> HIDE DEF P
    <3> QED
      BY <1>2, <1>3, UpTo
  <2> QED
    BY <2>1
<1> QED
  BY <1>1, <1>4

\* A fold that takes the elements of a finite set in the order of c, on the parts D of
\* the set.
FoldOf(g, D, base, c, G) ==
    \A s \in D : g[s] = IF s = {} THEN base ELSE G[c[s]][g[s \ {c[s]}]]

\* It has a value for every part.
LEMMA FoldExists ==
    ASSUME NEW T, IsFiniteSet(T), NEW S, NEW base \in S, NEW G \in [T -> [S -> S]],
           NEW c, Chooses(c, T)
    PROVE  \E g \in [SUBSET T -> S] : FoldOf(g, SUBSET T, base, c, G)
<1>0. PICK n \in Nat : \E size : SizesOf(size, T, n, c)
  BY PartSizes
<1>2. PICK size : SizesOf(size, T, n, c)
  BY <1>0
<1> USE DEF SizesOf, Grows
<1>1. n \in Nat
  OBVIOUS
<1> DEFINE Up(k) == {s \in SUBSET T : size[s] <= k}
           P == {k \in 0..n : \E g \in [SUBSET T -> S] : FoldOf(g, Up(k), base, c, G)}
<1>3. 0 \in P
  <2> DEFINE g == [s \in SUBSET T |-> base]
  <2>1. g \in [SUBSET T -> S]
    OBVIOUS
  <2>2. FoldOf(g, Up(0), base, c, G)
    <3> SUFFICES ASSUME NEW s \in SUBSET T, size[s] <= 0 PROVE g[s] = base /\ s = {}
      BY DEF FoldOf
    <3>1. size[s] = 0
      BY <1>1, <1>2
    <3> QED
      BY <1>2, <3>1
  <2>3. 0 \in 0..n
    BY <1>1
  <2> HIDE DEF g, Up
  <2> QED
    BY <2>1, <2>2, <2>3
<1>4. ASSUME NEW k \in 0..(n - 1), k \in P
      PROVE  k + 1 \in P
  <2>1. PICK g \in [SUBSET T -> S] : FoldOf(g, Up(k), base, c, G)
    BY <1>4
  <2> DEFINE h == [s \in SUBSET T |-> IF size[s] <= k \/ s = {} THEN g[s]
                                      ELSE G[c[s]][g[s \ {c[s]}]]]
  <2>2. ASSUME NEW s \in SUBSET T
        PROVE  /\ h[s] \in S
               /\ size[s] <= k \/ s = {} => h[s] = g[s]
               /\ ~(size[s] <= k \/ s = {}) => h[s] = G[c[s]][g[s \ {c[s]}]]
    <3>1. CASE size[s] <= k \/ s = {}
      BY <3>1
    <3>2. CASE ~(size[s] <= k \/ s = {})
      BY <1>2, <3>2 DEF Chooses
    <3> QED
      BY <3>1, <3>2
  <2>3. h \in [SUBSET T -> S]
    BY <2>2
  <2> HIDE DEF h
  <2>4. ASSUME NEW s \in SUBSET T, size[s] <= k + 1
        PROVE  h[s] = IF s = {} THEN base ELSE G[c[s]][h[s \ {c[s]}]]
    <3> PICK r, x : x = c[s] /\ r = s \ {c[s]}
      OBVIOUS
    <3>1. size[s] \in 0..n
      BY <1>2
    <3>2. CASE s = {}
      <4>1. size[s] <= k
        BY <1>2, <3>2
      <4> QED
        BY <2>1, <2>2, <3>2, <4>1 DEF FoldOf
    <3>3. CASE s # {}
      <4>1. r \in SUBSET T /\ size[r] = size[s] - 1
        BY <1>2, <3>3
      <4>2. size[r] <= k
        BY <1>1, <2>4, <3>1, <4>1
      <4>3. h[r] = g[r]
        BY <2>2, <4>1, <4>2
      <4>4. CASE size[s] <= k
        <5>1. g[s] = G[x][g[r]]
          BY <2>1, <3>3, <4>4 DEF FoldOf
        <5> QED
          BY <2>2, <3>3, <4>3, <4>4, <5>1
      <4>5. CASE ~(size[s] <= k)
        BY <2>2, <3>3, <4>3, <4>5
      <4> QED
        BY <4>4, <4>5
    <3> QED
      BY <3>2, <3>3
  <2>5. FoldOf(h, Up(k + 1), base, c, G)
    BY <2>4 DEF FoldOf
  <2>6. k + 1 \in 0..n
    BY <1>1
  <2> HIDE DEF Up
  <2> QED
    BY <2>3, <2>5, <2>6
<1>5. n \in P
  <2>1. 0..n \subseteq P
    <3> HIDE DEF P
    <3> QED
      BY <1>1, <1>3, <1>4, UpTo
  <2>2. n \in 0..n
    BY <1>1
  <2> HIDE DEF P
  <2> QED
    BY <2>1, <2>2
<1>6. PICK g \in [SUBSET T -> S] : FoldOf(g, Up(n), base, c, G)
  BY <1>5
<1>7. Up(n) = SUBSET T
  BY <1>1, <1>2
<1> HIDE DEF Up
<1> QED
  BY <1>6, <1>7

\* An exclusive or is an integer, and so is a hash.
LEMMA XorType == \A x, y : Xor(x, y) \in Int
<1> SUFFICES ASSUME NEW x, NEW y PROVE Xor(x, y) \in Int
  OBVIOUS
<1> DEFINE T == 0..7
           bit(k) == IF Bit(x, k) = Bit(y, k) THEN 0 ELSE 2 ^ k
           sum(g) == g = [s \in SUBSET T |-> IF s = {} THEN 0
                             ELSE bit(CHOOSE k \in s : TRUE) + g[s \ {CHOOSE k \in s : TRUE}]]
<1>1. \A k \in T : bit(k) \in Int
  <2> SUFFICES ASSUME NEW k \in T PROVE 2 ^ k \in Int
    OBVIOUS
  <2>1. k \in Nat
    OBVIOUS
  <2> QED
    BY <2>1
<1>2. Xor(x, y) = (CHOOSE g : sum(g))[T]
  BY DEF Xor, MapThenSumSet, MapThenFoldSet
<1>3. IsFiniteSet(T)
  <2>1. 0 \in Int /\ 7 \in Int
    OBVIOUS
  <2> QED
    BY <2>1, FS_Interval
<1> HIDE DEF bit, T
<1>4. PICK first : first = [s \in SUBSET T |-> CHOOSE k \in s : TRUE]
  OBVIOUS
<1>5. PICK G : G = [k \in T |-> [v \in Int |-> bit(k) + v]]
  OBVIOUS
<1>6. Chooses(first, T)
  BY <1>4 DEF Chooses
<1>7. G \in [T -> [Int -> Int]]
  BY <1>1, <1>5
<1>8. PICK g \in [SUBSET T -> Int] : FoldOf(g, SUBSET T, 0, first, G)
  <2>1. 0 \in Int
    OBVIOUS
  <2> QED
    BY <1>3, <1>6, <1>7, <2>1, FoldExists
<1>9. sum(g)
  <2>1. ASSUME NEW s \in SUBSET T, s # {}
        PROVE  g[s] = bit(CHOOSE k \in s : TRUE) + g[s \ {CHOOSE k \in s : TRUE}]
    <3>1. first[s] = (CHOOSE k \in s : TRUE) /\ first[s] \in T /\ s \ {first[s]} \in SUBSET T
      BY <1>4, <1>6, <2>1 DEF Chooses
    <3> PICK m, r : m = first[s] /\ r = s \ {m}
      OBVIOUS
    <3>2. g[s] = G[m][g[r]]
      BY <1>8, <2>1 DEF FoldOf
    <3>3. G[m][g[r]] = bit(m) + g[r]
      BY <1>5, <3>1
    <3> QED
      BY <3>1, <3>2, <3>3
  <2>2. g[{}] = 0
    BY <1>8 DEF FoldOf
  <2> QED
    BY <1>8, <2>1, <2>2
<1>10. PICK h : h = CHOOSE f : sum(f)
  OBVIOUS
<1>11. sum(h)
  <2> HIDE DEF sum
  <2> QED
    BY <1>9, <1>10
<1>12. h[{}] = 0
  BY <1>11
<1> DEFINE Q == {s \in SUBSET T : h[s] \in Int}
<1>13. Grows(Q, T, first)
  <2>1. ASSUME NEW s \in SUBSET T, s # {}, s \ {first[s]} \in Q
        PROVE  h[s] \in Int
    <3>1. first[s] = (CHOOSE k \in s : TRUE) /\ first[s] \in T
      BY <1>4, <1>6, <2>1 DEF Chooses
    <3>2. h[s] = bit(first[s]) + h[s \ {first[s]}]
      BY <1>11, <2>1, <3>1
    <3>3. bit(first[s]) \in Int /\ h[s \ {first[s]}] \in Int
      BY <1>1, <2>1, <3>1
    <3> QED
      BY <3>2, <3>3
  <2> QED
    BY <1>12, <2>1 DEF Grows
<1>14. T \in Q
  <2> HIDE DEF Q
  <2> QED
    BY <1>3, <1>6, <1>13, AllParts
<1> QED
  BY <1>2, <1>10, <1>14

\* The greatest number of a set that has a bound.
LEMMA GreatestNumber ==
    ASSUME NEW S, S \subseteq Int, S # {}, NEW n \in Int, \A y \in S : y <= n
    PROVE  Max(S) \in S /\ \A y \in S : y <= Max(S)
<1> PICK D : D = {n - y : y \in S}
  OBVIOUS
<1>1. D \subseteq Nat /\ D # {}
  <2>1. ASSUME NEW y \in S
        PROVE  n - y \in Nat
    <3>1. y \in Int /\ y <= n
      OBVIOUS
    <3> QED
      BY <3>1
  <2> QED
    BY <2>1
<1> PICK d : d = Min(D)
  OBVIOUS
<1>2. d \in D /\ \A e \in D : d <= e
  BY <1>1, LeastNumber
<1>3. PICK x \in S : d = n - x
  BY <1>2
<1>4. ASSUME NEW y \in S
      PROVE  x >= y
  <2>1. n - y \in D
    OBVIOUS
  <2>2. n - x <= n - y /\ x \in Int /\ y \in Int
    BY <1>2, <1>3, <2>1
  <2> QED
    BY <2>2
<1>5. PICK m : m = Max(S)
  OBVIOUS
<1>6. m \in S /\ \A y \in S : m >= y
  <2>1. \E z \in S : \A y \in S : z >= y
    BY <1>4
  <2> QED
    BY <1>5, <2>1 DEF Max
<1>7. ASSUME NEW y \in S
      PROVE  y <= m
  <2>1. m >= y /\ m \in Int /\ y \in Int
    BY <1>6
  <2> QED
    BY <2>1
<1> QED
  BY <1>5, <1>6, <1>7

\* The last of the elements of a sequence is taken first, after those before it.
LEMMA LastTaken ==
    ASSUME NEW n \in Nat
    PROVE  /\ IsFiniteSet(1..n)
           /\ Chooses([s \in SUBSET (1..n) |-> Max(s)], 1..n)
           /\ 1..0 = {} /\ 1..n \in SUBSET (1..n)
           /\ \A k \in 0..(n - 1) : /\ 1..(k + 1) \in SUBSET (1..n) /\ 1..(k + 1) # {}
                                    /\ Max(1..(k + 1)) = k + 1
                                    /\ (1..(k + 1)) \ {k + 1} = 1..k
<1>1. IsFiniteSet(1..n)
  <2>1. 1 \in Int /\ n \in Int
    OBVIOUS
  <2> QED
    BY <2>1, FS_Interval
<1>2. Chooses([s \in SUBSET (1..n) |-> Max(s)], 1..n)
  <2> SUFFICES ASSUME NEW s \in SUBSET (1..n), s # {} PROVE Max(s) \in s
    BY DEF Chooses
  <2>1. s \subseteq Int /\ n \in Int /\ \A y \in s : y <= n
    OBVIOUS
  <2> QED
    BY <2>1, GreatestNumber
<1>3. ASSUME NEW k \in 0..(n - 1)
      PROVE  /\ 1..(k + 1) \in SUBSET (1..n) /\ 1..(k + 1) # {}
             /\ Max(1..(k + 1)) = k + 1
             /\ (1..(k + 1)) \ {k + 1} = 1..k
  <2>1. k + 1 \in 1..n /\ 1..(k + 1) \in SUBSET (1..n) /\ k + 1 \in 1..(k + 1)
    OBVIOUS
  <2>2. (1..(k + 1)) \ {k + 1} = 1..k
    OBVIOUS
  <2> PICK T, m : T = 1..(k + 1) /\ m = Max(T)
    OBVIOUS
  <2>3. /\ T \subseteq Int /\ T # {}
        /\ k + 1 \in Int
        /\ \A y \in T : y <= k + 1
    BY <2>1
  <2>4. m \in T /\ \A y \in T : y <= m
    BY <2>3, GreatestNumber
  <2>5. m = k + 1
    BY <2>1, <2>4
  <2> QED
    BY <2>1, <2>2, <2>5
<1>4. 1..0 = {}
  OBVIOUS
<1> QED
  BY <1>1, <1>2, <1>3, <1>4

\* What hash_bytes returns is an integer, whatever the bytes.
LEMMA HashType == \A i \in Ints : hash_int[i] \in Int
<1> SUFFICES ASSUME NEW i \in Ints PROVE hash_int[i] \in Int
  OBVIOUS
<1>1. PICK buf : buf = <<i, 0, 0, 0>>
  OBVIOUS
<1> DEFINE T == 1..4
           op(hash, byte) == Xor((hash * FNV_32_PRIME) % 256, byte)
           fold(g) == g = [s \in SUBSET T |-> IF s = {} THEN FNV_32_BASIS
                                              ELSE op(g[s \ {Max(s)}], buf[Max(s)])]
<1>2. hash_int[i] = (CHOOSE g : fold(g))[T]
  <2>1. hash_int[i] = hash_bytes(buf)
    BY <1>1 DEF hash_int
  <2>2. DOMAIN buf = T
    BY <1>1
  <2>3. hash_bytes(buf) = (CHOOSE g : g = [s \in SUBSET (DOMAIN buf) |->
                              IF s = {} THEN FNV_32_BASIS
                              ELSE op(g[s \ {Max(s)}], buf[Max(s)])])[DOMAIN buf]
    BY DEF hash_bytes, FoldLeft, MapThenFoldSet
  <2> QED
    BY <2>1, <2>2, <2>3
<1>3. \A hash, byte : op(hash, byte) \in Int
  BY XorType
<1> HIDE DEF op
<1>4. PICK last : last = [s \in SUBSET T |-> Max(s)]
  OBVIOUS
<1>5. PICK G : G = [k \in T |-> [v \in Int |-> op(v, buf[k])]]
  OBVIOUS
<1>6. IsFiniteSet(T) /\ Chooses(last, T) /\ T \in SUBSET T /\ T # {}
  <2>1. 4 \in Nat /\ T # {}
    OBVIOUS
  <2>2. IsFiniteSet(T) /\ Chooses([s \in SUBSET T |-> Max(s)], T)
    BY <2>1, LastTaken
  <2> QED
    BY <1>4, <2>1, <2>2
<1>7. G \in [T -> [Int -> Int]] /\ FNV_32_BASIS \in Int
  BY <1>3, <1>5 DEF FNV_32_BASIS
<1> HIDE DEF T
<1>8. PICK g \in [SUBSET T -> Int] : FoldOf(g, SUBSET T, FNV_32_BASIS, last, G)
  BY <1>6, <1>7, FoldExists
<1>9. fold(g)
  <2>1. ASSUME NEW s \in SUBSET T, s # {}
        PROVE  g[s] = op(g[s \ {Max(s)}], buf[Max(s)])
    <3> PICK m, r : m = last[s] /\ r = s \ {m}
      OBVIOUS
    <3>1. m = Max(s) /\ m \in T /\ r \in SUBSET T
      BY <1>4, <1>6, <2>1 DEF Chooses
    <3>2. g[s] = G[m][g[r]]
      BY <1>8, <2>1 DEF FoldOf
    <3>3. G[m][g[r]] = op(g[r], buf[m])
      BY <1>5, <3>1
    <3> QED
      BY <3>1, <3>2, <3>3
  <2>2. g[{}] = FNV_32_BASIS
    BY <1>8 DEF FoldOf
  <2> QED
    BY <1>8, <2>1, <2>2
<1>10. PICK h : h = CHOOSE f : fold(f)
  OBVIOUS
<1>11. fold(h)
  <2> HIDE DEF fold
  <2> QED
    BY <1>9, <1>10
<1>12. h[T] = op(h[T \ {Max(T)}], buf[Max(T)])
  BY <1>6, <1>11
<1> QED
  BY <1>2, <1>3, <1>10, <1>12

-----------------------------------------------------------------------------
(* Hash tables *)

\* n buckets with the items X, each of them in one place.
Buckets(f, n, X) ==
    /\ f \in [0..(n - 1) -> Seq(Items)]
    /\ \A b \in 0..(n - 1) : Chain(f[b])
    /\ \A b, c \in 0..(n - 1) : b # c => Range(f[b]) \intersect Range(f[c]) = {}
    /\ X = UNION {Range(f[b]) : b \in 0..(n - 1)}

\* New buckets are empty.
LEMMA BucketsEmpty ==
    ASSUME NEW n
    PROVE  Buckets([b \in 0..(n - 1) |-> <<>>], n, {})
<1> PICK e : e = << >>
  OBVIOUS
<1>1. e \in Seq(Items) /\ Len(e) = 0
  BY EmptySeq
<1>2. Range(e) = {}
  <2>1. Range(e) = {e[p] : p \in 1..0}
    BY <1>1, ChainRange
  <2> QED
    BY <2>1
<1>3. Chain(e)
  BY <1>1 DEF Chain
<1> PICK f : f = [b \in 0..(n - 1) |-> e]
  OBVIOUS
<1>4. f \in [0..(n - 1) -> Seq(Items)] /\ \A b \in 0..(n - 1) : f[b] = e
  BY <1>1
<1>5. Buckets(f, n, {})
  BY <1>2, <1>3, <1>4 DEF Buckets
<1> QED
  BY <1>5

\* list_push_front puts another item into one of them.
LEMMA BucketsPut ==
    ASSUME NEW f, NEW n, NEW X, Buckets(f, n, X), NEW b \in 0..(n - 1), NEW i \in Items \ X
    PROVE  Buckets([f EXCEPT ![b] = <<i>> \o @], n, X \union {i})
<1> PICK s : s = <<i>> \o f[b]
  OBVIOUS
<1> PICK g : g = [f EXCEPT ![b] = s]
  OBVIOUS
<1>1. Chain(f[b]) /\ i \notin Range(f[b])
  BY DEF Buckets
<1>2. Chain(s) /\ Range(s) = Range(f[b]) \union {i}
  BY <1>1, ChainCons
<1>3. /\ g \in [0..(n - 1) -> Seq(Items)] /\ g[b] = s
      /\ \A c \in 0..(n - 1) : c # b => g[c] = f[c]
  BY <1>2 DEF Buckets, Chain
<1>4. \A c \in 0..(n - 1) : Chain(g[c])
  BY <1>2, <1>3 DEF Buckets
<1>5. \A c \in 0..(n - 1) : Range(g[c]) = IF c = b THEN Range(f[b]) \union {i} ELSE Range(f[c])
  BY <1>2, <1>3
<1>6. \A c, d \in 0..(n - 1) : c # d => Range(g[c]) \intersect Range(g[d]) = {}
  BY <1>5 DEF Buckets
<1>7. X \union {i} = UNION {Range(g[c]) : c \in 0..(n - 1)}
  BY <1>5 DEF Buckets
<1>8. Buckets(g, n, X \union {i})
  BY <1>3, <1>4, <1>6, <1>7 DEF Buckets
<1> QED
  BY <1>8

\* list_remove takes one out.
LEMMA BucketsDrop ==
    ASSUME NEW f, NEW n, NEW X, Buckets(f, n, X), NEW i
    PROVE  Buckets([b \in DOMAIN f |-> RemoveFirst(f[b], i)], n, X \ {i})
<1> PICK g : g = [b \in DOMAIN f |-> RemoveFirst(f[b], i)]
  OBVIOUS
<1>1. \A b \in 0..(n - 1) : g[b] = RemoveFirst(f[b], i)
  BY DEF Buckets
<1>2. \A b \in 0..(n - 1) : Chain(g[b]) /\ Range(g[b]) = Range(f[b]) \ {i}
  BY <1>1, ChainRemove DEF Buckets
<1>3. g \in [0..(n - 1) -> Seq(Items)]
  BY <1>2 DEF Buckets, Chain
<1>4. \A c, d \in 0..(n - 1) : c # d => Range(g[c]) \intersect Range(g[d]) = {}
  BY <1>2 DEF Buckets
<1>5. X \ {i} = UNION {Range(g[c]) : c \in 0..(n - 1)}
  BY <1>2 DEF Buckets
<1> QED
  BY <1>2, <1>3, <1>4, <1>5 DEF Buckets

\* The items of the first k + 1 of them.
UpToBucket(f, k) == UNION {Range(f[b]) : b \in 0..k}

\* One after the other, the buckets have every item once.
LEMMA BucketsFlat ==
    ASSUME NEW f, NEW n \in Nat \ {0}, NEW X, Buckets(f, n, X)
    PROVE  /\ Chain(FlattenSeq([k \in 1..n |-> f[k - 1]]))
           /\ Range(FlattenSeq([k \in 1..n |-> f[k - 1]])) = X
<1>1. PICK q : q = [k \in 1..n |-> f[k - 1]]
  OBVIOUS
<1>2. /\ q \in [1..n -> Seq(Items)]
      /\ \A k \in 0..(n - 1) : q[k + 1] = f[k]
  BY <1>1 DEF Buckets
<1>3. Len(q) = n /\ n # 0
  BY <1>1
<1> DEFINE flat(g) == g = [i \in 1..n |-> IF i = 1 THEN q[i] ELSE g[i - 1] \o q[i]]
<1>4. FlattenSeq(q) = (CHOOSE g : flat(g))[n]
  BY <1>3 DEF FlattenSeq
<1>5. PICK F : F = [k \in 1..(n - 1) |-> [s \in Seq(Items) |-> s \o q[k + 1]]]
  OBVIOUS
<1>6. F \in [1..(n - 1) -> [Seq(Items) -> Seq(Items)]] /\ n - 1 \in Nat /\ q[1] \in Seq(Items)
  <2>1. ASSUME NEW k \in 1..(n - 1), NEW s \in Seq(Items)
        PROVE  s \o q[k + 1] \in Seq(Items)
    <3>1. q[k + 1] \in Seq(Items)
      BY <1>2
    <3> QED
      BY <3>1, ConcatProperties
  <2> QED
    BY <1>2, <1>5, <2>1
<1>7. PICK c \in [0..(n - 1) -> Seq(Items)] : Course(c, n - 1, q[1], F)
  BY <1>6, LoopExists
<1>8. \E g : flat(g)
  <2>1. PICK g : g = [i \in 1..n |-> c[i - 1]]
    OBVIOUS
  <2>2. ASSUME NEW i \in 1..n
        PROVE  c[i - 1] = IF i = 1 THEN q[i] ELSE g[i - 1] \o q[i]
    <3>1. CASE i = 1
      BY <1>7, <3>1 DEF Course
    <3>2. CASE i # 1
      <4>1. i - 1 \in 1..(n - 1) /\ (i - 1) + 1 = i /\ (i - 1) - 1 \in 0..(n - 1)
        BY <3>2
      <4> PICK k, p : k = i - 1 /\ p = k - 1
        OBVIOUS
      <4>2. c[k] = F[k][c[p]]
        BY <1>7, <4>1 DEF Course
      <4>3. F[k][c[p]] = c[p] \o q[k + 1]
        BY <1>5, <1>7, <4>1
      <4>4. g[k] = c[p]
        BY <2>1, <4>1
      <4> QED
        BY <3>2, <4>1, <4>2, <4>3, <4>4
    <3> QED
      BY <3>1, <3>2
  <2>3. flat(g)
    BY <2>1, <2>2
  <2> QED
    BY <2>3
<1>9. PICK g : g = CHOOSE r : flat(r)
  OBVIOUS
<1>10. flat(g)
  <2> HIDE DEF flat
  <2> QED
    BY <1>8, <1>9
<1>11. /\ g[1] = f[0]
       /\ \A k \in 1..(n - 1) : g[k + 1] = g[k] \o f[k]
  <2>1. g[1] = f[0]
    <3>1. 1 \in 1..n /\ 0 \in 0..(n - 1) /\ 0 + 1 = 1
      OBVIOUS
    <3> QED
      BY <1>2, <1>10, <3>1
  <2>2. ASSUME NEW k \in 1..(n - 1)
        PROVE  g[k + 1] = g[k] \o f[k]
    <3>1. k + 1 \in 1..n /\ k + 1 # 1 /\ (k + 1) - 1 = k /\ k \in 0..(n - 1)
      OBVIOUS
    <3>2. g[k + 1] = g[k] \o q[k + 1]
      BY <1>10, <3>1
    <3> QED
      BY <1>2, <3>1, <3>2
  <2> QED
    BY <2>1, <2>2
<1> DEFINE P == {k \in 0..(n - 1) : Chain(g[k + 1]) /\ Range(g[k + 1]) = UpToBucket(f, k)}
<1>12. 0 \in P
  <2>1. 0 \in 0..(n - 1) /\ 0 + 1 = 1
    OBVIOUS
  <2>2. UpToBucket(f, 0) = Range(f[0])
    BY DEF UpToBucket
  <2> QED
    BY <1>11, <2>1, <2>2 DEF Buckets
<1>13. ASSUME NEW k \in 0..((n - 1) - 1), k \in P
       PROVE  k + 1 \in P
  <2>1. k + 1 \in 1..(n - 1) /\ k + 1 \in 0..(n - 1)
    OBVIOUS
  <2> PICK j : j = k + 1
    OBVIOUS
  <2>2. g[j + 1] = g[j] \o f[j] /\ Chain(g[j]) /\ Range(g[j]) = UpToBucket(f, k)
    BY <1>11, <1>13, <2>1
  <2>3. \A b \in 0..k : b \in 0..(n - 1) /\ b # j
    BY <2>1
  <2>4. Range(g[j]) \intersect Range(f[j]) = {}
    BY <2>1, <2>2, <2>3 DEF Buckets, UpToBucket
  <2>5. Chain(g[j + 1]) /\ Range(g[j + 1]) = Range(g[j]) \union Range(f[j])
    BY <2>1, <2>2, <2>4, ChainConcat DEF Buckets
  <2>6. UpToBucket(f, j) = UpToBucket(f, k) \union Range(f[j])
    <3>1. 0..j = (0..k) \union {j}
      BY <2>1
    <3> QED
      BY <3>1 DEF UpToBucket
  <2> QED
    BY <2>1, <2>2, <2>5, <2>6
<1>14. n - 1 \in P
  <2>1. 0..(n - 1) \subseteq P
    <3> HIDE DEF P
    <3> QED
      BY <1>6, <1>12, <1>13, UpTo
  <2> QED
    BY <1>6, <2>1
<1>15. (n - 1) + 1 = n
  OBVIOUS
<1>16. Chain(g[n]) /\ Range(g[n]) = X
  BY <1>14, <1>15 DEF Buckets, UpToBucket
<1> QED
  BY <1>1, <1>4, <1>9, <1>16

\* A table whose buckets have the items X.
Holds(h, X) ==
    /\ h \in [elem_cnt : Int, bucket_cnt : Nat \ {0}, buckets : {h.buckets}]
    /\ Buckets(h.buckets, h.bucket_cnt, X)
    /\ h.elem_cnt = Cardinality(X)
    /\ h.bucket_cnt \in BucketCnts

\* Each item is in the bucket of its value.
Placed(h, w) ==
    \A b \in DOMAIN h.buckets : \A i \in Range(h.buckets[b]) : find_bucket(h, w[i]) = b

\* The powers of two up to 256, and so the widths of integers and the numbers of buckets to
\* begin with, are positive.
LEMMA PowersOfTwo ==
    ASSUME NEW k \in 0..8
    PROVE  2 ^ k \in Nat \ {0} /\ k <= 2 ^ k
<1>1. k = 0 \/ k = 1 \/ k = 2 \/ k = 3 \/ k = 4 \/ k = 5 \/ k = 6 \/ k = 7 \/ k = 8
  OBVIOUS
<1>2. /\ 2 ^ 0 = 1 /\ 2 ^ 1 = 2 /\ 2 ^ 2 = 4 /\ 2 ^ 3 = 8 /\ 2 ^ 4 = 16
      /\ 2 ^ 5 = 32 /\ 2 ^ 6 = 64 /\ 2 ^ 7 = 128 /\ 2 ^ 8 = 256
  OBVIOUS
<1>3. PICK p : p = [j \in 0..8 |-> 2 ^ j]
  OBVIOUS
<1>4. p[k] \in Nat \ {0} /\ k <= p[k]
  <2>1. /\ p[0] = 1 /\ p[1] = 2 /\ p[2] = 4 /\ p[3] = 8 /\ p[4] = 16
        /\ p[5] = 32 /\ p[6] = 64 /\ p[7] = 128 /\ p[8] = 256
    BY <1>2, <1>3
  <2>2. CASE k = 0
    BY <2>1, <2>2
  <2>3. CASE k = 1
    BY <2>1, <2>3
  <2>4. CASE k = 2
    BY <2>1, <2>4
  <2>5. CASE k = 3
    BY <2>1, <2>5
  <2>6. CASE k = 4
    BY <2>1, <2>6
  <2>7. CASE k = 5
    BY <2>1, <2>7
  <2>8. CASE k = 6
    BY <2>1, <2>8
  <2>9. CASE k = 7
    BY <2>1, <2>9
  <2>10. CASE k = 8
    BY <2>1, <2>10
  <2> QED
    BY <1>1, <2>2, <2>3, <2>4, <2>5, <2>6, <2>7, <2>8, <2>9, <2>10
<1> QED
  BY <1>3, <1>4

\* A table is never without buckets.
LEMMA SomeBuckets == MinBuckets \in Nat \ {0}
BY HashTableAssumption, PowersOfTwo

\* Powers of two are integers.
LEMMA PowersAre ==
    ASSUME NEW n \in Nat
    PROVE  \A k \in 0..n : 2 ^ k \in Int
<1> SUFFICES ASSUME NEW k \in 0..n PROVE 2 ^ k \in Int
  OBVIOUS
<1>1. k \in Nat
  OBVIOUS
<1> QED
  BY <1>1

\* The numbers of buckets are positive, and that to begin with is one of them.
LEMMA BucketCntsAre ==
    /\ BucketCnts \subseteq Nat \ {0}
    /\ MinBuckets \in BucketCnts
    /\ \E k \in 0..MinBuckets : MinBuckets = 2 ^ k
<1>1. PICK n : n = NumItems + MinBuckets
  OBVIOUS
<1>2. n \in Nat /\ MinBuckets <= n
  BY <1>1, SomeBuckets, InterpreterAssumption
<1>3. BucketCnts = {p \in {2 ^ k : k \in 0..n} : p >= MinBuckets}
  BY <1>1 DEF BucketCnts
<1>4. \A k \in 0..n : 2 ^ k \in Int
  BY <1>2, PowersAre
<1>5. BucketCnts \subseteq Nat \ {0}
  <2> SUFFICES ASSUME NEW p \in BucketCnts PROVE p \in Nat \ {0}
    OBVIOUS
  <2>1. p \in Int /\ p >= MinBuckets
    BY <1>3, <1>4
  <2> QED
    BY <2>1, SomeBuckets
<1>6. PICK k \in 0..8 : MinBuckets = 2 ^ k
  BY HashTableAssumption
<1>7. k \in 0..MinBuckets
  <2>1. PICK q : q = 2 ^ k
    OBVIOUS
  <2>2. q \in Nat \ {0} /\ k <= q
    BY <2>1, PowersOfTwo
  <2>3. q = MinBuckets
    BY <1>6, <2>1
  <2> QED
    BY <2>2, <2>3
<1>8. k \in 0..n
  BY <1>2, <1>7, SomeBuckets
<1>9. MinBuckets \in BucketCnts
  <2>1. MinBuckets \in {2 ^ j : j \in 0..n}
    BY <1>6, <1>8
  <2>2. MinBuckets >= MinBuckets
    BY SomeBuckets
  <2> QED
    BY <1>3, <2>1, <2>2
<1> QED
  BY <1>5, <1>6, <1>7, <1>9

\* What a table has.
LEMMA HoldsItems ==
    ASSUME NEW h, NEW X, Holds(h, X)
    PROVE  /\ X \subseteq Items /\ IsFiniteSet(X) /\ Cardinality(X) \in Nat
           /\ Members(h) = X
           /\ DOMAIN h.buckets = 0..(h.bucket_cnt - 1)
           /\ h.bucket_cnt \in Nat \ {0} /\ h.elem_cnt = Cardinality(X)
<1>1. X = UNION {Range(h.buckets[b]) : b \in 0..(h.bucket_cnt - 1)}
  BY DEF Holds, Buckets
<1>2. DOMAIN h.buckets = 0..(h.bucket_cnt - 1)
  BY DEF Holds, Buckets
<1>3. X \subseteq Items
  <2>1. \A b \in 0..(h.bucket_cnt - 1) : Range(h.buckets[b]) \subseteq Items
    BY ChainRange DEF Holds, Buckets
  <2> QED
    BY <1>1, <2>1
<1>4. IsFiniteSet(X) /\ Cardinality(X) \in Nat
  <2>1. 1 \in Int /\ NumItems \in Int
    BY InterpreterAssumption
  <2>2. IsFiniteSet(Items)
    BY <2>1, FS_Interval DEF Items
  <2> QED
    BY <1>3, <2>2, FS_Subset, FS_CardinalityType
<1>5. Members(h) = X
  BY <1>1, <1>2 DEF Members
<1> QED
  BY <1>2, <1>3, <1>4, <1>5 DEF Holds

\* What is in a bucket is in the table.
LEMMA InBucket ==
    ASSUME NEW f, NEW n, NEW X, Buckets(f, n, X), NEW b \in 0..(n - 1)
    PROVE  Range(f[b]) \subseteq X
<1> PICK R : R = [c \in 0..(n - 1) |-> Range(f[c])]
  OBVIOUS
<1>1. X = UNION {R[c] : c \in 0..(n - 1)}
  BY DEF Buckets
<1>2. R[b] \subseteq X
  BY <1>1
<1> QED
  BY <1>2

\* The buckets of a table without items have none.
LEMMA NothingInBucket ==
    ASSUME NEW f, NEW n, Buckets(f, n, {})
    PROVE  \A b \in 0..(n - 1) : Range(f[b]) = {}
<1> SUFFICES ASSUME NEW b \in 0..(n - 1) PROVE Range(f[b]) = {}
  OBVIOUS
<1>1. Range(f[b]) \subseteq {}
  BY InBucket
<1> QED
  BY <1>1

\* hash_init makes a table without items.
LEMMA HashInitHolds ==
    ASSUME NEW w
    PROVE  Holds(hash_init, {}) /\ Placed(hash_init, w)
<1> PICK e : e = << >>
  OBVIOUS
<1>0. PICK f : f = [b \in 0..(MinBuckets - 1) |-> e]
  OBVIOUS
<1>1. Buckets(f, MinBuckets, {})
  BY <1>0, BucketsEmpty
<1>2. hash_init = [elem_cnt |-> 0, bucket_cnt |-> MinBuckets, buckets |-> f]
  BY <1>0 DEF hash_init
<1>3. Cardinality({}) = 0
  BY FS_EmptySet
<1>4. Holds(hash_init, {})
  BY <1>1, <1>2, <1>3, SomeBuckets, BucketCntsAre DEF Holds
<1>5. \A b \in 0..(MinBuckets - 1) : Range(f[b]) = {}
  BY <1>1, NothingInBucket
<1>6. Placed(hash_init, w)
  BY <1>0, <1>2, <1>5 DEF Placed
<1> QED
  BY <1>4, <1>6

\* hash_clear leaves none in it.
LEMMA HashClearHolds ==
    ASSUME NEW h, NEW X, Holds(h, X), NEW w
    PROVE  Holds(hash_clear(h), {}) /\ Placed(hash_clear(h), w)
<1> PICK n, e : n = h.bucket_cnt /\ e = << >>
  OBVIOUS
<1>0. PICK f : f = [b \in 0..(n - 1) |-> e]
  OBVIOUS
<1>1. Buckets(f, n, {})
  BY <1>0, BucketsEmpty
<1>2. hash_clear(h) = [elem_cnt |-> 0, bucket_cnt |-> n, buckets |-> f]
  <2>1. DOMAIN h.buckets = 0..(n - 1)
    BY HoldsItems
  <2>2. hash_clear(h) = [h EXCEPT !.elem_cnt = 0, !.buckets = f]
    BY <1>0, <2>1 DEF hash_clear
  <2>3. h \in [elem_cnt : Int, bucket_cnt : Nat \ {0}, buckets : {h.buckets}]
    BY DEF Holds
  <2> QED
    BY <2>2, <2>3
<1>3. Cardinality({}) = 0
  BY FS_EmptySet
<1>4. Holds(hash_clear(h), {})
  BY <1>1, <1>2, <1>3 DEF Holds
<1>5. \A b \in 0..(n - 1) : Range(f[b]) = {}
  BY <1>1, NothingInBucket
<1>6. Placed(hash_clear(h), w)
  <2>1. hash_clear(h).buckets = f /\ DOMAIN f = 0..(n - 1)
    BY <1>0, <1>2
  <2> QED
    BY <1>5, <2>1 DEF Placed
<1> QED
  BY <1>4, <1>6

\* The bucket of a value is one of the table's.
LEMMA BucketInTable ==
    ASSUME NEW h, NEW X, Holds(h, X), NEW v \in Ints
    PROVE  find_bucket(h, v) \in 0..(h.bucket_cnt - 1)
<1>1. hash_int[v] \in Int /\ h.bucket_cnt \in Nat \ {0}
  BY HashType DEF Holds
<1> QED
  BY <1>1 DEF find_bucket

\* The items of a table have values that commands can give.
Valued(X, w) == \A i \in X : w[i] \in Ints

\* What a search finds is an item of the table that has the value, and if each item is in
\* the bucket of its value it finds one if there is one.
LEMMA HashFinds ==
    ASSUME NEW h, NEW X, Holds(h, X), NEW w, Valued(X, w), NEW v \in Ints
    PROVE  /\ hash_find(h, w, v) = NoItem \/ (hash_find(h, w, v) \in X /\ w[hash_find(h, w, v)] = v)
           /\ Placed(h, w) /\ hash_find(h, w, v) = NoItem => \A i \in X : w[i] # v
           /\ NoItem \notin X
<1> PICK b, s : b = find_bucket(h, v) /\ s = h.buckets[b]
  OBVIOUS
<1>1. b \in 0..(h.bucket_cnt - 1)
  BY BucketInTable
<1>2. Chain(s) /\ Range(s) \subseteq X
  BY <1>1, InBucket DEF Holds, Buckets
<1> PICK m : m = Len(s)
  OBVIOUS
<1>3. m \in Nat /\ Range(s) = {s[p] : p \in 1..m}
  BY <1>2, ChainRange DEF Chain
<1> DEFINE I == {p \in 1..m : w[s[p]] = v}
<1>4. hash_find(h, w, v) = IF (IF I # {} THEN Min(I) ELSE 0) = 0 THEN NoItem
                           ELSE s[IF I # {} THEN Min(I) ELSE 0]
  BY DEF hash_find, find_elem, SelectInSeq
<1>5. ASSUME I # {}
      PROVE  hash_find(h, w, v) \in X /\ w[hash_find(h, w, v)] = v
  <2>1. I \subseteq Nat /\ 0 \notin I
    BY <1>3
  <2>2. PICK k : k = Min(I)
    OBVIOUS
  <2>3. k \in I
    <3> HIDE DEF I
    <3> QED
      BY <1>5, <2>1, <2>2, LeastNumber
  <2>4. hash_find(h, w, v) = s[k]
    <3>1. k # 0
      <4> HIDE DEF I
      <4> QED
        BY <2>1, <2>3
    <3> HIDE DEF I
    <3> QED
      BY <1>4, <1>5, <2>2, <3>1
  <2> QED
    BY <1>2, <1>3, <2>3, <2>4
<1>6. ASSUME I = {}
      PROVE  hash_find(h, w, v) = NoItem
  <2> HIDE DEF I
  <2> QED
    BY <1>4, <1>6
<1>7. NoItem \notin X
  <2>1. X \subseteq Items
    BY HoldsItems
  <2> QED
    BY <2>1, InterpreterAssumption DEF Items, NoItem
<1>8. ASSUME Placed(h, w), I = {}, NEW i \in X, w[i] = v
      PROVE  FALSE
  <2>1. PICK c \in 0..(h.bucket_cnt - 1) : i \in Range(h.buckets[c])
    BY DEF Holds, Buckets
  <2>2. c = b
    <3>1. c \in DOMAIN h.buckets
      BY <2>1, HoldsItems
    <3>2. find_bucket(h, w[i]) = c
      BY <1>8, <2>1, <3>1 DEF Placed
    <3> QED
      BY <1>8, <3>2
  <2>3. i \in Range(s)
    BY <2>1, <2>2
  <2> QED
    BY <1>3, <1>8, <2>3
<1>9. I # {} => hash_find(h, w, v) # NoItem
  <2> HIDE DEF I
  <2> QED
    BY <1>5, <1>7
<1> HIDE DEF I
<1> QED
  BY <1>5, <1>6, <1>7, <1>8, <1>9

\* insert_elem puts an item into the bucket of its value.
LEMMA InsertHolds ==
    ASSUME NEW h, NEW X, Holds(h, X), NEW w, NEW i \in Items \ X, w[i] \in Ints,
           NEW new, new = insert_elem(h, find_bucket(h, w[i]), i)
    PROVE  /\ Holds(new, X \union {i})
           /\ new.bucket_cnt = h.bucket_cnt
           /\ Placed(h, w) => Placed(new, w)
<1>0. PICK b, n, f : b = find_bucket(h, w[i]) /\ n = h.bucket_cnt /\ f = h.buckets
  OBVIOUS
<1>1. b \in 0..(n - 1) /\ n \in Nat \ {0}
  BY <1>0, BucketInTable, HoldsItems
<1>2. PICK g : g = [f EXCEPT ![b] = <<i>> \o @]
  OBVIOUS
<1>3. Buckets(g, n, X \union {i})
  BY <1>0, <1>1, <1>2, BucketsPut DEF Holds
<1>4. new = [elem_cnt |-> h.elem_cnt + 1, bucket_cnt |-> n, buckets |-> g]
  <2>1. new = [h EXCEPT !.elem_cnt = @ + 1, !.buckets[b] = <<i>> \o @]
    BY <1>0 DEF insert_elem
  <2>2. h \in [elem_cnt : Int, bucket_cnt : Nat \ {0}, buckets : {h.buckets}]
    BY DEF Holds
  <2> QED
    BY <1>0, <1>2, <2>1, <2>2
<1>5. h.elem_cnt + 1 = Cardinality(X \union {i})
  BY HoldsItems, FS_AddElement
<1>6. Cardinality(X \union {i}) \in Int
  BY <1>5, HoldsItems
<1>7. Holds(new, X \union {i})
  <2>1. n \in BucketCnts
    BY <1>0 DEF Holds
  <2> QED
    BY <1>1, <1>3, <1>4, <1>5, <1>6, <2>1 DEF Holds
<1>8. ASSUME Placed(h, w)
      PROVE  Placed(new, w)
  <2>1. \A v : find_bucket(new, v) = find_bucket(h, v)
    BY <1>0, <1>4 DEF find_bucket
  <2>2. DOMAIN f = 0..(n - 1) /\ DOMAIN g = 0..(n - 1)
    BY <1>0, <1>3, HoldsItems DEF Buckets
  <2>3. Range(g[b]) = Range(f[b]) \union {i}
    <3>1. g[b] = <<i>> \o f[b]
      BY <1>1, <1>2, <2>2
    <3>2. Chain(f[b]) /\ i \notin Range(f[b])
      BY <1>0, <1>1, InBucket DEF Holds, Buckets
    <3> QED
      BY <3>1, <3>2, ChainCons
  <2>4. \A c \in 0..(n - 1) : c # b => g[c] = f[c]
    BY <1>2, <2>2
  <2>5. \A c \in 0..(n - 1) : \A j \in Range(f[c]) : find_bucket(h, w[j]) = c
    BY <1>0, <1>8, <2>2 DEF Placed
  <2>6. \A c \in 0..(n - 1) : \A j \in Range(g[c]) : find_bucket(h, w[j]) = c
    BY <1>0, <2>3, <2>4, <2>5
  <2>7. new.buckets = g
    BY <1>4
  <2> QED
    BY <2>1, <2>2, <2>6, <2>7 DEF Placed
<1> QED
  BY <1>0, <1>4, <1>7, <1>8

\* remove_elem takes an item out of whichever bucket it is in.
LEMMA RemoveHolds ==
    ASSUME NEW h, NEW X, Holds(h, X), NEW w, NEW i \in X, NEW new, new = remove_elem(h, i)
    PROVE  /\ Holds(new, X \ {i})
           /\ new.bucket_cnt = h.bucket_cnt
           /\ Placed(h, w) => Placed(new, w)
<1>0. PICK n, f : n = h.bucket_cnt /\ f = h.buckets
  OBVIOUS
<1>1. n \in Nat \ {0} /\ DOMAIN f = 0..(n - 1)
  BY <1>0, HoldsItems
<1>2. PICK g : g = [b \in DOMAIN f |-> RemoveFirst(f[b], i)]
  OBVIOUS
<1>3. Buckets(g, n, X \ {i})
  BY <1>0, <1>2, BucketsDrop DEF Holds
<1>4. new = [elem_cnt |-> h.elem_cnt - 1, bucket_cnt |-> n, buckets |-> g]
  <2>1. new = [h EXCEPT !.elem_cnt = @ - 1, !.buckets = g]
    BY <1>0, <1>2 DEF remove_elem
  <2>2. h \in [elem_cnt : Int, bucket_cnt : Nat \ {0}, buckets : {h.buckets}]
    BY DEF Holds
  <2> QED
    BY <1>0, <2>1, <2>2
<1>5. h.elem_cnt - 1 = Cardinality(X \ {i})
  BY HoldsItems, FS_RemoveElement
<1>6. Cardinality(X \ {i}) \in Int
  BY <1>5, HoldsItems
<1>7. Holds(new, X \ {i})
  <2>1. n \in BucketCnts
    BY <1>0 DEF Holds
  <2> QED
    BY <1>1, <1>3, <1>4, <1>5, <1>6, <2>1 DEF Holds
<1>8. ASSUME Placed(h, w)
      PROVE  Placed(new, w)
  <2>1. \A v : find_bucket(new, v) = find_bucket(h, v)
    BY <1>0, <1>4 DEF find_bucket
  <2>2. DOMAIN g = 0..(n - 1)
    BY <1>1, <1>2
  <2>3. \A c \in 0..(n - 1) : Range(g[c]) \subseteq Range(f[c])
    <3> SUFFICES ASSUME NEW c \in 0..(n - 1) PROVE Range(g[c]) \subseteq Range(f[c])
      OBVIOUS
    <3>1. g[c] = RemoveFirst(f[c], i)
      BY <1>1, <1>2
    <3>2. Chain(f[c])
      BY <1>0 DEF Holds, Buckets
    <3> QED
      BY <3>1, <3>2, ChainRemove
  <2>4. \A c \in 0..(n - 1) : \A j \in Range(f[c]) : find_bucket(h, w[j]) = c
    BY <1>0, <1>1, <1>8 DEF Placed
  <2>5. new.buckets = g
    BY <1>4
  <2> QED
    BY <2>1, <2>2, <2>3, <2>4, <2>5 DEF Placed
<1> QED
  BY <1>0, <1>4, <1>7, <1>8

\* Tables with cnt buckets.
Tables(e, cnt) ==
    [elem_cnt : {e}, bucket_cnt : {cnt}, buckets : [0..(cnt - 1) -> Seq(Items)]]

\* A round of the loop in rehash: an item goes to the front of its new bucket.
Put(r, i, w) == [r EXCEPT !.buckets[find_bucket(r, w[i])] = <<i>> \o @]

\* The buckets f with the item i in front of bucket b.
InFront(f, b, i) == [f EXCEPT ![b] = <<i>> \o @]

\* That makes one table of another.
LEMMA PutOne ==
    ASSUME NEW e, NEW cnt \in Nat \ {0}, NEW r \in Tables(e, cnt),
           NEW w, NEW i \in Items, w[i] \in Ints,
           NEW b, b = find_bucket(r, w[i]), NEW f, f = r.buckets,
           NEW ff, ff = InFront(f, b, i)
    PROVE  /\ b \in 0..(cnt - 1)
           /\ Put(r, i, w) = [elem_cnt |-> e, bucket_cnt |-> cnt, buckets |-> ff]
           /\ Put(r, i, w) \in Tables(e, cnt)
<1>1. r.bucket_cnt = cnt /\ f \in [0..(cnt - 1) -> Seq(Items)]
  BY DEF Tables
<1>2. b \in 0..(cnt - 1)
  <2>1. hash_int[w[i]] \in Int
    BY HashType
  <2> QED
    BY <1>1, <2>1 DEF find_bucket
<1>3. PICK s : s = <<i>> \o f[b]
  OBVIOUS
<1>4. s \in Seq(Items)
  <2>1. <<i>> \in Seq(Items) /\ f[b] \in Seq(Items)
    BY <1>1, <1>2
  <2> QED
    BY <1>3, <2>1, ConcatProperties
<1>5. Put(r, i, w) = [r EXCEPT !.buckets[b] = <<i>> \o @]
  BY DEF Put
<1>6. ff = [f EXCEPT ![b] = s]
  BY <1>3 DEF InFront
<1>7. Put(r, i, w) = [elem_cnt |-> e, bucket_cnt |-> cnt, buckets |-> ff]
  BY <1>3, <1>5, <1>6 DEF Tables
<1>8. ff \in [0..(cnt - 1) -> Seq(Items)]
  BY <1>1, <1>4, <1>6
<1> QED
  BY <1>2, <1>7, <1>8 DEF Tables

\* rehash moves the items to other buckets, each to the one of its value.
LEMMA MovedHolds ==
    ASSUME NEW h, NEW X, Holds(h, X), NEW w, Valued(X, w), NEW cnt \in Nat \ {0},
           cnt \in BucketCnts
    PROVE  Holds(Moved(h, w, cnt), X) /\ Placed(Moved(h, w, cnt), w)
<1>0. PICK v, n, e, base : /\ v = Visited(h) /\ n = Len(v) /\ e = h.elem_cnt
                           /\ base = [h EXCEPT !.bucket_cnt = cnt,
                                               !.buckets = [b \in 0..(cnt - 1) |-> <<>>]]
  OBVIOUS
<1>1. /\ Chain(v) /\ Range(v) = X /\ v \in Seq(Items) /\ n \in Nat /\ DOMAIN v = 1..n
      /\ X = {v[p] : p \in 1..n} /\ X \subseteq Items
  <2>1. h.bucket_cnt \in Nat \ {0} /\ Buckets(h.buckets, h.bucket_cnt, X)
    BY DEF Holds
  <2>2. Chain(v) /\ Range(v) = X
    BY <1>0, <2>1, BucketsFlat DEF Visited
  <2> QED
    BY <1>0, <2>2, ChainRange DEF Chain
<1> DEFINE T == 1..n
           fold(g) == g = [s \in SUBSET T |-> IF s = {} THEN base
                                              ELSE Put(g[s \ {Max(s)}], v[Max(s)], w)]
<1>2. Moved(h, w, cnt) = (CHOOSE g : fold(g))[T]
  <2>1. Moved(h, w, cnt) = (CHOOSE g : g = [s \in SUBSET (DOMAIN v) |->
                               IF s = {} THEN base
                               ELSE Put(g[s \ {Max(s)}], v[Max(s)], w)])[DOMAIN v]
    BY <1>0 DEF Moved, FoldLeft, MapThenFoldSet, Put
  <2> QED
    BY <1>1, <2>1
<1>3. PICK last : last = [s \in SUBSET T |-> Max(s)]
  OBVIOUS
<1>4. PICK G : G = [k \in T |-> [r \in Tables(e, cnt) |-> Put(r, v[k], w)]]
  OBVIOUS
<1>5. IsFiniteSet(T) /\ Chooses(last, T)
  BY <1>1, <1>3, LastTaken
<1>6. \A k \in T : v[k] \in Items /\ v[k] \in X /\ w[v[k]] \in Ints
  BY <1>1 DEF Valued
<1>7. G \in [T -> [Tables(e, cnt) -> Tables(e, cnt)]]
  <2>1. ASSUME NEW k \in T, NEW r \in Tables(e, cnt)
        PROVE  Put(r, v[k], w) \in Tables(e, cnt)
    <3>1. v[k] \in Items /\ w[v[k]] \in Ints
      BY <1>6
    <3>2. PICK b, f : b = find_bucket(r, w[v[k]]) /\ f = r.buckets
      OBVIOUS
    <3>3. PICK ff : ff = [f EXCEPT ![b] = <<v[k]>> \o @]
      OBVIOUS
    <3>4. b = find_bucket(r, w[v[k]]) /\ f = r.buckets
      BY <3>2
    <3>5. ff = InFront(f, b, v[k])
      BY <3>3 DEF InFront
    <3> QED
      BY <3>1, <3>4, <3>5, PutOne
  <2> QED
    BY <1>4, <2>1
<1>8. PICK f0 : f0 = [b \in 0..(cnt - 1) |-> <<>>]
  OBVIOUS
<1>9. Buckets(f0, cnt, {})
  BY <1>8, BucketsEmpty
<1>10. base = [elem_cnt |-> e, bucket_cnt |-> cnt, buckets |-> f0]
  <2>1. h \in [elem_cnt : Int, bucket_cnt : Nat \ {0}, buckets : {h.buckets}]
    BY DEF Holds
  <2>2. base = [h EXCEPT !.bucket_cnt = cnt, !.buckets = f0]
    BY <1>0, <1>8
  <2> QED
    BY <1>0, <2>1, <2>2
<1>11. base \in Tables(e, cnt)
  BY <1>9, <1>10 DEF Tables, Buckets
<1> HIDE DEF T
<1>12. PICK g \in [SUBSET T -> Tables(e, cnt)] : FoldOf(g, SUBSET T, base, last, G)
  BY <1>5, <1>7, <1>11, FoldExists
<1>13. fold(g)
  <2>1. ASSUME NEW s \in SUBSET T, s # {}
        PROVE  g[s] = Put(g[s \ {Max(s)}], v[Max(s)], w)
    <3> PICK m, r : m = last[s] /\ r = s \ {m}
      OBVIOUS
    <3>1. m = Max(s) /\ m \in T /\ r \in SUBSET T
      BY <1>3, <1>5, <2>1 DEF Chooses
    <3>2. g[s] = G[m][g[r]]
      BY <1>12, <2>1 DEF FoldOf
    <3>3. G[m][g[r]] = Put(g[r], v[m], w)
      BY <1>4, <1>12, <3>1
    <3> QED
      BY <3>1, <3>2, <3>3
  <2>2. g[{}] = base
    BY <1>12 DEF FoldOf
  <2> QED
    BY <1>12, <2>1, <2>2
<1>14. PICK l : l = CHOOSE r : fold(r)
  OBVIOUS
<1>15. fold(l)
  <2> HIDE DEF fold
  <2> QED
    BY <1>13, <1>14
<1> DEFINE Done(k) == {v[p] : p \in 1..k}
           P == {k \in 0..n : /\ l[1..k] \in Tables(e, cnt)
                              /\ Buckets(l[1..k].buckets, cnt, Done(k))
                              /\ Placed(l[1..k], w)}
<1>16. 0 \in P
  <2>1. 1..0 = {} /\ {} \in SUBSET T
    OBVIOUS
  <2>2. l[{}] = base
    BY <1>15, <2>1
  <2>3. Done(0) = {}
    BY <2>1
  <2>4. Placed(base, w)
    <3>1. \A b \in 0..(cnt - 1) : Range(f0[b]) = {}
      BY <1>9, NothingInBucket
    <3>2. base.buckets = f0 /\ DOMAIN f0 = 0..(cnt - 1)
      BY <1>9, <1>10 DEF Buckets
    <3> QED
      BY <3>1, <3>2 DEF Placed
  <2>5. base.buckets = f0
    BY <1>10
  <2>6. l[1..0] = base /\ 0 \in 0..n
    BY <1>1, <2>1, <2>2
  <2> HIDE DEF Done
  <2> QED
    BY <1>9, <1>11, <2>3, <2>4, <2>5, <2>6
<1>17. ASSUME NEW k \in 0..(n - 1), k \in P
       PROVE  k + 1 \in P
  <2>1. /\ 1..(k + 1) \in SUBSET T /\ 1..(k + 1) # {}
        /\ Max(1..(k + 1)) = k + 1
        /\ (1..(k + 1)) \ {k + 1} = 1..k
    BY <1>1, LastTaken DEF T
  <2>2. PICK r, i : r = l[1..k] /\ i = v[k + 1]
    OBVIOUS
  <2>3. PICK rr : rr = l[1..(k + 1)]
    OBVIOUS
  <2>4. rr = Put(r, i, w)
    BY <1>15, <2>1, <2>2, <2>3
  <2>5. k + 1 \in 1..n /\ k + 1 \in 0..n
    BY <1>1
  <2>6. i \in Items /\ w[i] \in Ints
    BY <1>6, <2>2, <2>5 DEF T
  <2>7. r \in Tables(e, cnt) /\ Buckets(r.buckets, cnt, Done(k)) /\ Placed(r, w)
    BY <1>17, <2>2
  <2>8. PICK b : b = find_bucket(r, w[i])
    OBVIOUS
  <2>9. PICK f : f = r.buckets
    OBVIOUS
  <2>10. PICK ff : ff = [f EXCEPT ![b] = <<i>> \o @]
    OBVIOUS
  <2>11. /\ b \in 0..(cnt - 1)
         /\ rr = [elem_cnt |-> e, bucket_cnt |-> cnt, buckets |-> ff]
         /\ rr \in Tables(e, cnt)
    <3>1. Put(r, i, w) = [elem_cnt |-> e, bucket_cnt |-> cnt, buckets |-> ff]
          /\ b \in 0..(cnt - 1) /\ Put(r, i, w) \in Tables(e, cnt)
      <4> HIDE DEF Done, P
      <4>1. r \in Tables(e, cnt) /\ i \in Items /\ w[i] \in Ints
        BY <2>6, <2>7
      <4>2. b = find_bucket(r, w[i])
        BY <2>8
      <4>3. f = r.buckets
        BY <2>9
      <4>4. ff = InFront(f, b, i)
        BY <2>10 DEF InFront
      <4> QED
        BY <4>1, <4>2, <4>3, <4>4, PutOne
    <3> QED
      BY <2>4, <3>1
  <2>12. i \notin Done(k)
    <3> SUFFICES ASSUME NEW p \in 1..k, v[p] = i PROVE FALSE
      OBVIOUS
    <3>1. p \in 1..n /\ p # k + 1
      BY <1>1
    <3> QED
      BY <1>0, <1>1, <2>2, <2>5, <3>1 DEF Chain
  <2>13. Done(k + 1) = Done(k) \union {i}
    <3>1. 1..(k + 1) = (1..k) \union {k + 1}
      BY <2>5
    <3> QED
      BY <2>2, <3>1
  <2>14. Buckets(ff, cnt, Done(k + 1))
    <3>1. PICK D : D = Done(k)
      OBVIOUS
    <3> HIDE DEF Done
    <3>2. Buckets(f, cnt, D) /\ i \in Items \ D
      BY <2>6, <2>7, <2>9, <2>12, <3>1
    <3>3. Buckets(ff, cnt, D \union {i})
      BY <2>10, <2>11, <3>2, BucketsPut
    <3> QED
      BY <2>13, <3>1, <3>3
  <2>15. Placed(rr, w)
    <3>1. \A x : find_bucket(rr, x) = find_bucket(r, x)
      BY <2>7, <2>11 DEF find_bucket, Tables
    <3>2. DOMAIN f = 0..(cnt - 1) /\ DOMAIN ff = 0..(cnt - 1)
      BY <2>7, <2>9, <2>10 DEF Tables
    <3>3. Range(ff[b]) = Range(f[b]) \union {i}
      <4>1. ff[b] = <<i>> \o f[b]
        BY <2>10, <2>11, <3>2
      <4>2. Chain(f[b]) /\ Range(f[b]) \subseteq Done(k)
        <5> HIDE DEF Done
        <5> QED
          BY <2>7, <2>9, <2>11, InBucket DEF Buckets
      <4> QED
        BY <2>6, <2>12, <4>1, <4>2, ChainCons
    <3>4. \A c \in 0..(cnt - 1) : c # b => ff[c] = f[c]
      BY <2>10, <3>2
    <3>5. \A c \in 0..(cnt - 1) : \A j \in Range(f[c]) : find_bucket(r, w[j]) = c
      BY <2>7, <2>9, <3>2 DEF Placed
    <3>6. \A c \in 0..(cnt - 1) : \A j \in Range(ff[c]) : find_bucket(r, w[j]) = c
      BY <2>8, <3>3, <3>4, <3>5
    <3>7. rr.buckets = ff
      BY <2>11
    <3> QED
      BY <3>1, <3>2, <3>6, <3>7 DEF Placed
  <2>16. rr.buckets = ff
    BY <2>11
  <2> HIDE DEF Done
  <2> QED
    BY <2>3, <2>5, <2>11, <2>14, <2>15, <2>16
<1>18. n \in P
  <2>1. 0..n \subseteq P
    <3> HIDE DEF P
    <3> QED
      BY <1>1, <1>16, <1>17, UpTo
  <2>2. n \in 0..n
    BY <1>1
  <2> HIDE DEF P
  <2> QED
    BY <2>1, <2>2
<1>19. PICK m : m = Moved(h, w, cnt)
  OBVIOUS
<1>20. m \in Tables(e, cnt) /\ Buckets(m.buckets, cnt, X) /\ Placed(m, w)
  <2>1. m = l[1..n]
    BY <1>2, <1>14, <1>19 DEF T
  <2>2. Done(n) = X
    BY <1>1
  <2> HIDE DEF Done
  <2> QED
    BY <1>18, <2>1, <2>2
<1>21. e \in Int /\ e = Cardinality(X)
  BY <1>0 DEF Holds
<1>22. Holds(m, X)
  BY <1>20, <1>21 DEF Holds, Tables
<1> QED
  BY <1>19, <1>20, <1>22

\* rehash chooses a power of two, which is not too small.
LEMMA BucketsToBe ==
    ASSUME NEW h, NEW X, Holds(h, X)
    PROVE  NewBucketCnt(h) \in BucketCnts
<1>0. PICK d, c, q, m, min : /\ d = BestElems /\ c = h.elem_cnt /\ q = c \div d
                             /\ min = MinBuckets /\ m = Max({q, min})
  OBVIOUS
<1>1. c \in 0..NumItems /\ d \in Nat \ {0} /\ NumItems \in Nat /\ min \in Nat \ {0}
  <2>1. IsFiniteSet(Items) /\ Cardinality(Items) = NumItems /\ NumItems \in Nat
    BY InterpreterAssumption, FS_Interval DEF Items
  <2>2. c = Cardinality(X) /\ X \subseteq Items
    BY <1>0, HoldsItems
  <2>3. Cardinality(X) <= Cardinality(Items) /\ Cardinality(X) \in Nat
    BY <2>1, HoldsItems, FS_Subset
  <2> QED
    BY <1>0, <2>1, <2>2, <2>3, HashTableAssumption, SomeBuckets
<1>2. q \in Nat /\ q <= NumItems
  <2>1. q \in Nat /\ c % d \in Nat /\ c = (d * q) + (c % d)
    <3>1. c \in Nat
      BY <1>1
    <3>2. c \div d \in Nat /\ c % d \in 0..(d - 1) /\ c = (d * (c \div d)) + (c % d)
      BY <1>1, <3>1, DivMod
    <3>3. PICK y : y = c % d
      OBVIOUS
    <3>4. y \in Nat
      BY <1>1, <3>2, <3>3
    <3> QED
      BY <1>0, <3>2, <3>3, <3>4
  <2>2. q <= d * q
    BY <1>1, <2>1
  <2>3. d * q \in Nat
    BY <1>1, <2>1
  <2> QED
    BY <1>1, <2>1, <2>2, <2>3
<1>3. m \in Nat \ {0} /\ min <= m /\ m <= NumItems + min
  <2>1. PICK S : S = {q, min}
    OBVIOUS
  <2>2. PICK a : a = IF q <= min THEN min ELSE q
    OBVIOUS
  <2>3. S \subseteq Int /\ S # {} /\ a \in Int /\ \A y \in S : y <= a
    BY <1>1, <1>2, <2>1, <2>2
  <2>4. Max(S) \in S /\ \A y \in S : y <= Max(S)
    BY <2>3, GreatestNumber
  <2>5. min \in S
    BY <2>1
  <2> QED
    BY <1>0, <1>1, <1>2, <2>1, <2>4, <2>5
<1>4. PICK S : S = {p \in {2 ^ k : k \in 0..m} : p <= m}
  OBVIOUS
<1>5. S \subseteq Int
  <2>1. \A k \in 0..m : 2 ^ k \in Int
    BY <1>3, PowersAre
  <2> QED
    BY <1>4, <2>1
<1>6. min \in S
  <2>1. PICK k \in 0..min : min = 2 ^ k
    BY <1>0, BucketCntsAre
  <2>2. k \in 0..m
    BY <1>1, <1>3
  <2>3. min \in {2 ^ j : j \in 0..m}
    BY <2>1, <2>2
  <2> QED
    BY <1>3, <1>4, <2>3
<1>7. \A y \in S : y <= m
  BY <1>4
<1>8. Max(S) \in S /\ \A y \in S : y <= Max(S)
  <2>1. S # {} /\ m \in Int
    BY <1>3, <1>6
  <2> QED
    BY <1>5, <1>7, <2>1, GreatestNumber
<1>9. PICK p : p = Max(S)
  OBVIOUS
<1>10. p \in Int /\ min <= p /\ p \in {2 ^ k : k \in 0..m}
  BY <1>4, <1>5, <1>6, <1>8, <1>9
<1>11. PICK k \in 0..m : p = 2 ^ k
  BY <1>10
<1>12. k \in 0..(NumItems + min)
  BY <1>1, <1>3
<1>13. p \in BucketCnts
  <2>1. PICK n : n = NumItems + min
    OBVIOUS
  <2>2. p \in {2 ^ j : j \in 0..n}
    BY <1>11, <1>12, <2>1
  <2>3. p >= min
    BY <1>1, <1>10
  <2> QED
    BY <1>0, <2>1, <2>2, <2>3 DEF BucketCnts
<1>14. NewBucketCnt(h) = p
  BY <1>0, <1>4, <1>9 DEF NewBucketCnt, PowerOfTwoUpTo
<1> QED
  BY <1>13, <1>14

\* rehash leaves the same items in the table, whether or not it gets the memory.
LEMMA RehashHolds ==
    ASSUME NEW h, NEW X, Holds(h, X), NEW w, Valued(X, w), NEW ok
    PROVE  /\ Holds(rehash(h, w, ok), X)
           /\ Placed(h, w) => Placed(rehash(h, w, ok), w)
<1> PICK cnt : cnt = NewBucketCnt(h)
  OBVIOUS
<1>1. cnt \in Nat \ {0} /\ cnt \in BucketCnts
  BY BucketsToBe, BucketCntsAre
<1>2. Holds(Moved(h, w, cnt), X) /\ Placed(Moved(h, w, cnt), w)
  BY <1>1, MovedHolds
<1>3. rehash(h, w, ok) = Moved(h, w, cnt) \/ rehash(h, w, ok) = h
  BY DEF rehash
<1> QED
  BY <1>2, <1>3

\* hash_insert: the item is in the table, unless one with its value was there already.
LEMMA HashInsertHolds ==
    ASSUME NEW h, NEW X, Holds(h, X), NEW w, Valued(X, w), NEW i \in Items \ X, w[i] \in Ints,
           NEW ok, NEW new, new = hash_insert(h, w, i, ok)
    PROVE  /\ Holds(new, IF hash_find(h, w, w[i]) = NoItem THEN X \union {i} ELSE X)
           /\ Placed(h, w) => Placed(new, w)
<1>1. CASE hash_find(h, w, w[i]) = NoItem
  <2>1. PICK mid : mid = insert_elem(h, find_bucket(h, w[i]), i)
    OBVIOUS
  <2>2. Holds(mid, X \union {i}) /\ (Placed(h, w) => Placed(mid, w))
    BY <2>1, InsertHolds
  <2>3. Valued(X \union {i}, w)
    BY DEF Valued
  <2>4. new = rehash(mid, w, ok)
    BY <1>1, <2>1 DEF hash_insert
  <2> QED
    BY <1>1, <2>2, <2>3, <2>4, RehashHolds
<1>2. CASE hash_find(h, w, w[i]) # NoItem
  <2>1. new = rehash(h, w, ok)
    BY <1>2 DEF hash_insert
  <2> QED
    BY <1>2, <2>1, RehashHolds
<1> QED
  BY <1>1, <1>2

\* hash_replace: it is, and the one with its value that was found is not.
LEMMA HashReplaceHolds ==
    ASSUME NEW h, NEW X, Holds(h, X), NEW w, Valued(X, w), NEW i \in Items \ X, w[i] \in Ints,
           NEW ok, NEW new, new = hash_replace(h, w, i, ok),
           NEW old, old = hash_find(h, w, w[i])
    PROVE  /\ Holds(new, (X \ {old}) \union {i})
           /\ Placed(h, w) => Placed(new, w)
<1>1. PICK mid : mid = IF old = NoItem THEN h ELSE remove_elem(h, old)
  OBVIOUS
<1>2. /\ Holds(mid, X \ {old}) /\ (Placed(h, w) => Placed(mid, w))
      /\ mid.bucket_cnt = h.bucket_cnt
  <2>1. CASE old = NoItem
    <3>1. X \ {old} = X
      BY <2>1, HashFinds
    <3> QED
      BY <1>1, <2>1, <3>1
  <2>2. CASE old # NoItem
    <3>1. old \in X
      BY <2>2, HashFinds
    <3>2. mid = remove_elem(h, old)
      BY <1>1, <2>2
    <3> QED
      BY <3>1, <3>2, RemoveHolds
  <2> QED
    BY <2>1, <2>2
<1>3. find_bucket(mid, w[i]) = find_bucket(h, w[i])
  BY <1>2 DEF find_bucket
<1>4. PICK more : more = insert_elem(mid, find_bucket(mid, w[i]), i)
  OBVIOUS
<1>5. PICK Y : Y = X \ {old}
  OBVIOUS
<1>6. i \in Items \ Y /\ Holds(mid, Y)
  BY <1>2, <1>5
<1>7. Holds(more, Y \union {i}) /\ (Placed(mid, w) => Placed(more, w))
  BY <1>4, <1>6, InsertHolds
<1>8. Valued(Y \union {i}, w)
  BY <1>5 DEF Valued
<1>9. new = rehash(more, w, ok)
  BY <1>1, <1>3, <1>4 DEF hash_replace
<1>10. Holds(new, Y \union {i}) /\ (Placed(more, w) => Placed(new, w))
  BY <1>7, <1>8, <1>9, RehashHolds
<1> QED
  BY <1>2, <1>5, <1>7, <1>10

\* hash_delete: what was found is not in the table.
LEMMA HashDeleteHolds ==
    ASSUME NEW h, NEW X, Holds(h, X), NEW w, Valued(X, w), NEW v \in Ints,
           NEW ok, NEW new, new = hash_delete(h, w, v, ok),
           NEW found, found = hash_find(h, w, v)
    PROVE  /\ Holds(new, X \ {found})
           /\ Placed(h, w) => Placed(new, w)
<1>1. CASE found = NoItem
  <2>1. X \ {found} = X
    BY <1>1, HashFinds
  <2>2. new = h
    BY <1>1 DEF hash_delete
  <2> QED
    BY <2>1, <2>2
<1>2. CASE found # NoItem
  <2>1. found \in X
    BY <1>2, HashFinds
  <2>2. PICK mid, Y : mid = remove_elem(h, found) /\ Y = X \ {found}
    OBVIOUS
  <2>3. Holds(mid, Y) /\ (Placed(h, w) => Placed(mid, w))
    BY <2>1, <2>2, RemoveHolds
  <2>4. Valued(Y, w)
    BY <2>2 DEF Valued
  <2>5. new = rehash(mid, w, ok)
    BY <1>2, <2>2 DEF hash_delete
  <2>6. Holds(new, Y) /\ (Placed(mid, w) => Placed(new, w))
    BY <2>3, <2>4, <2>5, RehashHolds
  <2> QED
    BY <2>2, <2>3, <2>6
<1> QED
  BY <1>1, <1>2

-----------------------------------------------------------------------------
(* Who owns the items of hash tables *)

HUsed == UsedSlots("hashtable")

\* No two of the items X have the same value, and each is in the bucket of its value.
Neat(h, X, w) == Placed(h, w) /\ \A i, j \in X : w[i] = w[j] => i = j

\* The values of items.
Vals == [Items -> Ints \union {NoValue}]

\* Each table has its items in its buckets, no two tables have one in common, and whatever
\* item is allocated is in a table.
HashInv ==
    /\ val \in Vals
    /\ \A s \in HUsed : Holds(HashAt(s), ItemsOf(s))
    /\ \A s, t \in HUsed : s # t => ItemsOf(s) \intersect ItemsOf(t) = {}
    /\ \A i \in Items : i \in Allocated <=> \E s \in HUsed : i \in ItemsOf(s)
    /\ ~running => HUsed = {}

\* Elems and Stale tell of every table in use its items and whether it is not neat, before
\* and after a step.
LEMMA ElemsAre ==
    /\ Elems = [s \in HUsed |-> Elems[s]] /\ DOMAIN Elems = HUsed
    /\ \A s \in HUsed : Elems[s] = [i \in ItemsOf(s) |-> val[i]]
    /\ Elems' = [s \in HUsed' |-> Elems'[s]] /\ DOMAIN Elems' = HUsed'
    /\ \A s \in HUsed' : Elems'[s] = [i \in ItemsOf(s)' |-> val'[i]]
BY DEF Elems, HUsed

\* What Misplaced looks for.
LEMMA NotNeat ==
    ASSUME NEW h, NEW X, Holds(h, X), NEW w
    PROVE  Neat(h, X, w) <=>
              ~\E b \in DOMAIN h.buckets : \E i \in ToSet(h.buckets[b]) :
                  find_bucket(h, w[i]) # b \/ \E j \in X \ {i} : w[j] = w[i]
<1> PICK R : R = [b \in DOMAIN h.buckets |-> Range(h.buckets[b])]
  OBVIOUS
<1>1. \A b \in DOMAIN h.buckets : ToSet(h.buckets[b]) = R[b] /\ Range(h.buckets[b]) = R[b]
  BY DEF ToSet, Range
<1>2. X = UNION {R[b] : b \in DOMAIN h.buckets}
  BY HoldsItems DEF Holds, Buckets
<1> QED
  BY <1>1, <1>2 DEF Neat, Placed

\* Stale are the tables in use that are not neat.
LEMMA StaleIs ==
    ASSUME NEW s \in HUsed, Holds(HashAt(s), ItemsOf(s))
    PROVE  s \in Stale <=> ~Neat(HashAt(s), ItemsOf(s), val)
BY NotNeat DEF Stale, Misplaced, HUsed

\* So are those after a step.
LEMMA StaleIsAfter ==
    ASSUME NEW s \in HUsed', Holds(HashAt(s)', ItemsOf(s)')
    PROVE  s \in Stale' <=> ~Neat(HashAt(s)', ItemsOf(s)', val')
<1>1. s \in Stale' <=> Misplaced(s)'
  BY DEF Stale, HUsed
<1> PICK h, X, w : h = HashAt(s)' /\ X = ItemsOf(s)' /\ w = val'
  OBVIOUS
<1>2. Misplaced(s)' <=> \E b \in DOMAIN h.buckets : \E i \in ToSet(h.buckets[b]) :
                  find_bucket(h, w[i]) # b \/ \E j \in X \ {i} : w[j] = w[i]
  BY DEF Misplaced
<1> QED
  BY <1>1, <1>2, NotNeat

\* What is neat depends only on the values of the items of the table.
LEMMA NeatSame ==
    ASSUME NEW h, NEW X, Holds(h, X), NEW w, NEW z, \A i \in X : w[i] = z[i]
    PROVE  /\ Placed(h, w) <=> Placed(h, z)
           /\ Neat(h, X, w) <=> Neat(h, X, z)
<1>1. \A b \in DOMAIN h.buckets : \A i \in Range(h.buckets[b]) : w[i] = z[i]
  BY InBucket, HoldsItems DEF Holds
<1>2. Placed(h, w) <=> Placed(h, z)
  BY <1>1 DEF Placed
<1> QED
  BY <1>2 DEF Neat

\* And so does what a search finds.
LEMMA FindSame ==
    ASSUME NEW h, NEW X, Holds(h, X), NEW w, NEW z, \A i \in X : w[i] = z[i], NEW v \in Ints
    PROVE  hash_find(h, w, v) = hash_find(h, z, v)
<1> PICK b, s : b = find_bucket(h, v) /\ s = h.buckets[b]
  OBVIOUS
<1>1. Chain(s) /\ Range(s) \subseteq X
  <2>1. b \in 0..(h.bucket_cnt - 1)
    BY BucketInTable
  <2> QED
    BY <2>1, InBucket DEF Holds, Buckets
<1>2. \A p \in 1..Len(s) : w[s[p]] = z[s[p]]
  BY <1>1, ChainRange DEF Chain
<1>3. {p \in 1..Len(s) : w[s[p]] = v} = {p \in 1..Len(s) : z[s[p]] = v}
  BY <1>2
<1>4. SelectInSeq(s, LAMBDA i : w[i] = v) = SelectInSeq(s, LAMBDA i : z[i] = v)
  BY <1>3 DEF SelectInSeq
<1> QED
  BY <1>4 DEF hash_find, find_elem

\* What is allocated and what is not.
LEMMA ValuesOfItems ==
    ASSUME HashInv
    PROVE  /\ NoValue \notin Ints
           /\ \A s \in HUsed : /\ ItemsOf(s) \subseteq Items /\ ItemsOf(s) \subseteq Allocated
                               /\ Valued(ItemsOf(s), val)
<1>1. NoValue \notin Ints
  BY DEF NoValue, Ints
<1>2. ASSUME NEW s \in HUsed
      PROVE  ItemsOf(s) \subseteq Items /\ ItemsOf(s) \subseteq Allocated /\ Valued(ItemsOf(s), val)
  <2>1. ItemsOf(s) \subseteq Items
    BY HoldsItems DEF HashInv
  <2>2. ItemsOf(s) \subseteq Allocated
    BY <2>1 DEF HashInv
  <2>3. \A i \in ItemsOf(s) : val[i] # NoValue /\ val[i] \in Ints \union {NoValue}
    BY <2>1, <2>2 DEF HashInv, Vals, Allocated
  <2> QED
    BY <2>1, <2>2, <2>3 DEF Valued
<1> QED
  BY <1>1, <1>2

\* Steps that touch neither hash tables nor items.
QuietHash ==
    /\ \A s \in Slots : /\ table'["hashtable"][s].used = table["hashtable"][s].used
                        /\ table'["hashtable"][s].obj = table["hashtable"][s].obj
    /\ val' = val

\* They keep the invariant, and what HashSpec sees.
LEMMA HashKept ==
    ASSUME HashInv, QuietHash, running' = running \/ HUsed = {}
    PROVE  HashInv' /\ Elems' = Elems /\ Stale' = Stale
<1>1. HUsed' = HUsed /\ \A s \in HUsed : HashAt(s)' = HashAt(s)
  BY DEF QuietHash, HUsed, UsedSlots, HashAt
<1>2. \A s \in HUsed : ItemsOf(s)' = ItemsOf(s)
  BY <1>1 DEF ItemsOf
<1>3. val' = val /\ Allocated' = Allocated
  BY DEF QuietHash, Allocated
<1>4. HashInv'
  BY <1>1, <1>2, <1>3 DEF HashInv
<1>5. Elems' = Elems
  <2>1. \A s \in HUsed : Elems'[s] = Elems[s]
    BY <1>1, <1>2, <1>3, ElemsAre
  <2> QED
    BY <1>1, <2>1, ElemsAre
<1>6. Stale' = Stale
  <2>1. ASSUME NEW s \in HUsed
        PROVE  s \in Stale' <=> s \in Stale
    BY <1>1, <1>2, <1>3, StaleIs, StaleIsAfter DEF HashInv
  <2>2. Stale \subseteq HUsed /\ Stale' \subseteq HUsed'
    BY DEF Stale, HUsed
  <2> QED
    BY <1>1, <2>1, <2>2
<1> QED
  BY <1>4, <1>5, <1>6

\* The items of other tables, and their values, are left alone; Y are those of the table in
\* slot s.
Spares(s, w, Y) ==
    /\ w \in Vals
    /\ \A t \in HUsed \ {s} : \A i \in ItemsOf(t) : w[i] = val[i] /\ i \notin Y
    /\ \A i \in Items : w[i] # NoValue <=> i \in Y \/ (i \in Allocated /\ i \notin ItemsOf(s))

\* A command that makes h of the hash table in slot s and leaves the others alone.
Makes(s, h) ==
    /\ HUsed' = HUsed
    /\ HashAt(s)' = h /\ \A t \in HUsed \ {s} : HashAt(t)' = HashAt(t)

\* With items Y in h, and those of other tables spared, it keeps the invariant and may only make
\* this table stale.
LEMMA HashChanged ==
    ASSUME HashInv, NEW s \in HUsed, NEW h, Makes(s, h),
           NEW Y, Holds(h, Y), Spares(s, val', Y), running' = running
    PROVE  /\ HashInv'
           /\ Elems' = [Elems EXCEPT ![s] = [i \in Y |-> val'[i]]]
           /\ Stale' \subseteq Stale \union {s}
           /\ Neat(h, Y, val') => s \notin Stale'
<1>1. /\ HUsed' = HUsed
      /\ HashAt(s)' = h /\ \A t \in HUsed \ {s} : HashAt(t)' = HashAt(t)
  BY DEF Makes
<1>2. ItemsOf(s)' = Y /\ \A t \in HUsed \ {s} : ItemsOf(t)' = ItemsOf(t)
  <2>1. ItemsOf(s)' = Members(h)
    BY <1>1 DEF ItemsOf
  <2>2. Members(h) = Y
    BY HoldsItems
  <2> QED
    BY <1>1, <2>1, <2>2 DEF ItemsOf
<1>3. \A t \in HUsed' : Holds(HashAt(t)', ItemsOf(t)')
  BY <1>1, <1>2 DEF HashInv
<1>4. \A t, u \in HUsed' : t # u => ItemsOf(t)' \intersect ItemsOf(u)' = {}
  <2> SUFFICES ASSUME NEW t \in HUsed, NEW u \in HUsed, t # u, NEW i \in ItemsOf(t)', i \in ItemsOf(u)'
               PROVE  FALSE
    BY <1>1
  <2>1. CASE t = s
    BY <1>2, <2>1 DEF Spares
  <2>2. CASE u = s
    BY <1>2, <2>2 DEF Spares
  <2>3. CASE t # s /\ u # s
    BY <1>2, <2>3 DEF HashInv
  <2> QED
    BY <2>1, <2>2, <2>3
<1>5. ASSUME NEW i \in Items
      PROVE  i \in Allocated' <=> \E t \in HUsed' : i \in ItemsOf(t)'
  <2>1. i \in Allocated' <=> i \in Y \/ (i \in Allocated /\ i \notin ItemsOf(s))
    BY DEF Allocated, Spares
  <2>2. i \in Allocated /\ i \notin ItemsOf(s) <=> \E t \in HUsed \ {s} : i \in ItemsOf(t)
    BY DEF HashInv
  <2>3. i \in Y => i \in ItemsOf(s)'
    BY <1>2
  <2> QED
    BY <1>1, <1>2, <2>1, <2>2, <2>3
<1>6. HashInv'
  BY <1>1, <1>3, <1>4, <1>5 DEF HashInv, Spares
<1>7. Elems' = [Elems EXCEPT ![s] = [i \in Y |-> val'[i]]]
  <2>1. PICK e : e = [i \in Y |-> val'[i]]
    OBVIOUS
  <2>2. Elems'[s] = e
    BY <1>1, <1>2, <2>1, ElemsAre
  <2>3. ASSUME NEW t \in HUsed \ {s}
        PROVE  Elems'[t] = Elems[t]
    <3>1. Elems'[t] = [i \in ItemsOf(t) |-> val'[i]] /\ Elems[t] = [i \in ItemsOf(t) |-> val[i]]
      BY <1>1, <1>2, ElemsAre
    <3>2. \A i \in ItemsOf(t) : val'[i] = val[i]
      BY DEF Spares
    <3> QED
      BY <3>1, <3>2
  <2>4. Elems = [t \in HUsed |-> Elems[t]] /\ Elems' = [t \in HUsed |-> Elems'[t]]
    BY <1>1, ElemsAre
  <2>5. Elems' = [t \in HUsed |-> IF t = s THEN e ELSE Elems[t]]
    BY <2>2, <2>3, <2>4
  <2>6. [Elems EXCEPT ![s] = e] = [t \in HUsed |-> IF t = s THEN e ELSE Elems[t]]
    BY <2>4
  <2> QED
    BY <2>1, <2>5, <2>6
<1>8. ASSUME NEW t \in HUsed \ {s}
      PROVE  t \in Stale' <=> t \in Stale
  <2>1. t \in Stale' <=> ~Neat(HashAt(t), ItemsOf(t), val')
    BY <1>1, <1>2, <1>3, StaleIsAfter
  <2>2. t \in Stale <=> ~Neat(HashAt(t), ItemsOf(t), val)
    BY StaleIs DEF HashInv
  <2>3. Holds(HashAt(t), ItemsOf(t)) /\ \A i \in ItemsOf(t) : val'[i] = val[i]
    BY DEF HashInv, Spares
  <2> QED
    BY <2>1, <2>2, <2>3, NeatSame
<1>9. Stale' \subseteq HUsed
  BY <1>1 DEF Stale, HUsed
<1>10. Neat(h, Y, val') => s \notin Stale'
  BY <1>1, <1>2, StaleIsAfter
<1> QED
  BY <1>6, <1>7, <1>8, <1>9, <1>10

\* So it is with one that writes h to the slot.
LEMMA HashWritten ==
    ASSUME HashInv, TableShape, NEW s \in HUsed, NEW h, InHash(s, h),
           NEW Y, Holds(h, Y), Spares(s, val', Y), running' = running
    PROVE  /\ HashInv'
           /\ Elems' = [Elems EXCEPT ![s] = [i \in Y |-> val'[i]]]
           /\ Stale' \subseteq Stale \union {s}
           /\ Neat(h, Y, val') => s \notin Stale'
<1>1. /\ HUsed' = HUsed
      /\ HashAt(s)' = h /\ \A t \in HUsed \ {s} : HashAt(t)' = HashAt(t)
  <2>1. "hashtable" \in Kinds /\ s \in Slots
    BY DEF Kinds, HUsed, UsedSlots
  <2>2. table' = WithObj(table, "hashtable", s, h)
    BY DEF InHash, WithObj
  <2>3. \A t \in Slots :
           /\ table'["hashtable"][t].used = table["hashtable"][t].used
           /\ table'["hashtable"][t].obj = IF t = s THEN h ELSE table["hashtable"][t].obj
    BY <2>1, <2>2, ObjReplaced
  <2> QED
    BY <2>1, <2>3 DEF HUsed, UsedSlots, HashAt
<1>2. Makes(s, h)
  BY <1>1 DEF Makes
<1> QED
  BY <1>2, HashChanged

\* A new table in slot s.
LEMMA HashCreated ==
    ASSUME HashInv, TableShape, NEW s \in Slots \ HUsed, NEW n, running,
           Register("hashtable", s, n, hash_init), val' = val, running' = running
    PROVE  /\ HashInv'
           /\ Elems' = [t \in HUsed \union {s} |-> IF t = s THEN << >> ELSE Elems[t]]
           /\ Stale' \subseteq Stale
<1> PICK e : e = [used |-> TRUE, name |-> copy_name(n), obj |-> hash_init]
  OBVIOUS
<1>1. \A t \in Slots : table'["hashtable"][t] = IF t = s THEN e ELSE table["hashtable"][t]
  <2>1. "hashtable" \in Kinds
    BY DEF Kinds
  <2>2. table' = [table EXCEPT !["hashtable"][s] = e]
    BY DEF Register
  <2> QED
    BY <2>1, <2>2 DEF TableShape
<1>2. /\ HUsed' = HUsed \union {s}
      /\ HashAt(s)' = hash_init /\ \A t \in HUsed : HashAt(t)' = HashAt(t)
  BY <1>1 DEF HUsed, UsedSlots, HashAt
<1>3. Holds(hash_init, {}) /\ Placed(hash_init, val)
  BY HashInitHolds
<1>4. ItemsOf(s)' = {} /\ \A t \in HUsed : ItemsOf(t)' = ItemsOf(t)
  <2>1. ItemsOf(s)' = Members(hash_init)
    BY <1>2 DEF ItemsOf
  <2>2. Members(hash_init) = {}
    BY <1>3, HoldsItems
  <2> QED
    BY <1>2, <2>1, <2>2 DEF ItemsOf
<1>5. Allocated' = Allocated
  BY DEF Allocated
<1>6. \A t \in HUsed' : Holds(HashAt(t)', ItemsOf(t)')
  BY <1>2, <1>3, <1>4 DEF HashInv
<1>7. HashInv'
  BY <1>2, <1>4, <1>5, <1>6 DEF HashInv
<1>8. Elems' = [t \in HUsed \union {s} |-> IF t = s THEN << >> ELSE Elems[t]]
  <2>1. PICK none : none = << >>
    OBVIOUS
  <2>2. Elems'[s] = none
    <3>1. Elems'[s] = [i \in {} |-> val'[i]]
      BY <1>2, <1>4, ElemsAre
    <3> QED
      BY <2>1, <3>1
  <2>3. \A t \in HUsed : Elems'[t] = Elems[t]
    BY <1>2, <1>4, ElemsAre
  <2>4. Elems' = [t \in HUsed \union {s} |-> Elems'[t]]
    BY <1>2, ElemsAre
  <2>5. Elems' = [t \in HUsed \union {s} |-> IF t = s THEN none ELSE Elems[t]]
    BY <2>2, <2>3, <2>4
  <2> QED
    BY <2>1, <2>5
<1>9. ASSUME NEW t \in HUsed, t \in Stale'
      PROVE  t \in Stale
  BY <1>2, <1>4, <1>6, <1>9, StaleIs, StaleIsAfter DEF HashInv
<1>10. s \notin Stale'
  <2>1. Neat(hash_init, {}, val)
    BY <1>3 DEF Neat
  <2> QED
    BY <1>2, <1>3, <1>4, <2>1, StaleIsAfter
<1>11. Stale' \subseteq HUsed'
  BY DEF Stale, HUsed
<1> QED
  BY <1>2, <1>7, <1>8, <1>9, <1>10, <1>11

\* A deletion, or cleanup_all_objects, frees the items of what it takes out of the table.
LEMMA HashDestroyed ==
    ASSUME HashInv, NEW ss \in [Kinds -> SUBSET Slots], Destroy(ss), ss["hashtable"] \subseteq HUsed,
           running' # running => HUsed \subseteq ss["hashtable"]
    PROVE  /\ HashInv'
           /\ Elems' = [t \in HUsed \ ss["hashtable"] |-> Elems[t]]
           /\ Stale' = Stale \ ss["hashtable"]
<1>0. PICK gone : gone = ss["hashtable"]
  OBVIOUS
<1>1. gone \subseteq HUsed /\ HUsed \subseteq Slots /\ gone \subseteq Slots
  BY <1>0 DEF HUsed, UsedSlots
<1>2. \A t \in Slots : table'["hashtable"][t] = IF t \in gone THEN NotUsed ELSE table["hashtable"][t]
  BY <1>0 DEF Destroy, Kinds
<1>3. HUsed' = HUsed \ gone /\ \A t \in HUsed' : HashAt(t)' = HashAt(t) /\ ItemsOf(t)' = ItemsOf(t)
  <2>1. NotUsed.used = FALSE
    BY DEF NotUsed
  <2>2. HUsed' = HUsed \ gone
    BY <1>1, <1>2, <2>1 DEF HUsed, UsedSlots
  <2>3. \A t \in HUsed' : HashAt(t)' = HashAt(t)
    BY <1>1, <1>2, <2>2 DEF HashAt
  <2> QED
    BY <2>2, <2>3 DEF ItemsOf
<1>4. PICK Y : Y = UNION {ItemsOf(s) : s \in gone}
  OBVIOUS
<1>5. val' = [i \in Items |-> IF i \in Y THEN NoValue ELSE val[i]]
  BY <1>0, <1>4 DEF Destroy, Freed
<1>6. \A t \in HUsed' : \A i \in ItemsOf(t) : i \in Items /\ i \notin Y /\ val'[i] = val[i]
  <2> SUFFICES ASSUME NEW t \in HUsed', NEW i \in ItemsOf(t)
               PROVE  i \in Items /\ i \notin Y /\ val'[i] = val[i]
    OBVIOUS
  <2>1. i \in Items
    BY <1>3, ValuesOfItems
  <2>2. i \notin Y
    BY <1>1, <1>3, <1>4 DEF HashInv
  <2> QED
    BY <1>5, <2>1, <2>2
<1>7. ASSUME NEW i \in Items
      PROVE  i \in Allocated' <=> \E t \in HUsed' : i \in ItemsOf(t)'
  <2>1. i \in Allocated' <=> i \in Allocated /\ i \notin Y
    BY <1>5 DEF Allocated
  <2>2. i \in Y <=> \E t \in gone : i \in ItemsOf(t)
    BY <1>4
  <2>3. i \in Allocated <=> \E t \in HUsed : i \in ItemsOf(t)
    BY DEF HashInv
  <2>4. ASSUME NEW t \in HUsed', i \in ItemsOf(t)
        PROVE  i \notin Y
    BY <1>6, <2>4
  <2> QED
    BY <1>3, <2>1, <2>2, <2>3, <2>4
<1>8. HashInv'
  <2>1. val' \in Vals
    BY <1>5 DEF HashInv, Vals
  <2>2. \A t \in HUsed' : Holds(HashAt(t)', ItemsOf(t)')
    BY <1>3 DEF HashInv
  <2>3. \A t, u \in HUsed' : t # u => ItemsOf(t)' \intersect ItemsOf(u)' = {}
    BY <1>3 DEF HashInv
  <2>4. ~running' => HUsed' = {}
    BY <1>0, <1>3 DEF HashInv
  <2> QED
    BY <1>7, <2>1, <2>2, <2>3, <2>4 DEF HashInv
<1>9. Elems' = [t \in HUsed \ gone |-> Elems[t]]
  <2>1. ASSUME NEW t \in HUsed'
        PROVE  Elems'[t] = Elems[t]
    <3>1. Elems'[t] = [i \in ItemsOf(t) |-> val'[i]] /\ Elems[t] = [i \in ItemsOf(t) |-> val[i]]
      BY <1>3, ElemsAre
    <3> QED
      BY <1>6, <3>1
  <2> QED
    BY <1>3, <2>1, ElemsAre
<1>10. Stale' = Stale \ gone
  <2>1. ASSUME NEW t \in HUsed'
        PROVE  t \in Stale' <=> t \in Stale
    <3>1. Holds(HashAt(t), ItemsOf(t)) /\ t \in HUsed
      BY <1>3 DEF HashInv
    <3>2. t \in Stale' <=> ~Neat(HashAt(t), ItemsOf(t), val')
      BY <1>3, <3>1, StaleIsAfter
    <3> QED
      BY <1>6, <3>1, <3>2, StaleIs, NeatSame
  <2>2. Stale' \subseteq HUsed' /\ Stale \subseteq HUsed
    BY DEF Stale, HUsed
  <2> QED
    BY <1>3, <2>1, <2>2
<1> QED
  BY <1>0, <1>8, <1>9, <1>10

-----------------------------------------------------------------------------
(* Each command on a hash table and the step of HashSpec that it is *)

\* What HashSpec sees of a table.
LEMMA TableSeen ==
    ASSUME HashInv, NEW s \in HUsed
    PROVE  /\ s \in Slots /\ DOMAIN Elems = HUsed /\ DOMAIN Elems[s] = ItemsOf(s)
           /\ \A i \in ItemsOf(s) : Elems[s][i] = val[i]
           /\ \A v : HashTables!Having(s, v) = {i \in ItemsOf(s) : val[i] = v}
           /\ HashTables!InUse \subseteq Allocated
<1>1. s \in Slots
  BY DEF HUsed, UsedSlots
<1>2. /\ DOMAIN Elems = HUsed
      /\ \A t \in HUsed : DOMAIN Elems[t] = ItemsOf(t)
      /\ \A i \in ItemsOf(s) : Elems[s][i] = val[i]
  BY ElemsAre
<1>3. \A v : HashTables!Having(s, v) = {i \in ItemsOf(s) : val[i] = v}
  BY <1>2 DEF HashTables!Having
<1>4. HashTables!InUse \subseteq Allocated
  BY <1>2, ValuesOfItems DEF HashTables!InUse
<1> QED
  BY <1>1, <1>2, <1>3, <1>4

\* A search misses no item, but in a stale table.
LEMMA MissesOnly ==
    ASSUME HashInv, NEW s \in HUsed, NEW v \in Ints, hash_find(HashAt(s), val, v) = NoItem
    PROVE  HashTables!Misses(s, v)
<1>1. Holds(HashAt(s), ItemsOf(s)) /\ Valued(ItemsOf(s), val)
  BY ValuesOfItems DEF HashInv
<1>2. CASE s \in Stale
  BY <1>2 DEF HashTables!Misses
<1>3. CASE s \notin Stale
  <2>1. Placed(HashAt(s), val)
    BY <1>1, <1>3, StaleIs DEF Neat
  <2>2. \A i \in ItemsOf(s) : val[i] # v
    BY <1>1, <2>1, HashFinds
  <2>3. HashTables!Having(s, v) = {}
    BY <2>2, TableSeen
  <2> QED
    BY <2>3 DEF HashTables!Misses
<1> QED
  BY <1>2, <1>3

\* malloc returns an item that is free.
LEMMA FreshItem ==
    ASSUME Allocated # Items
    PROVE  Fresh \in Items \ Allocated
<1>1. Items \ Allocated # {} /\ Items \ Allocated \subseteq Nat
  BY DEF Allocated, Items
<1> QED
  BY <1>1, LeastNumber DEF Fresh

\* A command on the table in slot s that leaves no table stale.
LEMMA IsOrderly ==
    ASSUME NEW s \in HUsed, cmd'.at = s, HashTables!Orderly(s), Stale' \subseteq Stale
    PROVE  HashTables!Next
<1>1. s \in DOMAIN Elems
  BY ElemsAre
<1> QED
  BY <1>1 DEF HashTables!Next

\* hash_insert
LEMMA InsertRefines ==
    ASSUME HashInv, TableShape, NEW s \in HUsed, NEW n, NEW v \in Ints, HashInsert(s, n, v),
           running' = running
    PROVE  HashInv' /\ HashTables!Next
<1>1. PICK h, X, f, w : h = HashAt(s) /\ X = ItemsOf(s) /\ f = Fresh /\ w = Made(v)
  OBVIOUS
<1>2. /\ Allocated # Items /\ cmd'.do = "hash_insert" /\ cmd'.at = s /\ cmd'.arg[1] = v
      /\ val' = IF hash_find(h, val, v) = NoItem THEN w ELSE val
  BY <1>1 DEF HashInsert, Does
<1>3. PICK ok \in BOOLEAN : InHash(s, hash_insert(h, w, f, ok))
  BY <1>1 DEF HashInsert
<1>4. PICK new : new = hash_insert(h, w, f, ok)
  OBVIOUS
<1>5. f \in Items /\ f \notin Allocated
  BY <1>1, <1>2, FreshItem
<1>6. /\ Holds(h, X) /\ Valued(X, val) /\ X \subseteq Items /\ X \subseteq Allocated
      /\ val \in Vals
  BY <1>1, ValuesOfItems DEF HashInv
<1>7. /\ w = [val EXCEPT ![f] = v] /\ w \in Vals /\ w[f] = v
      /\ \A i \in Items : i # f => w[i] = val[i]
  BY <1>1, <1>5, <1>6 DEF Made, Vals
<1>8. /\ \A i \in X : w[i] = val[i]
      /\ Valued(X, w) /\ f \in Items \ X /\ w[f] \in Ints
  BY <1>5, <1>6, <1>7 DEF Valued
<1>9. hash_find(h, w, w[f]) = hash_find(h, val, v)
  <2>1. hash_find(h, w, v) = hash_find(h, val, v)
    BY <1>6, <1>8, FindSame
  <2> QED
    BY <1>7, <2>1
<1>10. PICK Y : Y = IF hash_find(h, val, v) = NoItem THEN X \union {f} ELSE X
  OBVIOUS
<1>11. Holds(new, Y) /\ (Placed(h, w) => Placed(new, w))
  BY <1>4, <1>6, <1>8, <1>9, <1>10, HashInsertHolds
<1>12. Placed(h, w) <=> Placed(h, val)
  BY <1>6, <1>8, NeatSame
<1>13. NoValue \notin Ints
  BY ValuesOfItems
<1>14. CASE hash_find(h, val, v) = NoItem
  <2>1. val' = w /\ Y = X \union {f}
    BY <1>2, <1>10, <1>14
  <2>2. Spares(s, val', Y)
    <3>1. \A t \in HUsed \ {s} : \A i \in ItemsOf(t) : i \in Items /\ i # f /\ i \notin X
      BY <1>1, <1>5, ValuesOfItems DEF HashInv
    <3>2. \A i \in Items : w[i] # NoValue <=> i = f \/ i \in Allocated
      BY <1>7, <1>13 DEF Allocated
    <3> QED
      BY <1>1, <1>5, <1>6, <1>7, <2>1, <3>1, <3>2 DEF Spares
  <2>3. /\ HashInv' /\ Elems' = [Elems EXCEPT ![s] = [i \in Y |-> val'[i]]]
        /\ Stale' \subseteq Stale \union {s} /\ (Neat(new, Y, val') => s \notin Stale')
    BY <1>3, <1>4, <1>11, <2>2, HashWritten
  <2>4. s \notin Stale => Neat(new, Y, val')
    <3> SUFFICES ASSUME s \notin Stale PROVE Neat(new, Y, val')
      OBVIOUS
    <3>1. Neat(h, X, val)
      BY <1>1, <1>6, StaleIs
    <3>2. Placed(new, w)
      BY <1>11, <1>12, <3>1 DEF Neat
    <3>3. \A i \in X : val[i] # v
      BY <1>6, <1>14, <3>1, HashFinds DEF Neat
    <3>4. \A i, j \in Y : w[i] = w[j] => i = j
      BY <1>7, <1>8, <2>1, <3>1, <3>3 DEF Neat
    <3> QED
      BY <2>1, <3>2, <3>4 DEF Neat
  <2>5. [i \in Y |-> val'[i]] = HashTables!With(Elems[s], f, v)
    BY <1>1, <1>7, <1>8, <2>1, TableSeen DEF HashTables!With
  <2>6. HashTables!Becomes(s, HashTables!With(Elems[s], f, v))
    BY <2>3, <2>5 DEF HashTables!Becomes
  <2>7. HashTables!Misses(s, v)
    BY <1>1, <1>14, MissesOnly
  <2>8. f \in Items \ HashTables!InUse
    BY <1>5, TableSeen
  <2>9. HashTables!Insert(s, v)
    BY <2>6, <2>7, <2>8 DEF HashTables!Insert
  <2> QED
    BY <1>2, <2>3, <2>4, <2>9, IsOrderly DEF HashTables!Orderly
<1>15. CASE hash_find(h, val, v) # NoItem
  <2>1. val' = val /\ Y = X
    BY <1>2, <1>10, <1>15
  <2>2. Spares(s, val', Y)
    BY <1>1, <1>6, <2>1 DEF HashInv, Spares, Allocated
  <2>3. /\ HashInv' /\ Elems' = [Elems EXCEPT ![s] = [i \in Y |-> val'[i]]]
        /\ Stale' \subseteq Stale \union {s} /\ (Neat(new, Y, val') => s \notin Stale')
    BY <1>3, <1>4, <1>11, <2>2, HashWritten
  <2>4. s \notin Stale => Neat(new, Y, val')
    <3> SUFFICES ASSUME s \notin Stale PROVE Neat(new, Y, val')
      OBVIOUS
    <3>1. Neat(h, X, val)
      BY <1>1, <1>6, StaleIs
    <3>2. Placed(new, val)
      BY <1>8, <1>11, <1>12, <2>1, <3>1, NeatSame DEF Neat
    <3> QED
      BY <2>1, <3>1, <3>2 DEF Neat
  <2>5. Elems' = Elems
    <3>1. [i \in Y |-> val'[i]] = Elems[s]
      BY <1>1, <2>1, ElemsAre
    <3>2. Elems = [t \in HUsed |-> Elems[t]]
      BY ElemsAre
    <3> QED
      BY <2>3, <3>1, <3>2
  <2>6. HashTables!Having(s, v) # {}
    <3>1. hash_find(h, val, v) \in X /\ val[hash_find(h, val, v)] = v
      BY <1>6, <1>15, HashFinds
    <3> QED
      BY <1>1, <3>1, TableSeen
  <2>7. HashTables!Insert(s, v)
    BY <2>5, <2>6 DEF HashTables!Insert
  <2> QED
    BY <1>2, <2>3, <2>4, <2>7, IsOrderly DEF HashTables!Orderly
<1> QED
  BY <1>14, <1>15

\* hash_replace
LEMMA ReplaceRefines ==
    ASSUME HashInv, TableShape, NEW s \in HUsed, NEW n, NEW v \in Ints, HashReplace(s, n, v),
           running' = running
    PROVE  HashInv' /\ HashTables!Next
<1>1. PICK h, X, f, w, old : /\ h = HashAt(s) /\ X = ItemsOf(s) /\ f = Fresh /\ w = Made(v)
                             /\ old = hash_find(h, val, v)
  OBVIOUS
<1>2. /\ Allocated # Items /\ cmd'.do = "hash_replace" /\ cmd'.at = s /\ cmd'.arg[1] = v
      /\ val' = [i \in Items |-> IF i = old THEN NoValue ELSE w[i]]
  BY <1>1 DEF HashReplace, Does
<1>3. PICK ok \in BOOLEAN : InHash(s, hash_replace(h, w, f, ok))
  BY <1>1 DEF HashReplace
<1>4. PICK new, Y : new = hash_replace(h, w, f, ok) /\ Y = (X \ {old}) \union {f}
  OBVIOUS
<1>5. f \in Items /\ f \notin Allocated
  BY <1>1, <1>2, FreshItem
<1>6. /\ Holds(h, X) /\ Valued(X, val) /\ X \subseteq Items /\ X \subseteq Allocated
      /\ val \in Vals
  BY <1>1, ValuesOfItems DEF HashInv
<1>7. /\ w = [val EXCEPT ![f] = v] /\ w \in Vals /\ w[f] = v
      /\ \A i \in Items : i # f => w[i] = val[i]
  BY <1>1, <1>5, <1>6 DEF Made, Vals
<1>8. /\ \A i \in X : w[i] = val[i]
      /\ Valued(X, w) /\ f \in Items \ X /\ w[f] \in Ints
  BY <1>5, <1>6, <1>7 DEF Valued
<1>9. old = hash_find(h, w, w[f])
  <2>1. hash_find(h, w, v) = hash_find(h, val, v)
    BY <1>6, <1>8, FindSame
  <2> QED
    BY <1>1, <1>7, <2>1
<1>10. /\ old = NoItem \/ (old \in X /\ val[old] = v)
       /\ Placed(h, val) /\ old = NoItem => \A i \in X : val[i] # v
       /\ NoItem \notin X
  BY <1>1, <1>6, HashFinds
<1>11. Holds(new, Y) /\ (Placed(h, w) => Placed(new, w))
  BY <1>4, <1>6, <1>8, <1>9, HashReplaceHolds
<1>12. Placed(h, w) <=> Placed(h, val)
  BY <1>6, <1>8, NeatSame
<1>13. NoValue \notin Ints
  BY ValuesOfItems
<1>14. old # f /\ old \notin Y /\ Y \subseteq Items /\ NoItem \notin Items
  <2>1. NoItem \notin Items
    BY DEF NoItem, Items
  <2> QED
    BY <1>4, <1>5, <1>6, <1>10, <2>1
<1>15. /\ val' \in Vals
       /\ \A i \in Y : val'[i] = w[i]
       /\ \A i \in Items : i # f /\ i # old => val'[i] = val[i]
  BY <1>2, <1>7, <1>14 DEF Vals
<1>16. Spares(s, val', Y)
  <2>1. ASSUME NEW t \in HUsed \ {s}, NEW i \in ItemsOf(t)
        PROVE  val'[i] = val[i] /\ i \notin Y
    <3>1. i \in Items /\ i # f /\ i \notin X
      BY <1>1, <1>5, ValuesOfItems DEF HashInv
    <3> QED
      BY <1>4, <1>10, <1>14, <1>15, <3>1
  <2>2. ASSUME NEW i \in Items
        PROVE  val'[i] # NoValue <=> i \in Y \/ (i \in Allocated /\ i \notin X)
    <3>1. val'[i] # NoValue <=> i # old /\ (i = f \/ i \in Allocated)
      BY <1>2, <1>7, <1>13 DEF Allocated
    <3> QED
      BY <1>4, <1>5, <1>6, <1>10, <1>14, <3>1
  <2> QED
    BY <1>1, <1>15, <2>1, <2>2 DEF Spares
<1>17. /\ HashInv' /\ Elems' = [Elems EXCEPT ![s] = [i \in Y |-> val'[i]]]
       /\ Stale' \subseteq Stale \union {s} /\ (Neat(new, Y, val') => s \notin Stale')
  BY <1>3, <1>4, <1>11, <1>16, HashWritten
<1>18. s \notin Stale => Neat(new, Y, val')
  <2> SUFFICES ASSUME s \notin Stale PROVE Neat(new, Y, val')
    OBVIOUS
  <2>1. Neat(h, X, val)
    BY <1>1, <1>6, StaleIs
  <2>2. Placed(new, val')
    <3>1. Placed(new, w)
      BY <1>11, <1>12, <2>1 DEF Neat
    <3> QED
      BY <1>11, <1>15, <3>1, NeatSame
  <2>3. \A i \in X \ {old} : val[i] # v
    BY <1>10, <2>1 DEF Neat
  <2>4. \A i, j \in Y : val'[i] = val'[j] => i = j
    BY <1>4, <1>7, <1>8, <1>15, <2>1, <2>3 DEF Neat
  <2> QED
    BY <2>2, <2>4 DEF Neat
<1>19. [i \in Y |-> val'[i]] = [i \in Y |-> IF i = f THEN v ELSE val[i]]
  BY <1>4, <1>7, <1>8, <1>15
<1>20. f \in Items \ HashTables!InUse
  BY <1>5, TableSeen
<1>21. HashTables!Replace(s, v)
  <2>1. CASE old = NoItem
    <3>1. Y = X \union {f}
      BY <1>4, <1>10, <2>1
    <3>2. [i \in Y |-> val'[i]] = HashTables!With(Elems[s], f, v)
      BY <1>1, <1>8, <1>19, <3>1, TableSeen DEF HashTables!With
    <3>3. HashTables!Becomes(s, HashTables!With(Elems[s], f, v))
      BY <1>17, <3>2 DEF HashTables!Becomes
    <3>4. HashTables!Misses(s, v)
      BY <1>1, <2>1, MissesOnly
    <3> QED
      BY <1>20, <3>3, <3>4 DEF HashTables!Replace
  <2>2. CASE old \in X /\ val[old] = v
    <3>1. PICK e : e = HashTables!Restrict(Elems[s], DOMAIN Elems[s] \ {old})
      OBVIOUS
    <3>2. DOMAIN e = X \ {old} /\ \A i \in X \ {old} : e[i] = val[i]
      BY <1>1, <3>1, TableSeen DEF HashTables!Restrict
    <3>3. [i \in Y |-> val'[i]] = HashTables!With(e, f, v)
      BY <1>4, <1>8, <1>19, <3>2 DEF HashTables!With
    <3>4. HashTables!Becomes(s, HashTables!With(e, f, v))
      BY <1>17, <3>3 DEF HashTables!Becomes
    <3>5. old \in HashTables!Having(s, v)
      BY <1>1, <2>2, TableSeen
    <3> QED
      BY <1>20, <3>1, <3>4, <3>5 DEF HashTables!Replace
  <2> QED
    BY <1>10, <2>1, <2>2
<1> QED
  BY <1>2, <1>17, <1>18, <1>21, IsOrderly DEF HashTables!Orderly

\* hash_delete
LEMMA RemoveRefines ==
    ASSUME HashInv, TableShape, NEW s \in HUsed, NEW n, NEW v \in Ints, HashDelete(s, n, v),
           running' = running
    PROVE  HashInv' /\ HashTables!Next
<1>1. PICK h, X, old : h = HashAt(s) /\ X = ItemsOf(s) /\ old = hash_find(h, val, v)
  OBVIOUS
<1>2. /\ cmd'.do = "hash_delete" /\ cmd'.at = s /\ cmd'.arg[1] = v
      /\ val' = [i \in Items |-> IF i \in {old} THEN NoValue ELSE val[i]]
  BY <1>1 DEF HashDelete, Does, Freed
<1>3. PICK ok \in BOOLEAN : InHash(s, hash_delete(h, val, v, ok))
  BY <1>1 DEF HashDelete
<1>4. PICK new, Y : new = hash_delete(h, val, v, ok) /\ Y = X \ {old}
  OBVIOUS
<1>5. /\ Holds(h, X) /\ Valued(X, val) /\ X \subseteq Items /\ X \subseteq Allocated
      /\ val \in Vals
  BY <1>1, ValuesOfItems DEF HashInv
<1>6. old = NoItem \/ (old \in X /\ val[old] = v)
  BY <1>1, <1>5, HashFinds
<1>7. Holds(new, Y) /\ (Placed(h, val) => Placed(new, val))
  BY <1>1, <1>4, <1>5, HashDeleteHolds
<1>8. NoItem \notin Items
  BY DEF NoItem, Items
<1>9. /\ val' \in Vals /\ \A i \in Items : i # old => val'[i] = val[i]
      /\ \A i \in Y : val'[i] = val[i]
  BY <1>2, <1>4, <1>5 DEF Vals
<1>10. Spares(s, val', Y)
  <2>1. ASSUME NEW t \in HUsed \ {s}, NEW i \in ItemsOf(t)
        PROVE  val'[i] = val[i] /\ i \notin Y
    <3>1. i \in Items /\ i \notin X
      BY <1>1, ValuesOfItems DEF HashInv
    <3> QED
      BY <1>4, <1>6, <1>8, <1>9, <3>1
  <2>2. ASSUME NEW i \in Items
        PROVE  val'[i] # NoValue <=> i \in Y \/ (i \in Allocated /\ i \notin X)
    <3>1. val'[i] # NoValue <=> i # old /\ i \in Allocated
      BY <1>2 DEF Allocated
    <3> QED
      BY <1>4, <1>5, <1>6, <1>8, <3>1
  <2> QED
    BY <1>1, <1>9, <2>1, <2>2 DEF Spares
<1>11. /\ HashInv' /\ Elems' = [Elems EXCEPT ![s] = [i \in Y |-> val'[i]]]
       /\ Stale' \subseteq Stale \union {s} /\ (Neat(new, Y, val') => s \notin Stale')
  BY <1>3, <1>4, <1>7, <1>10, HashWritten
<1>12. s \notin Stale => Neat(new, Y, val')
  <2> SUFFICES ASSUME s \notin Stale PROVE Neat(new, Y, val')
    OBVIOUS
  <2>1. Neat(h, X, val)
    BY <1>1, <1>5, StaleIs
  <2>2. Placed(new, val')
    BY <1>7, <1>9, <2>1, NeatSame DEF Neat
  <2>3. \A i, j \in Y : val'[i] = val'[j] => i = j
    BY <1>4, <1>9, <2>1 DEF Neat
  <2> QED
    BY <2>2, <2>3 DEF Neat
<1>13. [i \in Y |-> val'[i]] = [i \in Y |-> val[i]]
  BY <1>9
<1>14. HashTables!Remove(s, v)
  <2>1. CASE old = NoItem
    <3>1. Y = X
      BY <1>4, <1>5, <1>8, <2>1
    <3>2. [i \in Y |-> val'[i]] = Elems[s]
      BY <1>1, <1>13, <3>1, ElemsAre
    <3>3. Elems' = Elems
      <4>1. Elems = [t \in HUsed |-> Elems[t]]
        BY ElemsAre
      <4> QED
        BY <1>11, <3>2, <4>1
    <3>4. HashTables!Misses(s, v)
      BY <1>1, <2>1, MissesOnly
    <3> QED
      BY <3>3, <3>4 DEF HashTables!Remove
  <2>2. CASE old \in X /\ val[old] = v
    <3>1. PICK e : e = HashTables!Restrict(Elems[s], DOMAIN Elems[s] \ {old})
      OBVIOUS
    <3>2. e = [i \in X \ {old} |-> val[i]]
      BY <1>1, <3>1, TableSeen DEF HashTables!Restrict
    <3>3. [i \in Y |-> val'[i]] = e
      BY <1>4, <1>13, <3>2
    <3>4. HashTables!Becomes(s, e)
      BY <1>11, <3>3 DEF HashTables!Becomes
    <3>5. old \in HashTables!Having(s, v)
      BY <1>1, <2>2, TableSeen
    <3> QED
      BY <3>1, <3>4, <3>5 DEF HashTables!Remove
  <2> QED
    BY <1>6, <2>1, <2>2
<1> QED
  BY <1>2, <1>11, <1>12, <1>14, IsOrderly DEF HashTables!Orderly

\* hash_clear
LEMMA ClearRefines ==
    ASSUME HashInv, TableShape, NEW s \in HUsed, NEW n, HashClear(s, n), running' = running
    PROVE  HashInv' /\ HashTables!Next
<1>1. PICK h, X, new : h = HashAt(s) /\ X = ItemsOf(s) /\ new = hash_clear(h)
  OBVIOUS
<1>2. /\ cmd'.do = "hash_clear" /\ cmd'.at = s /\ InHash(s, new)
      /\ val' = [i \in Items |-> IF i \in X THEN NoValue ELSE val[i]]
  BY <1>1 DEF HashClear, Does, Freed
<1>3. Holds(h, X) /\ X \subseteq Items /\ X \subseteq Allocated /\ val \in Vals
  BY <1>1, ValuesOfItems DEF HashInv
<1>4. Holds(new, {}) /\ Neat(new, {}, val')
  <2>1. Holds(new, {}) /\ Placed(new, val')
    BY <1>1, <1>3, HashClearHolds
  <2> QED
    BY <2>1 DEF Neat
<1>5. Spares(s, val', {})
  <2>1. val' \in Vals
    BY <1>2, <1>3 DEF Vals
  <2>2. ASSUME NEW t \in HUsed \ {s}, NEW i \in ItemsOf(t)
        PROVE  val'[i] = val[i]
    <3>1. i \in Items /\ i \notin X
      BY <1>1, ValuesOfItems DEF HashInv
    <3> QED
      BY <1>2, <3>1
  <2>3. \A i \in Items : val'[i] # NoValue <=> i \in Allocated /\ i \notin X
    BY <1>2 DEF Allocated
  <2> QED
    BY <1>1, <2>1, <2>2, <2>3 DEF Spares
<1>6. PICK none : none = [i \in {} |-> val'[i]]
  OBVIOUS
<1>7. none = << >>
  BY <1>6
<1>8. /\ HashInv' /\ Elems' = [Elems EXCEPT ![s] = none]
      /\ Stale' \subseteq Stale \union {s} /\ s \notin Stale'
  BY <1>2, <1>4, <1>5, <1>6, HashWritten
<1>9. HashTables!Becomes(s, << >>)
  BY <1>7, <1>8 DEF HashTables!Becomes
<1> QED
  BY <1>2, <1>8, <1>9, IsOrderly DEF HashTables!Orderly

\* What hash_apply applies makes integers of integers.
LEMMA ActionType ==
    ASSUME NEW a \in {square, triple}, NEW v \in Ints
    PROVE  a[v] \in Ints
<1>1. PICK k, m : k = Width /\ m = 2 ^ Width
  OBVIOUS
<1>2. m \in Nat \ {0}
  <2>1. k \in 0..8
    BY <1>1, HashTableAssumption
  <2>2. 2 ^ k \in Nat \ {0}
    BY <2>1, PowersOfTwo
  <2> QED
    BY <1>1, <2>2
<1>3. Ints = 0..(m - 1) /\ v \in Nat
  BY <1>1, <1>2 DEF Ints
<1>4. v * v \in Nat /\ v * v * v \in Nat
  <2>1. \A x, y \in Nat : x * y \in Nat
    OBVIOUS
  <2> QED
    BY <1>3, <2>1
<1>5. (v * v) % m \in 0..(m - 1) /\ (v * v * v) % m \in 0..(m - 1)
  BY <1>2, <1>4, DivMod
<1>6. square[v] = (v * v) % m /\ triple[v] = (v * v * v) % m
  BY <1>1 DEF square, triple
<1> QED
  BY <1>3, <1>5, <1>6

\* hash_apply
LEMMA ApplyRefines ==
    ASSUME HashInv, NEW s \in HUsed, NEW n, HashApply(s, n), running' = running
    PROVE  HashInv' /\ HashTables!Next
<1>1. PICK h, X : h = HashAt(s) /\ X = ItemsOf(s)
  OBVIOUS
<1>2. PICK a \in {square, triple} :
         /\ val' = hash_apply(h, val, a) /\ table' = table
         /\ cmd'.do = "hash_apply" /\ cmd'.at = s
         /\ \/ a = square /\ cmd'.arg = <<"square">>
            \/ a = triple /\ cmd'.arg = <<"triple">>
  BY <1>1 DEF HashApply, Does
<1>3. Holds(h, X) /\ Valued(X, val) /\ X \subseteq Items /\ X \subseteq Allocated /\ val \in Vals
  BY <1>1, ValuesOfItems DEF HashInv
<1>4. NoValue \notin Ints
  BY ValuesOfItems
<1>5. val' = [i \in Items |-> IF i \in X THEN a[val[i]] ELSE val[i]]
  BY <1>1, <1>2, <1>3 DEF hash_apply, ItemsOf, Vals
<1>6. \A i \in X : a[val[i]] \in Ints
  BY <1>3, ActionType DEF Valued
<1>7. Spares(s, val', X)
  <2>1. val' \in Vals
    BY <1>3, <1>5, <1>6 DEF Vals
  <2>2. ASSUME NEW t \in HUsed \ {s}, NEW i \in ItemsOf(t)
        PROVE  val'[i] = val[i] /\ i \notin X
    <3>1. i \in Items /\ i \notin X
      BY <1>1, ValuesOfItems DEF HashInv
    <3> QED
      BY <1>5, <3>1
  <2>3. \A i \in Items : val'[i] # NoValue <=> i \in X \/ (i \in Allocated /\ i \notin X)
    BY <1>3, <1>4, <1>5, <1>6 DEF Allocated
  <2> QED
    BY <1>1, <2>1, <2>2, <2>3 DEF Spares
<1>8. Makes(s, h)
  BY <1>1, <1>2 DEF Makes, HUsed, UsedSlots, HashAt
<1>9. PICK e : e = [i \in X |-> val'[i]]
  OBVIOUS
<1>10. /\ HashInv' /\ Elems' = [Elems EXCEPT ![s] = e]
       /\ Stale' \subseteq Stale \union {s}
  BY <1>3, <1>7, <1>8, <1>9, HashChanged
<1>11. e = [i \in DOMAIN Elems[s] |-> a[Elems[s][i]]]
  BY <1>1, <1>3, <1>5, <1>9, TableSeen
<1>12. HashTables!Apply(s, a)
  BY <1>10, <1>11 DEF HashTables!Apply, HashTables!Becomes
<1>13. s \in DOMAIN Elems
  BY TableSeen
<1> QED
  BY <1>2, <1>10, <1>12, <1>13 DEF HashTables!Next

\* Cardinality is the same in the abstract specification.
LEMMA SameCard == \A S : HashTables!Cardinality(S) = Cardinality(S)
BY DEF HashTables!Cardinality, Cardinality

\* A command that changes nothing.
LEMMA HashSame ==
    ASSUME HashInv, table' = table, val' = val, running' = running
    PROVE  HashInv' /\ Elems' = Elems /\ Stale' = Stale
BY HashKept DEF QuietHash

\* hash_find, hash_size and hash_empty
LEMMA HashQueriesRefine ==
    ASSUME HashInv, NEW s \in HUsed, NEW n, HashQuery(s, n), running' = running
    PROVE  HashInv' /\ HashTables!Next
<1>1. PICK h, X : h = HashAt(s) /\ X = ItemsOf(s)
  OBVIOUS
<1>2. HashInv' /\ Elems' = Elems /\ Stale' = Stale
  BY HashSame DEF HashQuery
<1>3. Holds(h, X) /\ Valued(X, val) /\ IsFiniteSet(X) /\ h.elem_cnt = Cardinality(X)
  BY <1>1, ValuesOfItems, HoldsItems DEF HashInv
<1>4. HashTables!Cardinality(DOMAIN Elems[s]) = h.elem_cnt /\ DOMAIN Elems[s] = X
  BY <1>1, <1>3, TableSeen, SameCard
<1>5. ASSUME HashTables!Orderly(s), cmd'.at = s
      PROVE  HashTables!Next
  BY <1>2, <1>5, IsOrderly
<1>6. ASSUME NEW v \in Values, NEW found, found = hash_find(h, val, v),
             Does("hash_find", n, s, <<v>>, IF found = NoItem THEN {} ELSE {val[found]})
      PROVE  HashTables!Next
  <2>1. /\ cmd'.do = "hash_find" /\ cmd'.at = s /\ cmd'.arg[1] = v
        /\ cmd'.out = IF found = NoItem THEN {} ELSE {val[found]}
    BY <1>6 DEF Does
  <2>2. v \in Ints
    BY InterpreterAssumption
  <2>3. HashTables!Find(s, v, cmd'.out)
    <3>1. CASE found = NoItem
      BY <1>1, <1>6, <2>1, <2>2, <3>1, MissesOnly DEF HashTables!Find
    <3>2. CASE found # NoItem
      <4>1. found \in X /\ val[found] = v
        BY <1>3, <1>6, <2>2, <3>2, HashFinds
      <4>2. HashTables!Having(s, v) # {}
        BY <1>1, <4>1, TableSeen
      <4> QED
        BY <2>1, <3>2, <4>1, <4>2 DEF HashTables!Find
    <3> QED
      BY <3>1, <3>2
  <2> QED
    BY <1>2, <1>5, <2>1, <2>3 DEF HashTables!Orderly
<1>7. ASSUME Does("hash_size", n, s, << >>, h.elem_cnt)
      PROVE  HashTables!Next
  <2>1. cmd'.do = "hash_size" /\ cmd'.at = s /\ cmd'.out = h.elem_cnt
    BY <1>7 DEF Does
  <2> QED
    BY <1>2, <1>4, <1>5, <2>1 DEF HashTables!Orderly
<1>8. ASSUME Does("hash_empty", n, s, << >>, h.elem_cnt = 0)
      PROVE  HashTables!Next
  <2>1. cmd'.do = "hash_empty" /\ cmd'.at = s /\ cmd'.out = (h.elem_cnt = 0)
    BY <1>8 DEF Does
  <2>2. h.elem_cnt = 0 <=> X = {}
    BY <1>3, FS_EmptySet
  <2>3. cmd'.out = (DOMAIN Elems[s] = {})
    BY <1>4, <2>1, <2>2
  <2> QED
    BY <1>2, <1>5, <2>1, <2>3 DEF HashTables!Orderly
<1> QED
  BY <1>1, <1>2, <1>6, <1>7, <1>8 DEF HashQuery

-----------------------------------------------------------------------------
(* The other commands *)

\* The dump of a hash table: each item is visited once.
LEMMA OneToOne ==
    ASSUME NEW S, IsFiniteSet(S), NEW T, NEW f, \A x \in S : f[x] \in T,
           \A x, y \in S : f[x] = f[y] => x = y, \A z \in T : \E x \in S : f[x] = z
    PROVE  Cardinality(T) = Cardinality(S)
<1>1. PICK g : g = [x \in S |-> f[x]]
  OBVIOUS
<1>2. g \in Surjection(S, T) /\ g \in Injection(S, T)
  BY <1>1 DEF Surjection, Injection, IsInjective
<1> QED
  BY <1>2, FS_Surjection

\* hash_next comes to every item of the table once.
LEMMA EachVisited ==
    ASSUME NEW h, NEW X, Holds(h, X)
    PROVE  /\ Chain(Visited(h)) /\ Range(Visited(h)) = X
           /\ Len(Visited(h)) = Cardinality(X) /\ Cardinality(X) \in 0..NumItems
<1>1. h.bucket_cnt \in Nat \ {0} /\ Buckets(h.buckets, h.bucket_cnt, X)
  BY HoldsItems DEF Holds
<1>2. PICK f, n : f = h.buckets /\ n = h.bucket_cnt
  OBVIOUS
<1>3. PICK q : q = Visited(h)
  OBVIOUS
<1>4. q = FlattenSeq([k \in 1..n |-> f[k - 1]])
  BY <1>2, <1>3 DEF Visited
<1>5. Chain(q) /\ Range(q) = X
  BY <1>1, <1>2, <1>4, BucketsFlat
<1>6. Len(q) \in Nat /\ X = {q[p] : p \in 1..Len(q)}
  BY <1>5, ChainRange DEF Chain
<1>7. Cardinality(X) = Len(q)
  <2>1. IsFiniteSet(1..Len(q)) /\ Cardinality(1..Len(q)) = Len(q)
    <3>1. PICK m : m = Len(q)
      OBVIOUS
    <3>2. m \in Nat /\ 1 \in Int /\ m \in Int
      BY <1>6, <3>1
    <3>3. IsFiniteSet(1..m) /\ Cardinality(1..m) = IF 1 > m THEN 0 ELSE m - 1 + 1
      BY <3>2, FS_Interval
    <3> QED
      BY <3>1, <3>2, <3>3
  <2>2. PICK D : D = 1..Len(q)
    OBVIOUS
  <2>3. Cardinality(X) = Cardinality(D)
    BY <1>5, <1>6, <2>1, <2>2, OneToOne DEF Chain
  <2> QED
    BY <2>1, <2>2, <2>3
<1>8. Cardinality(X) \in 0..NumItems
  <2>1. IsFiniteSet(Items) /\ Cardinality(Items) = NumItems /\ NumItems \in Nat
    BY InterpreterAssumption, FS_Interval DEF Items
  <2>2. Cardinality(X) <= Cardinality(Items) /\ Cardinality(X) \in Nat
    BY <2>1, HoldsItems, FS_Subset
  <2> QED
    BY <2>1, <2>2
<1> QED
  BY <1>3, <1>5, <1>7, <1>8

\* dumpdata lists the values of the items of a table, in some order.
LEMMA DumpLists ==
    ASSUME HashInv, NEW s \in HUsed, NEW q, q = Visited(HashAt(s)),
           NEW printed, printed = [k \in DOMAIN q |-> val[q[k]]]
    PROVE  HashTables!Lists(s, printed)
<1>1. PICK X : X = ItemsOf(s)
  OBVIOUS
<1>2. Chain(q) /\ Range(q) = X /\ Len(q) = Cardinality(X)
  BY <1>1, EachVisited DEF HashInv
<1>3. PICK n : n = Len(q)
  OBVIOUS
<1>4. n \in Nat /\ DOMAIN q = 1..n /\ X = {q[p] : p \in 1..n}
  BY <1>2, <1>3, ChainRange DEF Chain
<1>5. printed = [k \in 1..n |-> val[q[k]]]
  BY <1>4
<1>6. Len(printed) = n
  BY <1>4, <1>5
<1>7. DOMAIN Elems[s] = X
  BY <1>1, TableSeen
<1>8. Len(printed) = HashTables!Cardinality(DOMAIN Elems[s])
  BY <1>2, <1>3, <1>6, <1>7, SameCard
<1>9. ASSUME NEW v
      PROVE  HashTables!Cardinality(HashTables!Having(s, v))
             = HashTables!Cardinality({k \in DOMAIN printed : printed[k] = v})
  <2>1. PICK S, T : S = {k \in 1..n : val[q[k]] = v} /\ T = {i \in X : val[i] = v}
    OBVIOUS
  <2>2. HashTables!Having(s, v) = T
    BY <1>1, <2>1, TableSeen
  <2>3. {k \in DOMAIN printed : printed[k] = v} = S
    BY <1>5, <2>1
  <2>4. IsFiniteSet(S)
    <3>1. IsFiniteSet(1..n)
      BY <1>4, FS_Interval
    <3> QED
      BY <2>1, <3>1, FS_Subset
  <2>5. /\ \A k \in S : q[k] \in T
        /\ \A j, k \in S : q[j] = q[k] => j = k
        /\ \A i \in T : \E k \in S : q[k] = i
    <3>1. /\ \A k \in S : k \in 1..n /\ val[q[k]] = v
          /\ \A k \in 1..n : val[q[k]] = v => k \in S
      BY <2>1
    <3>2. /\ \A i \in T : i \in X /\ val[i] = v
          /\ \A i \in X : val[i] = v => i \in T
      BY <2>1
    <3>3. \A j, k \in 1..n : q[j] = q[k] => j = k
      BY <1>2, <1>3 DEF Chain
    <3>4. \A k \in 1..n : q[k] \in X
      BY <1>4
    <3>5. \A i \in X : \E k \in 1..n : q[k] = i
      BY <1>4
    <3> QED
      BY <3>1, <3>2, <3>3, <3>4, <3>5
  <2>6. Cardinality(T) = Cardinality(S)
    BY <2>4, <2>5, OneToOne
  <2> QED
    BY <2>2, <2>3, <2>6, SameCard
<1> QED
  BY <1>8, <1>9 DEF HashTables!Lists

\* The commands that hash tables know nothing of.
LEMMA IsNoHashWord ==
    ASSUME Elems' = Elems, Stale' = Stale, cmd'.do \notin HashTables!HashWords \union {"quit"}
    PROVE  HashTables!Next
BY DEF HashTables!Next

\* do_hash_command
LEMMA TableCommandsRefine ==
    ASSUME HashInv, TableShape, NEW n, do_hash_command(n), running' = running
    PROVE  HashInv' /\ HashTables!Next
<1>1. PICK s : s = find_used("hashtable", n)
  OBVIOUS
<1>2. s \in HUsed
  BY <1>1, FindUsed DEF do_hash_command, HUsed, UsedSlots
<1>3. ASSUME NEW v \in Values, HashInsert(s, n, v) \/ HashReplace(s, n, v) \/ HashDelete(s, n, v)
      PROVE  HashInv' /\ HashTables!Next
  <2>1. v \in Ints
    BY InterpreterAssumption
  <2> QED
    BY <1>2, <1>3, <2>1, InsertRefines, ReplaceRefines, RemoveRefines
<1>4. ASSUME NEW word, NEW v, ItemNotMade(s, n, word, v)
      PROVE  HashInv' /\ HashTables!Next
  <2>1. HashInv' /\ Elems' = Elems /\ Stale' = Stale
    BY <1>4, HashSame DEF ItemNotMade
  <2>2. cmd'.do = "ignored"
    BY <1>4 DEF ItemNotMade, Does
  <2> QED
    BY <2>1, <2>2, IsNoHashWord DEF HashTables!HashWords
<1>5. ASSUME HashClear(s, n) \/ HashApply(s, n) \/ HashQuery(s, n)
      PROVE  HashInv' /\ HashTables!Next
  BY <1>2, <1>5, ClearRefines, ApplyRefines, HashQueriesRefine
<1> QED
  BY <1>1, <1>3, <1>4, <1>5 DEF do_hash_command

\* do_bitmap_command touches no hash table.
LEMMA BitmapIsQuiet ==
    ASSUME TableShape, NEW n, do_bitmap_command(n)
    PROVE  QuietHash /\ cmd'.do \notin HashTables!HashWords \union {"quit"}
<1>1. PICK s : s = find_used("bitmap", n)
  OBVIOUS
<1>2. s \in Slots
  BY <1>1, FindUsed DEF do_bitmap_command
<1>3. UNCHANGED <<table, val>> => QuietHash
  BY DEF QuietHash
<1>4. BitmapUpdate(s, n) =>
         /\ QuietHash
         /\ cmd'.do \in {"bitmap_mark", "bitmap_reset", "bitmap_flip", "bitmap_set", "bitmap_set_all",
                         "bitmap_set_multiple"}
  BY <1>3 DEF BitmapUpdate, InBitmap, Does
<1>5. BitmapQuery(s, n) =>
         /\ QuietHash
         /\ cmd'.do \in {"bitmap_test", "bitmap_size", "bitmap_any", "bitmap_none", "bitmap_all",
                         "bitmap_count", "bitmap_contains"}
  BY <1>3 DEF BitmapQuery, Does
<1>6. BitmapScan(s, n) => QuietHash /\ cmd'.do \in {"bitmap_scan", "bitmap_scan_and_flip"}
  BY <1>3 DEF BitmapScan, InBitmap, Does
<1>7. BitmapExpand(s, n) => QuietHash /\ cmd'.do = "bitmap_expand"
  <2> SUFFICES ASSUME BitmapExpand(s, n) PROVE QuietHash /\ cmd'.do = "bitmap_expand"
    OBVIOUS
  <2>1. table' = WithObj(table, "bitmap", s, FreshBlock) /\ val' = val /\ cmd'.do = "bitmap_expand"
    BY DEF BitmapExpand, WithObj, Does
  <2>2. "bitmap" \in Kinds /\ "hashtable" \in Kinds /\ "bitmap" # "hashtable"
    BY DEF Kinds
  <2> QED
    BY <1>2, <2>1, <2>2, ObjReplaced DEF QuietHash
<1> QED
  BY <1>1, <1>4, <1>5, <1>6, <1>7 DEF do_bitmap_command, HashTables!HashWords

\* So each of its commands is one that HashSpec allows.
LEMMA BitmapKeepsHashes ==
    ASSUME HashInv, TableShape, NEW n, do_bitmap_command(n), running' = running
    PROVE  HashInv' /\ HashTables!Next
BY BitmapIsQuiet, HashKept, IsNoHashWord

\* do_create
LEMMA TableCreateRefines ==
    ASSUME HashInv, TableShape, running, NEW n, do_create(n), running' = running
    PROVE  HashInv' /\ HashTables!Next
<1>1. ASSUME NEW k \in {"list", "bitmap"}, NEW s, NEW obj, Register(k, s, n, obj), val' = val,
             cmd'.do \in {"create list", "create bitmap"}
      PROVE  HashInv' /\ HashTables!Next
  <2>1. PICK e : e = [used |-> TRUE, name |-> copy_name(n), obj |-> obj]
    OBVIOUS
  <2>2. table' = [table EXCEPT ![k][s] = e]
    BY <1>1, <2>1 DEF Register
  <2>3. table'["hashtable"] = table["hashtable"]
    BY <2>2
  <2>4. QuietHash
    BY <1>1, <2>3 DEF QuietHash
  <2>5. cmd'.do \notin HashTables!HashWords \union {"quit"}
    BY <1>1 DEF HashTables!HashWords
  <2> QED
    BY <2>4, <2>5, HashKept, IsNoHashWord
<1>2. CASE create_list_object(n)
  BY <1>1, <1>2 DEF create_list_object, Does
<1>3. ASSUME NEW cnt, create_bitmap_object(n, cnt)
      PROVE  HashInv' /\ HashTables!Next
  BY <1>1, <1>3 DEF create_bitmap_object, Does
<1>4. CASE create_hash_object(n)
  <2>1. PICK s : s = find_empty("hashtable")
    OBVIOUS
  <2>2. s \in Slots \ HUsed
    BY <1>4, <2>1, FindEmpty DEF create_hash_object, HUsed, UsedSlots
  <2>3. /\ Register("hashtable", s, n, hash_init) /\ val' = val
        /\ cmd'.do = "create hashtable" /\ cmd'.at = s
    BY <1>4, <2>1 DEF create_hash_object, Does
  <2>4. /\ HashInv'
        /\ Elems' = [t \in HUsed \union {s} |-> IF t = s THEN << >> ELSE Elems[t]]
        /\ Stale' \subseteq Stale
    BY <2>2, <2>3, HashCreated
  <2>5. DOMAIN Elems = HUsed /\ Stale \subseteq HUsed
    BY ElemsAre DEF Stale, HUsed
  <2>6. HashTables!Create(s)
    BY <2>2, <2>4, <2>5 DEF HashTables!Create
  <2> QED
    BY <2>3, <2>4, <2>6 DEF HashTables!Next
<1>5. ASSUME OutOfMemory(n) \/ \E k \in Kinds : CreateIgnored(k, n)
      PROVE  HashInv' /\ HashTables!Next
  <2>1. UNCHANGED <<table, val, block>> /\ cmd'.do = "ignored"
    BY <1>5 DEF OutOfMemory, CreateIgnored, Does
  <2> QED
    BY <2>1, HashSame, IsNoHashWord DEF HashTables!HashWords
<1> QED
  BY <1>2, <1>3, <1>4, <1>5 DEF do_create, Kinds

\* do_delete
LEMMA TableDeleteRefines ==
    ASSUME HashInv, NEW n, do_delete(n), running' = running
    PROVE  HashInv' /\ HashTables!Next
<1>1. PICK kind, s : kind = find_object(n) /\ s = find_used(kind, n)
  OBVIOUS
<1>2. PICK ss : ss = [k \in Kinds |-> IF k = kind THEN {s} ELSE {}]
  OBVIOUS
<1>3. /\ kind \in Kinds /\ s \in Slots /\ table[kind][s].used
      /\ Destroy(ss) /\ cmd'.do = DeleteWord[kind] /\ cmd'.at = s
  BY <1>1, <1>2, FindUsed, ObjectKind DEF do_delete, Does
<1>4. ss \in [Kinds -> SUBSET Slots] /\ ss["hashtable"] = IF kind = "hashtable" THEN {s} ELSE {}
  BY <1>2, <1>3 DEF Kinds
<1>5. kind = "hashtable" => s \in HUsed
  BY <1>3 DEF HUsed, UsedSlots
<1>6. /\ HashInv' /\ Elems' = [t \in HUsed \ ss["hashtable"] |-> Elems[t]]
      /\ Stale' = Stale \ ss["hashtable"]
  BY <1>3, <1>4, <1>5, HashDestroyed
<1>7. CASE kind = "hashtable"
  <2>1. /\ cmd'.do = "delete hashtable" /\ Elems' = [t \in HUsed \ {s} |-> Elems[t]]
        /\ DOMAIN Elems = HUsed /\ Stale' \subseteq Stale
    BY <1>3, <1>4, <1>6, <1>7, ElemsAre, Words
  <2>2. HashTables!Delete(s)
    BY <2>1 DEF HashTables!Delete, HashTables!Restrict
  <2> QED
    BY <1>3, <1>5, <1>6, <1>7, <2>1, <2>2, IsOrderly DEF HashTables!Orderly
<1>8. CASE kind # "hashtable"
  <2>1. Elems' = [t \in HUsed |-> Elems[t]] /\ Stale' = Stale
    BY <1>4, <1>6, <1>8
  <2>2. Elems' = Elems
    BY <2>1, ElemsAre
  <2>3. cmd'.do \in {"delete list", "delete bitmap"}
    BY <1>3, <1>8, Words DEF Kinds
  <2> QED
    BY <1>6, <2>1, <2>2, <2>3, IsNoHashWord DEF HashTables!HashWords
<1> QED
  BY <1>7, <1>8

\* do_dumpdata
LEMMA TableDumpRefines ==
    ASSUME HashInv, NEW n, do_dumpdata(n), running' = running
    PROVE  HashInv' /\ HashTables!Next
<1>1. PICK kind, s : kind = find_object(n) /\ s = find_used(kind, n)
  OBVIOUS
<1>2. PICK q, printed : q = Visited(HashAt(s)) /\ printed = [k \in DOMAIN q |-> val[q[k]]]
  OBVIOUS
<1>3. /\ kind \in Kinds /\ s \in Slots /\ table[kind][s].used
      /\ cmd'.do = DumpWord[kind] /\ cmd'.at = s
      /\ kind = "hashtable" => cmd'.out = printed
  BY <1>1, <1>2, FindUsed, ObjectKind DEF do_dumpdata, Does
<1>4. HashInv' /\ Elems' = Elems /\ Stale' = Stale
  BY HashSame DEF do_dumpdata
<1>5. CASE kind = "hashtable"
  <2>1. s \in HUsed /\ cmd'.do = "dump hashtable"
    BY <1>3, <1>5, Words DEF HUsed, UsedSlots
  <2>2. HashTables!Lists(s, cmd'.out)
    <3>1. HashTables!Lists(s, printed)
      BY <1>2, <2>1, DumpLists
    <3>2. cmd'.out = printed
      BY <1>3, <1>5
    <3> QED
      BY <3>1, <3>2
  <2> QED
    BY <1>3, <1>4, <2>1, <2>2, IsOrderly DEF HashTables!Orderly
<1>6. CASE kind # "hashtable"
  <2>1. cmd'.do \in {"dump list", "dump bitmap"}
    BY <1>3, <1>6, Words DEF Kinds
  <2> QED
    BY <1>4, <2>1, IsNoHashWord DEF HashTables!HashWords
<1> QED
  BY <1>5, <1>6

\* cleanup_all_objects leaves no table.
LEMMA TableQuitRefines ==
    ASSUME HashInv, Quit
    PROVE  HashInv' /\ HashTables!Next
<1>1. PICK ss : ss = [k \in Kinds |-> {s \in Slots : table[k][s].used}]
  OBVIOUS
<1>2. /\ Destroy(ss) /\ cmd'.do = "quit"
      /\ ss \in [Kinds -> SUBSET Slots] /\ ss["hashtable"] = HUsed
  BY <1>1 DEF Quit, cleanup_all_objects, Does, Kinds, HUsed, UsedSlots
<1>3. /\ HashInv' /\ Elems' = [t \in HUsed \ ss["hashtable"] |-> Elems[t]]
      /\ Stale' = Stale \ ss["hashtable"]
  BY <1>2, HashDestroyed
<1>4. HUsed \ ss["hashtable"] = {} /\ Stale \subseteq HUsed
  BY <1>2 DEF Stale, HUsed
<1>5. Elems' = << >> /\ Stale' = {}
  BY <1>2, <1>3, <1>4
<1> QED
  BY <1>2, <1>3, <1>5 DEF HashTables!Next

-----------------------------------------------------------------------------
\* There are no tables and no items at the beginning.
LEMMA InitHash == Init => HashInv /\ HashTables!Init
<1> SUFFICES ASSUME Init PROVE HashInv /\ HashTables!Init
  OBVIOUS
<1>1. NotUsed.used = FALSE /\ "hashtable" \in Kinds
  BY DEF NotUsed, Kinds
<1>2. HUsed = {}
  BY <1>1 DEF Init, HUsed, UsedSlots
<1>3. val \in Vals /\ Allocated = {}
  BY DEF Init, Vals, Allocated
<1>4. HashInv
  BY <1>2, <1>3 DEF HashInv
<1>5. Elems = << >> /\ Stale = {}
  BY <1>2, ElemsAre DEF Stale, HUsed
<1>6. cmd.do = "start"
  BY DEF Init
<1> QED
  BY <1>4, <1>5, <1>6 DEF HashTables!Init

\* Every step keeps the invariant, and is one of HashSpec or changes nothing it sees.
LEMMA NextHash ==
    ASSUME HashInv, TableShape, [Next]_vars
    PROVE  HashInv' /\ [HashTables!Next]_(HashTables!hsVars)
<1>1. CASE UNCHANGED vars
  <2>1. UNCHANGED <<table, val, running, cmd>>
    BY <1>1 DEF vars
  <2> QED
    BY <2>1, HashSame DEF HashTables!hsVars
<1>2. CASE Quit
  BY <1>2, TableQuitRefines
<1>3. ASSUME NEW n \in Names, running, running' = running, Command(n)
      PROVE  HashInv' /\ HashTables!Next
  BY <1>3, TableCreateRefines, TableDeleteRefines, TableDumpRefines, TableCommandsRefine,
     BitmapKeepsHashes DEF Command
<1> QED
  BY <1>1, <1>2, <1>3 DEF Next

\* What the invariant says of the items and the places they have in tables.
LEMMA HashMeans == HashInv => ItemsHaveOwners
<1> SUFFICES ASSUME HashInv PROVE ItemsHaveOwners
  OBVIOUS
<1>1. PICK q, P : /\ q = [s \in HUsed |-> Visited(HashAt(s))]
                  /\ P = {p \in HUsed \X (1..NumItems) : p[2] <= Len(Visited(HashAt(p[1])))}
  OBVIOUS
<1>2. ASSUME NEW s \in HUsed
      PROVE  /\ q[s] = Visited(HashAt(s)) /\ Chain(q[s])
             /\ Len(q[s]) \in 0..NumItems /\ ItemsOf(s) = {q[s][k] : k \in 1..Len(q[s])}
  <2>1. q[s] = Visited(HashAt(s))
    BY <1>1
  <2>2. Chain(q[s]) /\ Range(q[s]) = ItemsOf(s) /\ Len(q[s]) \in 0..NumItems
    BY <2>1, EachVisited DEF HashInv
  <2>3. Range(q[s]) = {q[s][k] : k \in 1..Len(q[s])}
    BY <2>2, ChainRange DEF Chain
  <2> QED
    BY <2>1, <2>2, <2>3
<1>3. \A s, k : <<s, k>> \in P <=> s \in HUsed /\ k \in 1..Len(q[s])
  <2> SUFFICES ASSUME NEW s, NEW k PROVE <<s, k>> \in P <=> s \in HUsed /\ k \in 1..Len(q[s])
    OBVIOUS
  <2>1. <<s, k>> \in P <=> s \in HUsed /\ k \in 1..NumItems /\ k <= Len(Visited(HashAt(s)))
    BY <1>1
  <2>2. s \in HUsed => Len(q[s]) \in 0..NumItems /\ q[s] = Visited(HashAt(s))
    BY <1>2
  <2>3. NumItems \in Nat
    BY InterpreterAssumption
  <2> QED
    BY <2>1, <2>2, <2>3
<1>4. \A p \in P : p = <<p[1], p[2]>>
  BY <1>1
<1>5. PICK f : f = [p \in P |-> q[p[1]][p[2]]]
  OBVIOUS
<1>6. \A p \in P : p[1] \in HUsed /\ p[2] \in 1..Len(q[p[1]]) /\ f[p] = q[p[1]][p[2]]
  BY <1>3, <1>4, <1>5
<1>7. \A p \in P : f[p] \in ItemsOf(p[1]) /\ f[p] \in Allocated
  BY <1>2, <1>6, ValuesOfItems
<1>8. ASSUME NEW i \in Allocated
      PROVE  \E p \in P : f[p] = i
  <2>1. i \in Items
    BY DEF Allocated
  <2>2. PICK s \in HUsed : i \in ItemsOf(s)
    BY <2>1 DEF HashInv
  <2>3. PICK k \in 1..Len(q[s]) : i = q[s][k]
    BY <1>2, <2>2
  <2>4. <<s, k>> \in P
    BY <1>3, <2>2, <2>3
  <2>5. f[<<s, k>>] = i
    BY <1>5, <2>3, <2>4
  <2> QED
    BY <2>4, <2>5
<1>9. ASSUME NEW o \in P, NEW p \in P, f[o] = f[p]
      PROVE  o = p
  <2>1. o[1] = p[1]
    BY <1>6, <1>7, <1>9 DEF HashInv
  <2>2. o[2] = p[2]
    BY <1>2, <1>6, <1>9, <2>1 DEF Chain
  <2> QED
    BY <1>4, <2>1, <2>2
<1>10. IsFiniteSet(P)
  <2>1. IsFiniteSet(HUsed)
    <3>1. IsFiniteSet(Slots) /\ HUsed \subseteq Slots
      BY InterpreterAssumption, FS_Interval DEF Slots, HUsed, UsedSlots
    <3> QED
      BY <3>1, FS_Subset
  <2>2. IsFiniteSet(1..NumItems)
    BY InterpreterAssumption, FS_Interval
  <2>3. IsFiniteSet(HUsed \X (1..NumItems))
    BY <2>1, <2>2, FS_Product
  <2>4. P \subseteq HUsed \X (1..NumItems)
    BY <1>1
  <2> QED
    BY <2>3, <2>4, FS_Subset
<1>11. Cardinality(Allocated) = Cardinality(P)
  BY <1>7, <1>8, <1>9, <1>10, OneToOne
<1>12. Allocated = {Visited(HashAt(p[1]))[p[2]] : p \in P}
  <2>1. \A p \in P : f[p] = Visited(HashAt(p[1]))[p[2]]
    BY <1>2, <1>6
  <2> QED
    BY <1>7, <1>8, <2>1
<1>13. ~running => Allocated = {}
  BY DEF HashInv, Allocated
<1>14. P = {p \in UsedSlots("hashtable") \X (1..NumItems) : p[2] <= Len(Visited(HashAt(p[1])))}
  BY <1>1 DEF HUsed
<1> QED
  BY <1>11, <1>12, <1>13, <1>14 DEF ItemsHaveOwners

\* No item is lost, in two places or in a table after it was freed, however rehash moves the
\* items and whether or not it gets the memory, and none is left when the interpreter ends.
THEOREM ItemsOwned == Spec => []ItemsHaveOwners
<1>1. Init => MemoryInv /\ HashInv
  BY InitMemory, InitHash
<1>2. MemoryInv /\ HashInv /\ [Next]_vars => MemoryInv' /\ HashInv'
  BY NextMemory, NextHash DEF MemoryInv
<1> QED
  BY <1>1, <1>2, HashMeans, PTL DEF Spec

\* Every command on hash tables does to the buckets what HashSpec says of a set of items, for
\* every number of items, of buckets to begin with and of elements to a bucket.
THEOREM HashTablesImplemented == Spec => ImplementsHashSpec
<1>1. Init => MemoryInv /\ HashInv /\ HashTables!Init
  BY InitMemory, InitHash
<1>2. MemoryInv /\ HashInv /\ [Next]_vars
         => MemoryInv' /\ HashInv' /\ [HashTables!Next]_(HashTables!hsVars)
  BY NextMemory, NextHash DEF MemoryInv
<1> QED
  BY <1>1, <1>2, PTL DEF Spec, ImplementsHashSpec, HashTables!Spec

-----------------------------------------------------------------------------
(* A command reaches what it names *)

\* Objects that are in use, other than that of kind k in slot s, keep their slots and names.
EntriesStay(k, s) ==
    \A j \in Kinds, t \in Slots :
       table[j][t].used /\ ~(j = k /\ t = s)
          => table'[j][t].used /\ table'[j][t].name = table[j][t].name

\* The tables and bitmaps among them keep what is in them.
TablesStay(k, s) == \A t \in HUsed : ~(k = "hashtable" /\ t = s) => Elems'[t] = Elems[t]
BitmapsStay(k, s) == \A t \in Used : ~(k = "bitmap" /\ t = s) => BitmapAt(t)' = BitmapAt(t)

\* A command with the name n that may change the object of kind k in slot s only.
Only(k, s, n) ==
    /\ cmd'.name = n
    /\ s \in Slots /\ table[k][s].used => table[k][s].name = n
    /\ EntriesStay(k, s)
    /\ TablesStay(k, s)
    /\ BitmapsStay(k, s)

\* The objects that a step changes.
Changed ==
    {o \in Kinds \X Slots :
       /\ table[o[1]][o[2]].used
       /\ \/ ~table[o[1]][o[2]].used'
          \/ table[o[1]][o[2]].name' # table[o[1]][o[2]].name
          \/ Meaning(o[1], o[2])' # Meaning(o[1], o[2])}

\* What such a command changes is the one object that its name finds.
LEMMA OnlyMeans ==
    ASSUME NEW k \in Kinds, NEW s, NEW n, Only(k, s, n)
    PROVE  /\ Cardinality(Changed) <= 1
           /\ \A o \in Changed : table[o[1]][o[2]].name = cmd'.name
<1>1. ASSUME NEW j \in Kinds, NEW t \in Slots, table[j][t].used, ~(j = k /\ t = s)
      PROVE  Meaning(j, t)' = Meaning(j, t)
  <2>1. table'[j][t].used
    BY <1>1 DEF Only, EntriesStay
  <2>2. CASE j = "hashtable"
    <3>1. t \in HUsed /\ t \in HUsed'
      BY <1>1, <2>1, <2>2 DEF HUsed, UsedSlots
    <3>2. Elems'[t] = Elems[t]
      BY <1>1, <2>2, <3>1 DEF Only, TablesStay
    <3>3. [i \in ItemsOf(t)' |-> val'[i]] = [i \in ItemsOf(t) |-> val[i]]
      BY <3>1, <3>2, ElemsAre
    <3> QED
      BY <2>2, <3>3 DEF Meaning
  <2>3. CASE j = "bitmap"
    <3>1. t \in Used
      BY <1>1, <2>3 DEF Used, UsedSlots
    <3>2. BitmapAt(t)' = BitmapAt(t)
      BY <1>1, <2>3, <3>1 DEF Only, BitmapsStay
    <3> QED
      BY <2>3, <3>2 DEF Meaning
  <2>4. CASE j = "list"
    BY <2>4 DEF Meaning
  <2> QED
    BY <2>2, <2>3, <2>4 DEF Kinds
<1>2. ASSUME NEW o \in Changed
      PROVE  o = <<k, s>> /\ s \in Slots /\ table[k][s].used
  <2>1. PICK j \in Kinds, t \in Slots : o = <<j, t>>
    BY DEF Changed
  <2>2. /\ table[j][t].used
        /\ \/ ~table'[j][t].used
           \/ table'[j][t].name # table[j][t].name
           \/ Meaning(j, t)' # Meaning(j, t)
    BY <2>1 DEF Changed
  <2>3. j = k /\ t = s
    BY <1>1, <2>2 DEF Only, EntriesStay
  <2> QED
    BY <2>1, <2>2, <2>3
<1>3. Cardinality(Changed) <= 1
  <2>1. Changed \subseteq {<<k, s>>}
    BY <1>2
  <2>2. Changed = {} \/ Changed = {<<k, s>>}
    BY <2>1
  <2>3. Cardinality({}) = 0 /\ Cardinality({<<k, s>>}) = 1
    BY FS_EmptySet, FS_Singleton
  <2> QED
    BY <2>2, <2>3
<1>4. \A o \in Changed : table[o[1]][o[2]].name = cmd'.name
  BY <1>2 DEF Only
<1> QED
  BY <1>3, <1>4

\* Commands that change no object.
LEMMA OnlyNone ==
    ASSUME NEW n, UNCHANGED <<table, val, block>>, cmd'.name = n
    PROVE  Only("list", NoSlot, n)
<1>1. NoSlot \notin Slots
  BY DEF NoSlot, Slots
<1>2. EntriesStay("list", NoSlot)
  BY DEF EntriesStay
<1>3. HUsed' = HUsed /\ \A t \in HUsed : ItemsOf(t)' = ItemsOf(t)
  BY DEF HUsed, UsedSlots, ItemsOf, HashAt
<1>4. TablesStay("list", NoSlot)
  BY <1>3, ElemsAre DEF TablesStay
<1>5. BitmapsStay("list", NoSlot)
  BY DEF BitmapsStay, BitmapAt
<1> QED
  BY <1>1, <1>2, <1>4, <1>5 DEF Only

\* do_create
LEMMA CreateOnly ==
    ASSUME MemoryInv, NEW n, do_create(n)
    PROVE  \E k \in Kinds : \E s : Only(k, s, n)
<1>1. ASSUME NEW k \in Kinds, NEW s, ~table[k][s].used, NEW obj, Register(k, s, n, obj), val' = val,
             cmd'.name = n, \A t \in Used : block'[Owner(t)] = block[Owner(t)]
      PROVE  Only(k, s, n)
  <2>1. PICK e : e = [used |-> TRUE, name |-> copy_name(n), obj |-> obj]
    OBVIOUS
  <2>2. table' = [table EXCEPT ![k][s] = e]
    BY <1>1, <2>1 DEF Register
  <2>3. ASSUME NEW j \in Kinds, NEW t \in Slots, table[j][t].used
        PROVE  table'[j][t] = table[j][t]
    BY <1>1, <2>2, <2>3 DEF MemoryInv, TableShape
  <2>4. "hashtable" \in Kinds /\ "bitmap" \in Kinds
    BY DEF Kinds
  <2>5. EntriesStay(k, s)
    BY <2>3 DEF EntriesStay
  <2>6. \A t \in HUsed : t \in HUsed' /\ ItemsOf(t)' = ItemsOf(t)
    BY <2>3, <2>4 DEF HUsed, UsedSlots, ItemsOf, HashAt
  <2>7. TablesStay(k, s)
    BY <1>1, <2>6, ElemsAre DEF TablesStay
  <2>8. BitmapsStay(k, s)
    BY <1>1, <2>3, <2>4 DEF BitmapsStay, BitmapAt, Used, UsedSlots, Owner
  <2> QED
    BY <1>1, <2>5, <2>7, <2>8 DEF Only
<1>2. CASE create_list_object(n)
  BY <1>1, <1>2, FindEmpty DEF create_list_object, Does, Kinds
<1>3. CASE create_hash_object(n)
  BY <1>1, <1>3, FindEmpty DEF create_hash_object, Does, Kinds
<1>4. ASSUME NEW cnt, create_bitmap_object(n, cnt)
      PROVE  \E k \in Kinds : \E s : Only(k, s, n)
  <2>1. PICK new : block' = [block EXCEPT ![FreshBlock] = new]
    BY <1>4 DEF create_bitmap_object
  <2>2. \A t \in Used : Owner(t) \in Blocks /\ Owner(t) # FreshBlock
    BY FreshIsFree DEF MemoryInv, Owned
  <2>3. \A t \in Used : block'[Owner(t)] = block[Owner(t)]
    BY <2>1, <2>2 DEF MemoryInv, BlocksAre
  <2>4. PICK s : s = find_empty("bitmap")
    OBVIOUS
  <2>5. /\ ~table["bitmap"][s].used /\ Register("bitmap", s, n, FreshBlock) /\ val' = val
        /\ cmd'.name = n /\ "bitmap" \in Kinds
    BY <1>4, <2>4, FindEmpty DEF create_bitmap_object, Does, Kinds
  <2> QED
    BY <1>1, <2>3, <2>5
<1>5. ASSUME OutOfMemory(n) \/ \E k \in Kinds : CreateIgnored(k, n)
      PROVE  \E k \in Kinds : \E s : Only(k, s, n)
  <2>1. UNCHANGED <<table, val, block>> /\ cmd'.name = n /\ "list" \in Kinds
    BY <1>5 DEF OutOfMemory, CreateIgnored, Does, Kinds
  <2> QED
    BY <2>1, OnlyNone
<1> QED
  BY <1>2, <1>3, <1>4, <1>5 DEF do_create, Kinds

\* do_delete
LEMMA DeleteOnly ==
    ASSUME MemoryInv, HashInv, NEW n, do_delete(n), running' = running
    PROVE  \E k \in Kinds : \E s : Only(k, s, n)
<1>1. PICK k, s : k = find_object(n) /\ s = find_used(k, n)
  OBVIOUS
<1>2. PICK ss : ss = [j \in Kinds |-> IF j = k THEN {s} ELSE {}]
  OBVIOUS
<1>3. /\ k \in Kinds /\ s \in Slots /\ table[k][s].used /\ table[k][s].name = n
      /\ Destroy(ss) /\ cmd'.name = n
  BY <1>1, <1>2, FindUsed, ObjectKind DEF do_delete, Does
<1>4. "hashtable" \in Kinds /\ "bitmap" \in Kinds
  BY DEF Kinds
<1>5. ss \in [Kinds -> SUBSET Slots] /\ \A j \in Kinds : ss[j] = IF j = k THEN {s} ELSE {}
  BY <1>2, <1>3
<1>6. \A j \in Kinds, t \in Slots : ~(j = k /\ t = s) => table'[j][t] = table[j][t]
  BY <1>3, <1>5 DEF Destroy
<1>7. EntriesStay(k, s)
  BY <1>6 DEF EntriesStay
<1>8. TablesStay(k, s)
  <2>1. ss["hashtable"] \subseteq HUsed
    BY <1>3, <1>4, <1>5 DEF HUsed, UsedSlots
  <2>2. Elems' = [t \in HUsed \ ss["hashtable"] |-> Elems[t]]
    BY <1>3, <1>5, <2>1, HashDestroyed
  <2> QED
    BY <1>4, <1>5, <2>2 DEF TablesStay
<1>9. BitmapsStay(k, s)
  <2> SUFFICES ASSUME NEW t \in Used, ~(k = "bitmap" /\ t = s)
               PROVE  BitmapAt(t)' = BitmapAt(t)
    BY DEF BitmapsStay
  <2>1. table'["bitmap"][t] = table["bitmap"][t]
    BY <1>4, <1>6 DEF Used, UsedSlots
  <2>2. PICK bs : bs = {Owner(u) : u \in ss["bitmap"]}
    OBVIOUS
  <2>3. block' = [b \in Blocks |-> IF b \in bs THEN Unallocated ELSE block[b]]
    BY <1>3, <2>2 DEF Destroy, FreedBlocks, Owner
  <2>4. Owner(t) \in Blocks /\ Owner(t) \notin bs
    <3>1. \A u \in ss["bitmap"] : u \in Used /\ u # t
      BY <1>3, <1>4, <1>5 DEF Used, UsedSlots
    <3> QED
      BY <2>2, <3>1 DEF MemoryInv, Owned
  <2>5. block'[Owner(t)] = block[Owner(t)]
    BY <2>3, <2>4
  <2> QED
    BY <2>1, <2>5 DEF BitmapAt, Owner
<1> QED
  BY <1>3, <1>7, <1>8, <1>9 DEF Only

\* A command that HashSpec allows leaves other tables alone.
LEMMA OtherTables ==
    ASSUME HashTables!Next, cmd'.do # "quit", NEW t \in HUsed, t # cmd'.at
    PROVE  Elems'[t] = Elems[t]
<1>1. t \in DOMAIN Elems
  BY ElemsAre
<1>2. ASSUME NEW e, HashTables!Becomes(cmd'.at, e)
      PROVE  Elems'[t] = Elems[t]
  BY <1>1, <1>2 DEF HashTables!Becomes
<1>3. ASSUME HashTables!Create(cmd'.at)
      PROVE  Elems'[t] = Elems[t]
  BY <1>1, <1>3 DEF HashTables!Create
<1>4. ASSUME HashTables!Delete(cmd'.at)
      PROVE  Elems'[t] = Elems[t]
  BY <1>1, <1>4 DEF HashTables!Delete, HashTables!Restrict
<1>5. ASSUME HashTables!Orderly(cmd'.at)
      PROVE  Elems'[t] = Elems[t]
  BY <1>2, <1>4, <1>5
     DEF HashTables!Orderly, HashTables!Insert, HashTables!Replace, HashTables!Remove
<1> QED
  BY <1>2, <1>3, <1>5 DEF HashTables!Next, HashTables!Apply

\* do_hash_command
LEMMA HashCommandOnly ==
    ASSUME MemoryInv, HashInv, NEW n, do_hash_command(n), running' = running
    PROVE  \E k \in Kinds : \E s : Only(k, s, n)
<1>1. PICK s : s = find_used("hashtable", n)
  OBVIOUS
<1>2. /\ s \in Slots /\ table["hashtable"][s].used /\ table["hashtable"][s].name = n
      /\ "hashtable" \in Kinds /\ "bitmap" \in Kinds
  BY <1>1, FindUsed DEF do_hash_command, Kinds
<1>3. ASSUME NEW h, InHash(s, h)
      PROVE  EntriesStay("hashtable", s)
  <2>1. table' = WithObj(table, "hashtable", s, h)
    BY <1>3 DEF InHash, WithObj
  <2> QED
    BY <1>2, <2>1, ObjReplaced DEF EntriesStay, MemoryInv
<1>4. table' = table => EntriesStay("hashtable", s)
  BY DEF EntriesStay
<1>5. ASSUME NEW v, HashInsert(s, n, v) \/ HashReplace(s, n, v) \/ HashDelete(s, n, v)
      PROVE  /\ EntriesStay("hashtable", s) /\ cmd'.name = n /\ cmd'.at = s /\ cmd'.do # "quit"
  BY <1>3, <1>5 DEF HashInsert, HashReplace, HashDelete, Does
<1>6. ASSUME NEW word \in {"hash_insert", "hash_replace"}, NEW v, ItemNotMade(s, n, word, v)
      PROVE  /\ EntriesStay("hashtable", s) /\ cmd'.name = n /\ cmd'.at = s /\ cmd'.do # "quit"
  BY <1>4, <1>6 DEF ItemNotMade, Does
<1>7. ASSUME HashClear(s, n) \/ HashApply(s, n) \/ HashQuery(s, n)
      PROVE  /\ EntriesStay("hashtable", s) /\ cmd'.name = n /\ cmd'.at = s /\ cmd'.do # "quit"
  BY <1>3, <1>4, <1>7 DEF HashClear, HashApply, HashQuery, Does
<1>8. EntriesStay("hashtable", s) /\ cmd'.name = n /\ cmd'.at = s /\ cmd'.do # "quit"
  BY <1>1, <1>5, <1>6, <1>7 DEF do_hash_command
<1>9. TablesStay("hashtable", s)
  BY <1>8, TableCommandsRefine, OtherTables DEF TablesStay, MemoryInv
<1>10. BitmapsStay("hashtable", s)
  <2>1. QuietTable /\ block' = block
    BY HashKeepsBitmaps DEF MemoryInv
  <2> QED
    BY <2>1 DEF BitmapsStay, BitmapAt, QuietTable, Used, UsedSlots
<1> QED
  BY <1>2, <1>8, <1>9, <1>10 DEF Only

\* do_bitmap_command
LEMMA BitmapCommandOnly ==
    ASSUME MemoryInv, HashInv, NEW n, do_bitmap_command(n), running' = running
    PROVE  \E k \in Kinds : \E s : Only(k, s, n)
<1>1. PICK s : s = find_used("bitmap", n)
  OBVIOUS
<1>2. /\ s \in Slots /\ table["bitmap"][s].used /\ table["bitmap"][s].name = n
      /\ "bitmap" \in Kinds /\ s \in Used
  BY <1>1, FindUsed DEF do_bitmap_command, Kinds, Used, UsedSlots
<1>3. \A t \in Used : Owner(t) \in Blocks /\ Owner(t) # FreshBlock /\ (Owner(t) = Owner(s) => t = s)
  BY <1>2, FreshIsFree DEF MemoryInv, Owned
<1>4. table' = table => EntriesStay("bitmap", s)
  BY DEF EntriesStay
<1>5. ASSUME NEW b, InBitmap(s, b)
      PROVE  EntriesStay("bitmap", s) /\ BitmapsStay("bitmap", s)
  <2>1. table' = table /\ block' = [block EXCEPT ![Owner(s)] = b]
    BY <1>5 DEF InBitmap, Owner
  <2>2. \A t \in Used \ {s} : block'[Owner(t)] = block[Owner(t)]
    BY <1>3, <2>1 DEF MemoryInv, BlocksAre
  <2> QED
    BY <1>4, <2>1, <2>2 DEF BitmapsStay, BitmapAt, Owner
<1>6. UNCHANGED <<table, val, block>> => EntriesStay("bitmap", s) /\ BitmapsStay("bitmap", s)
  BY <1>4 DEF BitmapsStay, BitmapAt
<1>7. ASSUME BitmapExpand(s, n)
      PROVE  EntriesStay("bitmap", s) /\ BitmapsStay("bitmap", s) /\ cmd'.name = n
  <2>1. PICK new : block' = [FreedBlocks({Owner(s)}) EXCEPT ![FreshBlock] = new]
    BY <1>7 DEF BitmapExpand, Owner
  <2>2. table' = WithObj(table, "bitmap", s, FreshBlock) /\ cmd'.name = n
    BY <1>7 DEF BitmapExpand, WithObj, Does
  <2>3. \A j \in Kinds, t \in Slots :
           /\ table'[j][t].used = table[j][t].used
           /\ table'[j][t].name = table[j][t].name
           /\ table'[j][t].obj = IF j = "bitmap" /\ t = s THEN FreshBlock ELSE table[j][t].obj
    BY <1>2, <2>2, ObjReplaced DEF MemoryInv
  <2>4. \A t \in Used \ {s} : block'[Owner(t)] = block[Owner(t)]
    BY <1>3, <2>1 DEF FreedBlocks
  <2>5. \A t \in Used \ {s} : table'["bitmap"][t].obj = table["bitmap"][t].obj
    BY <1>2, <2>3 DEF Used, UsedSlots
  <2> QED
    BY <2>2, <2>3, <2>4, <2>5 DEF EntriesStay, BitmapsStay, BitmapAt, Owner
<1>8. BitmapUpdate(s, n) => EntriesStay("bitmap", s) /\ BitmapsStay("bitmap", s) /\ cmd'.name = n
  BY <1>5 DEF BitmapUpdate, Does
<1>9. BitmapQuery(s, n) => EntriesStay("bitmap", s) /\ BitmapsStay("bitmap", s) /\ cmd'.name = n
  BY <1>6 DEF BitmapQuery, Does
<1>10. BitmapScan(s, n) => EntriesStay("bitmap", s) /\ BitmapsStay("bitmap", s) /\ cmd'.name = n
  BY <1>5, <1>6 DEF BitmapScan, Does
<1>11. EntriesStay("bitmap", s) /\ BitmapsStay("bitmap", s) /\ cmd'.name = n
  BY <1>1, <1>7, <1>8, <1>9, <1>10 DEF do_bitmap_command
<1>12. TablesStay("bitmap", s)
  <2>1. Elems' = Elems
    BY BitmapIsQuiet, HashKept DEF MemoryInv
  <2> QED
    BY <2>1 DEF TablesStay
<1> QED
  BY <1>2, <1>11, <1>12 DEF Only

\* Every command but quit.
LEMMA NextOnly ==
    ASSUME MemoryInv, HashInv, Next, running'
    PROVE  /\ Cardinality(Changed) <= 1
           /\ \A o \in Changed : table[o[1]][o[2]].name = cmd'.name
<1>1. PICK n \in Names : Command(n) /\ running' = running
  BY DEF Next, Quit
<1>2. do_dumpdata(n) => \E k \in Kinds : \E s : Only(k, s, n)
  <2>1. do_dumpdata(n) => UNCHANGED <<table, val, block>> /\ cmd'.name = n /\ "list" \in Kinds
    BY DEF do_dumpdata, Does, Kinds
  <2> QED
    BY <2>1, OnlyNone
<1>3. \E k \in Kinds : \E s : Only(k, s, n)
  BY <1>1, <1>2, CreateOnly, DeleteOnly, HashCommandOnly, BitmapCommandOnly DEF Command
<1> QED
  BY <1>3, OnlyMeans

\* A command changes the object that its name finds and no other, whatever memory it allocates
\* and frees; a name that was cut when it was stored is not found.
THEOREM OnlyTheNamed == Spec => OnlyTheNamedChanges
<1>1. Init => MemoryInv /\ HashInv
  BY InitMemory, InitHash
<1>2. MemoryInv /\ HashInv /\ [Next]_vars => MemoryInv' /\ HashInv'
  BY NextMemory, NextHash DEF MemoryInv
<1>3. MemoryInv /\ HashInv /\ [Next]_vars
         => [ LET changed == {o \in Kinds \X Slots :
                          /\ table[o[1]][o[2]].used
                          /\ \/ ~table[o[1]][o[2]].used'
                             \/ table[o[1]][o[2]].name' # table[o[1]][o[2]].name
                             \/ Meaning(o[1], o[2])' # Meaning(o[1], o[2])}
              IN  running' => /\ Cardinality(changed) <= 1
                              /\ \A o \in changed : table[o[1]][o[2]].name = cmd'.name
            ]_vars
  BY NextOnly DEF Changed
<1> QED
  BY <1>1, <1>2, <1>3, PTL DEF Spec, OnlyTheNamedChanges

-----------------------------------------------------------------------------
(* Types *)

\* What may be a name in the registry, and what names the objects in use have.
StoredNames == Names \ LongNames
NamesOK == \A k \in Kinds, s \in Slots : table[k][s].used => table[k][s].name \in StoredNames
NamesInv == NamesOK /\ running \in BOOLEAN

\* In a step no object in use gets a name but one that it had or one that was stored.
NamesStored ==
    \A k \in Kinds, s \in Slots :
       table'[k][s].used
          => \/ table[k][s].used /\ table'[k][s].name = table[k][s].name
             \/ table'[k][s].name \in StoredNames

\* A registry that stays as it is stores no other names.
LEMMA SameNames == table' = table => NamesStored
BY DEF NamesStored

\* And so does one in which an object is given other data.
LEMMA ObjNames ==
    ASSUME TableShape, NEW k \in Kinds, NEW s \in Slots, NEW h, table' = WithObj(table, k, s, h)
    PROVE  NamesStored
BY ObjReplaced DEF NamesStored

\* A created object has the name of the command, whole or cut.
LEMMA CreateNames ==
    ASSUME TableShape, NEW n \in Names, do_create(n)
    PROVE  NamesStored
<1>1. ASSUME NEW k \in Kinds, NEW s, NEW obj, Register(k, s, n, obj)
      PROVE  NamesStored
  <2>1. PICK m : m = copy_name(n)
    OBVIOUS
  <2>2. m \in StoredNames
    BY <2>1, InterpreterAssumption DEF copy_name, StoredNames
  <2>3. PICK e : e = [used |-> TRUE, name |-> m, obj |-> obj]
    OBVIOUS
  <2>4. table' = [table EXCEPT ![k][s] = e] /\ e.name = m
    BY <1>1, <2>1, <2>3 DEF Register
  <2>5. \A j \in Kinds, t \in Slots : table'[j][t] = IF j = k /\ t = s THEN e ELSE table[j][t]
    BY <2>4 DEF TableShape
  <2> QED
    BY <2>2, <2>4, <2>5 DEF NamesStored
<1>2. create_list_object(n) \/ create_hash_object(n) => NamesStored
  BY <1>1 DEF create_list_object, create_hash_object, Kinds
<1>3. ASSUME NEW cnt, create_bitmap_object(n, cnt)
      PROVE  NamesStored
  BY <1>1, <1>3 DEF create_bitmap_object, Kinds
<1>4. OutOfMemory(n) \/ (\E k \in Kinds : CreateIgnored(k, n)) => NamesStored
  BY SameNames DEF OutOfMemory, CreateIgnored
<1> QED
  BY <1>2, <1>3, <1>4 DEF do_create, Kinds

\* What is destroyed is not in use any more.
LEMMA DestroyNames ==
    ASSUME NEW ss, Destroy(ss)
    PROVE  NamesStored
<1>1. \A k \in Kinds, s \in Slots : table'[k][s] = IF s \in ss[k] THEN NotUsed ELSE table[k][s]
  BY DEF Destroy
<1>2. ~NotUsed.used
  BY DEF NotUsed
<1> QED
  BY <1>1, <1>2 DEF NamesStored

\* do_hash_command
LEMMA HashCommandNames ==
    ASSUME TableShape, NEW n, do_hash_command(n)
    PROVE  NamesStored
<1>1. PICK s : s = find_used("hashtable", n)
  OBVIOUS
<1>2. s \in Slots /\ "hashtable" \in Kinds
  BY <1>1, FindUsed DEF do_hash_command, Kinds
<1>3. ASSUME NEW h, InHash(s, h)
      PROVE  NamesStored
  <2>1. table' = WithObj(table, "hashtable", s, h)
    BY <1>3 DEF InHash, WithObj
  <2> QED
    BY <1>2, <2>1, ObjNames
<1>4. ASSUME NEW v, HashInsert(s, n, v) \/ HashReplace(s, n, v) \/ HashDelete(s, n, v)
      PROVE  NamesStored
  BY <1>3, <1>4 DEF HashInsert, HashReplace, HashDelete
<1>5. ASSUME NEW word, NEW v, ItemNotMade(s, n, word, v)
      PROVE  NamesStored
  BY <1>5, SameNames DEF ItemNotMade
<1>6. HashClear(s, n) \/ HashApply(s, n) \/ HashQuery(s, n) => NamesStored
  BY <1>3, SameNames DEF HashClear, HashApply, HashQuery
<1> QED
  BY <1>1, <1>4, <1>5, <1>6 DEF do_hash_command

\* do_bitmap_command
LEMMA BitmapCommandNames ==
    ASSUME TableShape, NEW n, do_bitmap_command(n)
    PROVE  NamesStored
<1>1. PICK s : s = find_used("bitmap", n)
  OBVIOUS
<1>2. s \in Slots /\ "bitmap" \in Kinds
  BY <1>1, FindUsed DEF do_bitmap_command, Kinds
<1>3. BitmapUpdate(s, n) \/ BitmapQuery(s, n) \/ BitmapScan(s, n) => NamesStored
  BY SameNames DEF BitmapUpdate, BitmapQuery, BitmapScan, InBitmap
<1>4. ASSUME BitmapExpand(s, n)
      PROVE  NamesStored
  <2>1. table' = WithObj(table, "bitmap", s, FreshBlock)
    BY <1>4 DEF BitmapExpand, WithObj
  <2> QED
    BY <1>2, <2>1, ObjNames
<1> QED
  BY <1>1, <1>3, <1>4 DEF do_bitmap_command

\* Every step.
LEMMA NextNames ==
    ASSUME TableShape, NamesInv, [Next]_vars
    PROVE  NamesInv'
<1>1. UNCHANGED vars => NamesStored /\ running' = running
  BY SameNames DEF vars
<1>2. Quit => NamesStored /\ running' \in BOOLEAN
  BY DestroyNames DEF Quit, cleanup_all_objects
<1>3. ASSUME NEW n \in Names, Command(n)
      PROVE  NamesStored
  <2>1. do_dumpdata(n) => NamesStored
    BY SameNames DEF do_dumpdata
  <2>2. do_delete(n) => NamesStored
    BY DestroyNames DEF do_delete
  <2> QED
    BY <1>3, <2>1, <2>2, CreateNames, HashCommandNames, BitmapCommandNames DEF Command
<1>4. NamesStored => NamesOK'
  BY DEF NamesStored, NamesOK, NamesInv
<1>5. NamesStored
  BY <1>1, <1>2, <1>3 DEF Next
<1>6. running' \in BOOLEAN
  BY <1>1, <1>2 DEF Next, NamesInv
<1> QED
  BY <1>4, <1>5, <1>6 DEF NamesInv

\* The invariants of the memory and of the tables have the rest of the types in them.
LEMMA TypesMean == MemoryInv /\ HashInv /\ NamesInv => TypeOK
<1> SUFFICES ASSUME MemoryInv, HashInv, NamesInv PROVE TypeOK
  OBVIOUS
<1>1. ASSUME NEW s \in HUsed
      PROVE  HashOK(HashAt(s))
  <2>1. PICK h, X : h = HashAt(s) /\ X = ItemsOf(s)
    OBVIOUS
  <2>2. Holds(h, X)
    BY <1>1, <2>1 DEF HashInv
  <2>3. h.bucket_cnt \in BucketCnts
    BY <2>2 DEF Holds
  <2>4. h.elem_cnt \in 0..NumItems
    BY <2>2, EachVisited, HoldsItems
  <2>5. DOMAIN h.buckets = 0..(h.bucket_cnt - 1)
    BY <2>2, HoldsItems
  <2>6. \A b \in DOMAIN h.buckets : h.buckets[b] \in Seq(Items)
    BY <2>2, <2>5 DEF Holds, Buckets
  <2> QED
    BY <2>1, <2>3, <2>4, <2>5, <2>6 DEF HashOK
<1>2. ASSUME NEW b \in Blocks \ FreeBlocks
      PROVE  block[b] \in BitmapsOf(block[b].bit_cnt)
  <2>1. block[b] \in BitmapRecord
    BY DEF MemoryInv, BlocksAre, FreeBlocks
  <2>2. PICK cnt \in 0..MaxBits : block[b] \in BitmapsOf(cnt)
    BY <2>1 DEF BitmapRecord
  <2>3. block[b].bit_cnt = cnt
    BY <2>2 DEF BitmapsOf
  <2> QED
    BY <2>2, <2>3
<1>3. \A s \in UsedSlots("bitmap") : table["bitmap"][s].obj \in Blocks
  BY DEF MemoryInv, Owned, Used, Owner
<1>4. \A k \in Kinds : \A s \in UsedSlots(k) : table[k][s].name \in Names \ LongNames
  BY DEF NamesInv, NamesOK, StoredNames, UsedSlots
<1>5. DOMAIN table = Kinds
  BY DEF MemoryInv, TableShape
<1>6. val \in [Items -> Ints \union {NoValue}]
  BY DEF HashInv, Vals
<1> QED
  BY <1>1, <1>2, <1>3, <1>4, <1>5, <1>6 DEF TypeOK, HUsed, NamesInv

\* Names, tables, bitmaps and values keep their types; the number of buckets, with which
\* find_bucket masks hash values, is a power of two after every rehash.
THEOREM TypeCorrect == Spec => []TypeOK
<1>1. Init => NamesInv
  <2> SUFFICES ASSUME Init PROVE NamesInv
    OBVIOUS
  <2>1. \A k \in Kinds, s \in Slots : table[k][s] = NotUsed
    BY DEF Init
  <2>2. ~NotUsed.used
    BY DEF NotUsed
  <2>3. running \in BOOLEAN
    BY DEF Init
  <2> QED
    BY <2>1, <2>2, <2>3 DEF NamesInv, NamesOK
<1>2. Init => MemoryInv /\ HashInv
  BY InitMemory, InitHash
<1>3. MemoryInv /\ HashInv /\ NamesInv /\ [Next]_vars => MemoryInv' /\ HashInv' /\ NamesInv'
  BY NextMemory, NextHash, NextNames DEF MemoryInv
<1> QED
  BY <1>1, <1>2, <1>3, TypesMean, PTL DEF Spec
=============================================================================
