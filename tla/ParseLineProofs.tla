---------------------------- MODULE ParseLineProofs ----------------------------
(***************************************************************************)
(* Theorems about the parsers of the shells: for lines of any length, any    *)
(* characters, any MAXARGS and MAXCMDS and any width of the integers.        *)
(*                                                                           *)
(* The scanners are folds over the characters of a line, each a run of its   *)
(* steps (SplitRun, LoopRun, ScanRun) that grows with the line (SplitGrows,  *)
(* LoopGrows, ScanGrows), so that what is true of every line is proved by    *)
(* appending characters (ByAppending).  Between the loop of parse_line and   *)
(* the grammar stands Split(s): the pieces between the bars and the open     *)
(* quote, without trimming and without errors.  LoopAgrees and ParsedText    *)
(* say what parse_line makes of the pieces, BalancedMeans and CutIsSplit     *)
(* that the grammar has the same pieces.  Typed(A) grows the same way, with  *)
(* an argument, and so does what parseline makes of it (TypedScanned).  The  *)
(* number that strtol reads is the sum that the digits stand for, which may  *)
(* be taken in any order (InAnyOrder, NumeralIs).                            *)
(***************************************************************************)
EXTENDS ParseLine, FiniteSetTheorems, SequenceTheorems, WellFoundedInduction, TLAPS

-----------------------------------------------------------------------------
(* Induction, and what a fold is *)

\* Induction up to n.
LEMMA UpTo ==
    ASSUME NEW n \in Nat, NEW P, 0 \in P, \A k \in 0..(n - 1) : k \in P => k + 1 \in P
    PROVE  0..n \subseteq P
<1> DEFINE R == OpToRel(<, Nat)
           M == (0..n) \ P
<1>1. IsWellFoundedOn(R, Nat)
  BY NatLessThanWellFounded
<1>2. M \subseteq Nat
  OBVIOUS
<1>3. ASSUME NEW x \in M, \A y \in M : ~(<<y, x>> \in R)
      PROVE  FALSE
  <2>1. x \in Nat /\ x # 0 /\ x - 1 \in 0..(n - 1)
    OBVIOUS
  <2>2. <<x - 1, x>> \in R
    BY <2>1 DEF OpToRel
  <2>3. x - 1 \in P
    <3>1. x - 1 \notin M
      BY <1>3, <2>2
    <3> HIDE DEF R
    <3> QED
      BY <2>1, <3>1
  <2>4. x - 1 + 1 = x
    BY <2>1
  <2>5. x \in P
    BY <2>1, <2>3, <2>4
  <2> QED
    BY <2>5
<1>4. M # {} => \E x \in M : \A y \in M : ~(<<y, x>> \in R)
  <2> HIDE DEF R, M
  <2> QED
    BY <1>1, <1>2, WFMin, Zenon
<1> HIDE DEF R
<1> QED
  BY <1>3, <1>4

\* Induction over sequences, one character after the other.
LEMMA ByAppending ==
    ASSUME NEW C, NEW P, << >> \in P, \A s \in Seq(C), c \in C : s \in P => Append(s, c) \in P
    PROVE  Seq(C) \subseteq P
<1> SUFFICES ASSUME NEW s \in Seq(C) PROVE s \in P
  OBVIOUS
<1>1. PICK n : n = Len(s)
  OBVIOUS
<1>7. PICK f : f = [k \in 0..n |-> SubSeq(s, 1, k)]
  OBVIOUS
<1> DEFINE Q == {k \in 0..n : f[k] \in P}
<1>2. n \in Nat
  BY <1>1
<1>3. 0 \in Q
  <2>1. SubSeq(s, 1, 0) = << >>
    OBVIOUS
  <2>2. f[0] = << >>
    BY <1>2, <1>7, <2>1
  <2> QED
    BY <1>2, <2>2
<1>4. ASSUME NEW k \in 0..(n - 1), k \in Q
      PROVE  k + 1 \in Q
  <2>1. SubSeq(s, 1, k) \in Seq(C) /\ s[k + 1] \in C
    BY <1>1, <1>2
  <2>2. SubSeq(s, 1, k + 1) = Append(SubSeq(s, 1, k), s[k + 1])
    BY <1>1, <1>2
  <2>3. /\ f[k] = SubSeq(s, 1, k) /\ f[k + 1] = SubSeq(s, 1, k + 1)
        /\ k \in 0..n /\ k + 1 \in 0..n
    BY <1>2, <1>7
  <2>4. f[k] \in P /\ f[k] \in Seq(C) /\ f[k + 1] = Append(f[k], s[k + 1])
    BY <1>4, <2>1, <2>2, <2>3
  <2>5. f[k + 1] \in P
    BY <2>1, <2>4
  <2> QED
    BY <2>3, <2>5
<1>5. 0..n \subseteq Q
  <2> HIDE DEF Q
  <2> QED
    BY <1>2, <1>3, <1>4, UpTo
<1>6. f[n] \in P
  BY <1>2, <1>5
<1>8. SubSeq(s, 1, n) = s
  BY <1>1, SubSeqFull
<1>9. f[n] = SubSeq(s, 1, n)
  BY <1>2, <1>7
<1> QED
  BY <1>6, <1>8, <1>9

\* The greatest index of a part of a sequence.
LEMMA LastIndex ==
    ASSUME NEW n \in Nat, NEW T \in SUBSET (1..n), T # {}
    PROVE  Max(T) \in T /\ \A k \in T : k <= Max(T)
<1> DEFINE P == {k \in 0..n : T \intersect (1..k) # {} =>
                              \E x \in T \intersect (1..k) : \A y \in T \intersect (1..k) : x >= y}
<1>1. 0 \in P
  OBVIOUS
<1>2. ASSUME NEW k \in 0..(n - 1), k \in P
      PROVE  k + 1 \in P
  <2>1. CASE k + 1 \in T
    <3>1. k + 1 \in T \intersect (1..(k + 1)) /\ \A y \in T \intersect (1..(k + 1)) : k + 1 >= y
      BY <2>1
    <3> QED
      BY <3>1
  <2>2. CASE k + 1 \notin T
    <3>1. T \intersect (1..(k + 1)) = T \intersect (1..k)
      BY <2>2
    <3> QED
      BY <1>2, <3>1
  <2> QED
    BY <2>1, <2>2
<1>3. 0..n \subseteq P
  <2> HIDE DEF P
  <2> QED
    BY <1>1, <1>2, UpTo
<1>4. n \in P
  BY <1>3
<1>5. T \intersect (1..n) = T
  OBVIOUS
<1>6. \E x \in T : \A y \in T : x >= y
  BY <1>4, <1>5
<1>7. Max(T) \in T /\ \A k \in T : Max(T) >= k
  BY <1>6 DEF Max
<1> QED
  BY <1>7

\* g has at each part of the indices what the steps G make of base over it.
IsFold(g, n, base, G) ==
    /\ g[{}] = base
    /\ \A T \in SUBSET (1..n) : T # {} => g[T] = G[Max(T)][g[T \ {Max(T)}]]

\* There is such a g.
LEMMA FoldExists ==
    ASSUME NEW n \in Nat, NEW D, NEW base \in D, NEW G \in [1..n -> [D -> D]]
    PROVE  \E g \in [SUBSET (1..n) -> D] : IsFold(g, n, base, G)
<1> DEFINE P == {k \in 0..n : \E g \in [SUBSET (1..n) -> D] : IsFold(g, k, base, G)}
<1>1. 0 \in P
  <2>1. PICK g : g = [T \in SUBSET (1..n) |-> base]
    OBVIOUS
  <2>2. g \in [SUBSET (1..n) -> D] /\ g[{}] = base
    BY <2>1
  <2>3. \A T \in SUBSET (1..0) : T = {}
    OBVIOUS
  <2>4. IsFold(g, 0, base, G)
    BY <2>2, <2>3 DEF IsFold
  <2> QED
    BY <2>2, <2>4
<1>2. ASSUME NEW k \in 0..(n - 1), k \in P
      PROVE  k + 1 \in P
  <2>1. PICK g \in [SUBSET (1..n) -> D] : IsFold(g, k, base, G)
    BY <1>2
  <2>2. PICK h : h = [T \in SUBSET (1..n) |-> IF k + 1 \in T THEN G[k + 1][g[T \ {k + 1}]] ELSE g[T]]
    OBVIOUS
  <2>3. \A T \in SUBSET (1..n) : T \ {k + 1} \in SUBSET (1..n)
    OBVIOUS
  <2>4. h \in [SUBSET (1..n) -> D]
    BY <2>1, <2>2, <2>3
  <2>5. h[{}] = base
    BY <2>1, <2>2 DEF IsFold
  <2>6. ASSUME NEW T \in SUBSET (1..(k + 1)), T # {}
        PROVE  h[T] = G[Max(T)][h[T \ {Max(T)}]]
    <3>2. T \in SUBSET (1..n)
      OBVIOUS
    <3>1. Max(T) \in T /\ \A m \in T : m <= Max(T)
      BY <2>6, <3>2, LastIndex
    <3>3. CASE k + 1 \in T
      <4>1. Max(T) = k + 1
        <5>1. Max(T) \in 1..(k + 1) /\ k + 1 <= Max(T)
          BY <3>1, <3>3
        <5> QED
          BY <5>1
      <4>2. h[T \ {k + 1}] = g[T \ {k + 1}]
        BY <2>2, <2>3, <3>2
      <4>3. h[T] = G[k + 1][g[T \ {k + 1}]]
        BY <2>2, <3>2, <3>3
      <4> QED
        BY <4>1, <4>2, <4>3
    <3>4. CASE k + 1 \notin T
      <4>1. T \in SUBSET (1..k)
        BY <3>4
      <4>2. k + 1 \notin T \ {Max(T)} /\ T \ {Max(T)} \in SUBSET (1..n)
        BY <3>2, <3>4
      <4>3. h[T] = g[T] /\ h[T \ {Max(T)}] = g[T \ {Max(T)}]
        BY <2>2, <3>2, <3>4, <4>2
      <4> QED
        BY <2>1, <2>6, <4>1, <4>3 DEF IsFold
    <3> QED
      BY <3>3, <3>4
  <2>7. IsFold(h, k + 1, base, G)
    BY <2>5, <2>6 DEF IsFold
  <2> QED
    BY <2>4, <2>7
<1>3. 0..n \subseteq P
  <2> HIDE DEF P
  <2> QED
    BY <1>1, <1>2, UpTo
<1>4. n \in P
  <2> HIDE DEF P
  <2> QED
    BY <1>3
<1> QED
  BY <1>4

\* f and g are the same up to n, and take the same steps.
Same(f, g, n) == \A k \in 0..n : f[k] = g[k]
SameSteps(f, g, n) == \A k \in 1..n : f[k - 1] = g[k - 1] => f[k] = g[k]

\* Two runs of the same steps are the same.
LEMMA SameRun ==
    ASSUME NEW n \in Nat, NEW f, NEW g, f[0] = g[0], SameSteps(f, g, n)
    PROVE  Same(f, g, n)
<1> USE DEF Same, SameSteps
<1> DEFINE P == {k \in 0..n : f[k] = g[k]}
<1>1. 0 \in P
  OBVIOUS
<1>2. ASSUME NEW k \in 0..(n - 1), k \in P
      PROVE  k + 1 \in P
  <2>1. k + 1 \in 1..n /\ k + 1 - 1 = k
    OBVIOUS
  <2>2. f[k + 1] = g[k + 1]
    BY <1>2, <2>1
  <2> QED
    BY <2>1, <2>2
<1>3. 0..n \subseteq P
  <2> HIDE DEF P
  <2> QED
    BY <1>1, <1>2, UpTo
<1> QED
  BY <1>3

-----------------------------------------------------------------------------
(* The loop of parse_line and what it is compared with *)

Texts == Seq(LineChars)

\* The states of the loop of parse_line.
LoopStates == [start : Texts, segments : Seq(Texts), quote : Quotes \union {NoQuote}, failed : BOOLEAN]

\* The state after a line.
Loop(s) == FoldLeft(LoopBody, Begin, s)

\* What is between the bars outside of quotes, and the quote that is open, with no error.
SplitStep(p, c) ==
    IF c = "|" /\ p.quote = NoQuote THEN [p EXCEPT !.pieces = Append(@, << >>)]
    ELSE [pieces |-> [p.pieces EXCEPT ![Len(p.pieces)] = Append(@, c)],
          quote |-> IF c \in Quotes THEN ToggleQuote(p, c) ELSE p.quote]

Whole == [pieces |-> << << >> >>, quote |-> NoQuote]
Split(s) == FoldLeft(SplitStep, Whole, s)
Splits == {p \in [pieces : Seq(Texts), quote : Quotes \union {NoQuote}] : p.pieces # << >>}

\* The elements of a sequence, and its end.
LEMMA NonEmpty ==
    ASSUME NEW S, NEW P \in Seq(S), P # << >>
    PROVE  Len(P) \in Nat \ {0} /\ Len(P) \in 1..Len(P) /\ DOMAIN P = 1..Len(P) /\ P[Len(P)] \in S
<1>1. Len(P) \in Nat \ {0}
  BY EmptySeq
<1>2. Len(P) \in 1..Len(P)
  BY <1>1
<1> QED
  BY <1>1, <1>2, ElementOfSeq, LenProperties

\* P with e for its end.
WithEnd(P, e) == [P EXCEPT ![Len(P)] = e]

\* What is true of a sequence whose end is replaced.
LEMMA EndReplaced ==
    ASSUME NEW S, NEW P \in Seq(S), P # << >>, NEW e \in S
    PROVE  /\ WithEnd(P, e) \in Seq(S) /\ Len(WithEnd(P, e)) = Len(P) /\ WithEnd(P, e) # << >>
           /\ WithEnd(P, e)[Len(P)] = e
           /\ \A k \in 1..(Len(P) - 1) : WithEnd(P, e)[k] = P[k]
<1>1. PICK n, Q : n = Len(P) /\ Q = WithEnd(P, e)
  OBVIOUS
<1>2. n \in Nat \ {0} /\ n \in 1..n /\ DOMAIN P = 1..n
  BY <1>1, NonEmpty
<1>3. P \in [1..n -> S]
  BY <1>1, LenProperties
<1>4. Q \in [1..n -> S] /\ Q[n] = e /\ \A k \in 1..(n - 1) : Q[k] = P[k]
  BY <1>1, <1>2, <1>3 DEF WithEnd
<1>5. Q \in Seq(S)
  BY <1>2, <1>4, SeqDef
<1>6. Len(Q) = n
  BY <1>2, <1>4, <1>5, LenProperties
<1> QED
  BY <1>1, <1>2, <1>4, <1>5, <1>6, EmptySeq

\* What a state of Split is made of.
LEMMA SplitIs ==
    ASSUME NEW P \in Seq(Texts), P # << >>, NEW q \in Quotes \union {NoQuote}
    PROVE  [pieces |-> P, quote |-> q] \in Splits
<1>1. PICK p : p = [pieces |-> P, quote |-> q]
  OBVIOUS
<1>2. p \in [pieces : Seq(Texts), quote : Quotes \union {NoQuote}] /\ p.pieces = P
  BY <1>1
<1>3. p.pieces # << >>
  BY <1>2
<1> QED
  BY <1>1, <1>2, <1>3, Zenon DEF Splits

\* A step of Split goes from a state to a state.
LEMMA SplitStepType ==
    ASSUME NEW p \in Splits, NEW c \in LineChars
    PROVE  SplitStep(p, c) \in Splits
<1> PICK P, n, q : P = p.pieces /\ n = Len(P) /\ q = p.quote
  OBVIOUS
<1>1. P \in Seq(Texts) /\ P # << >> /\ q \in Quotes \union {NoQuote}
      /\ p = [pieces |-> P, quote |-> q]
  BY DEF Splits
<1>2. CASE c = "|" /\ q = NoQuote
  <2>1. << >> \in Texts
    BY EmptySeq DEF Texts
  <2>2. Append(P, << >>) \in Seq(Texts) /\ Append(P, << >>) # << >>
    <3>1. PICK e : e = << >>
      OBVIOUS
    <3>2. P \in Seq(Texts) /\ e \in Texts
      BY <1>1, <2>1, <3>1
    <3>3. Append(P, e) \in Seq(Texts) /\ Append(P, e) # << >>
      BY <3>2, AppendProperties
    <3> QED
      BY <3>1, <3>3
  <2>3. SplitStep(p, c) = [pieces |-> Append(P, << >>), quote |-> q]
    BY <1>1, <1>2 DEF SplitStep
  <2> QED
    BY <1>1, <2>2, <2>3, SplitIs
<1>3. CASE ~(c = "|" /\ q = NoQuote)
  <2>1. PICK x : x = Append(P[n], c)
    OBVIOUS
  <2>2. PICK Q : Q = WithEnd(P, x)
    OBVIOUS
  <2>3. x \in Texts
    <3>1. P[n] \in Seq(LineChars)
      BY <1>1, NonEmpty DEF Texts
    <3> QED
      BY <2>1, <3>1, AppendProperties DEF Texts
  <2>4. Q \in Seq(Texts) /\ Q # << >>
    <3>1. P \in Seq(Texts) /\ P # << >> /\ x \in Texts
      BY <1>1, <2>3
    <3> QED
      BY <2>2, <3>1, EndReplaced
  <2>5. PICK r : r = IF c \in Quotes THEN ToggleQuote(p, c) ELSE q
    OBVIOUS
  <2>6. r \in Quotes \union {NoQuote}
    BY <1>1, <2>5 DEF ToggleQuote
  <2>7. SplitStep(p, c) = [pieces |-> Q, quote |-> r]
    BY <1>1, <1>3, <2>1, <2>2, <2>5 DEF SplitStep, WithEnd
  <2> QED
    BY <2>4, <2>6, <2>7, SplitIs
<1> QED
  BY <1>2, <1>3

\* Split is a run of its steps.
LEMMA SplitRun ==
    ASSUME NEW s \in Texts
    PROVE  \E f \in [0..Len(s) -> Splits] : /\ f[0] = Whole /\ Split(s) = f[Len(s)]
                                            /\ \A k \in 1..Len(s) : f[k] = SplitStep(f[k - 1], s[k])
<1>1. PICK n : n = Len(s)
  OBVIOUS
<1>2. n \in Nat /\ DOMAIN s = 1..n /\ \A k \in 1..n : s[k] \in LineChars
  BY <1>1 DEF Texts
<1>3. Whole \in Splits
  <2>1. << >> \in Texts
    BY EmptySeq DEF Texts
  <2>2. << << >> >> \in Seq(Texts) /\ << << >> >> # << >>
    BY <2>1
  <2> QED
    BY <2>2, SplitIs DEF Whole
<1> DEFINE fold(g) == g = [T \in SUBSET (1..n) |-> IF T = {} THEN Whole
                                    ELSE SplitStep(g[T \ {Max(T)}], s[Max(T)])]
<1>4. Split(s) = (CHOOSE g : fold(g))[1..n]
  <2>1. Split(s) = (CHOOSE g : g = [T \in SUBSET (DOMAIN s) |-> IF T = {} THEN Whole
                               ELSE SplitStep(g[T \ {Max(T)}], s[Max(T)])])[DOMAIN s]
    BY DEF Split, FoldLeft, MapThenFoldSet
  <2> QED
    BY <1>2, <2>1
<1>5. PICK G : G = [k \in 1..n |-> [p \in Splits |-> SplitStep(p, s[k])]]
  OBVIOUS
<1>6. G \in [1..n -> [Splits -> Splits]]
  BY <1>2, <1>5, SplitStepType
<1>7. PICK g \in [SUBSET (1..n) -> Splits] : IsFold(g, n, Whole, G)
  BY <1>2, <1>3, <1>6, FoldExists
<1>8. fold(g)
  <2>1. ASSUME NEW T \in SUBSET (1..n), T # {}
        PROVE  g[T] = SplitStep(g[T \ {Max(T)}], s[Max(T)])
    <3>1. PICK m : m = Max(T)
      OBVIOUS
    <3>2. m \in 1..n /\ T \ {m} \in SUBSET (1..n)
      BY <1>2, <2>1, <3>1, LastIndex
    <3>3. g[T] = G[m][g[T \ {m}]]
      BY <1>7, <2>1, <3>1 DEF IsFold
    <3> QED
      BY <1>5, <1>7, <3>1, <3>2, <3>3
  <2>2. g[{}] = Whole
    BY <1>7 DEF IsFold
  <2> QED
    BY <1>7, <2>1, <2>2
<1>9. PICK l : l = CHOOSE r : fold(r)
  OBVIOUS
<1>10. fold(l)
  <2> HIDE DEF fold
  <2> QED
    BY <1>8, <1>9
<1>11. PICK f : f = [k \in 0..n |-> l[1..k]]
  OBVIOUS
<1>12. f[0] = Whole
  <2>1. 1..0 = {}
    OBVIOUS
  <2> QED
    BY <1>2, <1>10, <1>11, <2>1
<1>13. ASSUME NEW k \in 1..n
       PROVE  f[k] = SplitStep(f[k - 1], s[k])
  <2>1. PICK T : T = 1..k
    OBVIOUS
  <2>2. T \in SUBSET (1..n) /\ T # {} /\ k \in T
    <3>1. k \in 1..k /\ \A m \in 1..k : m \in 1..n
      BY <1>2
    <3> QED
      BY <2>1, <3>1
  <2>3. Max(T) = k
    <3>1. Max(T) \in T /\ \A m \in T : m <= Max(T)
      BY <1>2, <2>2, LastIndex
    <3> QED
      BY <2>1, <2>2, <3>1
  <2>4. T \ {k} = 1..(k - 1)
    BY <2>1
  <2>5. l[T] = SplitStep(l[1..(k - 1)], s[k])
    BY <1>10, <2>2, <2>3, <2>4
  <2> QED
    BY <1>2, <1>11, <2>1, <2>5
<1>14. f \in [0..n -> Splits]
  <2> DEFINE P == {k \in 0..n : f[k] \in Splits}
  <2>1. 0 \in P
    BY <1>2, <1>3, <1>12
  <2>2. ASSUME NEW k \in 0..(n - 1), k \in P
        PROVE  k + 1 \in P
    <3>1. PICK m : m = k + 1
      OBVIOUS
    <3>2. m \in 1..n /\ m - 1 = k /\ f[k] \in Splits
      BY <1>2, <2>2, <3>1
    <3>3. f[m] = SplitStep(f[k], s[m]) /\ s[m] \in LineChars
      BY <1>2, <1>13, <3>2
    <3> QED
      BY <3>1, <3>2, <3>3, SplitStepType
  <2>3. 0..n \subseteq P
    <3> HIDE DEF P
    <3> QED
      BY <1>2, <2>1, <2>2, UpTo
  <2> QED
    BY <1>11, <2>3
<1>15. Split(s) = f[n]
  <2>1. Split(s) = l[1..n]
    <3> HIDE DEF fold
    <3> QED
      BY <1>4, <1>9
  <2> QED
    BY <1>2, <1>11, <2>1
<1> QED
  BY <1>1, <1>12, <1>13, <1>14, <1>15

\* Split of a line that grows.
LEMMA SplitGrows ==
    /\ Split(<< >>) = Whole
    /\ \A s \in Texts : Split(s) \in Splits
    /\ \A s \in Texts, c \in LineChars : Split(Append(s, c)) = SplitStep(Split(s), c)
<1>1. << >> \in Texts /\ Len(<< >>) = 0
  BY EmptySeq DEF Texts
<1>2. Split(<< >>) = Whole
  BY <1>1, SplitRun
<1>3. ASSUME NEW s \in Texts
      PROVE  Split(s) \in Splits
  <2>1. Len(s) \in Nat
    BY DEF Texts
  <2>2. Len(s) \in 0..Len(s)
    BY <2>1
  <2> QED
    BY <2>2, SplitRun
<1>4. ASSUME NEW s \in Texts, NEW c \in LineChars
      PROVE  Split(Append(s, c)) = SplitStep(Split(s), c)
  <2>1. PICK n, u : n = Len(s) /\ u = Append(s, c)
    OBVIOUS
  <2>2. /\ n \in Nat /\ u \in Texts /\ Len(u) = n + 1 /\ u[n + 1] = c
        /\ \A k \in 1..n : u[k] = s[k]
    BY <2>1, AppendProperties DEF Texts
  <2>3. PICK f \in [0..n -> Splits] : /\ f[0] = Whole /\ Split(s) = f[n]
                                      /\ \A k \in 1..n : f[k] = SplitStep(f[k - 1], s[k])
    BY <2>1, SplitRun
  <2>4. PICK g \in [0..(n + 1) -> Splits] :
                     /\ g[0] = Whole /\ Split(u) = g[n + 1]
                     /\ \A k \in 1..(n + 1) : g[k] = SplitStep(g[k - 1], u[k])
    <3>1. PICK m : m = Len(u)
      OBVIOUS
    <3>2. \E g \in [0..m -> Splits] : /\ g[0] = Whole /\ Split(u) = g[m]
                                      /\ \A k \in 1..m : g[k] = SplitStep(g[k - 1], u[k])
      BY <2>2, <3>1, SplitRun
    <3>3. m = n + 1
      BY <2>2, <3>1
    <3> QED
      BY <3>2, <3>3
  <2>5. SameSteps(f, g, n)
    <3> SUFFICES ASSUME NEW k \in 1..n, f[k - 1] = g[k - 1] PROVE f[k] = g[k]
      BY DEF SameSteps
    <3>1. f[k] = SplitStep(f[k - 1], s[k]) /\ g[k] = SplitStep(g[k - 1], u[k]) /\ u[k] = s[k]
      BY <2>2, <2>3, <2>4
    <3> QED
      BY <3>1
  <2>6. f[n] = g[n]
    <3>2. f[0] = g[0] /\ n \in Nat
      BY <2>2, <2>3, <2>4
    <3>1. Same(f, g, n)
      BY <2>5, <3>2, SameRun
    <3> QED
      BY <2>2, <3>1 DEF Same
  <2>7. g[n + 1] = SplitStep(g[n], c)
    <3>1. n + 1 \in 1..(n + 1) /\ n + 1 - 1 = n
      BY <2>2
    <3> QED
      BY <2>2, <2>4, <3>1
  <2> QED
    BY <2>1, <2>3, <2>4, <2>6, <2>7
<1> QED
  BY <1>2, <1>3, <1>4

-----------------------------------------------------------------------------
(* trim_ws *)

\* The first index of a part of a sequence.
LEMMA FirstIndex ==
    ASSUME NEW n \in Nat, NEW T \in SUBSET (1..n), T # {}
    PROVE  Min(T) \in T /\ \A k \in T : Min(T) <= k
<1> DEFINE R == OpToRel(<, Nat)
<1>1. T \subseteq Nat
  OBVIOUS
<1>2. \E x \in T : \A y \in T : ~(<<y, x>> \in R)
  <2> HIDE DEF R
  <2>1. IsWellFoundedOn(R, Nat)
    BY NatLessThanWellFounded DEF R
  <2> QED
    BY <1>1, <2>1, WFMin, Zenon
<1>3. PICK x \in T : \A y \in T : ~(<<y, x>> \in R)
  BY <1>2
<1>4. ASSUME NEW y \in T PROVE x <= y
  <2>1. x \in Nat /\ y \in Nat
    BY <1>1
  <2>2. ~(y < x)
    BY <1>3, <2>1 DEF OpToRel
  <2> QED
    BY <2>1, <2>2
<1>5. \E a \in T : \A b \in T : a =< b
  BY <1>4
<1> QED
  BY <1>5 DEF Min

Blank(s) == \A k \in 1..Len(s) : isspace(s[k])

\* The first and the last character of s that are not blank are at i and at j.
TextAt(s, i, j) ==
    /\ i \in 1..Len(s) /\ j \in i..Len(s) /\ ~isspace(s[i]) /\ ~isspace(s[j])
    /\ \A k \in 1..(i - 1) : isspace(s[k])
    /\ \A k \in (j + 1)..Len(s) : isspace(s[k])

\* A line of blanks has nothing left.
LEMMA TrimBlank ==
    ASSUME NEW s \in Texts, Blank(s)
    PROVE  trim_ws(s) = << >>
<1>1. DOMAIN s = 1..Len(s)
  BY DEF Texts
<1> QED
  BY <1>1 DEF trim_ws, Blank

\* Of any other what is between its first and its last character that are not blank.
LEMMA TrimText ==
    ASSUME NEW s \in Texts, NEW i, NEW j, TextAt(s, i, j)
    PROVE  trim_ws(s) = SubSeq(s, i, j)
<1>1. PICK n : n = Len(s)
  OBVIOUS
<1>2. DOMAIN s = 1..n /\ n \in Nat
  BY <1>1 DEF Texts
<1>3. PICK T : T = {k \in DOMAIN s : ~isspace(s[k])}
  OBVIOUS
<1>4. T \in SUBSET (1..n) /\ i \in T /\ j \in T /\ \A k \in T : i <= k /\ k <= j
  BY <1>1, <1>2, <1>3 DEF TextAt
<1>5. Min(T) \in T /\ \A k \in T : Min(T) <= k
  BY <1>2, <1>4, FirstIndex
<1>6. Max(T) \in T /\ \A k \in T : k <= Max(T)
  BY <1>2, <1>4, LastIndex
<1>7. Min(T) = i
  <2>1. Min(T) <= i /\ i <= Min(T)
    BY <1>4, <1>5
  <2>2. Min(T) \in 1..n /\ i \in 1..n
    BY <1>4, <1>5
  <2> QED
    BY <1>2, <2>1, <2>2
<1>8. Max(T) = j
  <2>1. Max(T) <= j /\ j <= Max(T)
    BY <1>4, <1>6
  <2>2. Max(T) \in 1..n /\ j \in 1..n
    BY <1>4, <1>6
  <2> QED
    BY <1>2, <2>1, <2>2
<1> QED
  BY <1>3, <1>4, <1>7, <1>8 DEF trim_ws

\* A line that is not blank has such characters.
LEMMA TextFound ==
    ASSUME NEW s \in Texts, ~Blank(s)
    PROVE  \E i, j \in 1..Len(s) : TextAt(s, i, j)
<1>1. PICK n : n = Len(s)
  OBVIOUS
<1>2. n \in Nat
  BY <1>1 DEF Texts
<1>3. PICK T : T = {k \in 1..n : ~isspace(s[k])}
  OBVIOUS
<1>4. T \in SUBSET (1..n) /\ T # {}
  BY <1>1, <1>3 DEF Blank
<1>5. Min(T) \in T /\ \A k \in T : Min(T) <= k
  BY <1>2, <1>4, FirstIndex
<1>6. Max(T) \in T /\ \A k \in T : k <= Max(T)
  BY <1>2, <1>4, LastIndex
<1>7. PICK i, j : i = Min(T) /\ j = Max(T)
  OBVIOUS
<1>8. i \in T /\ j \in T /\ \A k \in T : i <= k /\ k <= j
  BY <1>5, <1>6, <1>7
<1>9. /\ i \in 1..n /\ j \in i..n /\ ~isspace(s[i]) /\ ~isspace(s[j])
      /\ \A k \in 1..(i - 1) : isspace(s[k])
      /\ \A k \in (j + 1)..n : isspace(s[k])
  BY <1>2, <1>3, <1>8
<1>10. TextAt(s, i, j)
  BY <1>1, <1>9 DEF TextAt
<1>11. i \in 1..n /\ j \in 1..n
  BY <1>2, <1>9
<1> QED
  BY <1>1, <1>10, <1>11

\* A part of a line.
LEMMA PartIs ==
    ASSUME NEW s \in Texts, NEW i \in 1..(Len(s) + 1), NEW j \in (i - 1)..Len(s)
    PROVE  /\ SubSeq(s, i, j) \in Texts /\ Len(SubSeq(s, i, j)) = j - i + 1
           /\ \A k \in 1..(j - i + 1) : SubSeq(s, i, j)[k] = s[k + i - 1]
<1>1. Len(s) \in Nat /\ s \in Seq(LineChars)
  BY DEF Texts
<1>2. \A k \in i..j : s[k] \in LineChars
  BY <1>1
<1>3. PICK t : t = SubSeq(s, i, j)
  OBVIOUS
<1>4. /\ t \in Seq(LineChars) /\ Len(t) = IF i <= j THEN j - i + 1 ELSE 0
      /\ \A k \in 1..(j - i + 1) : t[k] = s[i + k - 1]
  BY <1>1, <1>2, <1>3, SubSeqProperties
<1>5. Len(t) = j - i + 1 /\ \A k \in 1..(j - i + 1) : t[k] = s[k + i - 1]
  BY <1>1, <1>4
<1> QED
  BY <1>3, <1>4, <1>5 DEF Texts

\* What trim_ws leaves: nothing of a blank line; of another line a line whose first and
\* whose last character are those of the text.
LEMMA TrimType ==
    ASSUME NEW s \in Texts
    PROVE  trim_ws(s) \in Texts /\ (trim_ws(s) = << >> <=> Blank(s))
<1>1. CASE Blank(s)
  <2>1. << >> \in Texts
    BY EmptySeq DEF Texts
  <2> QED
    BY <1>1, <2>1, TrimBlank
<1>2. CASE ~Blank(s)
  <2>1. PICK i, j \in 1..Len(s) : TextAt(s, i, j)
    BY <1>2, TextFound
  <2>2. i \in 1..Len(s) /\ j \in i..Len(s) /\ Len(s) \in Nat
    BY <2>1 DEF TextAt, Texts
  <2>3. PICK t : t = SubSeq(s, i, j)
    OBVIOUS
  <2>4. t \in Texts /\ Len(t) = j - i + 1
    BY <2>2, <2>3, PartIs
  <2>5. t # << >>
    BY <2>2, <2>4, EmptySeq
  <2>6. trim_ws(s) = t
    BY <2>1, <2>3, TrimText
  <2> QED
    BY <1>2, <2>4, <2>5, <2>6
<1> QED
  BY <1>1, <1>2

\* The characters of s from i to j are in t, d places behind.
SameChars(s, t, i, j, d) == \A k \in i..j : t[k + d] = s[k]

\* If they are the text of both lines, trim_ws leaves the same.
LEMMA SameText ==
    ASSUME NEW s \in Texts, NEW t \in Texts, NEW i, NEW j, NEW d \in Int, NEW a, a = i + d,
           NEW b, b = j + d, TextAt(s, i, j), TextAt(t, a, b),
           SameChars(s, t, i, j, d)
    PROVE  trim_ws(t) = trim_ws(s)
<1> USE DEF SameChars
<1>1. /\ i \in 1..Len(s) /\ j \in i..Len(s) /\ Len(s) \in Nat /\ Len(t) \in Nat
      /\ a \in 1..Len(t) /\ b \in a..Len(t)
  BY DEF TextAt, Texts
<1>10. /\ i \in 1..(Len(s) + 1) /\ j \in (i - 1)..Len(s)
       /\ a \in 1..(Len(t) + 1) /\ b \in (a - 1)..Len(t)
  BY <1>1
<1>2. PICK u, v : u = SubSeq(s, i, j) /\ v = SubSeq(t, a, b)
  OBVIOUS
<1>3. u \in Texts /\ Len(u) = j - i + 1 /\ \A k \in 1..(j - i + 1) : u[k] = s[k + i - 1]
  BY <1>2, <1>10, PartIs
<1>4. v \in Texts /\ Len(v) = b - a + 1 /\ \A k \in 1..(b - a + 1) : v[k] = t[k + a - 1]
  BY <1>2, <1>10, PartIs
<1>5. b - a = j - i /\ Len(u) = Len(v)
  BY <1>1, <1>2, <1>3, <1>4
<1>6. ASSUME NEW k \in 1..Len(u)
      PROVE  u[k] = v[k]
  <2>1. PICK m : m = k + i - 1
    OBVIOUS
  <2>2. k \in 1..(j - i + 1) /\ m \in i..j /\ m + d = k + a - 1
    BY <1>1, <1>2, <1>3, <2>1
  <2>3. u[k] = s[m] /\ v[k] = t[m + d]
    BY <1>3, <1>4, <1>5, <2>1, <2>2
  <2> QED
    BY <2>2, <2>3
<1>7. u = v
  <2>1. u \in Seq(LineChars) /\ v \in Seq(LineChars)
    BY <1>3, <1>4 DEF Texts
  <2> QED
    BY <1>5, <1>6, <2>1, SeqEqual
<1>8. trim_ws(s) = u
  BY <1>2, TrimText
<1>9. trim_ws(t) = v
  <2> QED
    BY <1>2, TrimText
<1> QED
  BY <1>7, <1>8, <1>9

\* Blanks around a line do not matter.
LEMMA TrimBehind ==
    ASSUME NEW s \in Texts, NEW c \in LineChars, isspace(c)
    PROVE  trim_ws(Append(s, c)) = trim_ws(s)
<1>1. PICK n, t : n = Len(s) /\ t = Append(s, c)
  OBVIOUS
<1>2. /\ t \in Texts /\ Len(t) = n + 1 /\ t[n + 1] = c /\ n \in Nat
      /\ \A k \in 1..n : t[k] = s[k]
  BY <1>1, AppendProperties DEF Texts
<1>3. CASE Blank(s)
  <2>1. Blank(t)
    BY <1>1, <1>2, <1>3 DEF Blank
  <2> QED
    BY <1>1, <1>2, <1>3, <2>1, TrimBlank
<1>4. CASE ~Blank(s)
  <2>1. PICK i, j \in 1..Len(s) : TextAt(s, i, j)
    BY <1>4, TextFound
  <2>2. i \in 1..n /\ j \in i..n
    BY <1>1, <2>1 DEF TextAt
  <2>3. i + 0 = i /\ j + 0 = j /\ 0 \in Int /\ \A k \in i..j : k + 0 = k /\ k \in 1..n
    BY <1>2, <2>2
  <2>4. TextAt(t, i, j)
    BY <1>1, <1>2, <2>1 DEF TextAt
  <2>5. SameChars(s, t, i, j, 0)
    BY <1>2, <2>3 DEF SameChars
  <2>7. trim_ws(t) = trim_ws(s)
    BY <1>2, <2>1, <2>3, <2>4, <2>5, SameText
  <2> QED
    BY <1>1, <2>7
<1> QED
  BY <1>3, <1>4

\* As before, in front of it.
LEMMA TrimBefore ==
    ASSUME NEW w \in Texts, Blank(w), NEW s \in Texts
    PROVE  trim_ws(w \o s) = trim_ws(s)
<1>1. PICK n, d, t : n = Len(s) /\ d = Len(w) /\ t = w \o s
  OBVIOUS
<1>2. /\ t \in Texts /\ Len(t) = d + n /\ n \in Nat /\ d \in Nat
      /\ \A k \in 1..(d + n) : t[k] = IF k <= d THEN w[k] ELSE s[k - d]
  BY <1>1, ConcatProperties DEF Texts
<1>3. CASE Blank(s)
  <2>1. \A k \in 1..(d + n) : isspace(t[k])
    BY <1>1, <1>2, <1>3 DEF Blank
  <2>2. Blank(t)
    BY <1>2, <2>1 DEF Blank
  <2> QED
    BY <1>1, <1>2, <1>3, <2>2, TrimBlank
<1>4. CASE ~Blank(s)
  <2>1. PICK i, j \in 1..Len(s) : TextAt(s, i, j)
    BY <1>4, TextFound
  <2>2. i \in 1..n /\ j \in i..n
    BY <1>1, <2>1 DEF TextAt
  <2>3. ASSUME NEW k \in 1..n
        PROVE  k + d \in 1..(d + n) /\ t[k + d] = s[k]
    <3>1. k + d \in 1..(d + n) /\ ~(k + d <= d) /\ (k + d) - d = k
      BY <1>2
    <3> QED
      BY <1>2, <3>1
  <2>7. PICK a, b : a = i + d /\ b = j + d
    OBVIOUS
  <2>4. TextAt(t, a, b)
    <3>1. a \in 1..Len(t) /\ b \in a..Len(t)
      BY <1>2, <2>2, <2>7
    <3>2. ~isspace(t[a]) /\ ~isspace(t[b])
      BY <1>2, <2>1, <2>2, <2>3, <2>7 DEF TextAt
    <3>3. ASSUME NEW k \in 1..(a - 1)
          PROVE  isspace(t[k])
      <4>1. CASE k <= d
        BY <1>1, <1>2, <2>2, <2>7, <4>1 DEF Blank
      <4>2. CASE ~(k <= d)
        <5>1. k - d \in 1..(i - 1) /\ k \in 1..(d + n)
          BY <1>2, <2>2, <2>7, <4>2
        <5> QED
          BY <1>2, <2>1, <4>2, <5>1 DEF TextAt
      <4> QED
        BY <4>1, <4>2
    <3>4. ASSUME NEW k \in (b + 1)..Len(t)
          PROVE  isspace(t[k])
      <4>1. k - d \in (j + 1)..n /\ k \in 1..(d + n) /\ ~(k <= d)
        BY <1>2, <2>2, <2>7
      <4> QED
        BY <1>1, <1>2, <2>1, <4>1 DEF TextAt
    <3> QED
      BY <3>1, <3>2, <3>3, <3>4 DEF TextAt
  <2>5. SameChars(s, t, i, j, d) /\ d \in Int
    BY <1>2, <2>2, <2>3 DEF SameChars
  <2>6. trim_ws(t) = trim_ws(s)
    BY <1>2, <2>1, <2>4, <2>5, <2>7, SameText
  <2> QED
    BY <1>1, <2>6
<1> QED
  BY <1>3, <1>4

\* A line in two.
LEMMA InTwo ==
    ASSUME NEW s \in Texts, NEW k \in 0..Len(s), NEW m, m = k + 1
    PROVE  /\ SubSeq(s, 1, k) \in Texts /\ SubSeq(s, m, Len(s)) \in Texts
           /\ s = SubSeq(s, 1, k) \o SubSeq(s, m, Len(s))
<1>1. PICK n : n = Len(s)
  OBVIOUS
<1>2. n \in Nat /\ s \in Seq(LineChars) /\ k \in 0..n
  BY <1>1 DEF Texts
<1>3. SubSeq(s, 1, k) \in Texts
  <2>1. k \in (1 - 1)..n /\ 1 \in 1..(n + 1)
    BY <1>2
  <2> QED
    BY <1>1, <2>1, PartIs
<1>4. SubSeq(s, m, n) \in Texts
  <2>1. m \in 1..(n + 1) /\ n \in (m - 1)..n
    BY <1>2
  <2> QED
    BY <1>1, <2>1, PartIs
<1>5. SubSeq(s, 1, k) \o SubSeq(s, k + 1, n) = SubSeq(s, 1, n)
  <2>1. 1 \in 1..(n + 1) /\ k \in (1 - 1)..n /\ n \in k..n
    BY <1>2
  <2> QED
    BY <1>1, <1>2, <2>1, ConcatAdjacentSubSeq
<1>6. SubSeq(s, 1, n) = s
  BY <1>1, <1>2, SubSeqFull
<1> QED
  BY <1>1, <1>3, <1>4, <1>5, <1>6

\* What begins and ends with a text stays.
LEMMA TrimSelf ==
    ASSUME NEW s \in Texts, TextAt(s, 1, Len(s))
    PROVE  trim_ws(s) = s
<1>1. trim_ws(s) = SubSeq(s, 1, Len(s))
  BY TrimText
<1>2. SubSeq(s, 1, Len(s)) = s
  BY SubSeqFull DEF Texts
<1> QED
  BY <1>1, <1>2

\* What trim_ws leaves begins and ends with a character that is not blank.
LEMMA TrimEnds ==
    ASSUME NEW s \in Texts, NEW i, NEW j, TextAt(s, i, j)
    PROVE  /\ TextAt(trim_ws(s), 1, Len(trim_ws(s))) /\ trim_ws(s) \in Texts
           /\ Last(trim_ws(s)) = s[j] /\ trim_ws(s)[1] = s[i]
           /\ Len(trim_ws(s)) = j - i + 1
<1>1. i \in 1..Len(s) /\ j \in i..Len(s) /\ Len(s) \in Nat /\ ~isspace(s[i]) /\ ~isspace(s[j])
  BY DEF TextAt, Texts
<1>2. PICK t : t = trim_ws(s)
  OBVIOUS
<1>3. t = SubSeq(s, i, j)
  BY <1>2, TrimText
<1>4. i \in 1..(Len(s) + 1) /\ j \in (i - 1)..Len(s)
  BY <1>1
<1>5. t \in Texts /\ Len(t) = j - i + 1 /\ \A k \in 1..(j - i + 1) : t[k] = s[k + i - 1]
  BY <1>3, <1>4, PartIs
<1>6. 1 \in 1..(j - i + 1) /\ 1 + i - 1 = i /\ (j - i + 1) \in 1..(j - i + 1) /\ (j - i + 1) + i - 1 = j
  BY <1>1
<1>7. t[1] = s[i] /\ t[Len(t)] = s[j]
  BY <1>5, <1>6
<1>8. TextAt(t, 1, Len(t))
  <2>1. 1 \in 1..Len(t) /\ Len(t) \in 1..Len(t)
    BY <1>5, <1>6
  <2>2. (\A k \in 1..(1 - 1) : FALSE) /\ (\A k \in (Len(t) + 1)..Len(t) : FALSE)
    BY <1>1, <1>5
  <2> QED
    BY <1>1, <1>7, <2>1, <2>2 DEF TextAt
<1> QED
  BY <1>2, <1>5, <1>7, <1>8 DEF Last

\* The blanks around a text.
LEMMA Surrounded ==
    ASSUME NEW s \in Texts
    PROVE  \E w, v \in Texts : Blank(w) /\ Blank(v) /\ s = (w \o trim_ws(s)) \o v
<1>1. PICK n : n = Len(s)
  OBVIOUS
<1>2. n \in Nat /\ s \in Seq(LineChars)
  BY <1>1 DEF Texts
<1>3. CASE Blank(s)
  <2>1. PICK e : e = << >>
    OBVIOUS
  <2>2. e \in Texts /\ Blank(e)
    BY <2>1, EmptySeq DEF Texts, Blank
  <2>3. trim_ws(s) = e
    BY <1>3, <2>1, TrimBlank
  <2>4. (s \o e) \o e = s
    BY <1>2, <2>1, ConcatEmptySeq
  <2>5. (s \o trim_ws(s)) \o e = s
    BY <2>3, <2>4
  <2> QED
    BY <1>3, <2>2, <2>5
<1>4. CASE ~Blank(s)
  <2>1. PICK i, j \in 1..Len(s) : TextAt(s, i, j)
    BY <1>4, TextFound
  <2>2. i \in 1..n /\ j \in i..n
    BY <1>1, <2>1 DEF TextAt
  <2>3. PICK a, b, w, t, v, x : /\ a = i - 1 /\ b = j + 1 /\ w = SubSeq(s, 1, a)
                                /\ t = SubSeq(s, i, j) /\ v = SubSeq(s, b, n) /\ x = SubSeq(s, 1, j)
    OBVIOUS
  <2>4. s = x \o v /\ v \in Texts
    <3>1. j \in 0..n
      BY <1>2, <2>2
    <3> QED
      BY <1>1, <2>3, <3>1, InTwo
  <2>5. x = w \o t
    <3>1. 1 \in 1..(n + 1) /\ a \in (1 - 1)..n /\ j \in a..n /\ a + 1 = i
      BY <1>2, <2>2, <2>3
    <3>2. SubSeq(s, 1, a) \o SubSeq(s, a + 1, j) = SubSeq(s, 1, j)
      BY <1>1, <1>2, <3>1, ConcatAdjacentSubSeq
    <3> QED
      BY <2>3, <3>1, <3>2
  <2>6. trim_ws(s) = t
    BY <2>1, <2>3, TrimText
  <2>7. w \in Texts /\ Blank(w)
    <3>1. 1 \in 1..(n + 1) /\ a \in (1 - 1)..n /\ a - 1 + 1 = a
      BY <1>2, <2>2, <2>3
    <3>2. w \in Texts /\ Len(w) = a - 1 + 1 /\ \A k \in 1..(a - 1 + 1) : w[k] = s[k + 1 - 1]
      BY <1>1, <2>3, <3>1, PartIs
    <3>3. ASSUME NEW k \in 1..Len(w)
          PROVE  isspace(w[k])
      <4>1. k \in 1..(i - 1) /\ k \in 1..(a - 1 + 1) /\ k + 1 - 1 = k
        BY <1>2, <2>2, <2>3, <3>1, <3>2
      <4> QED
        BY <2>1, <3>2, <4>1 DEF TextAt
    <3> QED
      BY <3>2, <3>3 DEF Blank
  <2>8. Blank(v)
    <3>1. b \in 1..(n + 1) /\ n \in (b - 1)..n
      BY <1>2, <2>2, <2>3
    <3>2. Len(v) = n - b + 1 /\ \A k \in 1..(n - b + 1) : v[k] = s[k + b - 1]
      BY <1>1, <2>3, <3>1, PartIs
    <3>3. ASSUME NEW k \in 1..Len(v)
          PROVE  isspace(v[k])
      <4>1. k \in 1..(n - b + 1) /\ (k + b - 1) \in (j + 1)..n
        BY <1>2, <2>2, <2>3, <3>1, <3>2
      <4> QED
        BY <1>1, <2>1, <3>2, <4>1 DEF TextAt
    <3> QED
      BY <3>3 DEF Blank
  <2> QED
    BY <2>4, <2>5, <2>6, <2>7, <2>8
<1> QED
  BY <1>3, <1>4

\* A line is its blanks and the rest.
LEMMA BlanksFirst ==
    ASSUME NEW s \in Texts
    PROVE  \E w, r \in Texts : Blank(w) /\ s = w \o r /\ (r = << >> \/ ~isspace(r[1]))
<1>1. PICK n : n = Len(s)
  OBVIOUS
<1>2. n \in Nat /\ s \in Seq(LineChars)
  BY <1>1 DEF Texts
<1>3. CASE Blank(s)
  <2>1. PICK e : e = << >>
    OBVIOUS
  <2>2. e \in Texts
    BY <2>1, EmptySeq DEF Texts
  <2>3. s \o e = s
    BY <1>2, <2>1, ConcatEmptySeq
  <2> QED
    BY <1>3, <2>1, <2>2, <2>3
<1>4. CASE ~Blank(s)
  <2>1. PICK i, j \in 1..Len(s) : TextAt(s, i, j)
    BY <1>4, TextFound
  <2>2. i \in 1..n
    BY <1>1, <2>1 DEF TextAt
  <2>3. PICK a, w, r : a = i - 1 /\ w = SubSeq(s, 1, a) /\ r = SubSeq(s, i, n)
    OBVIOUS
  <2>4. a \in 0..n /\ i = a + 1
    BY <1>2, <2>2, <2>3
  <2>5. s = w \o r /\ w \in Texts /\ r \in Texts
    BY <1>1, <2>3, <2>4, InTwo
  <2>6. Blank(w)
    <3>1. 1 \in 1..(n + 1) /\ a \in (1 - 1)..n /\ a - 1 + 1 = a
      BY <1>2, <2>2, <2>3
    <3>2. Len(w) = a - 1 + 1 /\ \A k \in 1..(a - 1 + 1) : w[k] = s[k + 1 - 1]
      BY <1>1, <2>3, <3>1, PartIs
    <3>3. ASSUME NEW k \in 1..Len(w)
          PROVE  isspace(w[k])
      <4>1. k \in 1..(i - 1) /\ k \in 1..(a - 1 + 1) /\ k + 1 - 1 = k
        BY <1>2, <2>2, <2>3, <3>1, <3>2
      <4> QED
        BY <2>1, <3>2, <4>1 DEF TextAt
    <3> QED
      BY <3>3 DEF Blank
  <2>7. ~isspace(r[1])
    <3>1. i \in 1..(n + 1) /\ n \in (i - 1)..n /\ 1 \in 1..(n - i + 1) /\ 1 + i - 1 = i
      BY <1>2, <2>2
    <3>2. r[1] = s[1 + i - 1]
      BY <1>1, <2>3, <3>1, PartIs
    <3> QED
      BY <2>1, <3>1, <3>2 DEF TextAt
  <2> QED
    BY <2>5, <2>6, <2>7
<1> QED
  BY <1>3, <1>4

\* Append goes through a concatenation.
LEMMA ConcatAppend ==
    ASSUME NEW s \in Texts, NEW t \in Texts, NEW c \in LineChars
    PROVE  s \o t \in Texts /\ s \o Append(t, c) = Append(s \o t, c)
<1>1. PICK x : x = <<c>>
  OBVIOUS
<1>2. s \in Seq(LineChars) /\ t \in Seq(LineChars) /\ x \in Seq(LineChars)
  BY <1>1 DEF Texts
<1>3. s \o t \in Seq(LineChars)
  BY <1>2, ConcatProperties
<1>4. Append(t, c) = t \o x /\ Append(s \o t, c) = (s \o t) \o x
  BY <1>1, <1>2, <1>3, AppendIsConcat
<1>5. (s \o t) \o x = s \o (t \o x)
  BY <1>2, ConcatAssociative
<1> QED
  BY <1>3, <1>4, <1>5 DEF Texts

\* Front takes back what Append added.
LEMMA FrontOfAppend ==
    ASSUME NEW S, NEW s \in Seq(S), NEW c \in S
    PROVE  Front(Append(s, c)) = s /\ Last(Append(s, c)) = c
<1>1. PICK t, n : t = Append(s, c) /\ n = Len(s)
  OBVIOUS
<1>2. /\ t \in Seq(S) /\ Len(t) = n + 1 /\ t[n + 1] = c /\ n \in Nat
      /\ \A k \in 1..n : t[k] = s[k]
  BY <1>1, AppendProperties
<1>3. n + 1 - 1 = n
  BY <1>2
<1>4. Front(t) = SubSeq(t, 1, n)
  BY <1>2, <1>3 DEF Front
<1>5. \A k \in 1..n : t[k] \in S
  BY <1>2
<1>6. PICK u : u = SubSeq(t, 1, n)
  OBVIOUS
<1>7. u \in Seq(S) /\ Len(u) = n /\ \A k \in 1..n : u[k] = t[k]
  <2>1. /\ u \in Seq(S) /\ Len(u) = IF 1 <= n THEN n - 1 + 1 ELSE 0
        /\ \A k \in 1..(n - 1 + 1) : u[k] = t[1 + k - 1]
    BY <1>2, <1>5, <1>6, SubSeqProperties
  <2> QED
    BY <1>2, <2>1
<1>8. u = s
  BY <1>1, <1>2, <1>7, SeqEqual
<1> QED
  BY <1>1, <1>2, <1>4, <1>6, <1>8 DEF Last

\* A character that is not blank, typed behind a line: it is the end of the text, and
\* without it the text is as before.
LEMMA TextBehind ==
    ASSUME NEW s \in Texts, NEW c \in LineChars, ~isspace(c)
    PROVE  /\ trim_ws(Append(s, c)) \in Texts /\ trim_ws(Append(s, c)) # << >>
           /\ Last(trim_ws(Append(s, c))) = c
           /\ trim_ws(Front(trim_ws(Append(s, c)))) = trim_ws(s)
<1>1. PICK w, r \in Texts : Blank(w) /\ s = w \o r /\ (r = << >> \/ ~isspace(r[1]))
  BY BlanksFirst
<1>2. PICK t, n : t = Append(r, c) /\ n = Len(r)
  OBVIOUS
<1>3. /\ t \in Texts /\ Len(t) = n + 1 /\ t[n + 1] = c /\ n \in Nat /\ t # << >>
      /\ \A k \in 1..n : t[k] = r[k]
  BY <1>2, AppendProperties DEF Texts
<1>4. Append(s, c) = w \o t
  <2>1. PICK x : x = <<c>>
    OBVIOUS
  <2>2. w \in Seq(LineChars) /\ r \in Seq(LineChars) /\ s \in Seq(LineChars) /\ x \in Seq(LineChars)
    BY <1>1, <2>1 DEF Texts
  <2>3. t = r \o x /\ Append(s, c) = s \o x
    BY <1>2, <2>1, <2>2, AppendIsConcat
  <2>4. (w \o r) \o x = w \o (r \o x)
    BY <2>2, ConcatAssociative
  <2> QED
    BY <1>1, <2>3, <2>4
<1>5. trim_ws(Append(s, c)) = trim_ws(t)
  BY <1>1, <1>3, <1>4, TrimBefore
<1>6. trim_ws(t) = t
  <2>1. ~isspace(t[1])
    <3>1. CASE n = 0
      BY <1>3, <3>1
    <3>2. CASE n # 0
      <4>1. 1 \in 1..n /\ r # << >>
        BY <1>2, <1>3, <3>2, EmptySeq
      <4> QED
        BY <1>1, <1>3, <4>1
    <3> QED
      BY <3>1, <3>2
  <2>2. ~isspace(t[Len(t)]) /\ 1 \in 1..Len(t) /\ Len(t) \in 1..Len(t)
    BY <1>3
  <2>3. (\A k \in 1..(1 - 1) : FALSE) /\ (\A k \in (Len(t) + 1)..Len(t) : FALSE)
    BY <1>3
  <2>4. TextAt(t, 1, Len(t))
    BY <2>1, <2>2, <2>3 DEF TextAt
  <2> QED
    BY <1>3, <2>4, TrimSelf
<1>7. Front(t) = r /\ Last(t) = c
  BY <1>1, <1>2, FrontOfAppend DEF Texts
<1>8. trim_ws(s) = trim_ws(r)
  BY <1>1, TrimBefore
<1> QED
  BY <1>3, <1>5, <1>6, <1>7, <1>8

\* trim_ws takes away nothing but blanks.
LEMMA TrimKeeps ==
    ASSUME NEW s \in Texts, NEW e, ~isspace(e)
    PROVE  Contains(trim_ws(s), e) <=> Contains(s, e)
<1>1. PICK n : n = Len(s)
  OBVIOUS
<1>2. n \in Nat
  BY <1>1 DEF Texts
<1>3. CASE Blank(s)
  <2>1. trim_ws(s) = << >>
    BY <1>3, TrimBlank
  <2>2. ~Contains(<< >>, e)
    BY DEF Contains
  <2>3. ~Contains(s, e)
    BY <1>3 DEF Contains, Blank
  <2> QED
    BY <2>1, <2>2, <2>3
<1>4. CASE ~Blank(s)
  <2>1. PICK i, j \in 1..Len(s) : TextAt(s, i, j)
    BY <1>4, TextFound
  <2>2. i \in 1..n /\ j \in i..n /\ i \in 1..(n + 1) /\ j \in (i - 1)..n
    BY <1>1, <1>2, <2>1 DEF TextAt
  <2>3. PICK t : t = SubSeq(s, i, j)
    OBVIOUS
  <2>4. Len(t) = j - i + 1 /\ \A k \in 1..(j - i + 1) : t[k] = s[k + i - 1]
    BY <1>1, <2>2, <2>3, PartIs
  <2>5. ASSUME Contains(t, e) PROVE Contains(s, e)
    <3>1. PICK k \in 1..(j - i + 1) : t[k] = e
      BY <2>4, <2>5 DEF Contains
    <3>2. (k + i - 1) \in 1..n /\ s[k + i - 1] = e
      BY <1>2, <2>2, <2>4, <3>1
    <3> QED
      BY <1>1, <3>2 DEF Contains
  <2>6. ASSUME Contains(s, e) PROVE Contains(t, e)
    <3>1. PICK k \in 1..n : s[k] = e
      BY <1>1, <2>6 DEF Contains
    <3>2. k \notin 1..(i - 1) /\ k \notin (j + 1)..n
      BY <1>1, <2>1, <3>1 DEF TextAt
    <3>3. PICK m : m = k - i + 1
      OBVIOUS
    <3>4. m \in 1..(j - i + 1) /\ m + i - 1 = k
      BY <1>2, <2>2, <3>2, <3>3
    <3>5. t[m] = e
      BY <2>4, <3>1, <3>4
    <3> QED
      BY <2>4, <3>4, <3>5 DEF Contains
  <2>7. trim_ws(s) = t
    BY <2>1, <2>3, TrimText
  <2> QED
    BY <2>5, <2>6, <2>7
<1> QED
  BY <1>3, <1>4

-----------------------------------------------------------------------------
(* The loop of parse_line *)

\* What a state of the loop is made of.
LEMMA LoopIs ==
    ASSUME NEW start \in Texts, NEW segments \in Seq(Texts), NEW quote \in Quotes \union {NoQuote},
           NEW failed \in BOOLEAN
    PROVE  [start |-> start, segments |-> segments, quote |-> quote, failed |-> failed] \in LoopStates
BY DEF LoopStates

\* A step of the loop goes from a state to a state.
LEMMA LoopBodyType ==
    ASSUME NEW p \in LoopStates, NEW c \in LineChars
    PROVE  LoopBody(p, c) \in LoopStates
<1> PICK st, sg, q, fl : st = p.start /\ sg = p.segments /\ q = p.quote /\ fl = p.failed
  OBVIOUS
<1>1. /\ st \in Texts /\ sg \in Seq(Texts) /\ q \in Quotes \union {NoQuote} /\ fl \in BOOLEAN
      /\ p = [start |-> st, segments |-> sg, quote |-> q, failed |-> fl]
  BY DEF LoopStates
<1>2. PICK x, r : x = Append(st, c) /\ r = ToggleQuote(p, c)
  OBVIOUS
<1>3. x \in Texts
  BY <1>1, <1>2, AppendProperties DEF Texts
<1>4. CASE p.failed
  BY <1>4 DEF LoopBody
<1>5. CASE ~p.failed /\ c \in Quotes
  <2>1. r \in Quotes \union {NoQuote}
    BY <1>1, <1>2, <1>5 DEF ToggleQuote
  <2>2. LoopBody(p, c) = [start |-> x, segments |-> sg, quote |-> r, failed |-> fl]
    BY <1>1, <1>2, <1>5 DEF LoopBody
  <2> QED
    BY <1>1, <1>3, <2>1, <2>2, LoopIs
<1>6. CASE ~p.failed /\ c \notin Quotes /\ c = "|" /\ p.quote = NoQuote
  <2>1. PICK seg, e, sgs : seg = trim_ws(st) /\ e = << >> /\ sgs = Append(sg, seg)
    OBVIOUS
  <2> DEFINE f == seg = << >> \/ Contains(seg, "&") \/ Len(sg) + 1 >= MAXCMDS
  <2>2. seg \in Texts /\ e \in Texts
    BY <1>1, <2>1, TrimType, EmptySeq DEF Texts
  <2>3. sgs \in Seq(Texts)
    BY <1>1, <2>1, <2>2, AppendProperties
  <2>4. f \in BOOLEAN
    OBVIOUS
  <2>5. SegmentEnds(p) = [p EXCEPT !.start = e, !.segments = sgs, !.failed = f]
    BY <1>1, <2>1 DEF SegmentEnds
  <2>6. LoopBody(p, c) = SegmentEnds(p)
    BY <1>6 DEF LoopBody
  <2> HIDE DEF f
  <2>7. [p EXCEPT !.start = e, !.segments = sgs, !.failed = f] \in LoopStates
    BY <2>2, <2>3, <2>4 DEF LoopStates
  <2> QED
    BY <2>5, <2>6, <2>7
<1>7. CASE ~p.failed /\ c \notin Quotes /\ ~(c = "|" /\ p.quote = NoQuote)
  <2>1. LoopBody(p, c) = [start |-> x, segments |-> sg, quote |-> q, failed |-> fl]
    BY <1>1, <1>2, <1>7 DEF LoopBody
  <2> QED
    BY <1>1, <1>3, <2>1, LoopIs
<1> QED
  BY <1>4, <1>5, <1>6, <1>7

\* Loop is a run of its steps.
LEMMA LoopRun ==
    ASSUME NEW s \in Texts
    PROVE  \E f \in [0..Len(s) -> LoopStates] : /\ f[0] = Begin /\ Loop(s) = f[Len(s)]
                                            /\ \A k \in 1..Len(s) : f[k] = LoopBody(f[k - 1], s[k])
<1>1. PICK n : n = Len(s)
  OBVIOUS
<1>2. n \in Nat /\ DOMAIN s = 1..n /\ \A k \in 1..n : s[k] \in LineChars
  BY <1>1 DEF Texts
<1>3. Begin \in LoopStates
  <2>1. << >> \in Texts /\ << >> \in Seq(Texts)
    BY EmptySeq DEF Texts
  <2> QED
    BY <2>1, LoopIs DEF Begin
<1> DEFINE fold(g) == g = [T \in SUBSET (1..n) |-> IF T = {} THEN Begin
                                    ELSE LoopBody(g[T \ {Max(T)}], s[Max(T)])]
<1>4. Loop(s) = (CHOOSE g : fold(g))[1..n]
  <2>1. Loop(s) = (CHOOSE g : g = [T \in SUBSET (DOMAIN s) |-> IF T = {} THEN Begin
                               ELSE LoopBody(g[T \ {Max(T)}], s[Max(T)])])[DOMAIN s]
    BY DEF Loop, FoldLeft, MapThenFoldSet
  <2> QED
    BY <1>2, <2>1
<1>5. PICK G : G = [k \in 1..n |-> [p \in LoopStates |-> LoopBody(p, s[k])]]
  OBVIOUS
<1>6. G \in [1..n -> [LoopStates -> LoopStates]]
  BY <1>2, <1>5, LoopBodyType
<1>7. PICK g \in [SUBSET (1..n) -> LoopStates] : IsFold(g, n, Begin, G)
  BY <1>2, <1>3, <1>6, FoldExists
<1>8. fold(g)
  <2>1. ASSUME NEW T \in SUBSET (1..n), T # {}
        PROVE  g[T] = LoopBody(g[T \ {Max(T)}], s[Max(T)])
    <3>1. PICK m : m = Max(T)
      OBVIOUS
    <3>2. m \in 1..n /\ T \ {m} \in SUBSET (1..n)
      BY <1>2, <2>1, <3>1, LastIndex
    <3>3. g[T] = G[m][g[T \ {m}]]
      BY <1>7, <2>1, <3>1 DEF IsFold
    <3> QED
      BY <1>5, <1>7, <3>1, <3>2, <3>3
  <2>2. g[{}] = Begin
    BY <1>7 DEF IsFold
  <2> QED
    BY <1>7, <2>1, <2>2
<1>9. PICK l : l = CHOOSE r : fold(r)
  OBVIOUS
<1>10. fold(l)
  <2> HIDE DEF fold
  <2> QED
    BY <1>8, <1>9
<1>11. PICK f : f = [k \in 0..n |-> l[1..k]]
  OBVIOUS
<1>12. f[0] = Begin
  <2>1. 1..0 = {}
    OBVIOUS
  <2> QED
    BY <1>2, <1>10, <1>11, <2>1
<1>13. ASSUME NEW k \in 1..n
       PROVE  f[k] = LoopBody(f[k - 1], s[k])
  <2>1. PICK T : T = 1..k
    OBVIOUS
  <2>2. T \in SUBSET (1..n) /\ T # {} /\ k \in T
    <3>1. k \in 1..k /\ \A m \in 1..k : m \in 1..n
      BY <1>2
    <3> QED
      BY <2>1, <3>1
  <2>3. Max(T) = k
    <3>1. Max(T) \in T /\ \A m \in T : m <= Max(T)
      BY <1>2, <2>2, LastIndex
    <3> QED
      BY <2>1, <2>2, <3>1
  <2>4. T \ {k} = 1..(k - 1)
    BY <2>1
  <2>5. l[T] = LoopBody(l[1..(k - 1)], s[k])
    BY <1>10, <2>2, <2>3, <2>4
  <2> QED
    BY <1>2, <1>11, <2>1, <2>5
<1>14. f \in [0..n -> LoopStates]
  <2> DEFINE P == {k \in 0..n : f[k] \in LoopStates}
  <2>1. 0 \in P
    BY <1>2, <1>3, <1>12
  <2>2. ASSUME NEW k \in 0..(n - 1), k \in P
        PROVE  k + 1 \in P
    <3>1. PICK m : m = k + 1
      OBVIOUS
    <3>2. m \in 1..n /\ m - 1 = k /\ f[k] \in LoopStates
      BY <1>2, <2>2, <3>1
    <3>3. f[m] = LoopBody(f[k], s[m]) /\ s[m] \in LineChars
      BY <1>2, <1>13, <3>2
    <3> QED
      BY <3>1, <3>2, <3>3, LoopBodyType
  <2>3. 0..n \subseteq P
    <3> HIDE DEF P
    <3> QED
      BY <1>2, <2>1, <2>2, UpTo
  <2> QED
    BY <1>11, <2>3
<1>15. Loop(s) = f[n]
  <2>1. Loop(s) = l[1..n]
    <3> HIDE DEF fold
    <3> QED
      BY <1>4, <1>9
  <2> QED
    BY <1>2, <1>11, <2>1
<1> QED
  BY <1>1, <1>12, <1>13, <1>14, <1>15

\* Loop of a line that grows.
LEMMA LoopGrows ==
    /\ Loop(<< >>) = Begin
    /\ \A s \in Texts : Loop(s) \in LoopStates
    /\ \A s \in Texts, c \in LineChars : Loop(Append(s, c)) = LoopBody(Loop(s), c)
<1>1. << >> \in Texts /\ Len(<< >>) = 0
  BY EmptySeq DEF Texts
<1>2. Loop(<< >>) = Begin
  BY <1>1, LoopRun
<1>3. ASSUME NEW s \in Texts
      PROVE  Loop(s) \in LoopStates
  <2>1. Len(s) \in Nat
    BY DEF Texts
  <2>2. Len(s) \in 0..Len(s)
    BY <2>1
  <2> QED
    BY <2>2, LoopRun
<1>4. ASSUME NEW s \in Texts, NEW c \in LineChars
      PROVE  Loop(Append(s, c)) = LoopBody(Loop(s), c)
  <2>1. PICK n, u : n = Len(s) /\ u = Append(s, c)
    OBVIOUS
  <2>2. /\ n \in Nat /\ u \in Texts /\ Len(u) = n + 1 /\ u[n + 1] = c
        /\ \A k \in 1..n : u[k] = s[k]
    BY <2>1, AppendProperties DEF Texts
  <2>3. PICK f \in [0..n -> LoopStates] : /\ f[0] = Begin /\ Loop(s) = f[n]
                                      /\ \A k \in 1..n : f[k] = LoopBody(f[k - 1], s[k])
    BY <2>1, LoopRun
  <2>4. PICK g \in [0..(n + 1) -> LoopStates] :
                     /\ g[0] = Begin /\ Loop(u) = g[n + 1]
                     /\ \A k \in 1..(n + 1) : g[k] = LoopBody(g[k - 1], u[k])
    <3>1. PICK m : m = Len(u)
      OBVIOUS
    <3>2. \E g \in [0..m -> LoopStates] : /\ g[0] = Begin /\ Loop(u) = g[m]
                                      /\ \A k \in 1..m : g[k] = LoopBody(g[k - 1], u[k])
      BY <2>2, <3>1, LoopRun
    <3>3. m = n + 1
      BY <2>2, <3>1
    <3> QED
      BY <3>2, <3>3
  <2>5. SameSteps(f, g, n)
    <3> SUFFICES ASSUME NEW k \in 1..n, f[k - 1] = g[k - 1] PROVE f[k] = g[k]
      BY DEF SameSteps
    <3>1. f[k] = LoopBody(f[k - 1], s[k]) /\ g[k] = LoopBody(g[k - 1], u[k]) /\ u[k] = s[k]
      BY <2>2, <2>3, <2>4
    <3> QED
      BY <3>1
  <2>6. f[n] = g[n]
    <3>2. f[0] = g[0] /\ n \in Nat
      BY <2>2, <2>3, <2>4
    <3>1. Same(f, g, n)
      BY <2>5, <3>2, SameRun
    <3> QED
      BY <2>2, <3>1 DEF Same
  <2>7. g[n + 1] = LoopBody(g[n], c)
    <3>1. n + 1 \in 1..(n + 1) /\ n + 1 - 1 = n
      BY <2>2
    <3> QED
      BY <2>2, <2>4, <3>1
  <2> QED
    BY <2>1, <2>3, <2>4, <2>6, <2>7
<1> QED
  BY <1>2, <1>3, <1>4

-----------------------------------------------------------------------------
(* The loop finds what is between the bars *)

\* P followed by an empty piece, and P with c at the end of its last piece.
AnotherPiece(P, Q) ==
    Len(Q) = Len(P) + 1 /\ Q[Len(P) + 1] = << >> /\ \A n \in 1..Len(P) : Q[n] = P[n]
LastGrows(P, Q, c) ==
    /\ Len(Q) = Len(P) /\ Q[Len(P)] = Append(P[Len(P)], c)
    /\ \A n \in 1..(Len(P) - 1) : Q[n] = P[n]

\* The state of Split is the pieces, of which there is at least one, and the quote.
LEMMA SplitHas ==
    ASSUME NEW p \in Splits
    PROVE  /\ p.pieces \in Seq(Texts) /\ p.quote \in Quotes \union {NoQuote}
           /\ Len(p.pieces) \in Nat \ {0}
           /\ \A n \in 1..Len(p.pieces) : p.pieces[n] \in Texts
<1>1. p.pieces \in Seq(Texts) /\ p.pieces # << >> /\ p.quote \in Quotes \union {NoQuote}
  BY DEF Splits
<1>2. Len(p.pieces) \in Nat \ {0}
  BY <1>1, NonEmpty
<1>3. \A n \in 1..Len(p.pieces) : p.pieces[n] \in Texts
  BY <1>1, ElementOfSeq
<1> QED
  BY <1>1, <1>2, <1>3

\* A bar outside of quotes begins a piece.
LEMMA SplitBar ==
    ASSUME NEW p \in Splits, p.quote = NoQuote
    PROVE  /\ SplitStep(p, "|").quote = NoQuote
           /\ AnotherPiece(p.pieces, SplitStep(p, "|").pieces)
<1>1. PICK P, e, Q : P = p.pieces /\ e = << >> /\ Q = Append(P, e)
  OBVIOUS
<1>2. P \in Seq(Texts) /\ e \in Texts
  BY <1>1, SplitHas, EmptySeq DEF Texts
<1>3. Len(Q) = Len(P) + 1 /\ Q[Len(P) + 1] = e /\ \A n \in 1..Len(P) : Q[n] = P[n]
  BY <1>1, <1>2, AppendProperties
<1>4. SplitStep(p, "|") = [p EXCEPT !.pieces = Q]
  BY <1>1 DEF SplitStep
<1>5. p \in [pieces : Seq(Texts), quote : Quotes \union {NoQuote}]
  BY DEF Splits
<1>6. SplitStep(p, "|").quote = NoQuote /\ SplitStep(p, "|").pieces = Q
  BY <1>4, <1>5
<1> QED
  BY <1>1, <1>3, <1>6 DEF AnotherPiece

\* Any other character belongs to the last piece.
LEMMA SplitChar ==
    ASSUME NEW p \in Splits, NEW c \in LineChars, ~(c = "|" /\ p.quote = NoQuote)
    PROVE  /\ SplitStep(p, c).quote = IF c \in Quotes THEN ToggleQuote(p, c) ELSE p.quote
           /\ LastGrows(p.pieces, SplitStep(p, c).pieces, c)
<1>1. PICK P, e, Q : P = p.pieces /\ e = Append(P[Len(P)], c) /\ Q = WithEnd(P, e)
  OBVIOUS
<1>2. P \in Seq(Texts) /\ Len(P) \in Nat \ {0} /\ P[Len(P)] \in Texts
  BY <1>1, SplitHas
<1>3. e \in Texts
  BY <1>1, <1>2, AppendProperties DEF Texts
<1>4. P # << >>
  BY <1>1 DEF Splits
<1>5. Len(Q) = Len(P) /\ Q[Len(P)] = e /\ \A n \in 1..(Len(P) - 1) : Q[n] = P[n]
  <2>1. /\ Len(WithEnd(P, e)) = Len(P) /\ WithEnd(P, e)[Len(P)] = e
        /\ \A n \in 1..(Len(P) - 1) : WithEnd(P, e)[n] = P[n]
    BY <1>2, <1>3, <1>4, EndReplaced
  <2> QED
    BY <1>1, <2>1
<1>6. /\ SplitStep(p, c).quote = IF c \in Quotes THEN ToggleQuote(p, c) ELSE p.quote
      /\ SplitStep(p, c).pieces = Q
  BY <1>1 DEF SplitStep, WithEnd
<1> QED
  BY <1>1, <1>5, <1>6 DEF LastGrows

Bad(seg) == seg = << >> \/ Contains(seg, "&")

\* A piece that is not the last is no command, or there is one piece too many.
Fails(P) == Len(P) - 1 >= MAXCMDS \/ \E n \in 1..(Len(P) - 1) : Bad(trim_ws(P[n]))

\* The loop has failed, or it is where Split is and has noted the pieces but the last.
Agrees(p, r) ==
    /\ p.failed <=> Fails(r.pieces)
    /\ ~p.failed => /\ p.quote = r.quote /\ p.start = r.pieces[Len(r.pieces)]
                    /\ Len(p.segments) = Len(r.pieces) - 1
                    /\ \A n \in 1..(Len(r.pieces) - 1) : p.segments[n] = trim_ws(r.pieces[n])

\* Both make the same step.
LEMMA AgreesStep ==
    ASSUME NEW p \in LoopStates, NEW r \in Splits, Agrees(p, r), NEW c \in LineChars
    PROVE  Agrees(LoopBody(p, c), SplitStep(r, c))
<1>1. PICK P, m, pp, rr, Q : /\ P = r.pieces /\ m = Len(P) /\ pp = LoopBody(p, c)
                             /\ rr = SplitStep(r, c) /\ Q = rr.pieces
  OBVIOUS
<1>2. m \in Nat \ {0} /\ P \in Seq(Texts) /\ \A n \in 1..m : P[n] \in Texts
  BY <1>1, SplitHas
<1>3. p.segments \in Seq(Texts) /\ p.start \in Texts /\ p.failed \in BOOLEAN
  BY DEF LoopStates
<1>4. MAXCMDS \in Nat
  BY ParseLineAssumption
<1>5. CASE c = "|" /\ r.quote = NoQuote
  <2>1. AnotherPiece(P, Q) /\ rr.quote = NoQuote
    BY <1>1, <1>5, SplitBar
  <2>2. /\ Len(Q) = m + 1 /\ Q[m + 1] = << >> /\ \A n \in 1..m : Q[n] = P[n]
        /\ Len(Q) - 1 = m
    BY <1>1, <1>2, <2>1 DEF AnotherPiece
  <2>3. Fails(Q) <=> m >= MAXCMDS \/ \E n \in 1..m : Bad(trim_ws(P[n]))
    BY <2>2 DEF Fails
  <2>4. Fails(P) <=> m - 1 >= MAXCMDS \/ \E n \in 1..(m - 1) : Bad(trim_ws(P[n]))
    BY <1>1 DEF Fails
  <2>5. CASE p.failed
    <3>1. pp = p
      BY <1>1, <2>5 DEF LoopBody
    <3>2. Fails(P)
      BY <1>1, <2>5 DEF Agrees
    <3>3. Fails(Q)
      BY <1>2, <1>4, <2>3, <2>4, <3>2
    <3> QED
      BY <1>1, <2>5, <3>1, <3>3 DEF Agrees
  <2>6. CASE ~p.failed
    <3>1. /\ ~Fails(P) /\ p.quote = NoQuote /\ p.start = P[m] /\ Len(p.segments) = m - 1
          /\ \A n \in 1..(m - 1) : p.segments[n] = trim_ws(P[n])
      BY <1>1, <1>5, <2>6 DEF Agrees
    <3>2. PICK seg : seg = trim_ws(p.start)
      OBVIOUS
    <3>3. seg \in Texts /\ seg = trim_ws(P[m])
      BY <1>3, <3>1, <3>2, TrimType
    <3>4. PICK sgs : sgs = Append(p.segments, seg)
      OBVIOUS
    <3>5. Len(sgs) = m /\ sgs[m] = seg /\ \A n \in 1..(m - 1) : sgs[n] = p.segments[n]
      <4>1. /\ Len(sgs) = Len(p.segments) + 1 /\ sgs[Len(p.segments) + 1] = seg
            /\ \A n \in 1..Len(p.segments) : sgs[n] = p.segments[n]
        BY <1>3, <3>3, <3>4, AppendProperties
      <4> QED
        BY <1>2, <3>1, <4>1
    <3>6. c \notin Quotes
      BY <1>5 DEF Quotes
    <3>7. pp = SegmentEnds(p)
      BY <1>1, <1>5, <2>6, <3>1, <3>6 DEF LoopBody
    <3>8. /\ pp.start = << >> /\ pp.quote = NoQuote /\ pp.segments = sgs
          /\ pp.failed <=> Bad(seg) \/ Len(p.segments) + 1 >= MAXCMDS
      BY <3>1, <3>2, <3>4, <3>7 DEF SegmentEnds, LoopStates, Bad
    <3>9. pp.failed <=> Fails(Q)
      <4>1. Len(p.segments) + 1 = m
        BY <1>2, <3>1
      <4>2. ~ \E n \in 1..(m - 1) : Bad(trim_ws(P[n]))
        BY <2>4, <3>1
      <4>3. (\E n \in 1..m : Bad(trim_ws(P[n]))) <=> Bad(seg)
        <5>1. \A n \in 1..m : n = m \/ n \in 1..(m - 1)
          BY <1>2
        <5>2. m \in 1..m
          BY <1>2
        <5> QED
          BY <3>3, <4>2, <5>1, <5>2
      <4> QED
        BY <2>3, <3>8, <4>1, <4>3
    <3>10. \A n \in 1..m : pp.segments[n] = trim_ws(Q[n])
      <4>1. \A n \in 1..m : n = m \/ n \in 1..(m - 1)
        BY <1>2
      <4> QED
        BY <2>2, <3>1, <3>3, <3>5, <3>8, <4>1
    <3> QED
      BY <1>1, <2>1, <2>2, <3>5, <3>8, <3>9, <3>10 DEF Agrees
  <2> QED
    BY <2>5, <2>6
<1>6. CASE ~(c = "|" /\ r.quote = NoQuote)
  <2>1. LastGrows(P, Q, c) /\ rr.quote = IF c \in Quotes THEN ToggleQuote(r, c) ELSE r.quote
    BY <1>1, <1>6, SplitChar
  <2>2. Len(Q) = m /\ Q[m] = Append(P[m], c) /\ \A n \in 1..(m - 1) : Q[n] = P[n]
    BY <1>1, <2>1 DEF LastGrows
  <2>3. Fails(Q) <=> Fails(P)
    BY <1>1, <2>2 DEF Fails
  <2>4. CASE p.failed
    <3>1. pp = p
      BY <1>1, <2>4 DEF LoopBody
    <3> QED
      BY <1>1, <2>3, <2>4, <3>1 DEF Agrees
  <2>5. CASE ~p.failed
    <3>1. /\ ~Fails(P) /\ p.quote = r.quote /\ p.start = P[m] /\ Len(p.segments) = m - 1
          /\ \A n \in 1..(m - 1) : p.segments[n] = trim_ws(P[n])
      BY <1>1, <2>5 DEF Agrees
    <3>2. ToggleQuote(p, c) = ToggleQuote(r, c)
      BY <3>1 DEF ToggleQuote
    <3>3. /\ pp.start = Append(p.start, c) /\ pp.segments = p.segments /\ pp.failed = p.failed
          /\ pp.quote = IF c \in Quotes THEN ToggleQuote(p, c) ELSE p.quote
      <4>1. CASE c \in Quotes
        <5>1. pp = [p EXCEPT !.quote = ToggleQuote(p, c), !.start = Append(@, c)]
          BY <1>1, <2>5, <4>1 DEF LoopBody
        <5> QED
          BY <4>1, <5>1 DEF LoopStates
      <4>2. CASE c \notin Quotes
        <5>1. pp = [p EXCEPT !.start = Append(@, c)]
          BY <1>1, <1>6, <2>5, <3>1, <4>2 DEF LoopBody
        <5> QED
          BY <4>2, <5>1 DEF LoopStates
      <4> QED
        BY <4>1, <4>2
    <3>4. /\ pp.start = Q[m] /\ pp.quote = rr.quote /\ ~pp.failed
          /\ \A n \in 1..(m - 1) : pp.segments[n] = trim_ws(Q[n])
      BY <2>1, <2>2, <2>5, <3>1, <3>2, <3>3
    <3> QED
      BY <1>1, <2>2, <2>3, <3>1, <3>3, <3>4 DEF Agrees
  <2> QED
    BY <2>4, <2>5
<1> QED
  BY <1>5, <1>6

\* The loop of parse_line agrees with Split on every line.
LEMMA LoopAgrees ==
    ASSUME NEW s \in Texts
    PROVE  Loop(s) \in LoopStates /\ Split(s) \in Splits /\ Agrees(Loop(s), Split(s))
<1> DEFINE P == {t \in Texts : Agrees(Loop(t), Split(t))}
<1>1. << >> \in P
  <2>1. << >> \in Texts
    BY EmptySeq DEF Texts
  <2>2. Loop(<< >>) = Begin /\ Split(<< >>) = Whole
    BY LoopGrows, SplitGrows
  <2>3. MAXCMDS \in Nat \ {0}
    BY ParseLineAssumption
  <2>4. Whole.pieces[1] = << >> /\ Len(Whole.pieces) = 1 /\ Whole.quote = NoQuote
    BY DEF Whole
  <2>5. ~Fails(Whole.pieces)
    BY <2>3, <2>4 DEF Fails
  <2>6. /\ ~Begin.failed /\ Begin.start = << >> /\ Begin.segments = << >> /\ Begin.quote = NoQuote
        /\ Len(<< >>) = 0
    BY DEF Begin
  <2>7. Agrees(Begin, Whole)
    BY <2>4, <2>5, <2>6 DEF Agrees
  <2> QED
    BY <2>1, <2>2, <2>7
<1>2. ASSUME NEW t \in Texts, NEW c \in LineChars, t \in P
      PROVE  Append(t, c) \in P
  <2>1. Append(t, c) \in Texts
    BY AppendProperties DEF Texts
  <2>2. /\ Loop(t) \in LoopStates /\ Split(t) \in Splits
        /\ Loop(Append(t, c)) = LoopBody(Loop(t), c)
        /\ Split(Append(t, c)) = SplitStep(Split(t), c)
    BY LoopGrows, SplitGrows
  <2>3. Agrees(LoopBody(Loop(t), c), SplitStep(Split(t), c))
    BY <1>2, <2>2, AgreesStep
  <2> QED
    BY <2>1, <2>2, <2>3
<1>3. Texts \subseteq P
  <2> HIDE DEF P
  <2> QED
    BY <1>1, <1>2, ByAppending DEF Texts
<1> QED
  BY <1>3, LoopGrows, SplitGrows

\* The pieces without the blanks around them.
Trimmed(P) == [n \in 1..Len(P) |-> trim_ws(P[n])]

TextPieces(s) == Trimmed(Split(s).pieces)

\* What parse_line makes of them.
ByPieces(Z) ==
    LET m == Len(Z)
        bg == Z[m] # << >> /\ Last(Z[m]) = "&"
        start == IF bg THEN trim_ws(Front(Z[m])) ELSE Z[m]
    IN  IF m - 1 >= MAXCMDS \/ \E n \in 1..(m - 1) : Bad(Z[n]) THEN Error
        ELSE IF Z[m] = << >> THEN IF m = 1 THEN Read(<< >>, FALSE) ELSE Error
        ELSE IF Bad(start) THEN Error
        ELSE Read(Append(SubSeq(Z, 1, m - 1), start), bg)

\* They are as many as the pieces.
LEMMA TrimmedHas ==
    ASSUME NEW P \in Seq(Texts), P # << >>
    PROVE  /\ Trimmed(P) \in Seq(Texts) /\ Len(Trimmed(P)) = Len(P) /\ Len(P) \in Nat \ {0}
           /\ \A n \in 1..Len(P) : Trimmed(P)[n] = trim_ws(P[n]) /\ Trimmed(P)[n] \in Texts
<1>1. PICK m, Z : m = Len(P) /\ Z = Trimmed(P)
  OBVIOUS
<1>2. m \in Nat \ {0} /\ \A n \in 1..m : P[n] \in Texts
  BY <1>1, NonEmpty, ElementOfSeq
<1>3. \A n \in 1..m : trim_ws(P[n]) \in Texts
  BY <1>2, TrimType
<1>4. Z = [n \in 1..m |-> trim_ws(P[n])]
  BY <1>1 DEF Trimmed
<1>5. Z \in [1..m -> Texts] /\ \A n \in 1..m : Z[n] = trim_ws(P[n])
  BY <1>3, <1>4
<1>6. Z \in Seq(Texts)
  BY <1>2, <1>5, SeqDef
<1>7. Len(Z) = m
  BY <1>2, <1>5, <1>6, LenProperties
<1> QED
  BY <1>1, <1>2, <1>3, <1>5, <1>6, <1>7

\* The pieces of a line.
LEMMA TextPiecesHas ==
    ASSUME NEW s \in Texts
    PROVE  /\ TextPieces(s) \in Seq(Texts)
           /\ Len(TextPieces(s)) = Len(Split(s).pieces) /\ Len(TextPieces(s)) \in Nat \ {0}
           /\ \A n \in 1..Len(TextPieces(s)) : /\ TextPieces(s)[n] = trim_ws(Split(s).pieces[n])
                                               /\ TextPieces(s)[n] \in Texts
                                               /\ Split(s).pieces[n] \in Texts
<1>1. PICK P : P = Split(s).pieces
  OBVIOUS
<1>2. P \in Seq(Texts) /\ P # << >> /\ \A n \in 1..Len(P) : P[n] \in Texts
  <2>1. Split(s) \in Splits
    BY SplitGrows
  <2> QED
    BY <1>1, <2>1, SplitHas DEF Splits
<1> QED
  BY <1>1, <1>2, TrimmedHas DEF TextPieces

\* parse_line takes a line for its pieces.
LEMMA ParsedByPieces ==
    ASSUME NEW s \in Texts
    PROVE  parse_line(s) = ByPieces(TextPieces(s))
<1>1. PICK p, P, Z, m : /\ p = Loop(s) /\ P = Split(s).pieces /\ Z = TextPieces(s) /\ m = Len(Z)
  OBVIOUS
<1>2. /\ Z \in Seq(Texts) /\ m = Len(P) /\ m \in Nat \ {0}
      /\ \A n \in 1..m : Z[n] = trim_ws(P[n]) /\ Z[n] \in Texts
  BY <1>1, TextPiecesHas
<1>3. p \in LoopStates /\ Agrees(p, Split(s))
  BY <1>1, LoopAgrees
<1>4. p.failed <=> m - 1 >= MAXCMDS \/ \E n \in 1..(m - 1) : Bad(Z[n])
  <2>1. \A n \in 1..(m - 1) : n \in 1..m
    BY <1>2
  <2> QED
    BY <1>1, <1>2, <1>3, <2>1 DEF Agrees, Fails
<1> DEFINE rest == trim_ws(p.start)
           bg == rest # << >> /\ Last(rest) = "&"
           start == IF bg THEN trim_ws(Front(rest)) ELSE rest
<1>5. parse_line(s) = IF p.failed THEN Error
        ELSE IF rest = << >> THEN IF p.segments = << >> THEN Read(<< >>, FALSE) ELSE Error
        ELSE IF start = << >> \/ Contains(start, "&") THEN Error
        ELSE Read(Append(p.segments, start), bg)
  BY <1>1 DEF parse_line, Loop
<1>6. CASE p.failed
  <2> HIDE DEF rest, bg, start
  <2>1. parse_line(s) = Error
    BY <1>5, <1>6
  <2>2. ByPieces(Z) = Error
    BY <1>1, <1>4, <1>6 DEF ByPieces
  <2> QED
    BY <1>1, <2>1, <2>2
<1>7. CASE ~p.failed
  <2>1. rest = Z[m]
    <3>1. p.start = P[m] /\ m \in 1..m
      BY <1>1, <1>2, <1>3, <1>7 DEF Agrees
    <3> QED
      BY <1>2, <3>1
  <2>2. p.segments = SubSeq(Z, 1, m - 1)
    <3>1. PICK g, h, d : g = p.segments /\ d = m - 1 /\ h = SubSeq(Z, 1, d)
      OBVIOUS
    <3>2. Len(g) = d /\ \A n \in 1..d : g[n] = trim_ws(P[n])
      BY <1>1, <1>2, <1>3, <1>7, <3>1 DEF Agrees
    <3>3. d \in Nat /\ \A n \in 1..d : n \in 1..m /\ Z[n] \in Texts
      BY <1>2, <3>1
    <3>4. /\ h \in Seq(Texts) /\ Len(h) = IF 1 <= d THEN d - 1 + 1 ELSE 0
          /\ \A n \in 1..(d - 1 + 1) : h[n] = Z[1 + n - 1]
      BY <3>1, <3>3, SubSeqProperties
    <3>5. Len(h) = d /\ \A n \in 1..d : h[n] = Z[n]
      BY <3>3, <3>4
    <3>6. g \in Seq(Texts)
      BY <1>3, <3>1 DEF LoopStates
    <3>7. \A n \in 1..Len(g) : g[n] = h[n]
      BY <1>2, <3>2, <3>3, <3>5
    <3> QED
      BY <3>1, <3>2, <3>4, <3>5, <3>6, <3>7, SeqEqual
  <2>3. p.segments = << >> <=> m = 1
    <3>1. Len(p.segments) = m - 1 /\ p.segments \in Seq(Texts)
      BY <1>1, <1>2, <1>3, <1>7 DEF Agrees, LoopStates
    <3> QED
      BY <1>2, <3>1, EmptySeq
  <2>4. ByPieces(Z) =
           IF rest = << >> THEN IF m = 1 THEN Read(<< >>, FALSE) ELSE Error
           ELSE IF start = << >> \/ Contains(start, "&") THEN Error
           ELSE Read(Append(SubSeq(Z, 1, m - 1), start), bg)
    BY <1>1, <1>4, <1>7, <2>1 DEF ByPieces, Bad
  <2> HIDE DEF rest, bg, start
  <2> QED
    BY <1>1, <1>5, <1>7, <2>2, <2>3, <2>4
<1> QED
  BY <1>6, <1>7

-----------------------------------------------------------------------------
(* Blanks around a line, and the & at its end *)

\* Two sequences of pieces that are the same without the blanks around them.
LEMMA SameTrimmed ==
    ASSUME NEW P \in Seq(Texts), P # << >>, NEW Q \in Seq(Texts), Q # << >>, Len(Q) = Len(P),
           \A n \in 1..Len(P) : trim_ws(Q[n]) = trim_ws(P[n])
    PROVE  Trimmed(Q) = Trimmed(P)
<1>1. PICK X, Y : X = Trimmed(P) /\ Y = Trimmed(Q)
  OBVIOUS
<1>2. X \in Seq(Texts) /\ Len(X) = Len(P) /\ \A n \in 1..Len(P) : X[n] = trim_ws(P[n])
  BY <1>1, TrimmedHas
<1>3. Y \in Seq(Texts) /\ Len(Y) = Len(Q) /\ \A n \in 1..Len(Q) : Y[n] = trim_ws(Q[n])
  BY <1>1, TrimmedHas
<1>4. Len(X) = Len(Y) /\ \A n \in 1..Len(X) : X[n] = Y[n]
  BY <1>2, <1>3
<1> QED
  BY <1>1, <1>2, <1>3, <1>4, SeqEqual

\* A blank behind a line.
LEMMA BlankBehind ==
    ASSUME NEW s \in Texts, NEW c \in LineChars, isspace(c)
    PROVE  TextPieces(Append(s, c)) = TextPieces(s) /\ Split(Append(s, c)).quote = Split(s).quote
<1>1. PICK r, P, m, Q : /\ r = Split(s) /\ P = r.pieces /\ m = Len(P)
                        /\ Q = Split(Append(s, c)).pieces
  OBVIOUS
<1>2. r \in Splits /\ Split(Append(s, c)) = SplitStep(r, c)
  BY <1>1, SplitGrows
<1>3. P \in Seq(Texts) /\ P # << >> /\ m \in Nat \ {0} /\ \A n \in 1..m : P[n] \in Texts
  BY <1>1, <1>2, SplitHas DEF Splits
<1>4. Q \in Seq(Texts) /\ Q # << >>
  <2>1. Append(s, c) \in Texts
    BY AppendProperties DEF Texts
  <2>2. Split(Append(s, c)) \in Splits
    BY <2>1, SplitGrows
  <2> QED
    BY <1>1, <2>2, SplitHas DEF Splits
<1>5. c # "|" /\ c \notin Quotes
  BY DEF isspace, Blanks, Separators, Quotes
<1>6. LastGrows(P, Q, c) /\ Split(Append(s, c)).quote = r.quote
  BY <1>1, <1>2, <1>5, SplitChar
<1>7. Len(Q) = m /\ Q[m] = Append(P[m], c) /\ \A n \in 1..(m - 1) : Q[n] = P[n]
  BY <1>1, <1>6 DEF LastGrows
<1>8. ASSUME NEW n \in 1..m
      PROVE  trim_ws(Q[n]) = trim_ws(P[n])
  <2>1. CASE n = m
    <3>1. P[m] \in Texts
      BY <1>3, <2>1
    <3>2. trim_ws(Append(P[m], c)) = trim_ws(P[m])
      BY <3>1, TrimBehind
    <3> QED
      BY <1>7, <2>1, <3>2
  <2>2. CASE n # m
    <3>1. n \in 1..(m - 1)
      BY <1>3, <2>2
    <3> QED
      BY <1>7, <3>1
  <2> QED
    BY <2>1, <2>2
<1>9. Trimmed(Q) = Trimmed(P)
  BY <1>1, <1>3, <1>4, <1>7, <1>8, SameTrimmed
<1> QED
  BY <1>1, <1>6, <1>9 DEF TextPieces

\* Blanks behind a line.
LEMMA BlanksBehind ==
    ASSUME NEW s \in Texts, NEW v \in Texts, Blank(v)
    PROVE  TextPieces(s \o v) = TextPieces(s)
<1> DEFINE P == {u \in Texts : Blank(u) => TextPieces(s \o u) = TextPieces(s)}
<1>1. << >> \in P
  <2>1. << >> \in Texts /\ s \o << >> = s
    BY EmptySeq, ConcatEmptySeq DEF Texts
  <2> QED
    BY <2>1
<1>2. ASSUME NEW u \in Texts, NEW c \in LineChars, u \in P
      PROVE  Append(u, c) \in P
  <2>1. PICK x : x = Append(u, c)
    OBVIOUS
  <2>2. /\ x \in Texts /\ Len(x) = Len(u) + 1 /\ x[Len(u) + 1] = c /\ Len(u) \in Nat
        /\ \A k \in 1..Len(u) : x[k] = u[k]
    BY <2>1, AppendProperties DEF Texts
  <2>3. ASSUME Blank(x) PROVE TextPieces(s \o x) = TextPieces(s)
    <3>1. isspace(c) /\ Blank(u)
      BY <2>2, <2>3 DEF Blank
    <3>2. s \o x = Append(s \o u, c) /\ s \o u \in Texts
      BY <2>1, ConcatAppend
    <3>3. TextPieces(s \o u) = TextPieces(s)
      BY <1>2, <3>1
    <3> QED
      BY <3>1, <3>2, <3>3, BlankBehind
  <2> QED
    BY <2>1, <2>2, <2>3
<1>3. Texts \subseteq P
  <2> HIDE DEF P
  <2> QED
    BY <1>1, <1>2, ByAppending DEF Texts
<1> QED
  BY <1>3

\* The pieces with w in front of the first one.
Indented(P, Q, w) ==
    /\ Len(Q) = Len(P) /\ Q[1] = w \o P[1]
    /\ \A n \in 2..Len(P) : Q[n] = P[n]

\* Blanks alone.
LEMMA BlanksAlone ==
    ASSUME NEW w \in Texts, Blank(w)
    PROVE  Split(w).quote = NoQuote /\ Len(Split(w).pieces) = 1 /\ Split(w).pieces[1] = w
<1> DEFINE P == {u \in Texts : Blank(u) => /\ Split(u).quote = NoQuote
                                           /\ Len(Split(u).pieces) = 1 /\ Split(u).pieces[1] = u}
<1>1. << >> \in P
  <2>1. << >> \in Texts
    BY EmptySeq DEF Texts
  <2>2. Whole.quote = NoQuote /\ Len(Whole.pieces) = 1 /\ Whole.pieces[1] = << >>
    BY DEF Whole
  <2> QED
    BY <2>1, <2>2, SplitGrows
<1>2. ASSUME NEW u \in Texts, NEW c \in LineChars, u \in P
      PROVE  Append(u, c) \in P
  <2>1. PICK x, r, Q : x = Append(u, c) /\ r = Split(u) /\ Q = Split(x).pieces
    OBVIOUS
  <2>2. /\ x \in Texts /\ Len(x) = Len(u) + 1 /\ x[Len(u) + 1] = c /\ Len(u) \in Nat
        /\ \A k \in 1..Len(u) : x[k] = u[k]
    BY <2>1, AppendProperties DEF Texts
  <2>3. ASSUME Blank(x)
        PROVE  Split(x).quote = NoQuote /\ Len(Split(x).pieces) = 1 /\ Split(x).pieces[1] = x
    <3>1. isspace(c) /\ Blank(u)
      BY <2>2, <2>3 DEF Blank
    <3>2. r.quote = NoQuote /\ Len(r.pieces) = 1 /\ r.pieces[1] = u
      BY <1>2, <2>1, <3>1
    <3>3. c # "|" /\ c \notin Quotes
      BY <3>1 DEF isspace, Blanks, Separators, Quotes
    <3>4. r \in Splits /\ Split(x) = SplitStep(r, c)
      BY <2>1, SplitGrows
    <3>5. Split(x).quote = r.quote /\ LastGrows(r.pieces, Q, c)
      BY <2>1, <3>3, <3>4, SplitChar
    <3>6. Len(Q) = 1 /\ Q[1] = Append(u, c)
      BY <3>2, <3>5 DEF LastGrows
    <3> QED
      BY <2>1, <3>2, <3>5, <3>6
  <2> QED
    BY <2>1, <2>2, <2>3
<1>3. Texts \subseteq P
  <2> HIDE DEF P
  <2> QED
    BY <1>1, <1>2, ByAppending DEF Texts
<1> QED
  BY <1>3

\* Blanks in front of a line are in front of its first piece.
LEMMA IndentedStep ==
    ASSUME NEW p \in Splits, NEW r \in Splits, NEW w \in Texts, p.quote = r.quote,
           Indented(p.pieces, r.pieces, w), NEW c \in LineChars
    PROVE  /\ SplitStep(p, c).quote = SplitStep(r, c).quote
           /\ Indented(SplitStep(p, c).pieces, SplitStep(r, c).pieces, w)
<1>1. PICK P, Q, m, PP, QQ : /\ P = p.pieces /\ Q = r.pieces /\ m = Len(P)
                             /\ PP = SplitStep(p, c).pieces /\ QQ = SplitStep(r, c).pieces
  OBVIOUS
<1>2. m \in Nat \ {0} /\ \A n \in 1..m : P[n] \in Texts
  BY <1>1, SplitHas
<1>3. Len(Q) = m /\ Q[1] = w \o P[1] /\ \A n \in 2..m : Q[n] = P[n]
  BY <1>1 DEF Indented
<1>4. CASE c = "|" /\ p.quote = NoQuote
  <2>1. /\ SplitStep(p, c).quote = NoQuote /\ AnotherPiece(P, PP)
        /\ SplitStep(r, c).quote = NoQuote /\ AnotherPiece(Q, QQ)
    BY <1>1, <1>4, SplitBar
  <2>2. Len(PP) = m + 1 /\ PP[m + 1] = << >> /\ \A n \in 1..m : PP[n] = P[n]
    BY <1>1, <2>1 DEF AnotherPiece
  <2>3. Len(QQ) = m + 1 /\ QQ[m + 1] = << >> /\ \A n \in 1..m : QQ[n] = Q[n]
    BY <1>3, <2>1 DEF AnotherPiece
  <2>4. QQ[1] = w \o PP[1]
    <3>1. 1 \in 1..m
      BY <1>2
    <3>2. QQ[1] = Q[1] /\ PP[1] = P[1]
      BY <2>2, <2>3, <3>1
    <3> QED
      BY <1>3, <3>2
  <2>5. ASSUME NEW n \in 2..(m + 1) PROVE QQ[n] = PP[n]
    <3>1. CASE n = m + 1
      BY <2>2, <2>3, <3>1
    <3>2. CASE n # m + 1
      <4>1. n \in 2..m /\ n \in 1..m
        BY <1>2, <3>2
      <4> QED
        BY <1>3, <2>2, <2>3, <4>1
    <3> QED
      BY <3>1, <3>2
  <2>6. Indented(PP, QQ, w)
    BY <2>2, <2>3, <2>4, <2>5 DEF Indented
  <2> QED
    BY <1>1, <2>1, <2>6
<1>5. CASE ~(c = "|" /\ p.quote = NoQuote)
  <2>1. /\ SplitStep(p, c).quote = IF c \in Quotes THEN ToggleQuote(p, c) ELSE p.quote
        /\ LastGrows(P, PP, c)
    BY <1>1, <1>5, SplitChar
  <2>2. /\ SplitStep(r, c).quote = IF c \in Quotes THEN ToggleQuote(r, c) ELSE r.quote
        /\ LastGrows(Q, QQ, c)
    BY <1>1, <1>5, SplitChar
  <2>3. ToggleQuote(p, c) = ToggleQuote(r, c)
    BY DEF ToggleQuote
  <2>4. Len(PP) = m /\ PP[m] = Append(P[m], c) /\ \A n \in 1..(m - 1) : PP[n] = P[n]
    BY <1>1, <2>1 DEF LastGrows
  <2>5. Len(QQ) = m /\ QQ[m] = Append(Q[m], c) /\ \A n \in 1..(m - 1) : QQ[n] = Q[n]
    BY <1>3, <2>2 DEF LastGrows
  <2>6. QQ[1] = w \o PP[1]
    <3>1. CASE m = 1
      <4>1. P[1] \in Texts
        BY <1>2, <3>1
      <4>2. w \o Append(P[1], c) = Append(w \o P[1], c)
        BY <4>1, ConcatAppend
      <4> QED
        BY <1>3, <2>4, <2>5, <3>1, <4>2
    <3>2. CASE m # 1
      <4>1. 1 \in 1..(m - 1)
        BY <1>2, <3>2
      <4> QED
        BY <1>3, <2>4, <2>5, <4>1
    <3> QED
      BY <3>1, <3>2
  <2>7. ASSUME NEW n \in 2..m PROVE QQ[n] = PP[n]
    <3>1. CASE n = m
      BY <1>3, <2>4, <2>5, <3>1
    <3>2. CASE n # m
      <4>1. n \in 1..(m - 1)
        BY <1>2, <3>2
      <4> QED
        BY <1>3, <2>4, <2>5, <4>1
    <3> QED
      BY <3>1, <3>2
  <2>8. Indented(PP, QQ, w)
    BY <2>4, <2>5, <2>6, <2>7 DEF Indented
  <2> QED
    BY <1>1, <2>1, <2>2, <2>3, <2>8
<1> QED
  BY <1>4, <1>5

\* Blanks in front of a line.
LEMMA BlanksBefore ==
    ASSUME NEW w \in Texts, Blank(w), NEW s \in Texts
    PROVE  TextPieces(w \o s) = TextPieces(s)
<1> DEFINE Q(u) == /\ Split(w \o u).quote = Split(u).quote
                   /\ Indented(Split(u).pieces, Split(w \o u).pieces, w)
           P == {u \in Texts : Q(u)}
<1>1. << >> \in P
  <2>1. << >> \in Texts /\ w \o << >> = w
    BY EmptySeq, ConcatEmptySeq DEF Texts
  <2>2. Whole.quote = NoQuote /\ Len(Whole.pieces) = 1 /\ Whole.pieces[1] = << >>
    BY DEF Whole
  <2>3. Split(w).quote = NoQuote /\ Len(Split(w).pieces) = 1 /\ Split(w).pieces[1] = w
    BY BlanksAlone
  <2>4. Indented(Whole.pieces, Split(w).pieces, w)
    BY <2>1, <2>2, <2>3 DEF Indented
  <2> QED
    BY <2>1, <2>2, <2>3, <2>4, SplitGrows
<1>2. ASSUME NEW u \in Texts, NEW c \in LineChars, u \in P
      PROVE  Append(u, c) \in P
  <2>1. Append(u, c) \in Texts /\ w \o u \in Texts /\ w \o Append(u, c) = Append(w \o u, c)
    BY ConcatAppend, AppendProperties DEF Texts
  <2>2. /\ Split(u) \in Splits /\ Split(w \o u) \in Splits
        /\ Split(Append(u, c)) = SplitStep(Split(u), c)
        /\ Split(Append(w \o u, c)) = SplitStep(Split(w \o u), c)
    BY <2>1, SplitGrows
  <2>3. /\ SplitStep(Split(u), c).quote = SplitStep(Split(w \o u), c).quote
        /\ Indented(SplitStep(Split(u), c).pieces, SplitStep(Split(w \o u), c).pieces, w)
    BY <1>2, <2>2, IndentedStep
  <2> QED
    BY <2>1, <2>2, <2>3
<1>3. Texts \subseteq P
  <2> HIDE DEF P
  <2> QED
    BY <1>1, <1>2, ByAppending DEF Texts
<1>4. PICK X, Y : X = Split(s).pieces /\ Y = Split(w \o s).pieces
  OBVIOUS
<1>5. Indented(X, Y, w)
  BY <1>3, <1>4
<1>6. X \in Seq(Texts) /\ X # << >> /\ Len(X) \in Nat \ {0} /\ \A n \in 1..Len(X) : X[n] \in Texts
  BY <1>4, SplitGrows, SplitHas DEF Splits
<1>7. Y \in Seq(Texts) /\ Y # << >>
  <2>1. w \o s \in Texts
    BY ConcatProperties DEF Texts
  <2> QED
    BY <1>4, <2>1, SplitGrows, SplitHas DEF Splits
<1>8. ASSUME NEW n \in 1..Len(X)
      PROVE  trim_ws(Y[n]) = trim_ws(X[n])
  <2>1. CASE n = 1
    BY <1>5, <1>6, <2>1, TrimBefore DEF Indented
  <2>2. CASE n # 1
    <3>1. n \in 2..Len(X)
      BY <1>6, <2>2
    <3> QED
      BY <1>5, <3>1 DEF Indented
  <2> QED
    BY <2>1, <2>2
<1>9. Trimmed(Y) = Trimmed(X)
  BY <1>5, <1>6, <1>7, <1>8, SameTrimmed DEF Indented
<1> QED
  BY <1>4, <1>9 DEF TextPieces

\* The text of a line has the pieces of the line.
LEMMA TextHasThePieces ==
    ASSUME NEW s \in Texts
    PROVE  TextPieces(trim_ws(s)) = TextPieces(s)
<1>1. PICK t : t = trim_ws(s)
  OBVIOUS
<1>2. PICK w, v \in Texts : Blank(w) /\ Blank(v) /\ s = (w \o t) \o v
  BY <1>1, Surrounded
<1>3. t \in Texts /\ w \o t \in Texts
  BY <1>1, <1>2, TrimType, ConcatProperties DEF Texts
<1>4. TextPieces(w \o t) = TextPieces(t)
  BY <1>2, <1>3, BlanksBefore
<1>5. TextPieces(s) = TextPieces(w \o t)
  BY <1>2, <1>3, BlanksBehind
<1> QED
  BY <1>1, <1>4, <1>5

\* A line that is all of one piece.
LEMMA OnePiece ==
    ASSUME NEW s \in Texts, Len(Split(s).pieces) = 1
    PROVE  Split(s).pieces[1] = s
<1> DEFINE P == {u \in Texts : Len(Split(u).pieces) = 1 => Split(u).pieces[1] = u}
<1>1. << >> \in P
  <2>1. << >> \in Texts
    BY EmptySeq DEF Texts
  <2>2. Whole.pieces[1] = << >>
    BY DEF Whole
  <2> QED
    BY <2>1, <2>2, SplitGrows
<1>2. ASSUME NEW u \in Texts, NEW c \in LineChars, u \in P
      PROVE  Append(u, c) \in P
  <2>1. PICK x, r, R, Q : x = Append(u, c) /\ r = Split(u) /\ R = r.pieces /\ Q = Split(x).pieces
    OBVIOUS
  <2>2. x \in Texts
    BY <2>1, AppendProperties DEF Texts
  <2>3. r \in Splits /\ Split(x) = SplitStep(r, c)
    BY <2>1, SplitGrows
  <2>4. Len(R) \in Nat \ {0}
    BY <2>1, <2>3, SplitHas
  <2>5. ASSUME Len(Q) = 1 PROVE Q[1] = x
    <3>1. CASE c = "|" /\ r.quote = NoQuote
      <4>1. AnotherPiece(R, Q)
        BY <2>1, <2>3, <3>1, SplitBar
      <4> QED
        BY <2>4, <2>5, <4>1 DEF AnotherPiece
    <3>2. CASE ~(c = "|" /\ r.quote = NoQuote)
      <4>1. LastGrows(R, Q, c)
        BY <2>1, <2>3, <3>2, SplitChar
      <4>2. Len(R) = 1 /\ Q[1] = Append(R[1], c)
        BY <2>4, <2>5, <4>1 DEF LastGrows
      <4>3. R[1] = u
        BY <1>2, <2>1, <4>2
      <4> QED
        BY <2>1, <4>2, <4>3
    <3> QED
      BY <3>1, <3>2
  <2> QED
    BY <2>1, <2>2, <2>5
<1>3. Texts \subseteq P
  <2> HIDE DEF P
  <2> QED
    BY <1>1, <1>2, ByAppending DEF Texts
<1> QED
  BY <1>3

\* An & behind a line is at the end of its last piece and changes no other.
LEMMA AmpBehind ==
    ASSUME NEW f \in Texts, "&" \in LineChars, NEW X, X = TextPieces(f),
           NEW Z, Z = TextPieces(Append(f, "&")), NEW m, m = Len(X)
    PROVE  /\ Len(Z) = m /\ \A n \in 1..(m - 1) : Z[n] = X[n]
           /\ Z[m] # << >> /\ Last(Z[m]) = "&" /\ trim_ws(Front(Z[m])) = X[m]
<1>1. PICK r, P, Q, g : /\ r = Split(f) /\ P = r.pieces
                        /\ g = Append(f, "&") /\ Q = Split(g).pieces
  OBVIOUS
<1>2. g \in Texts
  BY <1>1, AppendProperties DEF Texts
<1>3. /\ m = Len(P) /\ m \in Nat \ {0}
      /\ \A n \in 1..m : X[n] = trim_ws(P[n]) /\ P[n] \in Texts
  BY <1>1, TextPiecesHas
<1>4. Len(Z) = Len(Q) /\ \A n \in 1..Len(Z) : Z[n] = trim_ws(Q[n])
  BY <1>1, <1>2, TextPiecesHas
<1>5. r \in Splits /\ Split(g) = SplitStep(r, "&")
  BY <1>1, SplitGrows
<1>6. LastGrows(P, Q, "&")
  BY <1>1, <1>5, SplitChar
<1>7. Len(Q) = m /\ Q[m] = Append(P[m], "&") /\ \A n \in 1..(m - 1) : Q[n] = P[n]
  BY <1>3, <1>6 DEF LastGrows
<1>8. \A n \in 1..(m - 1) : n \in 1..m
  BY <1>3
<1>9. m \in 1..m /\ P[m] \in Texts
  BY <1>3
<1>10. ~isspace("&")
  BY DEF isspace, Blanks, Separators
<1>11. PICK z : z = trim_ws(Append(P[m], "&"))
  OBVIOUS
<1>12. z # << >> /\ Last(z) = "&" /\ trim_ws(Front(z)) = trim_ws(P[m])
  BY <1>9, <1>10, <1>11, TextBehind
<1>13. Z[m] = z
  BY <1>4, <1>7, <1>9, <1>11
<1> QED
  BY <1>3, <1>4, <1>7, <1>8, <1>9, <1>12, <1>13

\* Any other character that is not blank leaves no & at the end.
LEMMA OtherBehind ==
    ASSUME NEW f \in Texts, NEW c \in LineChars, c # "&", ~isspace(c),
           NEW Z, Z = TextPieces(Append(f, c)), NEW m, m = Len(Z)
    PROVE  Z[m] = << >> \/ Last(Z[m]) # "&"
<1>1. PICK r, P, Q, g, k : /\ r = Split(f) /\ P = r.pieces /\ k = Len(P)
                           /\ g = Append(f, c) /\ Q = Split(g).pieces
  OBVIOUS
<1>2. g \in Texts
  BY <1>1, AppendProperties DEF Texts
<1>3. r \in Splits /\ Split(g) = SplitStep(r, c)
  BY <1>1, SplitGrows
<1>4. k \in Nat \ {0} /\ P[k] \in Texts
  BY <1>1, <1>3, SplitHas
<1>5. m = Len(Q) /\ m \in Nat \ {0} /\ Z[m] = trim_ws(Q[m])
  <2>1. m \in 1..m
    BY <1>1, <1>2, TextPiecesHas
  <2> QED
    BY <1>1, <1>2, <2>1, TextPiecesHas
<1>6. CASE c = "|" /\ r.quote = NoQuote
  <2>1. AnotherPiece(P, Q)
    BY <1>1, <1>3, <1>6, SplitBar
  <2>2. Q[m] = << >>
    BY <1>5, <2>1 DEF AnotherPiece
  <2>3. << >> \in Texts /\ Blank(<< >>)
    BY EmptySeq DEF Texts, Blank
  <2>4. trim_ws(<< >>) = << >>
    BY <2>3, TrimBlank
  <2> QED
    BY <1>5, <2>2, <2>4
<1>7. CASE ~(c = "|" /\ r.quote = NoQuote)
  <2>1. LastGrows(P, Q, c)
    BY <1>1, <1>3, <1>7, SplitChar
  <2>2. m = k /\ Q[m] = Append(P[k], c)
    BY <1>1, <1>5, <2>1 DEF LastGrows
  <2>3. Last(trim_ws(Append(P[k], c))) = c
    BY <1>4, TextBehind
  <2> QED
    BY <1>5, <2>2, <2>3
<1> QED
  BY <1>6, <1>7

\* A pipeline with the pieces Y, each a command.
Verdict(Y, bg) ==
    IF Len(Y) > MAXCMDS \/ \E n \in 1..Len(Y) : Bad(Y[n]) THEN Error ELSE Read(Y, bg)

\* The text of a line without the & at its end.
AtEnd(text) == Last(text) = "&"
Command(text) == IF AtEnd(text) THEN Front(text) ELSE text

\* The text of a line that is not blank.
LEMMA TextIs ==
    ASSUME NEW s \in Texts, ~Blank(s)
    PROVE  /\ trim_ws(s) \in Texts /\ trim_ws(s) # << >> /\ ~isspace(Last(trim_ws(s)))
           /\ Last(trim_ws(s)) \in LineChars /\ Front(trim_ws(s)) \in Texts
           /\ trim_ws(s) = Append(Front(trim_ws(s)), Last(trim_ws(s)))
<1>1. PICK t, n : t = trim_ws(s) /\ n = Len(t)
  OBVIOUS
<1>2. t \in Texts /\ t # << >>
  BY <1>1, TrimType
<1>3. PICK i, j \in 1..Len(s) : TextAt(s, i, j)
  BY TextFound
<1>4. ~isspace(Last(t))
  <2>1. Last(t) = s[j]
    BY <1>1, <1>3, TrimEnds
  <2>2. ~isspace(s[j])
    BY <1>3 DEF TextAt
  <2> QED
    BY <2>1, <2>2
<1>5. PICK u \in Seq(LineChars), e \in LineChars : t = Append(u, e)
  BY <1>2, SequenceEmptyOrAppend DEF Texts
<1>6. Front(t) = u /\ Last(t) = e
  BY <1>5, FrontOfAppend
<1> QED
  BY <1>1, <1>2, <1>4, <1>5, <1>6 DEF Texts

\* The first pieces of a sequence of pieces and the last one are the sequence.
LEMMA AllPieces ==
    ASSUME NEW Y \in Seq(Texts), NEW m, m = Len(Y), m \in Nat \ {0}, NEW Z, Len(Z) = m,
           NEW d, d = m - 1, \A n \in 1..d : Z[n] = Y[n]
    PROVE  Append(SubSeq(Z, 1, d), Y[m]) = Y
<1>1. d \in Nat /\ m = d + 1 /\ m \in 1..m /\ \A n \in 1..d : n \in 1..m
  OBVIOUS
<1>2. Y[m] \in Texts /\ \A n \in 1..d : Z[n] \in Texts
  <2>1. \A n \in 1..m : Y[n] \in Texts
    BY ElementOfSeq
  <2> QED
    BY <1>1, <2>1
<1>3. PICK h, x : h = SubSeq(Z, 1, d) /\ x = Append(h, Y[m])
  OBVIOUS
<1>4. h \in Seq(Texts) /\ Len(h) = d /\ \A n \in 1..d : h[n] = Z[n]
  <2>1. /\ h \in Seq(Texts) /\ Len(h) = IF 1 <= d THEN d - 1 + 1 ELSE 0
        /\ \A n \in 1..(d - 1 + 1) : h[n] = Z[1 + n - 1]
    BY <1>1, <1>2, <1>3, SubSeqProperties
  <2> QED
    BY <1>1, <2>1
<1>5. /\ x \in Seq(Texts) /\ Len(x) = d + 1 /\ x[d + 1] = Y[m]
      /\ \A n \in 1..d : x[n] = h[n]
  BY <1>2, <1>3, <1>4, AppendProperties
<1>6. ASSUME NEW n \in 1..Len(x) PROVE x[n] = Y[n]
  <2>1. n = m \/ n \in 1..d
    BY <1>1, <1>5
  <2> QED
    BY <1>1, <1>4, <1>5, <2>1
<1>7. x = Y
  BY <1>1, <1>5, <1>6, SeqEqual
<1> QED
  BY <1>3, <1>7

\* What parse_line makes of a line that is not blank.
LEMMA ParsedText ==
    ASSUME NEW s \in Texts, ~Blank(s), NEW text, text = trim_ws(s)
    PROVE  /\ parse_line(s) = Verdict(TextPieces(Command(text)), AtEnd(text))
           /\ Command(text) \in Texts
<1>1. PICK f, c : f = Front(text) /\ c = Last(text)
  OBVIOUS
<1>2. /\ text \in Texts /\ text # << >> /\ ~isspace(c) /\ c \in LineChars /\ f \in Texts
      /\ text = Append(f, c)
  BY <1>1, TextIs
<1>3. Command(text) \in Texts
  BY <1>1, <1>2 DEF Command
<1>4. PICK Z, m, Y, d : /\ Z = TextPieces(text) /\ m = Len(Z) /\ Y = TextPieces(Command(text))
                        /\ d = m - 1
  OBVIOUS
<1>5. parse_line(s) = ByPieces(Z)
  BY <1>4, ParsedByPieces, TextHasThePieces
<1>6. Z \in Seq(Texts) /\ m \in Nat \ {0} /\ MAXCMDS \in Nat
  BY <1>2, <1>4, TextPiecesHas, ParseLineAssumption
<1>7. Y \in Seq(Texts)
  BY <1>3, <1>4, TextPiecesHas
<1>8. /\ Len(Y) = m /\ \A n \in 1..d : Z[n] = Y[n]
      /\ AtEnd(text) => Z[m] # << >> /\ Last(Z[m]) = "&" /\ trim_ws(Front(Z[m])) = Y[m]
      /\ ~AtEnd(text) => Y[m] = Z[m] /\ (Z[m] = << >> \/ Last(Z[m]) # "&")
  <2>1. CASE c = "&"
    <3>1. Command(text) = f /\ AtEnd(text)
      BY <1>1, <2>1 DEF Command, AtEnd
    <3>2. "&" \in LineChars /\ Y = TextPieces(f) /\ Z = TextPieces(Append(f, "&"))
      BY <1>2, <1>4, <2>1, <3>1
    <3>3. PICK k : k = Len(Y)
      OBVIOUS
    <3>4. /\ Len(Z) = k /\ \A n \in 1..(k - 1) : Z[n] = Y[n]
          /\ Z[k] # << >> /\ Last(Z[k]) = "&" /\ trim_ws(Front(Z[k])) = Y[k]
      BY <1>2, <3>2, <3>3, AmpBehind
    <3> QED
      BY <1>4, <3>1, <3>3, <3>4
  <2>2. CASE c # "&"
    <3>1. Command(text) = text /\ ~AtEnd(text)
      BY <1>1, <2>2 DEF Command, AtEnd
    <3>2. Z[m] = << >> \/ Last(Z[m]) # "&"
      BY <1>2, <1>4, <2>2, OtherBehind
    <3> QED
      BY <1>4, <3>1, <3>2
  <2> QED
    BY <2>1, <2>2
<1>9. Append(SubSeq(Z, 1, d), Y[m]) = Y
  BY <1>4, <1>6, <1>7, <1>8, AllPieces
<1>10. (m - 1 >= MAXCMDS \/ \E n \in 1..(m - 1) : Bad(Z[n]))
          <=> (Len(Y) > MAXCMDS \/ \E n \in 1..d : Bad(Y[n]))
  BY <1>4, <1>6, <1>8
<1>11. (\E n \in 1..Len(Y) : Bad(Y[n])) <=> Bad(Y[m]) \/ \E n \in 1..d : Bad(Y[n])
  <2>1. \A n \in 1..Len(Y) : n = m \/ n \in 1..d
    BY <1>4, <1>6, <1>8
  <2>2. m \in 1..Len(Y) /\ \A n \in 1..d : n \in 1..Len(Y)
    BY <1>4, <1>6, <1>8
  <2> QED
    BY <2>1, <2>2
<1>12. CASE Len(Y) > MAXCMDS \/ \E n \in 1..d : Bad(Y[n])
  <2>1. ByPieces(Z) = Error
    BY <1>4, <1>10, <1>12 DEF ByPieces
  <2>2. Verdict(Y, AtEnd(text)) = Error
    BY <1>11, <1>12 DEF Verdict
  <2> QED
    BY <1>3, <1>4, <1>5, <2>1, <2>2
<1>13. CASE ~(Len(Y) > MAXCMDS \/ \E n \in 1..d : Bad(Y[n]))
  <2>1. Verdict(Y, AtEnd(text)) = IF Bad(Y[m]) THEN Error ELSE Read(Y, AtEnd(text))
    BY <1>11, <1>13 DEF Verdict
  <2>2. CASE AtEnd(text)
    <3>1. Z[m] # << >> /\ Last(Z[m]) = "&" /\ trim_ws(Front(Z[m])) = Y[m]
      BY <1>8, <2>2
    <3>2. ByPieces(Z) = IF Bad(Y[m]) THEN Error ELSE Read(Append(SubSeq(Z, 1, m - 1), Y[m]), TRUE)
      BY <1>4, <1>10, <1>13, <3>1 DEF ByPieces
    <3>3. ByPieces(Z) = IF Bad(Y[m]) THEN Error ELSE Read(Y, TRUE)
      BY <1>4, <1>9, <3>2
    <3>4. Verdict(Y, AtEnd(text)) = IF Bad(Y[m]) THEN Error ELSE Read(Y, TRUE)
      BY <2>1, <2>2 DEF Read
    <3> QED
      BY <1>3, <1>4, <1>5, <3>3, <3>4
  <2>3. CASE ~AtEnd(text) /\ Z[m] # << >>
    <3>1. Z[m] # << >> /\ Last(Z[m]) # "&" /\ Y[m] = Z[m]
      BY <1>8, <2>3
    <3>2. ByPieces(Z) = IF Bad(Y[m]) THEN Error ELSE Read(Append(SubSeq(Z, 1, m - 1), Y[m]), FALSE)
      BY <1>4, <1>10, <1>13, <3>1 DEF ByPieces
    <3>3. ByPieces(Z) = IF Bad(Y[m]) THEN Error ELSE Read(Y, FALSE)
      BY <1>4, <1>9, <3>2
    <3>4. Verdict(Y, AtEnd(text)) = IF Bad(Y[m]) THEN Error ELSE Read(Y, FALSE)
      <4>1. PICK b : b = AtEnd(text)
        OBVIOUS
      <4>2. b = FALSE
        BY <2>3, <4>1, Zenon DEF AtEnd
      <4> QED
        BY <2>1, <4>1, <4>2
    <3> QED
      BY <1>3, <1>4, <1>5, <3>3, <3>4
  <2>4. CASE ~AtEnd(text) /\ Z[m] = << >>
    <3>1. Bad(Y[m])
      BY <1>8, <2>4 DEF Bad
    <3>2. m # 1
      <4>1. ASSUME m = 1 PROVE FALSE
        <5>1. Blank(Split(text).pieces[1])
          <6>2. 1 \in 1..Len(Z)
            BY <1>4, <4>1
          <6>1. Z[1] = trim_ws(Split(text).pieces[1]) /\ Split(text).pieces[1] \in Texts
            BY <1>2, <1>4, <6>2, TextPiecesHas
          <6> QED
            BY <2>4, <4>1, <6>1, TrimType
        <5>2. Len(Split(text).pieces) = 1
          BY <1>2, <1>4, <4>1, TextPiecesHas
        <5>3. Split(text).pieces[1] = text
          BY <1>2, <5>2, OnePiece
        <5>4. text # << >> /\ Last(text) = text[Len(text)] /\ Len(text) \in 1..Len(text)
          BY <1>2, NonEmpty DEF Last, Texts
        <5> QED
          BY <1>1, <1>2, <5>1, <5>3, <5>4 DEF Blank
      <4> QED
        BY <4>1
    <3>3. ByPieces(Z) = Error
      BY <1>4, <1>10, <1>13, <2>4, <3>2 DEF ByPieces
    <3> QED
      BY <1>3, <1>4, <1>5, <2>1, <3>1, <3>3
  <2> QED
    BY <2>2, <2>3, <2>4
<1> QED
  BY <1>12, <1>13

\* And of one that is.
LEMMA ParsedBlank ==
    ASSUME NEW s \in Texts, Blank(s)
    PROVE  parse_line(s) = Read(<< >>, FALSE)
<1>1. PICK Z : Z = TextPieces(s)
  OBVIOUS
<1>2. Len(Split(s).pieces) = 1 /\ Split(s).pieces[1] = s
  BY BlanksAlone
<1>3. Len(Z) = 1 /\ Z[1] = << >>
  <2>1. Len(Z) = 1 /\ 1 \in 1..Len(Z)
    BY <1>1, <1>2, TextPiecesHas
  <2>2. Z[1] = trim_ws(s)
    BY <1>1, <1>2, <2>1, TextPiecesHas
  <2> QED
    BY <2>1, <2>2, TrimBlank
<1>4. MAXCMDS \in Nat \ {0}
  BY ParseLineAssumption
<1>5. ByPieces(Z) = Read(<< >>, FALSE)
  <2>1. ~(Len(Z) - 1 >= MAXCMDS \/ \E n \in 1..(Len(Z) - 1) : Bad(Z[n]))
    BY <1>3, <1>4
  <2>2. Z[Len(Z)] = << >>
    BY <1>3
  <2> QED
    BY <1>3, <2>1, <2>2, Zenon DEF ByPieces
<1> QED
  BY <1>1, <1>5, ParsedByPieces

-----------------------------------------------------------------------------
(* The scanner of parseline *)

\* Its states, for lines of the characters C.
Scans(C) == {p \in [argv : Seq(Seq(C)), mode : {"between", "word"} \union Quotes] :
                p.mode # "between" => p.argv # << >>}

Between == [argv |-> << >>, mode |-> "between"]

\* The state after a line.
Scanned(s, limit) == FoldLeft(LAMBDA p, c : Scan(p, c, limit), Between, s)

\* What a state of the scanner is made of.
LEMMA ScanIs ==
    ASSUME NEW C, NEW a \in Seq(Seq(C)), NEW m \in {"between", "word"} \union Quotes,
           m = "between" \/ a # << >>
    PROVE  [argv |-> a, mode |-> m] \in Scans(C)
<1>1. PICK p : p = [argv |-> a, mode |-> m]
  OBVIOUS
<1>2. p \in [argv : Seq(Seq(C)), mode : {"between", "word"} \union Quotes]
  BY <1>1
<1>3. p.mode # "between" => p.argv # << >>
  BY <1>1
<1> QED
  BY <1>1, <1>2, <1>3, Zenon DEF Scans

\* A step of the scanner: a word or a quoted argument begins, grows or ends.
ScanMoves(p, c, limit, a, n, r) ==
    \/ r = p
    \/ /\ p.mode = "between" /\ ~isspace(c) /\ n < limit
       /\ \/ c \in Quotes /\ r = [argv |-> Append(a, << >>), mode |-> c]
          \/ c \notin Quotes /\ r = [argv |-> Append(a, <<c>>), mode |-> "word"]
    \/ p.mode # "between" /\ r = [argv |-> a, mode |-> "between"]
    \/ p.mode # "between" /\ r = [argv |-> WithEnd(a, Append(a[n], c)), mode |-> p.mode]

\* Scan does one of these.
LEMMA ScanCases ==
    ASSUME NEW C, NEW limit \in Nat, NEW p \in Scans(C), NEW c \in C,
           NEW a, a = p.argv, NEW n, n = Len(a), NEW r, r = Scan(p, c, limit)
    PROVE  ScanMoves(p, c, limit, a, n, r)
<1> USE DEF ScanMoves
<1>1. p \in [argv : Seq(Seq(C)), mode : {"between", "word"} \union Quotes]
  BY DEF Scans
<1>2. n \in Nat
  BY <1>1
<1>3. CASE p.mode = "between" /\ (isspace(c) \/ n >= limit)
  <2>1. r = p
    BY <1>3 DEF Scan
  <2> QED
    BY <2>1
<1>4. CASE p.mode = "between" /\ ~(isspace(c) \/ n >= limit) /\ c \in Quotes
  <2>1. r = [argv |-> Append(a, << >>), mode |-> c]
    BY <1>4 DEF Scan
  <2> QED
    BY <1>2, <1>4, <2>1
<1>5. CASE p.mode = "between" /\ ~(isspace(c) \/ n >= limit) /\ c \notin Quotes
  <2>1. r = [argv |-> Append(a, <<c>>), mode |-> "word"]
    BY <1>5 DEF Scan
  <2> QED
    BY <1>2, <1>5, <2>1
<1>6. CASE p.mode # "between" /\ (p.mode = c \/ (p.mode = "word" /\ isspace(c)))
  <2>1. r = [p EXCEPT !.mode = "between"]
    BY <1>6 DEF Scan
  <2>2. r = [argv |-> a, mode |-> "between"]
    BY <1>1, <2>1
  <2> QED
    BY <1>6, <2>2
<1>7. CASE p.mode # "between" /\ ~(p.mode = c \/ (p.mode = "word" /\ isspace(c)))
  <2>1. r = [p EXCEPT !.argv[Len(p.argv)] = Append(@, c)]
    BY <1>7 DEF Scan
  <2>2. r = [argv |-> WithEnd(a, Append(a[n], c)), mode |-> p.mode]
    BY <1>1, <2>1 DEF WithEnd
  <2> QED
    BY <1>7, <2>2
<1> QED
  BY <1>3, <1>4, <1>5, <1>6, <1>7

\* A step of the scanner goes from a state to a state, and takes no argument away.
LEMMA ScanType ==
    ASSUME NEW C, NEW limit \in Nat, NEW p \in Scans(C), NEW c \in C
    PROVE  /\ Scan(p, c, limit) \in Scans(C)
           /\ Len(p.argv) <= Len(Scan(p, c, limit).argv)
           /\ Len(p.argv) \in Nat /\ Len(Scan(p, c, limit).argv) \in Nat
<1>1. PICK a, n, r : a = p.argv /\ n = Len(a) /\ r = Scan(p, c, limit)
  OBVIOUS
<1>2. /\ a \in Seq(Seq(C)) /\ p.mode \in {"between", "word"} \union Quotes
      /\ p.mode # "between" => a # << >>
  BY <1>1 DEF Scans
<1>3. n \in Nat
  BY <1>1, <1>2
<1>4. CASE r = p
  BY <1>1, <1>3, <1>4
<1>5. CASE p.mode = "between" /\ c \in Quotes /\ r = [argv |-> Append(a, << >>), mode |-> c]
  <2>1. PICK e : e = << >>
    OBVIOUS
  <2>2. e \in Seq(C)
    BY <2>1, EmptySeq
  <2>3. Append(a, e) \in Seq(Seq(C)) /\ Append(a, e) # << >> /\ Len(Append(a, e)) = n + 1
    BY <1>1, <1>2, <2>2, AppendProperties
  <2>4. r \in Scans(C) /\ r.argv = Append(a, e)
    BY <1>5, <2>1, <2>3, ScanIs
  <2> QED
    BY <1>1, <1>3, <2>3, <2>4
<1>6. CASE p.mode = "between" /\ r = [argv |-> Append(a, <<c>>), mode |-> "word"]
  <2>1. PICK e : e = <<c>>
    OBVIOUS
  <2>2. e \in Seq(C)
    BY <2>1
  <2>3. Append(a, e) \in Seq(Seq(C)) /\ Append(a, e) # << >> /\ Len(Append(a, e)) = n + 1
    BY <1>1, <1>2, <2>2, AppendProperties
  <2>4. r \in Scans(C) /\ r.argv = Append(a, e)
    BY <1>6, <2>1, <2>3, ScanIs
  <2> QED
    BY <1>1, <1>3, <2>3, <2>4
<1>7. CASE p.mode # "between" /\ r = [argv |-> a, mode |-> "between"]
  <2>1. r \in Scans(C) /\ r.argv = a
    BY <1>2, <1>7, ScanIs
  <2> QED
    BY <1>1, <1>3, <2>1
<1>8. CASE p.mode # "between" /\ r = [argv |-> WithEnd(a, Append(a[n], c)), mode |-> p.mode]
  <2>1. a # << >> /\ a[n] \in Seq(C)
    BY <1>1, <1>2, <1>8, NonEmpty
  <2>2. Append(a[n], c) \in Seq(C)
    BY <2>1, AppendProperties
  <2>3. PICK x, b : x = Append(a[n], c) /\ b = WithEnd(a, x)
    OBVIOUS
  <2>4. b \in Seq(Seq(C)) /\ b # << >> /\ Len(b) = n
    <3>1. a \in Seq(Seq(C)) /\ x \in Seq(C)
      BY <1>2, <2>2, <2>3
    <3>2. /\ WithEnd(a, x) \in Seq(Seq(C)) /\ WithEnd(a, x) # << >>
          /\ Len(WithEnd(a, x)) = Len(a)
      BY <2>1, <3>1, EndReplaced
    <3> QED
      BY <1>1, <2>3, <3>2
  <2>5. r \in Scans(C) /\ r.argv = b
    BY <1>2, <1>8, <2>3, <2>4, ScanIs
  <2> QED
    BY <1>1, <1>3, <2>4, <2>5
<1>9. ScanMoves(p, c, limit, a, n, r)
  BY <1>1, ScanCases
<1> QED
  BY <1>4, <1>5, <1>6, <1>7, <1>8, <1>9 DEF ScanMoves

\* Scanning is a run of its steps.
LEMMA ScanRun ==
    ASSUME NEW C, NEW limit \in Nat, NEW s \in Seq(C)
    PROVE  \E f \in [0..Len(s) -> Scans(C)] : /\ f[0] = Between /\ Scanned(s, limit) = f[Len(s)]
                                            /\ \A k \in 1..Len(s) : f[k] = Scan(f[k - 1], s[k], limit)
<1>1. PICK n : n = Len(s)
  OBVIOUS
<1>2. n \in Nat /\ DOMAIN s = 1..n /\ \A k \in 1..n : s[k] \in C
  BY <1>1
<1>3. Between \in Scans(C)
  <2>1. << >> \in Seq(Seq(C))
    BY EmptySeq
  <2> QED
    BY <2>1, ScanIs DEF Between
<1> DEFINE fold(g) == g = [T \in SUBSET (1..n) |-> IF T = {} THEN Between
                                    ELSE Scan(g[T \ {Max(T)}], s[Max(T)], limit)]
<1>4. Scanned(s, limit) = (CHOOSE g : fold(g))[1..n]
  <2>1. Scanned(s, limit) = (CHOOSE g : g = [T \in SUBSET (DOMAIN s) |-> IF T = {} THEN Between
                               ELSE Scan(g[T \ {Max(T)}], s[Max(T)], limit)])[DOMAIN s]
    BY DEF Scanned, FoldLeft, MapThenFoldSet
  <2> QED
    BY <1>2, <2>1
<1>5. PICK G : G = [k \in 1..n |-> [p \in Scans(C) |-> Scan(p, s[k], limit)]]
  OBVIOUS
<1>6. G \in [1..n -> [Scans(C) -> Scans(C)]]
  BY <1>2, <1>5, ScanType
<1>7. PICK g \in [SUBSET (1..n) -> Scans(C)] : IsFold(g, n, Between, G)
  BY <1>2, <1>3, <1>6, FoldExists
<1>8. fold(g)
  <2>1. ASSUME NEW T \in SUBSET (1..n), T # {}
        PROVE  g[T] = Scan(g[T \ {Max(T)}], s[Max(T)], limit)
    <3>1. PICK m : m = Max(T)
      OBVIOUS
    <3>2. m \in 1..n /\ T \ {m} \in SUBSET (1..n)
      BY <1>2, <2>1, <3>1, LastIndex
    <3>3. g[T] = G[m][g[T \ {m}]]
      BY <1>7, <2>1, <3>1 DEF IsFold
    <3> QED
      BY <1>5, <1>7, <3>1, <3>2, <3>3
  <2>2. g[{}] = Between
    BY <1>7 DEF IsFold
  <2> QED
    BY <1>7, <2>1, <2>2
<1>9. PICK l : l = CHOOSE r : fold(r)
  OBVIOUS
<1>10. fold(l)
  <2> HIDE DEF fold
  <2> QED
    BY <1>8, <1>9
<1>11. PICK f : f = [k \in 0..n |-> l[1..k]]
  OBVIOUS
<1>12. f[0] = Between
  <2>1. 1..0 = {}
    OBVIOUS
  <2> QED
    BY <1>2, <1>10, <1>11, <2>1
<1>13. ASSUME NEW k \in 1..n
       PROVE  f[k] = Scan(f[k - 1], s[k], limit)
  <2>1. PICK T : T = 1..k
    OBVIOUS
  <2>2. T \in SUBSET (1..n) /\ T # {} /\ k \in T
    <3>1. k \in 1..k /\ \A m \in 1..k : m \in 1..n
      BY <1>2
    <3> QED
      BY <2>1, <3>1
  <2>3. Max(T) = k
    <3>1. Max(T) \in T /\ \A m \in T : m <= Max(T)
      BY <1>2, <2>2, LastIndex
    <3> QED
      BY <2>1, <2>2, <3>1
  <2>4. T \ {k} = 1..(k - 1)
    BY <2>1
  <2>5. l[T] = Scan(l[1..(k - 1)], s[k], limit)
    BY <1>10, <2>2, <2>3, <2>4
  <2> QED
    BY <1>2, <1>11, <2>1, <2>5
<1>14. f \in [0..n -> Scans(C)]
  <2> DEFINE P == {k \in 0..n : f[k] \in Scans(C)}
  <2>1. 0 \in P
    BY <1>2, <1>3, <1>12
  <2>2. ASSUME NEW k \in 0..(n - 1), k \in P
        PROVE  k + 1 \in P
    <3>1. PICK m : m = k + 1
      OBVIOUS
    <3>2. m \in 1..n /\ m - 1 = k /\ f[k] \in Scans(C)
      BY <1>2, <2>2, <3>1
    <3>3. f[m] = Scan(f[k], s[m], limit) /\ s[m] \in C
      BY <1>2, <1>13, <3>2
    <3>4. Scan(f[k], s[m], limit) \in Scans(C)
      BY <3>2, <3>3, ScanType
    <3> QED
      BY <1>2, <3>1, <3>2, <3>3, <3>4
  <2>3. 0..n \subseteq P
    <3> HIDE DEF P
    <3> QED
      BY <1>2, <2>1, <2>2, UpTo
  <2> QED
    BY <1>11, <2>3
<1>15. Scanned(s, limit) = f[n]
  <2>1. Scanned(s, limit) = l[1..n]
    <3> HIDE DEF fold
    <3> QED
      BY <1>4, <1>9
  <2> QED
    BY <1>2, <1>11, <2>1
<1> QED
  BY <1>1, <1>12, <1>13, <1>14, <1>15

\* Scanning a line that grows.
LEMMA ScanGrows ==
    ASSUME NEW C, NEW limit \in Nat
    PROVE
    /\ Scanned(<< >>, limit) = Between
    /\ \A s \in Seq(C) : Scanned(s, limit) \in Scans(C)
    /\ \A s \in Seq(C), c \in C : Scanned(Append(s, c), limit) = Scan(Scanned(s, limit), c, limit)
<1>1. << >> \in Seq(C) /\ Len(<< >>) = 0
  BY EmptySeq
<1>2. Scanned(<< >>, limit) = Between
  <2>1. PICK e : e = << >>
    OBVIOUS
  <2>2. e \in Seq(C)
    BY <1>1, <2>1
  <2>4. Len(e) = 0
    BY <2>1
  <2>3. \E f \in [0..Len(e) -> Scans(C)] :
           /\ f[0] = Between /\ Scanned(e, limit) = f[Len(e)]
           /\ \A k \in 1..Len(e) : f[k] = Scan(f[k - 1], e[k], limit)
    BY <2>2, ScanRun
  <2> QED
    BY <2>1, <2>3, <2>4
<1>3. ASSUME NEW s \in Seq(C)
      PROVE  Scanned(s, limit) \in Scans(C)
  <2>1. Len(s) \in Nat
    OBVIOUS
  <2>2. Len(s) \in 0..Len(s)
    BY <2>1
  <2> QED
    BY <2>2, ScanRun
<1>4. ASSUME NEW s \in Seq(C), NEW c \in C
      PROVE  Scanned(Append(s, c), limit) = Scan(Scanned(s, limit), c, limit)
  <2>1. PICK n, u : n = Len(s) /\ u = Append(s, c)
    OBVIOUS
  <2>2. /\ n \in Nat /\ u \in Seq(C) /\ Len(u) = n + 1 /\ u[n + 1] = c
        /\ \A k \in 1..n : u[k] = s[k]
    BY <2>1, AppendProperties
  <2>3. PICK f \in [0..n -> Scans(C)] : /\ f[0] = Between /\ Scanned(s, limit) = f[n]
                                      /\ \A k \in 1..n : f[k] = Scan(f[k - 1], s[k], limit)
    BY <2>1, ScanRun
  <2>4. PICK g \in [0..(n + 1) -> Scans(C)] :
                     /\ g[0] = Between /\ Scanned(u, limit) = g[n + 1]
                     /\ \A k \in 1..(n + 1) : g[k] = Scan(g[k - 1], u[k], limit)
    <3>1. PICK m : m = Len(u)
      OBVIOUS
    <3>4. u \in Seq(C)
      BY <2>2
    <3>5. \E g \in [0..Len(u) -> Scans(C)] :
             /\ g[0] = Between /\ Scanned(u, limit) = g[Len(u)]
             /\ \A k \in 1..Len(u) : g[k] = Scan(g[k - 1], u[k], limit)
      BY <3>4, ScanRun
    <3>2. \E g \in [0..m -> Scans(C)] : /\ g[0] = Between /\ Scanned(u, limit) = g[m]
                                      /\ \A k \in 1..m : g[k] = Scan(g[k - 1], u[k], limit)
      BY <3>1, <3>5
    <3>3. m = n + 1
      BY <2>2, <3>1
    <3> QED
      BY <3>2, <3>3
  <2>5. SameSteps(f, g, n)
    <3> SUFFICES ASSUME NEW k \in 1..n, f[k - 1] = g[k - 1] PROVE f[k] = g[k]
      BY DEF SameSteps
    <3>1. f[k] = Scan(f[k - 1], s[k], limit) /\ g[k] = Scan(g[k - 1], u[k], limit) /\ u[k] = s[k]
      BY <2>2, <2>3, <2>4
    <3> QED
      BY <3>1
  <2>6. f[n] = g[n]
    <3>2. f[0] = g[0] /\ n \in Nat
      BY <2>2, <2>3, <2>4
    <3>1. Same(f, g, n)
      BY <2>5, <3>2, SameRun
    <3> QED
      BY <2>2, <3>1 DEF Same
  <2>7. g[n + 1] = Scan(g[n], c, limit)
    <3>1. n + 1 \in 1..(n + 1) /\ n + 1 - 1 = n
      BY <2>2
    <3> QED
      BY <2>2, <2>4, <3>1
  <2> QED
    BY <2>1, <2>3, <2>4, <2>6, <2>7
<1> QED
  BY <1>2, <1>3, <1>4

\* The characters of a line that grows.
LEMMA ContainsAppend ==
    ASSUME NEW s \in Texts, NEW c \in LineChars, NEW e
    PROVE  Contains(Append(s, c), e) <=> c = e \/ Contains(s, e)
<1>1. PICK t, n : t = Append(s, c) /\ n = Len(s)
  OBVIOUS
<1>2. /\ Len(t) = n + 1 /\ t[n + 1] = c /\ n \in Nat
      /\ \A k \in 1..n : t[k] = s[k]
  BY <1>1, AppendProperties DEF Texts
<1>3. \A k \in 1..(n + 1) : k = n + 1 \/ k \in 1..n
  BY <1>2
<1>4. \A k \in 1..n : k \in 1..(n + 1)
  BY <1>2
<1>5. n + 1 \in 1..(n + 1)
  BY <1>2
<1> QED
  BY <1>1, <1>2, <1>3, <1>4, <1>5 DEF Contains

\* There is nothing left to trim.
LEMMA TrimTwice ==
    ASSUME NEW s \in Texts
    PROVE  trim_ws(trim_ws(s)) = trim_ws(s)
<1>1. CASE Blank(s)
  <2>1. << >> \in Texts /\ Blank(<< >>)
    BY EmptySeq DEF Texts, Blank
  <2> QED
    BY <1>1, <2>1, TrimBlank
<1>2. CASE ~Blank(s)
  <2>1. PICK i, j \in 1..Len(s) : TextAt(s, i, j)
    BY <1>2, TextFound
  <2>2. TextAt(trim_ws(s), 1, Len(trim_ws(s))) /\ trim_ws(s) \in Texts
    BY <2>1, TrimEnds
  <2> QED
    BY <2>2, TrimSelf
<1> QED
  BY <1>1, <1>2

\* A word that begins is an argument and stays one.
LEMMA WordIsArgument ==
    ASSUME NEW C, NEW limit \in Nat \ {0}, NEW s \in Seq(C), s # << >>, ~isspace(s[1])
    PROVE  ParseUpTo(s, limit) # << >>
<1> DEFINE P == {u \in Seq(C) : u # << >> /\ ~isspace(u[1]) => Len(Scanned(u, limit).argv) # 0}
<1>0. limit \in Nat
  OBVIOUS
<1>1. << >> \in P
  BY EmptySeq
<1>2. ASSUME NEW u \in Seq(C), NEW c \in C, u \in P
      PROVE  Append(u, c) \in P
  <2>1. PICK x, r, n : x = Append(u, c) /\ r = Scanned(u, limit) /\ n = Len(r.argv)
    OBVIOUS
  <2>2. /\ x \in Seq(C) /\ Len(x) = Len(u) + 1 /\ x[Len(u) + 1] = c /\ Len(u) \in Nat
        /\ \A k \in 1..Len(u) : x[k] = u[k]
    BY <2>1, AppendProperties
  <2>3. r \in Scans(C) /\ Scanned(x, limit) = Scan(r, c, limit)
    BY <1>0, <2>1, ScanGrows
  <2>4. n \in Nat /\ Len(Scan(r, c, limit).argv) \in Nat /\ n <= Len(Scan(r, c, limit).argv)
    BY <1>0, <2>1, <2>3, ScanType
  <2>5. ASSUME ~isspace(x[1]) PROVE Len(Scanned(x, limit).argv) # 0
    <3>1. CASE u = << >>
      <4>1. x[1] = c
        BY <2>2, <3>1
      <4>2. r = Between
        BY <1>0, <2>1, <3>1, ScanGrows
      <4>3. /\ ~isspace(c) /\ ~(Len(Between.argv) >= limit) /\ Between.mode = "between"
            /\ Between.argv = << >>
        BY <2>5, <4>1 DEF Between
      <4>4. Scan(r, c, limit) = IF c \in Quotes THEN [argv |-> Append(<< >>, << >>), mode |-> c]
                                ELSE [argv |-> Append(<< >>, <<c>>), mode |-> "word"]
        BY <4>2, <4>3 DEF Scan
      <4>5. Len(Scan(r, c, limit).argv) = 1
        BY <4>4
      <4> QED
        BY <2>3, <4>5
    <3>2. CASE u # << >>
      <4>1. 1 \in 1..Len(u)
        BY <3>2, NonEmpty
      <4>2. ~isspace(u[1])
        BY <2>2, <2>5, <4>1
      <4>3. n # 0
        BY <1>2, <2>1, <3>2, <4>2
      <4> QED
        BY <2>3, <2>4, <4>3
    <3> QED
      BY <3>1, <3>2
  <2> QED
    BY <2>1, <2>2, <2>5
<1>3. Seq(C) \subseteq P
  <2> HIDE DEF P
  <2> QED
    BY <1>1, <1>2, ByAppending
<1>4. Len(Scanned(s, limit).argv) # 0
  BY <1>3
<1>5. ParseUpTo(s, limit) = Scanned(s, limit).argv
  BY DEF ParseUpTo, Scanned, Between
<1>6. Len(<< >>) = 0
  OBVIOUS
<1> QED
  BY <1>4, <1>5, <1>6

-----------------------------------------------------------------------------
(* The theorems about lines *)

\* Lines are typed character by character.
LEMMA LinesAreTexts == Spec => [](line \in Texts)
<1>1. Init => line \in Texts
  BY EmptySeq DEF Init, Texts
<1>2. line \in Texts /\ [Next]_vars => (line \in Texts)'
  <2> SUFFICES ASSUME line \in Texts, [Next]_vars PROVE line' \in Texts
    OBVIOUS
  <2>1. ASSUME NEW c \in LineChars, Type(c) PROVE line' \in Texts
    BY <2>1, AppendProperties DEF Type, Texts
  <2>2. ASSUME NEW c \in IdChars, TypeId(c) PROVE line' \in Texts
    BY <2>2 DEF TypeId
  <2>3. CASE UNCHANGED vars
    BY <2>3 DEF vars
  <2> QED
    BY <2>1, <2>2, <2>3 DEF Next
<1> QED
  BY <1>1, <1>2, PTL DEF Spec

\* The segments that parse_line reads are texts that begin with a character.
LEMMA SegmentsAreTexts ==
    ASSUME NEW s \in Texts, NEW segments, segments = parse_line(s).segments,
           NEW k \in DOMAIN segments
    PROVE  segments[k] \in Texts /\ segments[k] # << >> /\ ~isspace(segments[k][1])
<1>1. ~Blank(s)
  <2>1. ASSUME Blank(s) PROVE FALSE
    <3>1. parse_line(s).segments = << >>
      BY <2>1, ParsedBlank DEF Read
    <3> QED
      BY <3>1
  <2> QED
    BY <2>1
<1>2. PICK text, t, Y, bg : /\ text = trim_ws(s) /\ t = Command(text) /\ Y = TextPieces(t)
                            /\ bg = AtEnd(text)
  OBVIOUS
<1>3. parse_line(s) = Verdict(Y, bg) /\ t \in Texts
  BY <1>1, <1>2, ParsedText
<1>4. ~(Len(Y) > MAXCMDS \/ \E n \in 1..Len(Y) : Bad(Y[n]))
  <2>1. ASSUME Len(Y) > MAXCMDS \/ \E n \in 1..Len(Y) : Bad(Y[n]) PROVE FALSE
    <3>1. segments = << >>
      BY <1>3, <2>1 DEF Verdict, Error
    <3> QED
      BY <3>1
  <2> QED
    BY <2>1
<1>5. segments = Y
  BY <1>3, <1>4 DEF Verdict, Read
<1>6. /\ Y \in Seq(Texts)
      /\ \A n \in 1..Len(Y) : Y[n] = trim_ws(Split(t).pieces[n]) /\ Split(t).pieces[n] \in Texts
  BY <1>2, <1>3, TextPiecesHas
<1>7. k \in 1..Len(Y)
  BY <1>5, <1>6
<1>8. PICK p : p = Split(t).pieces[k]
  OBVIOUS
<1>9. Y[k] = trim_ws(p) /\ p \in Texts /\ ~Bad(Y[k])
  BY <1>4, <1>6, <1>7, <1>8
<1>10. Y[k] # << >> /\ ~Blank(p)
  BY <1>9, TrimType DEF Bad
<1>11. PICK i, j \in 1..Len(p) : TextAt(p, i, j)
  BY <1>9, <1>10, TextFound
<1>12. trim_ws(p)[1] = p[i]
  BY <1>9, <1>11, TrimEnds
<1>13. ~isspace(p[i])
  BY <1>11 DEF TextAt
<1> QED
  BY <1>5, <1>9, <1>10, <1>12, <1>13, TrimType

\* What parse_line (phase3/myshell.c) accepts has a command in each segment: parseline, which
\* has other rules for quotes, finds an argument in every one.
THEOREM SegmentsHaveCommands == Spec => []EverySegmentHasACommand
<1>1. ASSUME line \in Texts PROVE EverySegmentHasACommand
  <2>1. ASSUME NEW k \in DOMAIN parse_line(line).segments
        PROVE  parseline3(parse_line(line).segments[k]) # << >>
    <3>1. PICK segments, seg : segments = parse_line(line).segments /\ seg = segments[k]
      OBVIOUS
    <3>2. seg \in Texts /\ seg # << >> /\ ~isspace(seg[1])
      BY <1>1, <2>1, <3>1, SegmentsAreTexts
    <3>3. PICK limit : limit = MAXARGS - 1
      OBVIOUS
    <3>4. limit \in Nat \ {0}
      BY <3>3, ParseLineAssumption
    <3>5. ParseUpTo(seg, limit) # << >>
      BY <3>2, <3>4, WordIsArgument DEF Texts
    <3> QED
      BY <3>1, <3>3, <3>5 DEF parseline3
  <2> QED
    BY <2>1 DEF EverySegmentHasACommand
<1> QED
  BY <1>1, LinesAreTexts, PTL

\* A character that is neither blank nor a bar is in a line if and only if it is in a piece.
LEMMA PiecesHold ==
    ASSUME NEW s \in Texts, NEW e, e # "|", ~isspace(e), NEW Z, Z = TextPieces(s)
    PROVE  Contains(s, e) <=> \E n \in 1..Len(Z) : Contains(Z[n], e)
<1> DEFINE Q(u) == \E n \in 1..Len(Split(u).pieces) : Contains(Split(u).pieces[n], e)
           P == {u \in Texts : Contains(u, e) <=> Q(u)}
<1>1. << >> \in P
  <2>1. << >> \in Texts
    BY EmptySeq DEF Texts
  <2>2. Whole.pieces[1] = << >> /\ Len(Whole.pieces) = 1
    BY DEF Whole
  <2>3. ~Contains(<< >>, e)
    BY DEF Contains
  <2>4. ~Q(<< >>)
    BY <2>2, <2>3, SplitGrows
  <2> QED
    BY <2>1, <2>3, <2>4
<1>2. ASSUME NEW u \in Texts, NEW c \in LineChars, u \in P
      PROVE  Append(u, c) \in P
  <2>1. PICK x, r, R, X, m : /\ x = Append(u, c) /\ r = Split(u) /\ R = r.pieces
                             /\ X = Split(x).pieces /\ m = Len(R)
    OBVIOUS
  <2>2. x \in Texts /\ (Contains(x, e) <=> c = e \/ Contains(u, e))
    BY <2>1, ContainsAppend, AppendProperties DEF Texts
  <2>3. r \in Splits /\ Split(x) = SplitStep(r, c)
    BY <2>1, SplitGrows
  <2>4. m \in Nat \ {0} /\ \A n \in 1..m : R[n] \in Texts
    BY <2>1, <2>3, SplitHas
  <2>5. Contains(u, e) <=> \E n \in 1..m : Contains(R[n], e)
    BY <1>2, <2>1
  <2>6. Contains(x, e) <=> \E n \in 1..Len(X) : Contains(X[n], e)
    <3>1. CASE c = "|" /\ r.quote = NoQuote
      <4>1. AnotherPiece(R, X)
        BY <2>1, <2>3, <3>1, SplitBar
      <4>2. Len(X) = m + 1 /\ X[m + 1] = << >> /\ \A n \in 1..m : X[n] = R[n]
        BY <2>1, <4>1 DEF AnotherPiece
      <4>3. ~Contains(<< >>, e)
        BY DEF Contains
      <4>4. \A n \in 1..(m + 1) : n = m + 1 \/ n \in 1..m
        BY <2>4
      <4>5. \A n \in 1..m : n \in 1..(m + 1)
        BY <2>4
      <4>6. (\E n \in 1..Len(X) : Contains(X[n], e)) <=> \E n \in 1..m : Contains(R[n], e)
        BY <4>2, <4>3, <4>4, <4>5
      <4> QED
        BY <2>2, <2>5, <3>1, <4>6
    <3>2. CASE ~(c = "|" /\ r.quote = NoQuote)
      <4>1. LastGrows(R, X, c)
        BY <2>1, <2>3, <3>2, SplitChar
      <4>2. Len(X) = m /\ X[m] = Append(R[m], c) /\ \A n \in 1..(m - 1) : X[n] = R[n]
        BY <2>1, <4>1 DEF LastGrows
      <4>3. \A n \in 1..m : n = m \/ n \in 1..(m - 1)
        BY <2>4
      <4>4. m \in 1..m
        BY <2>4
      <4>5. Contains(X[m], e) <=> c = e \/ Contains(R[m], e)
        <5>1. R[m] \in Texts
          BY <2>4, <4>4
        <5> QED
          BY <4>2, <5>1, ContainsAppend
      <4>6. (\E n \in 1..m : Contains(X[n], e)) <=> c = e \/ \E n \in 1..m : Contains(R[n], e)
        BY <4>2, <4>3, <4>4, <4>5
      <4> QED
        BY <2>2, <2>5, <4>2, <4>6
    <3> QED
      BY <3>1, <3>2
  <2> QED
    BY <2>1, <2>2, <2>6
<1>3. Texts \subseteq P
  <2> HIDE DEF P
  <2> QED
    BY <1>1, <1>2, ByAppending DEF Texts
<1>4. /\ Len(Z) = Len(Split(s).pieces)
      /\ \A n \in 1..Len(Z) : Z[n] = trim_ws(Split(s).pieces[n]) /\ Split(s).pieces[n] \in Texts
  BY TextPiecesHas
<1>5. \A n \in 1..Len(Z) : Contains(Z[n], e) <=> Contains(Split(s).pieces[n], e)
  BY <1>4, TrimKeeps
<1> QED
  BY <1>3, <1>4, <1>5

\* A line that parse_line accepts, without the & at its end and the blanks around it, is
\* accepted too and has the same segments.
LEMMA JobReads ==
    ASSUME NEW s \in Texts, parse_line(s).ok
    PROVE  parse_line(normalize_jobcmd(s)) = Read(parse_line(s).segments, FALSE)
<1>1. CASE Blank(s)
  <2>1. trim_ws(s) = << >> /\ parse_line(s) = Read(<< >>, FALSE)
    BY <1>1, TrimBlank, ParsedBlank
  <2>2. normalize_jobcmd(s) = << >>
    BY <2>1 DEF normalize_jobcmd
  <2>3. << >> \in Texts /\ Blank(<< >>)
    BY EmptySeq DEF Texts, Blank
  <2>4. parse_line(<< >>) = Read(<< >>, FALSE)
    BY <2>3, ParsedBlank
  <2>5. Read(<< >>, FALSE).segments = << >>
    BY DEF Read
  <2> QED
    BY <2>1, <2>2, <2>4, <2>5
<1>2. CASE ~Blank(s)
  <2>1. PICK text, t, Y, bg, u : /\ text = trim_ws(s) /\ t = Command(text) /\ Y = TextPieces(t)
                                 /\ bg = AtEnd(text) /\ u = trim_ws(t)
    OBVIOUS
  <2>2. parse_line(s) = Verdict(Y, bg) /\ t \in Texts
    BY <1>2, <2>1, ParsedText
  <2>3. ~(Len(Y) > MAXCMDS \/ \E n \in 1..Len(Y) : Bad(Y[n]))
    <3>1. ASSUME Len(Y) > MAXCMDS \/ \E n \in 1..Len(Y) : Bad(Y[n]) PROVE FALSE
      BY <2>2, <3>1 DEF Verdict, Error
    <3> QED
      BY <3>1
  <2>4. parse_line(s).segments = Y
    BY <2>2, <2>3 DEF Verdict, Read
  <2>5. normalize_jobcmd(s) = u
    <3>1. text \in Texts /\ text # << >>
      BY <1>2, <2>1, TextIs
    <3>2. CASE Last(text) = "&"
      BY <2>1, <3>1, <3>2 DEF normalize_jobcmd, Command, AtEnd
    <3>3. CASE Last(text) # "&"
      <4>1. t = text /\ normalize_jobcmd(s) = text
        BY <2>1, <3>1, <3>3 DEF normalize_jobcmd, Command, AtEnd
      <4>2. trim_ws(text) = text
        BY <2>1, TrimTwice
      <4> QED
        BY <2>1, <4>1, <4>2
    <3> QED
      BY <3>2, <3>3
  <2>6. Len(Y) \in Nat \ {0} /\ Len(Y) = Len(Split(t).pieces)
    BY <2>1, <2>2, TextPiecesHas
  <2>7. ~Blank(t)
    <3>1. ASSUME Blank(t) PROVE FALSE
      <4>1. Len(Split(t).pieces) = 1 /\ Split(t).pieces[1] = t
        BY <2>2, <3>1, BlanksAlone
      <4>2. 1 \in 1..Len(Y)
        BY <2>6, <4>1
      <4>3. Y[1] = trim_ws(t)
        <5>1. Y[1] = trim_ws(Split(t).pieces[1])
          BY <2>1, <2>2, <4>2, TextPiecesHas
        <5> QED
          BY <4>1, <5>1
      <4>4. Bad(Y[1])
        BY <2>2, <3>1, <4>3, TrimBlank DEF Bad
      <4> QED
        BY <2>3, <4>2, <4>4
    <3> QED
      BY <3>1
  <2>8. u \in Texts /\ u # << >> /\ trim_ws(u) = u
    BY <2>1, <2>2, <2>7, TrimType, TrimTwice
  <2>9. ~Blank(u)
    BY <2>8, TrimType
  <2>10. ~AtEnd(u)
    <3>1. "&" # "|" /\ ~isspace("&")
      BY DEF isspace, Blanks, Separators
    <3>2. ~Contains(t, "&")
      BY <2>1, <2>2, <2>3, <3>1, PiecesHold DEF Bad
    <3>3. ~Contains(u, "&")
      BY <2>1, <2>2, <3>1, <3>2, TrimKeeps
    <3>4. Len(u) \in 1..Len(u)
      BY <2>8, NonEmpty DEF Texts
    <3> QED
      BY <3>3, <3>4 DEF Contains, AtEnd, Last
  <2>11. Command(u) = u
    BY <2>10 DEF Command
  <2>12. TextPieces(u) = Y
    BY <2>1, <2>2, TextHasThePieces
  <2>13. parse_line(u) = Verdict(TextPieces(Command(u)), AtEnd(u))
    BY <2>8, <2>9, ParsedText
  <2>14. Verdict(TextPieces(Command(u)), AtEnd(u)) = Read(Y, AtEnd(u))
    BY <2>3, <2>11, <2>12, Zenon DEF Verdict
  <2>15. AtEnd(u) = FALSE
    BY <2>10, Zenon DEF AtEnd
  <2> QED
    BY <2>4, <2>5, <2>13, <2>14, <2>15
<1> QED
  BY <1>1, <1>2

\* The command line of a job (normalize_jobcmd of phase3/myshell.c), typed again, is the same
\* pipeline in the foreground.
THEOREM JobCommandsReread == Spec => []JobCommandReadsTheSame
<1>1. ASSUME line \in Texts PROVE JobCommandReadsTheSame
  BY <1>1, JobReads DEF JobCommandReadsTheSame
<1> QED
  BY <1>1, LinesAreTexts, PTL

-----------------------------------------------------------------------------
(* Quotes in pairs *)

\* The quote that is open after a character, and after each of a line.
NextQuote(q, c) == IF c \in Quotes THEN IF q = NoQuote THEN c ELSE IF q = c THEN NoQuote ELSE q
                   ELSE q
QuotesAlong(s, q) == q[0] = NoQuote /\ \A k \in 1..Len(s) : q[k] = NextQuote(q[k - 1], s[k])

\* The quote of a step of Split.
LEMMA SplitQuote ==
    ASSUME NEW p \in Splits, NEW c \in LineChars
    PROVE  SplitStep(p, c).quote = NextQuote(p.quote, c)
<1>1. CASE c = "|" /\ p.quote = NoQuote
  <2>1. SplitStep(p, c).quote = NoQuote
    BY <1>1, SplitBar
  <2> QED
    BY <1>1, <2>1 DEF NextQuote, Quotes
<1>2. CASE ~(c = "|" /\ p.quote = NoQuote)
  <2>1. SplitStep(p, c).quote = IF c \in Quotes THEN ToggleQuote(p, c) ELSE p.quote
    BY <1>2, SplitChar
  <2> QED
    BY <2>1 DEF NextQuote, ToggleQuote
<1> QED
  BY <1>1, <1>2

\* The quotes along a line, up to the one that Split leaves open.
LEMMA QuotesFound ==
    ASSUME NEW s \in Texts
    PROVE  \E q : QuotesAlong(s, q)
<1>1. PICK n : n = Len(s)
  OBVIOUS
<1>2. n \in Nat /\ \A k \in 1..n : s[k] \in LineChars
  BY <1>1 DEF Texts
<1>3. PICK f \in [0..n -> Splits] : /\ f[0] = Whole
                                    /\ \A k \in 1..n : f[k] = SplitStep(f[k - 1], s[k])
  BY <1>1, SplitRun
<1>4. PICK q : q = [k \in 0..n |-> f[k].quote]
  OBVIOUS
<1>5. q[0] = NoQuote
  BY <1>2, <1>3, <1>4 DEF Whole
<1>6. ASSUME NEW k \in 1..n PROVE q[k] = NextQuote(q[k - 1], s[k])
  <2>1. k \in 0..n /\ k - 1 \in 0..n
    BY <1>2
  <2>2. PICK p, c : p = f[k - 1] /\ c = s[k]
    OBVIOUS
  <2>3. p \in Splits /\ c \in LineChars /\ f[k] = SplitStep(p, c)
    BY <1>2, <1>3, <2>1, <2>2
  <2>4. SplitStep(p, c).quote = NextQuote(p.quote, c)
    BY <2>3, SplitQuote
  <2> QED
    BY <1>4, <2>1, <2>2, <2>3, <2>4
<1> QED
  BY <1>1, <1>5, <1>6 DEF QuotesAlong

\* They end with it.
LEMMA QuoteAtEnd ==
    ASSUME NEW s \in Texts, NEW q, QuotesAlong(s, q)
    PROVE  Split(s).quote = q[Len(s)]
<1>1. PICK n : n = Len(s)
  OBVIOUS
<1>2. n \in Nat /\ \A k \in 1..n : s[k] \in LineChars
  BY <1>1 DEF Texts
<1>3. PICK f \in [0..n -> Splits] : /\ f[0] = Whole /\ Split(s) = f[n]
                                    /\ \A k \in 1..n : f[k] = SplitStep(f[k - 1], s[k])
  BY <1>1, SplitRun
<1>4. PICK r : r = [k \in 0..n |-> f[k].quote]
  OBVIOUS
<1>5. r[0] = q[0]
  BY <1>2, <1>3, <1>4 DEF Whole, QuotesAlong
<1>6. ASSUME NEW k \in 1..n, r[k - 1] = q[k - 1] PROVE r[k] = q[k]
  <2>1. k \in 0..n /\ k - 1 \in 0..n
    BY <1>2
  <2>2. PICK p, c : p = f[k - 1] /\ c = s[k]
    OBVIOUS
  <2>3. p \in Splits /\ c \in LineChars /\ f[k] = SplitStep(p, c)
    BY <1>2, <1>3, <2>1, <2>2
  <2>4. SplitStep(p, c).quote = NextQuote(p.quote, c)
    BY <2>3, SplitQuote
  <2>5. q[k] = NextQuote(q[k - 1], s[k])
    BY <1>1 DEF QuotesAlong
  <2> QED
    BY <1>4, <1>6, <2>1, <2>2, <2>3, <2>4, <2>5
<1>7. SameSteps(r, q, n)
  BY <1>6 DEF SameSteps
<1>8. Same(r, q, n)
  BY <1>2, <1>5, <1>7, SameRun
<1>9. r[n] = q[n]
  BY <1>2, <1>8 DEF Same
<1> QED
  BY <1>1, <1>2, <1>3, <1>4, <1>9

\* Behind a place where no quote is open, the rest of the line leaves open what the line does.
LEMMA QuoteOfRest ==
    ASSUME NEW s \in Texts, NEW q, QuotesAlong(s, q), NEW k \in 0..Len(s), q[k] = NoQuote
    PROVE  Split(SubSeq(s, k + 1, Len(s))).quote = q[Len(s)] /\ SubSeq(s, k + 1, Len(s)) \in Texts
           /\ Len(SubSeq(s, k + 1, Len(s))) = Len(s) - k
<1>1. PICK n, t, r : n = Len(s) /\ t = SubSeq(s, k + 1, n) /\ r = [m \in 0..(n - k) |-> q[m + k]]
  OBVIOUS
<1>2. n \in Nat /\ k \in 0..n
  BY <1>1 DEF Texts
<1>3. k + 1 \in 1..(n + 1) /\ n \in (k + 1 - 1)..n /\ n - (k + 1) + 1 = n - k
  BY <1>2
<1>4. t \in Texts /\ Len(t) = n - k /\ \A m \in 1..(n - k) : t[m] = s[m + k]
  <2>1. t \in Texts /\ Len(t) = n - (k + 1) + 1
        /\ \A m \in 1..(n - (k + 1) + 1) : t[m] = s[m + (k + 1) - 1]
    BY <1>1, <1>3, PartIs
  <2>2. \A m \in 1..(n - k) : m + (k + 1) - 1 = m + k
    BY <1>2
  <2> QED
    BY <1>3, <2>1, <2>2
<1>5. r[0] = NoQuote
  BY <1>1, <1>2
<1>6. ASSUME NEW m \in 1..(n - k) PROVE r[m] = NextQuote(r[m - 1], t[m])
  <2>1. PICK j : j = m + k
    OBVIOUS
  <2>2. j \in 1..n /\ m \in 0..(n - k) /\ m - 1 \in 0..(n - k) /\ m - 1 + k = j - 1
    BY <1>2, <2>1
  <2>3. q[j] = NextQuote(q[j - 1], s[j])
    BY <1>1, <2>2 DEF QuotesAlong
  <2>4. r[m] = q[j] /\ r[m - 1] = q[j - 1] /\ t[m] = s[j]
    BY <1>1, <1>4, <2>1, <2>2
  <2> QED
    BY <2>3, <2>4
<1>7. QuotesAlong(t, r)
  BY <1>4, <1>5, <1>6 DEF QuotesAlong
<1>8. Split(t).quote = r[n - k]
  BY <1>4, <1>7, QuoteAtEnd
<1>9. r[n - k] = q[n]
  BY <1>1, <1>2
<1> QED
  BY <1>1, <1>4, <1>8, <1>9

\* A quote is open until the same one comes.
LEMMA InsideQuotes ==
    ASSUME NEW s \in Texts, NEW q, QuotesAlong(s, q), NEW k \in 1..Len(s), s[1] \in Quotes,
           \A m \in 2..k : s[m] # s[1]
    PROVE  q[k] = s[1]
<1> DEFINE P == {m \in 0..k : m = 0 \/ q[m] = s[1]}
<1>1. k \in Nat /\ Len(s) \in Nat /\ k <= Len(s)
  BY DEF Texts
<1>2. 0 \in P
  BY <1>1
<1>3. ASSUME NEW m \in 0..(k - 1), m \in P PROVE m + 1 \in P
  <2>1. PICK j : j = m + 1
    OBVIOUS
  <2>2. j \in 1..Len(s) /\ j \in 0..k /\ j - 1 = m
    BY <1>1, <2>1
  <2>3. q[j] = NextQuote(q[m], s[j])
    BY <2>2 DEF QuotesAlong
  <2>4. CASE m = 0
    <3>1. q[m] = NoQuote /\ s[j] = s[1]
      BY <2>1, <2>4 DEF QuotesAlong
    <3> QED
      BY <2>1, <2>2, <2>3, <3>1 DEF NextQuote
  <2>5. CASE m # 0
    <3>1. q[m] = s[1] /\ s[j] # s[1] /\ s[1] # NoQuote
      BY <1>1, <1>3, <2>1, <2>2, <2>5 DEF Quotes, NoQuote
    <3> QED
      BY <2>1, <2>2, <2>3, <3>1 DEF NextQuote
  <2> QED
    BY <2>4, <2>5
<1>4. 0..k \subseteq P
  <2> HIDE DEF P
  <2> QED
    BY <1>1, <1>2, <1>3, UpTo
<1>5. k \in 0..k /\ k # 0
  BY <1>1
<1> QED
  BY <1>4, <1>5

\* What Balanced says of a line, when it is B for the shorter ones.
PairsUp(B, s) ==
    \/ s = << >>
    \/ s[1] \notin Quotes /\ B[Tail(s)]
    \/ \E k \in 2..Len(s) : /\ s[1] \in Quotes /\ s[k] = s[1]
                            /\ \A m \in 2..(k - 1) : s[m] # s[1]
                            /\ B[SubSeq(s, k + 1, Len(s))]
Agree(B, s) == \A u \in Texts : Len(u) < Len(s) => (B[u] <=> Split(u).quote = NoQuote)

\* It says that no quote is open at the end.
LEMMA PairsUpMeans ==
    ASSUME NEW s \in Texts, NEW B, Agree(B, s)
    PROVE  PairsUp(B, s) <=> Split(s).quote = NoQuote
<1>1. PICK n, q : n = Len(s) /\ QuotesAlong(s, q)
  BY QuotesFound
<1>2. n \in Nat /\ Split(s).quote = q[n]
  BY <1>1, QuoteAtEnd DEF Texts
<1>3. CASE s = << >>
  <2>1. Split(s).quote = NoQuote
    BY <1>3, SplitGrows DEF Whole
  <2> QED
    BY <1>3, <2>1 DEF PairsUp
<1>4. ASSUME s # << >>, s[1] \notin Quotes
      PROVE  PairsUp(B, s) <=> Split(s).quote = NoQuote
  <2>1. n >= 1
    BY <1>1, <1>4, NonEmpty DEF Texts
  <2>2. PICK u : u = SubSeq(s, 2, n)
    OBVIOUS
  <2>3. Tail(s) = u
    BY <1>1, <1>2, <1>4, <2>1, <2>2 DEF Texts
  <2>4. q[1] = NoQuote
    BY <1>1, <1>4, <2>1 DEF QuotesAlong, NextQuote
  <2>5. Split(u).quote = q[n] /\ u \in Texts /\ Len(u) = n - 1
    <3>1. PICK k : k = 1
      OBVIOUS
    <3>2. k \in 0..Len(s) /\ q[k] = NoQuote /\ SubSeq(s, k + 1, Len(s)) = u
      BY <1>1, <1>2, <2>1, <2>2, <2>4, <3>1
    <3> QED
      BY <1>1, <3>1, <3>2, QuoteOfRest
  <2>6. B[u] <=> Split(u).quote = NoQuote
    BY <1>1, <1>2, <2>5 DEF Agree
  <2> QED
    BY <1>2, <1>4, <2>3, <2>5, <2>6 DEF PairsUp
<1>5. ASSUME s # << >>, s[1] \in Quotes
      PROVE  PairsUp(B, s) <=> Split(s).quote = NoQuote
  <2>1. n >= 1 /\ 1 \in 1..n
    BY <1>1, <1>5, NonEmpty DEF Texts
  <2>2. s[1] # NoQuote
    BY <1>5 DEF Quotes, NoQuote
  <2>3. ASSUME NEW k \in 2..n, s[k] = s[1], \A m \in 2..(k - 1) : s[m] # s[1]
        PROVE  B[SubSeq(s, k + 1, n)] <=> Split(s).quote = NoQuote
    <3>1. PICK j, u : j = k - 1 /\ u = SubSeq(s, k + 1, n)
      OBVIOUS
    <3>2. j \in 1..n /\ k \in 1..n /\ k \in 0..n /\ \A m \in 2..j : s[m] # s[1]
      BY <1>2, <2>3, <3>1
    <3>3. q[j] = s[1]
      BY <1>1, <1>5, <3>2, InsideQuotes
    <3>4. q[k] = NextQuote(q[j], s[k])
      BY <1>1, <3>1, <3>2 DEF QuotesAlong
    <3>5. q[k] = NoQuote
      BY <1>5, <2>2, <2>3, <3>3, <3>4 DEF NextQuote
    <3>6. Split(u).quote = q[n] /\ u \in Texts /\ Len(u) = n - k
      BY <1>1, <3>1, <3>2, <3>5, QuoteOfRest
    <3>7. Len(u) < Len(s)
      BY <1>1, <1>2, <3>2, <3>6
    <3> QED
      BY <1>2, <3>1, <3>6, <3>7 DEF Agree
  <2>4. ASSUME PairsUp(B, s) PROVE Split(s).quote = NoQuote
    <3>1. PICK k \in 2..n : /\ s[k] = s[1] /\ \A m \in 2..(k - 1) : s[m] # s[1]
                            /\ B[SubSeq(s, k + 1, n)]
      BY <1>1, <1>5, <2>4 DEF PairsUp
    <3> QED
      BY <2>3, <3>1
  <2>5. ASSUME Split(s).quote = NoQuote PROVE PairsUp(B, s)
    <3>1. PICK T : T = {k \in 1..n : k # 1 /\ s[k] = s[1]}
      OBVIOUS
    <3>2. T \in SUBSET (1..n)
      BY <3>1
    <3>3. CASE T = {}
      <4>1. \A m \in 2..n : s[m] # s[1]
        BY <1>2, <3>1, <3>3
      <4>2. q[n] = s[1]
        BY <1>1, <1>2, <1>5, <2>1, <4>1, InsideQuotes
      <4> QED
        BY <1>2, <2>2, <2>5, <4>2
    <3>4. CASE T # {}
      <4>1. PICK k : k = Min(T)
        OBVIOUS
      <4>2. k \in T /\ \A m \in T : k <= m
        BY <1>2, <3>2, <3>4, <4>1, FirstIndex
      <4>3. k \in 2..n /\ s[k] = s[1] /\ \A m \in 2..(k - 1) : s[m] # s[1]
        BY <1>2, <3>1, <4>2
      <4>4. B[SubSeq(s, k + 1, n)]
        BY <2>3, <2>5, <4>3
      <4> QED
        BY <1>1, <1>5, <4>3, <4>4 DEF PairsUp
    <3> QED
      BY <3>3, <3>4
  <2> QED
    BY <2>4, <2>5
<1> QED
  BY <1>3, <1>4, <1>5

\* So there is such a function of lines, and Balanced is it.
LEMMA BalancedIs ==
    ASSUME NEW s \in Texts
    PROVE  Balanced[s] = PairsUp(Balanced, s)
<1> DEFINE means(B) == B = [u \in Seq(LineChars) |->
                      \/ u = << >>
                      \/ u[1] \notin Quotes /\ B[Tail(u)]
                      \/ \E k \in 2..Len(u) : /\ u[1] \in Quotes /\ u[k] = u[1]
                                              /\ \A m \in 2..(k - 1) : u[m] # u[1]
                                              /\ B[SubSeq(u, k + 1, Len(u))]]
<1>1. Balanced = CHOOSE B : means(B)
  BY DEF Balanced
<1>2. PICK W : W = [u \in Texts |-> Split(u).quote = NoQuote]
  OBVIOUS
<1>3. \A u \in Texts : W[u] = (Split(u).quote = NoQuote)
  BY <1>2
<1>4. ASSUME NEW u \in Texts PROVE W[u] = PairsUp(W, u)
  <2>1. Agree(W, u)
    BY <1>3 DEF Agree
  <2>2. PairsUp(W, u) <=> Split(u).quote = NoQuote
    BY <2>1, PairsUpMeans
  <2>3. PairsUp(W, u) \in BOOLEAN
    BY DEF PairsUp
  <2> QED
    BY <1>3, <2>2, <2>3
<1>5. means(W)
  <2>1. W = [u \in Texts |-> W[u]]
    BY <1>2
  <2>2. W = [u \in Texts |-> PairsUp(W, u)]
    BY <1>4, <2>1, Zenon
  <2> QED
    BY <2>2 DEF PairsUp, Texts
<1>6. means(Balanced)
  <2> HIDE DEF means
  <2> QED
    BY <1>1, <1>5
<1>7. PICK B : B = Balanced
  OBVIOUS
<1>8. B = [u \in Seq(LineChars) |-> PairsUp(B, u)]
  BY <1>6, <1>7 DEF PairsUp
<1> QED
  BY <1>7, <1>8 DEF Texts

\* A line is balanced if no quote is open at its end.
LEMMA BalancedMeans ==
    ASSUME NEW s \in Texts
    PROVE  Balanced[s] <=> Split(s).quote = NoQuote
<1> DEFINE ok(u) == Balanced[u] <=> Split(u).quote = NoQuote
           P == {k \in 0..Len(s) : \A u \in Texts : Len(u) <= k => ok(u)}
<1>1. ASSUME NEW u \in Texts, \A v \in Texts : Len(v) < Len(u) => ok(v)
      PROVE  ok(u)
  <2>1. Agree(Balanced, u)
    BY <1>1 DEF Agree
  <2>2. PairsUp(Balanced, u) <=> Split(u).quote = NoQuote
    BY <2>1, PairsUpMeans
  <2> QED
    BY <2>2, BalancedIs
<1>2. Len(s) \in Nat /\ \A u \in Texts : Len(u) \in Nat
  BY DEF Texts
<1>3. 0 \in P
  <2> HIDE DEF ok
  <2> QED
    BY <1>1, <1>2
<1>4. ASSUME NEW k \in 0..(Len(s) - 1), k \in P PROVE k + 1 \in P
  <2> HIDE DEF ok
  <2>1. ASSUME NEW u \in Texts, Len(u) <= k + 1 PROVE ok(u)
    <3>1. \A v \in Texts : Len(v) < Len(u) => Len(v) <= k
      BY <1>2, <2>1
    <3> QED
      BY <1>1, <1>4, <3>1
  <2> QED
    BY <1>2, <1>4, <2>1
<1>5. 0..Len(s) \subseteq P
  <2> HIDE DEF P
  <2> QED
    BY <1>2, <1>3, <1>4, UpTo
<1> QED
  BY <1>2, <1>5

-----------------------------------------------------------------------------
(* What is between the bars *)

\* The numbers of E, in order.
InOrder(cut, N, E) ==
    /\ \A i \in 1..N : cut[i] \in Nat
    /\ \A i, j \in 1..N : i < j => cut[i] < cut[j]
    /\ E = {cut[i] : i \in 1..N}

\* The first k of them.
FirstOf(cut, k) == {cut[i] : i \in 1..k}

\* They are k.
LEMMA FirstOfThem ==
    ASSUME NEW N \in Nat, NEW cut, NEW E, InOrder(cut, N, E), NEW k \in 0..N
    PROVE  IsFiniteSet(FirstOf(cut, k)) /\ Cardinality(FirstOf(cut, k)) = k
<1> DEFINE First(m) == FirstOf(cut, m)
           P == {m \in 0..N : IsFiniteSet(First(m)) /\ Cardinality(First(m)) = m}
<1>1. 0 \in P
  <2>1. First(0) = {}
    BY DEF FirstOf
  <2> QED
    BY <2>1, FS_EmptySet
<1>2. ASSUME NEW m \in 0..(N - 1), m \in P PROVE m + 1 \in P
  <2>1. PICK j, F, x : j = m + 1 /\ F = First(m) /\ x = cut[j]
    OBVIOUS
  <2>2. j \in 1..N /\ j \in 0..N /\ \A i \in 1..m : i \in 1..N /\ i < j
    BY <2>1
  <2>3. \A i \in 1..m : cut[i] < cut[j] /\ cut[i] \in Nat /\ cut[j] \in Nat
    BY <2>2 DEF InOrder
  <2>4. x \notin F
    BY <2>1, <2>3 DEF FirstOf
  <2>5. First(j) = F \union {x}
    <3>1. 1..j = (1..m) \union {j}
      BY <2>1
    <3> QED
      BY <2>1, <3>1 DEF FirstOf
  <2>6. IsFiniteSet(F) /\ Cardinality(F) = m
    BY <1>2, <2>1
  <2>7. IsFiniteSet(F \union {x}) /\ Cardinality(F \union {x}) = m + 1
    BY <2>4, <2>6, FS_AddElement
  <2> HIDE DEF First
  <2> QED
    BY <2>1, <2>2, <2>5, <2>7
<1>3. 0..N \subseteq P
  <2> HIDE DEF P
  <2> QED
    BY <1>1, <1>2, UpTo
<1> QED
  BY <1>3

\* The one with n - 1 before it.
Nth(E, n) == CHOOSE k \in E : Cardinality({m \in E : m < k}) = n - 1

\* It is the one at n.
LEMMA TheNth ==
    ASSUME NEW N \in Nat, NEW cut, NEW E, InOrder(cut, N, E), NEW n \in 1..N
    PROVE  Nth(E, n) = cut[n]
<1>1. ASSUME NEW i \in 1..N
      PROVE  Cardinality({m \in E : m < cut[i]}) = i - 1
  <2>1. PICK j : j = i - 1
    OBVIOUS
  <2>2. j \in 0..N
    BY <2>1
  <2>3. {m \in E : m < cut[i]} = FirstOf(cut, j)
    <3>1. ASSUME NEW k \in 1..N PROVE cut[k] < cut[i] <=> k \in 1..j
      <4>1. cut[k] \in Nat /\ cut[i] \in Nat
        BY DEF InOrder
      <4>2. CASE k < i
        BY <2>1, <4>1, <4>2 DEF InOrder
      <4>3. CASE k = i
        BY <2>1, <4>1, <4>3
      <4>4. CASE i < k
        <5>1. cut[i] < cut[k]
          BY <4>4 DEF InOrder
        <5> QED
          BY <2>1, <4>1, <4>4, <5>1
      <4> QED
        BY <4>2, <4>3, <4>4
    <3>2. \A k \in 1..j : k \in 1..N
      BY <2>2
    <3>3. E = {cut[k] : k \in 1..N}
      BY DEF InOrder
    <3> QED
      BY <3>1, <3>2, <3>3 DEF FirstOf
  <2>4. Cardinality(FirstOf(cut, j)) = j
    BY <2>2, FirstOfThem
  <2> QED
    BY <2>1, <2>3, <2>4
<1>2. \A k \in E : \E i \in 1..N : k = cut[i]
  BY DEF InOrder
<1>3. cut[n] \in E
  BY DEF InOrder
<1>4. ASSUME NEW k \in E, Cardinality({m \in E : m < k}) = n - 1 PROVE k = cut[n]
  <2>1. PICK i \in 1..N : k = cut[i]
    BY <1>2
  <2>2. i - 1 = n - 1
    BY <1>1, <1>4, <2>1
  <2>3. i = n
    BY <2>2
  <2> QED
    BY <2>1, <2>3
<1>5. Cardinality({m \in E : m < cut[n]}) = n - 1
  BY <1>1
<1> QED
  BY <1>3, <1>4, <1>5 DEF Nth

\* What is between the numbers of cut.
Parts(s, cut, m) == [n \in 1..m |-> SubSeq(s, cut[n] + 1, cut[n + 1] - 1)]

\* A line cut at the places in at, which with its ends are the numbers of cut.
LEMMA CutIs ==
    ASSUME NEW s \in Texts, NEW at, NEW N \in Nat \ {0}, NEW cut,
           InOrder(cut, N, at \union {0, Len(s) + 1})
    PROVE  Cut(s, at) = Parts(s, cut, N - 1)
<1> DEFINE E == at \union {0, Len(s) + 1}
           c == [n \in 1..Cardinality(E) |->
                    CHOOSE k \in E : Cardinality({m \in E : m < k}) = n - 1]
<1>1. Cut(s, at) = [n \in 1..(Cardinality(E) - 1) |-> SubSeq(s, c[n] + 1, c[n + 1] - 1)]
  BY DEF Cut
<1>2. InOrder(cut, N, E)
  OBVIOUS
<1> HIDE DEF E
<1>3. Cardinality(E) = N
  <2>1. E = FirstOf(cut, N) /\ N \in 0..N
    BY <1>2 DEF InOrder, FirstOf
  <2> QED
    BY <1>2, <2>1, FirstOfThem
<1>4. ASSUME NEW n \in 1..N PROVE c[n] = cut[n]
  <2>1. c[n] = Nth(E, n)
    BY <1>3 DEF Nth
  <2> HIDE DEF c
  <2> QED
    BY <1>2, <2>1, TheNth
<1>5. \A n \in 1..(N - 1) : n \in 1..N /\ n + 1 \in 1..N
  OBVIOUS
<1> HIDE DEF c
<1> QED
  BY <1>1, <1>3, <1>4, <1>5 DEF Parts

\* A part of a line to which a character is appended.
LEMMA PartOfAppend ==
    ASSUME NEW s \in Texts, NEW c \in LineChars, NEW i \in 1..(Len(s) + 1)
    PROVE  /\ \A j \in (i - 1)..Len(s) : SubSeq(Append(s, c), i, j) = SubSeq(s, i, j)
           /\ SubSeq(Append(s, c), i, Len(s) + 1) = Append(SubSeq(s, i, Len(s)), c)
<1>1. PICK n, t : n = Len(s) /\ t = Append(s, c)
  OBVIOUS
<1>2. /\ n \in Nat /\ t \in Texts /\ Len(t) = n + 1 /\ t[n + 1] = c
      /\ \A k \in 1..n : t[k] = s[k]
  BY <1>1, AppendProperties DEF Texts
<1>3. ASSUME NEW j \in (i - 1)..n PROVE SubSeq(t, i, j) = SubSeq(s, i, j)
  <2>1. i \in 1..(Len(t) + 1) /\ j \in (i - 1)..Len(t)
    BY <1>1, <1>2
  <2>2. PICK u, v : u = SubSeq(t, i, j) /\ v = SubSeq(s, i, j)
    OBVIOUS
  <2>3. u \in Texts /\ Len(u) = j - i + 1 /\ \A k \in 1..(j - i + 1) : u[k] = t[k + i - 1]
    BY <1>2, <2>1, <2>2, PartIs
  <2>4. v \in Texts /\ Len(v) = j - i + 1 /\ \A k \in 1..(j - i + 1) : v[k] = s[k + i - 1]
    BY <1>1, <2>2, PartIs
  <2>5. \A k \in 1..(j - i + 1) : k + i - 1 \in 1..n
    BY <1>1, <1>2
  <2>6. \A k \in 1..Len(u) : u[k] = v[k]
    BY <1>2, <2>3, <2>4, <2>5
  <2>7. u = v
    BY <2>3, <2>4, <2>6, SeqEqual DEF Texts
  <2> QED
    BY <2>2, <2>7
<1>4. SubSeq(t, i, n + 1) = Append(SubSeq(s, i, n), c)
  <2>9. PICK m : m = n + 1
    OBVIOUS
  <2>1. i \in 1..(Len(t) + 1) /\ m \in (i - 1)..Len(t) /\ n \in (i - 1)..n
    BY <1>1, <1>2, <2>9
  <2>2. PICK u, v, w : u = SubSeq(t, i, m) /\ v = SubSeq(s, i, n) /\ w = Append(v, c)
    OBVIOUS
  <2>3. /\ u \in Texts /\ Len(u) = n + 1 - i + 1
        /\ \A k \in 1..(n + 1 - i + 1) : u[k] = t[k + i - 1]
    <3>1. u \in Texts /\ Len(u) = m - i + 1 /\ \A k \in 1..(m - i + 1) : u[k] = t[k + i - 1]
      BY <1>2, <2>1, <2>2, PartIs
    <3> QED
      BY <1>1, <1>2, <2>9, <3>1
  <2>4. v \in Texts /\ Len(v) = n - i + 1 /\ \A k \in 1..(n - i + 1) : v[k] = s[k + i - 1]
    BY <1>1, <2>1, <2>2, PartIs
  <2>5. /\ w \in Texts /\ Len(w) = Len(v) + 1 /\ w[Len(v) + 1] = c
        /\ \A k \in 1..Len(v) : w[k] = v[k]
    BY <2>2, <2>4, AppendProperties DEF Texts
  <2>6. ASSUME NEW k \in 1..Len(u) PROVE u[k] = w[k]
    <3>1. CASE k = n - i + 2
      <4>1. k + i - 1 = n + 1 /\ k \in 1..(n + 1 - i + 1) /\ k = Len(v) + 1
        BY <1>1, <1>2, <2>3, <2>4, <3>1
      <4> QED
        BY <1>2, <2>3, <2>5, <4>1
    <3>2. CASE k # n - i + 2
      <4>1. /\ k \in 1..(n + 1 - i + 1) /\ k \in 1..(n - i + 1) /\ k \in 1..Len(v)
            /\ k + i - 1 \in 1..n
        BY <1>1, <1>2, <2>3, <2>4, <3>2
      <4> QED
        BY <1>2, <2>3, <2>4, <2>5, <4>1
    <3> QED
      BY <3>1, <3>2
  <2>7. Len(u) = Len(w)
    BY <1>1, <1>2, <2>3, <2>4, <2>5
  <2>8. u = w
    BY <2>3, <2>5, <2>6, <2>7, SeqEqual DEF Texts
  <2> QED
    BY <2>2, <2>8, <2>9
<1> QED
  BY <1>1, <1>3, <1>4

\* Its bars.
LEMMA BarsGrow ==
    ASSUME NEW s \in Texts, NEW c \in LineChars
    PROVE  /\ Bars(s) \subseteq 1..Len(s)
           /\ Bars(Append(s, c)) = IF c = "|" /\ Split(s).quote = NoQuote
                                   THEN Bars(s) \union {Len(s) + 1} ELSE Bars(s)
<1>1. PICK n, t : n = Len(s) /\ t = Append(s, c)
  OBVIOUS
<1>2. /\ n \in Nat /\ t \in Texts /\ Len(t) = n + 1 /\ t[n + 1] = c
      /\ \A k \in 1..n : t[k] = s[k]
      /\ DOMAIN t = 1..(n + 1) /\ DOMAIN s = 1..n
  BY <1>1, AppendProperties DEF Texts
<1>3. ASSUME NEW j \in 0..n PROVE SubSeq(t, 1, j) = SubSeq(s, 1, j)
  <2>1. PICK i : i = 1
    OBVIOUS
  <2>2. i \in 1..(Len(s) + 1) /\ j \in (i - 1)..Len(s)
    BY <1>1, <1>2, <2>1
  <2> QED
    BY <1>1, <2>1, <2>2, PartOfAppend
<1>4. SubSeq(s, 1, n) = s
  BY <1>1, SubSeqFull DEF Texts
<1>5. ASSUME NEW k \in 1..n PROVE k \in Bars(t) <=> k \in Bars(s)
  <2>1. k - 1 \in 0..n /\ t[k] = s[k]
    BY <1>2
  <2>2. SubSeq(t, 1, k - 1) = SubSeq(s, 1, k - 1)
    BY <1>3, <2>1
  <2>3. k \in Bars(t) <=> t[k] = "|" /\ Balanced[SubSeq(t, 1, k - 1)]
    BY <1>2 DEF Bars
  <2>4. k \in Bars(s) <=> s[k] = "|" /\ Balanced[SubSeq(s, 1, k - 1)]
    BY <1>2 DEF Bars
  <2> QED
    BY <2>1, <2>2, <2>3, <2>4
<1>6. n + 1 \in Bars(t) <=> c = "|" /\ Split(s).quote = NoQuote
  <2>1. n + 1 - 1 = n /\ n \in 0..n /\ n + 1 \in 1..(n + 1)
    BY <1>2
  <2>2. SubSeq(t, 1, n + 1 - 1) = s
    BY <1>3, <1>4, <2>1
  <2>3. PICK k : k = n + 1
    OBVIOUS
  <2>4. k \in Bars(t) <=> t[k] = "|" /\ Balanced[SubSeq(t, 1, k - 1)]
    BY <1>2, <2>1, <2>3 DEF Bars
  <2>5. SubSeq(t, 1, k - 1) = s /\ t[k] = c
    BY <1>2, <2>2, <2>3
  <2> QED
    BY <2>3, <2>4, <2>5, BalancedMeans
<1>7. Bars(s) \subseteq 1..n
  BY <1>2 DEF Bars
<1>8. Bars(t) \subseteq 1..(n + 1)
  BY <1>2 DEF Bars
<1>9. \A k \in 1..(n + 1) : k \in 1..n \/ k = n + 1
  BY <1>2
<1> QED
  BY <1>1, <1>2, <1>5, <1>6, <1>7, <1>8, <1>9

\* The numbers of cut followed by e, the last of N.
Ending(cut, N, e) == [i \in 1..N |-> IF i = N THEN e ELSE cut[i]]

\* A greater number after the last.
LEMMA OneMore ==
    ASSUME NEW N \in Nat \ {0}, NEW cut, NEW E, InOrder(cut, N, E), NEW e \in Nat, cut[N] < e,
           NEW M, M = N + 1
    PROVE  InOrder(Ending(cut, M, e), M, E \union {e})
<1>1. PICK d : d = Ending(cut, M, e)
  OBVIOUS
<1>2. /\ M \in 1..M /\ \A i \in 1..M : i \in 1..N \/ i = M
      /\ \A i \in 1..N : i \in 1..M /\ i # M /\ i <= N
  OBVIOUS
<1>3. d[M] = e /\ \A i \in 1..N : d[i] = cut[i]
  BY <1>1, <1>2 DEF Ending
<1>4. \A i \in 1..N : cut[i] \in Nat /\ cut[i] < e
  <2>1. \A i \in 1..N : cut[i] \in Nat /\ (i < N => cut[i] < cut[N])
    BY DEF InOrder
  <2> QED
    BY <2>1
<1>5. \A i \in 1..M : d[i] \in Nat
  BY <1>2, <1>3, <1>4
<1>6. ASSUME NEW i \in 1..M, NEW j \in 1..M, i < j PROVE d[i] < d[j]
  <2>1. i \in 1..N
    BY <1>2, <1>6
  <2>2. CASE j \in 1..N
    <3>1. cut[i] < cut[j]
      BY <1>6, <2>1, <2>2 DEF InOrder
    <3> QED
      BY <1>3, <2>1, <2>2, <3>1
  <2>3. CASE j = M
    BY <1>3, <1>4, <2>1, <2>3
  <2> QED
    BY <1>2, <2>2, <2>3
<1>7. E \union {e} = {d[i] : i \in 1..M}
  <2>1. E = {cut[i] : i \in 1..N}
    BY DEF InOrder
  <2> QED
    BY <1>2, <1>3, <2>1
<1>8. InOrder(d, M, E \union {e})
  BY <1>5, <1>6, <1>7 DEF InOrder
<1> QED
  BY <1>1, <1>8

\* A greater number instead of the last.
LEMMA OtherEnd ==
    ASSUME NEW N \in Nat \ {0}, NEW cut, NEW E, InOrder(cut, N, E), NEW e \in Nat, cut[N] < e
    PROVE  InOrder(Ending(cut, N, e), N, (E \ {cut[N]}) \union {e})
<1>1. PICK d : d = Ending(cut, N, e)
  OBVIOUS
<1>2. N \in 1..N /\ \A i \in 1..N : i < N \/ i = N
  OBVIOUS
<1>3. d[N] = e /\ \A i \in 1..N : i # N => d[i] = cut[i]
  BY <1>1, <1>2 DEF Ending
<1>4. \A i \in 1..N : cut[i] \in Nat /\ (i # N => cut[i] < cut[N])
  BY <1>2 DEF InOrder
<1>5. \A i \in 1..N : d[i] \in Nat
  BY <1>3, <1>4
<1>6. ASSUME NEW i \in 1..N, NEW j \in 1..N, i < j PROVE d[i] < d[j]
  <2>1. i # N
    BY <1>6
  <2>2. CASE j # N
    <3>1. cut[i] < cut[j]
      BY <1>6 DEF InOrder
    <3> QED
      BY <1>3, <2>1, <2>2, <3>1
  <2>3. CASE j = N
    <3>1. cut[i] \in Nat /\ cut[N] \in Nat /\ cut[i] < cut[N]
      BY <1>2, <1>4, <2>1
    <3> QED
      BY <1>3, <2>1, <2>3, <3>1
  <2> QED
    BY <2>2, <2>3
<1>7. (E \ {cut[N]}) \union {e} = {d[i] : i \in 1..N}
  <2>1. E = {cut[i] : i \in 1..N}
    BY DEF InOrder
  <2>2. \A i \in 1..N : i # N => cut[i] # cut[N]
    BY <1>2, <1>4
  <2>3. ASSUME NEW x \in (E \ {cut[N]}) \union {e} PROVE x \in {d[i] : i \in 1..N}
    <3>1. CASE x = e
      BY <1>2, <1>3, <3>1
    <3>2. CASE x \in E \ {cut[N]}
      <4>1. PICK i \in 1..N : x = cut[i] /\ i # N
        BY <2>1, <3>2
      <4> QED
        BY <1>3, <4>1
    <3> QED
      BY <2>3, <3>1, <3>2
  <2>4. ASSUME NEW i \in 1..N PROVE d[i] \in (E \ {cut[N]}) \union {e}
    <3>1. CASE i = N
      BY <1>3, <3>1
    <3>2. CASE i # N
      BY <1>3, <2>1, <2>2, <3>2
    <3> QED
      BY <3>1, <3>2
  <2> QED
    BY <2>3, <2>4
<1>8. InOrder(d, N, (E \ {cut[N]}) \union {e})
  BY <1>5, <1>6, <1>7 DEF InOrder
<1> QED
  BY <1>1, <1>8

\* The bars and the ends of s are at cut, and its pieces between them.
CutAt(s, cut) ==
    LET P == Split(s).pieces
        N == Len(P) + 1
    IN  /\ InOrder(cut, N, Bars(s) \union {0, Len(s) + 1})
        /\ cut[N] = Len(s) + 1
        /\ \A n \in 1..Len(P) : P[n] = SubSeq(s, cut[n] + 1, cut[n + 1] - 1)

\* A character is appended.
LEMMA CutGrows ==
    ASSUME NEW s \in Texts, NEW c \in LineChars, NEW cut, CutAt(s, cut)
    PROVE  \E d : CutAt(Append(s, c), d)
<1>1. PICK p, P, m, N, n, t, e :
          /\ p = Split(s) /\ P = p.pieces /\ m = Len(P) /\ N = m + 1 /\ n = Len(s)
          /\ t = Append(s, c) /\ e = n + 2
  OBVIOUS
<1>2. /\ p \in Splits /\ m \in Nat \ {0} /\ n \in Nat /\ N \in Nat \ {0} /\ e \in Nat
      /\ t \in Texts /\ Len(t) = n + 1
  <2>1. p \in Splits
    BY <1>1, SplitGrows
  <2>2. m \in Nat \ {0}
    BY <1>1, <2>1, SplitHas
  <2>3. t \in Texts /\ Len(t) = n + 1 /\ n \in Nat
    BY <1>1, AppendProperties DEF Texts
  <2> QED
    BY <1>1, <2>1, <2>2, <2>3
<1>3. Split(t) = SplitStep(p, c)
  BY <1>1, SplitGrows
<1>4. /\ InOrder(cut, N, Bars(s) \union {0, n + 1}) /\ cut[N] = n + 1
      /\ \A k \in 1..m : P[k] = SubSeq(s, cut[k] + 1, cut[k + 1] - 1)
  BY <1>1 DEF CutAt
<1>5. cut[N] < e
  BY <1>1, <1>2, <1>4
<1>6. Bars(s) \subseteq 1..n
  BY <1>1, BarsGrow
<1>7. ASSUME NEW k \in 1..m
      PROVE  /\ cut[k] + 1 \in 1..(n + 1) /\ cut[k + 1] - 1 \in cut[k]..n
             /\ SubSeq(t, cut[k] + 1, cut[k + 1] - 1) = P[k]
  <2>1. PICK j : j = k + 1
    OBVIOUS
  <2>2. k \in 1..N /\ j \in 1..N /\ N \in 1..N /\ k < j /\ (j < N \/ j = N)
    BY <1>1, <1>2, <2>1
  <2>3. cut[k] < cut[j] /\ cut[k] \in Nat /\ cut[j] \in Nat
    BY <1>4, <2>2 DEF InOrder
  <2>4. cut[j] <= n + 1
    <3>1. j < N => cut[j] < cut[N]
      BY <1>4, <2>2 DEF InOrder
    <3> QED
      BY <1>2, <1>4, <2>2, <2>3, <3>1
  <2>5. PICK a, b : a = cut[k] + 1 /\ b = cut[j] - 1
    OBVIOUS
  <2>6. a \in 1..(n + 1) /\ b \in (a - 1)..n /\ b \in cut[k]..n
    BY <1>2, <2>3, <2>4, <2>5
  <2>7. SubSeq(t, a, b) = SubSeq(s, a, b)
    BY <1>1, <2>6, PartOfAppend
  <2>8. SubSeq(s, a, b) = P[k]
    BY <1>4, <2>1, <2>5
  <2> QED
    BY <2>1, <2>5, <2>6, <2>7, <2>8
<1>8. CASE c = "|" /\ p.quote = NoQuote
  <2>1. PICK Q, M, d : Q = Split(t).pieces /\ M = N + 1 /\ d = Ending(cut, M, e)
    OBVIOUS
  <2>2. AnotherPiece(P, Q)
    BY <1>1, <1>2, <1>3, <1>8, <2>1, SplitBar
  <2>3. Len(Q) = N /\ Q[N] = << >> /\ \A k \in 1..m : Q[k] = P[k]
    BY <1>1, <2>2 DEF AnotherPiece
  <2>4. InOrder(d, M, (Bars(s) \union {0, n + 1}) \union {e})
    BY <1>2, <1>4, <1>5, <2>1, OneMore
  <2>5. Bars(t) = Bars(s) \union {n + 1}
    BY <1>1, <1>8, BarsGrow
  <2>6. (Bars(s) \union {0, n + 1}) \union {e} = Bars(t) \union {0, Len(t) + 1}
    <3>1. Len(t) + 1 = e
      BY <1>1, <1>2
    <3> QED
      BY <2>5, <3>1
  <2>7. /\ d[M] = e /\ \A k \in 1..N : d[k] = cut[k]
    <3>1. M \in 1..M /\ \A k \in 1..N : k \in 1..M /\ k # M
      BY <1>2, <2>1
    <3> QED
      BY <2>1, <3>1 DEF Ending
  <2>8. ASSUME NEW k \in 1..N PROVE Q[k] = SubSeq(t, d[k] + 1, d[k + 1] - 1)
    <3>1. CASE k = N
      <4>1. d[k] = n + 1 /\ d[k + 1] = n + 2
        BY <1>1, <1>4, <2>1, <2>7, <3>1
      <4>2. PICK a, b : a = n + 2 /\ b = n + 1
        OBVIOUS
      <4>3. a \in 1..(Len(t) + 1) /\ b \in (a - 1)..Len(t) /\ b - a + 1 = 0
        BY <1>2, <4>2
      <4>4. SubSeq(t, a, b) \in Texts /\ Len(SubSeq(t, a, b)) = 0
        BY <1>2, <4>3, PartIs
      <4>5. SubSeq(t, a, b) = << >>
        BY <4>4, EmptySeq DEF Texts
      <4>6. d[k] + 1 = a /\ d[k + 1] - 1 = b
        BY <1>2, <4>1, <4>2
      <4> QED
        BY <2>3, <3>1, <4>5, <4>6
    <3>2. CASE k # N
      <4>1. k \in 1..m /\ k + 1 \in 1..N
        BY <1>1, <1>2, <3>2
      <4>2. d[k] = cut[k] /\ d[k + 1] = cut[k + 1]
        BY <2>7, <4>1
      <4> QED
        BY <1>7, <2>3, <4>1, <4>2
    <3> QED
      BY <3>1, <3>2
  <2>9. CutAt(t, d)
    <3>1. d[M] = Len(t) + 1
      BY <1>1, <1>2, <2>7
    <3> QED
      BY <2>1, <2>3, <2>4, <2>6, <2>8, <3>1 DEF CutAt
  <2> QED
    BY <1>1, <2>9
<1>9. CASE ~(c = "|" /\ p.quote = NoQuote)
  <2>1. PICK Q, d : Q = Split(t).pieces /\ d = Ending(cut, N, e)
    OBVIOUS
  <2>2. LastGrows(P, Q, c)
    BY <1>1, <1>2, <1>3, <1>9, <2>1, SplitChar
  <2>3. Len(Q) = m /\ Q[m] = Append(P[m], c) /\ \A k \in 1..(m - 1) : Q[k] = P[k]
    BY <1>1, <2>2 DEF LastGrows
  <2>4. InOrder(d, N, ((Bars(s) \union {0, n + 1}) \ {n + 1}) \union {e})
    <3>1. InOrder(d, N, ((Bars(s) \union {0, n + 1}) \ {cut[N]}) \union {e})
      BY <1>2, <1>4, <1>5, <2>1, OtherEnd
    <3> QED
      BY <1>4, <3>1
  <2>5. Bars(t) = Bars(s)
    BY <1>1, <1>9, BarsGrow
  <2>6. ((Bars(s) \union {0, n + 1}) \ {n + 1}) \union {e} = Bars(t) \union {0, Len(t) + 1}
    <3>1. Len(t) + 1 = e /\ n + 1 # 0
      BY <1>1, <1>2
    <3>2. n + 1 \notin Bars(s)
      BY <1>2, <1>6
    <3> QED
      BY <2>5, <3>1, <3>2
  <2>7. /\ d[N] = e /\ \A k \in 1..m : d[k] = cut[k]
    <3>1. N \in 1..N /\ \A k \in 1..m : k \in 1..N /\ k # N
      BY <1>1, <1>2
    <3> QED
      BY <2>1, <3>1 DEF Ending
  <2>8. ASSUME NEW k \in 1..m PROVE Q[k] = SubSeq(t, d[k] + 1, d[k + 1] - 1)
    <3>1. CASE k = m
      <4>1. PICK a : a = cut[k] + 1
        OBVIOUS
      <4>2. a \in 1..(n + 1)
        BY <1>7, <4>1
      <4>3. SubSeq(t, a, n + 1) = Append(SubSeq(s, a, n), c)
        BY <1>1, <4>2, PartOfAppend
      <4>4. SubSeq(s, a, n) = P[k]
        <5>1. cut[k + 1] - 1 = n
          BY <1>1, <1>2, <1>4, <3>1
        <5> QED
          BY <1>4, <4>1, <5>1
      <4>5. d[k] + 1 = a /\ d[k + 1] - 1 = n + 1
        <5>1. d[k] = cut[k] /\ d[k + 1] = e
          BY <1>1, <2>7, <3>1
        <5> QED
          BY <1>1, <1>2, <4>1, <5>1
      <4> QED
        BY <2>3, <3>1, <4>3, <4>4, <4>5
    <3>2. CASE k # m
      <4>1. k \in 1..(m - 1) /\ k + 1 \in 1..m
        BY <1>2, <3>2
      <4>2. d[k] = cut[k] /\ d[k + 1] = cut[k + 1]
        BY <2>7, <4>1
      <4> QED
        BY <1>7, <2>3, <4>1, <4>2
    <3> QED
      BY <3>1, <3>2
  <2>9. CutAt(t, d)
    <3>1. d[N] = Len(t) + 1
      BY <1>1, <1>2, <2>7
    <3> QED
      BY <1>1, <2>1, <2>3, <2>4, <2>6, <2>8, <3>1 DEF CutAt
  <2> QED
    BY <1>1, <2>9
<1> QED
  BY <1>8, <1>9

\* What is between the bars is what Split finds.
LEMMA CutIsSplit ==
    ASSUME NEW s \in Texts
    PROVE  Cut(s, Bars(s)) = Split(s).pieces
<1> DEFINE P == {u \in Texts : \E cut : CutAt(u, cut)}
<1>1. << >> \in P
  <2>1. PICK u, e, cut : u = << >> /\ e = << >> /\ cut = [i \in 1..2 |-> i - 1]
    OBVIOUS
  <2>2. u \in Texts /\ Len(u) = 0 /\ DOMAIN u = {}
    BY <2>1, EmptySeq DEF Texts
  <2>3. Split(u).pieces = << e >>
    BY <2>1, SplitGrows DEF Whole
  <2>4. Bars(u) = {}
    BY <2>2 DEF Bars
  <2>5. InOrder(cut, 2, {0, 1})
    <3>1. 1..2 = {1, 2} /\ cut[1] = 0 /\ cut[2] = 1
      BY <2>1
    <3> QED
      BY <3>1 DEF InOrder
  <2>6. SubSeq(u, 1, 0) = e
    <3>1. PICK a, b : a = 1 /\ b = 0
      OBVIOUS
    <3>2. a \in 1..(Len(u) + 1) /\ b \in (a - 1)..Len(u) /\ b - a + 1 = 0
      BY <2>2, <3>1
    <3>3. SubSeq(u, a, b) \in Texts /\ Len(SubSeq(u, a, b)) = 0
      BY <2>2, <3>2, PartIs
    <3> QED
      BY <2>1, <3>1, <3>3, EmptySeq DEF Texts
  <2>7. Len(<< e >>) = 1 /\ << e >>[1] = e
    OBVIOUS
  <2>8. CutAt(u, cut)
    <3>1. cut[1] = 0 /\ cut[2] = 1 /\ 1..1 = {1} /\ Len(u) + 1 = 1
      BY <2>1, <2>2
    <3>2. Bars(u) \union {0, Len(u) + 1} = {0, 1}
      BY <2>4, <3>1
    <3>3. PICK Q : Q = Split(u).pieces
      OBVIOUS
    <3>4. Len(Q) = 1 /\ Q[1] = e /\ Len(Q) + 1 = 2
      BY <2>3, <2>7, <3>3
    <3>5. ASSUME NEW n \in 1..Len(Q) PROVE Q[n] = SubSeq(u, cut[n] + 1, cut[n + 1] - 1)
      <4>1. n = 1 /\ cut[n] + 1 = 1 /\ cut[n + 1] - 1 = 0
        BY <3>1, <3>4
      <4> QED
        BY <2>6, <3>4, <4>1
    <3> QED
      BY <2>5, <3>1, <3>2, <3>3, <3>4, <3>5 DEF CutAt
  <2> QED
    BY <2>1, <2>2, <2>8
<1>2. ASSUME NEW u \in Texts, NEW c \in LineChars, u \in P
      PROVE  Append(u, c) \in P
  <2>1. Append(u, c) \in Texts
    BY AppendProperties DEF Texts
  <2> QED
    BY <1>2, <2>1, CutGrows
<1>3. Texts \subseteq P
  <2> HIDE DEF P
  <2> QED
    BY <1>1, <1>2, ByAppending DEF Texts
<1>4. PICK cut : CutAt(s, cut)
  BY <1>3
<1>5. PICK Q, m, N : Q = Split(s).pieces /\ m = Len(Q) /\ N = m + 1
  OBVIOUS
<1>6. Q \in Seq(Texts) /\ m \in Nat \ {0} /\ N \in Nat \ {0} /\ N - 1 = m
  <2>1. Split(s) \in Splits
    BY SplitGrows
  <2> QED
    BY <1>5, <2>1, SplitHas
<1>7. /\ InOrder(cut, N, Bars(s) \union {0, Len(s) + 1})
      /\ \A n \in 1..m : Q[n] = SubSeq(s, cut[n] + 1, cut[n + 1] - 1)
  BY <1>4, <1>5 DEF CutAt
<1>8. Cut(s, Bars(s)) = Parts(s, cut, m)
  BY <1>6, <1>7, CutIs
<1>9. Q = [n \in 1..m |-> Q[n]]
  BY <1>5, <1>6
<1>10. Q = Parts(s, cut, m)
  BY <1>7, <1>9 DEF Parts
<1> QED
  BY <1>5, <1>8, <1>10

\* The pieces of Pipeline are those that parse_line finds.
LEMMA PiecesAre ==
    ASSUME NEW s \in Texts
    PROVE  Pieces(s) = TextPieces(s)
<1>1. PICK Q : Q = Split(s).pieces
  OBVIOUS
<1>2. Q \in Seq(Texts)
  <2>1. Split(s) \in Splits
    BY SplitGrows
  <2> QED
    BY <1>1, <2>1, SplitHas
<1>3. DOMAIN Q = 1..Len(Q)
  BY <1>2, LenProperties
<1>4. Pieces(s) = [n \in DOMAIN Q |-> trim_ws(Q[n])]
  BY <1>1, CutIsSplit DEF Pieces
<1> QED
  BY <1>1, <1>3, <1>4 DEF TextPieces, Trimmed

\* The & with only blanks behind it is at the end of the text.
LEMMA AmpAtEnd ==
    ASSUME NEW s \in Texts, ~Blank(s)
    PROVE  InBackground(s) <=> AtEnd(trim_ws(s))
<1>1. PICK i, j \in 1..Len(s) : TextAt(s, i, j)
  BY TextFound
<1>2. /\ Len(s) \in Nat /\ DOMAIN s = 1..Len(s) /\ j \in 1..Len(s) /\ ~isspace(s[j])
      /\ \A k \in (j + 1)..Len(s) : isspace(s[k])
  BY <1>1 DEF TextAt, Texts
<1>3. AtEnd(trim_ws(s)) <=> s[j] = "&"
  <2>1. Last(trim_ws(s)) = s[j]
    BY <1>1, TrimEnds
  <2> QED
    BY <2>1 DEF AtEnd
<1>4. ASSUME NEW k \in 1..Len(s), s[k] = "&", \A m \in (k + 1)..Len(s) : isspace(s[m])
      PROVE  k = j
  <2>1. ~isspace(s[k])
    BY <1>4 DEF isspace, Blanks, Separators
  <2>2. k \notin (j + 1)..Len(s)
    BY <1>2, <2>1
  <2>3. j \notin (k + 1)..Len(s)
    BY <1>2, <1>4
  <2> QED
    BY <1>2, <2>2, <2>3
<1> QED
  BY <1>2, <1>3, <1>4 DEF InBackground

\* parse_line takes a line for the pipeline that is written there.
LEMMA PipelineIsRead ==
    ASSUME NEW s \in Texts
    PROVE  parse_line(s) = Pipeline(s)
<1>1. CASE Blank(s)
  <2>1. trim_ws(s) = << >>
    BY <1>1, TrimBlank
  <2>2. Pipeline(s) = Read(<< >>, FALSE)
    BY <2>1 DEF Pipeline
  <2> QED
    BY <1>1, <2>2, ParsedBlank
<1>2. CASE ~Blank(s)
  <2>1. PICK text, t, Y : text = trim_ws(s) /\ t = Command(text) /\ Y = TextPieces(t)
    OBVIOUS
  <2>2. parse_line(s) = Verdict(Y, AtEnd(text)) /\ t \in Texts
    BY <1>2, <2>1, ParsedText
  <2>3. text # << >>
    BY <1>2, <2>1, TextIs
  <2>4. PICK bg \in BOOLEAN : bg = InBackground(s)
    BY DEF InBackground
  <2>5. bg = AtEnd(text)
    BY <1>2, <2>1, <2>4, AmpAtEnd, Zenon DEF AtEnd
  <2>6. t = (IF bg THEN Front(text) ELSE text)
    BY <2>1, <2>5 DEF Command
  <2>7. Pieces(t) = Y
    BY <2>1, <2>2, PiecesAre
  <2>8. Pipeline(s) = IF << >> \in Range(Y) \/ Contains(t, "&") \/ Len(Y) > MAXCMDS
                      THEN Error ELSE Read(Y, bg)
    BY <2>1, <2>3, <2>4, <2>6, <2>7 DEF Pipeline
  <2>9. << >> \in Range(Y) \/ Contains(t, "&") <=> \E n \in 1..Len(Y) : Bad(Y[n])
    <3>1. Y \in Seq(Texts) /\ DOMAIN Y = 1..Len(Y)
      BY <2>1, <2>2, TextPiecesHas, LenProperties
    <3>2. Contains(t, "&") <=> \E n \in 1..Len(Y) : Contains(Y[n], "&")
      <4>1. "&" # "|" /\ ~isspace("&")
        BY DEF isspace, Blanks, Separators
      <4> QED
        BY <2>1, <2>2, <4>1, PiecesHold
    <3>3. << >> \in Range(Y) <=> \E n \in 1..Len(Y) : Y[n] = << >>
      BY <3>1 DEF Range
    <3> QED
      BY <3>2, <3>3 DEF Bad
  <2> QED
    BY <2>2, <2>5, <2>8, <2>9 DEF Verdict
<1> QED
  BY <1>1, <1>2

\* parse_line of phase3/myshell.c reads in every line what is written there: the commands
\* between the bars outside of quotes that come in pairs, the & at the end, and every error.
THEOREM PipelinesAreRead == Spec => []ParseLineReadsThePipeline
<1>1. line \in Texts => ParseLineReadsThePipeline
  BY PipelineIsRead DEF ParseLineReadsThePipeline
<1> QED
  BY <1>1, LinesAreTexts, PTL

-----------------------------------------------------------------------------
(* Arguments that are typed *)

\* The characters that are typed for arguments of characters of LineChars, and the lines of them.
Keys == LineChars \union Quotes \union Blanks
Lines == Seq(Keys)

\* The arguments that can be typed, and the line they make.
Args == {a \in Texts : ~ Quotes \subseteq Range(a)}
TypeNext(s, a) == s \o Written(a) \o <<" ">>
Untyped == << >>
Typed(A) == FoldLeft(LAMBDA s, a : s \o Written(a) \o <<" ">>, << >>, A)

\* A word without quotes and blanks, or a text between quotes that are not in it.
IsWord(a) == a # << >> /\ \A k \in 1..Len(a) : a[k] \notin Quotes /\ ~isspace(a[k])
Quoted(q, a) == <<q>> \o a \o <<q>>

\* An argument is written as one of the two.
LEMMA WrittenIs ==
    ASSUME NEW a \in Args
    PROVE  \/ IsWord(a) /\ Written(a) = a
           \/ \E q \in Quotes : ~Contains(a, q) /\ Written(a) = Quoted(q, a)
<1>1. a \in Texts /\ ~ Quotes \subseteq Range(a) /\ DOMAIN a = 1..Len(a)
  BY DEF Args, Texts
<1>2. CASE a # << >> /\ Range(a) \intersect (Quotes \union Blanks) = {}
  <2>1. Written(a) = a
    BY <1>2 DEF Written
  <2>2. \A k \in 1..Len(a) : a[k] \in Range(a)
    BY <1>1 DEF Range
  <2>3. IsWord(a)
    BY <1>2, <2>2 DEF IsWord, isspace
  <2> QED
    BY <2>1, <2>3
<1>3. CASE ~(a # << >> /\ Range(a) \intersect (Quotes \union Blanks) = {})
  <2>1. \E q \in Quotes : ~Contains(a, q)
    BY <1>1 DEF Contains, Range
  <2>2. PICK q : q = CHOOSE r \in Quotes : ~Contains(a, r)
    OBVIOUS
  <2>3. q \in Quotes /\ ~Contains(a, q)
    BY <2>1, <2>2
  <2>4. Written(a) = Quoted(q, a)
    BY <1>3, <2>2 DEF Written, Quoted
  <2> QED
    BY <2>3, <2>4
<1> QED
  BY <1>2, <1>3

\* A sequence of elements of S is one of T.
LEMMA SeqOfMore ==
    ASSUME NEW S, NEW T, S \subseteq T, NEW s \in Seq(S)
    PROVE  s \in Seq(T)
<1>1. PICK n : n = Len(s)
  OBVIOUS
<1>2. n \in Nat /\ DOMAIN s = 1..n /\ s \in [1..n -> S]
  BY <1>1, LenProperties
<1>3. s \in [1..n -> T]
  BY <1>2
<1> QED
  BY <1>2, <1>3, SeqDef

\* Texts are lines that can be typed.
LEMMA TextsTyped ==
    ASSUME NEW a \in Texts
    PROVE  a \in Lines
<1>1. LineChars \subseteq Keys
  BY DEF Keys
<1> QED
  BY <1>1, SeqOfMore DEF Lines, Texts

\* Characters are typed behind one another.
LEMMA KeysAppend ==
    ASSUME NEW u \in Lines, NEW w \in Lines, NEW c \in Keys
    PROVE  /\ u \o w \in Lines /\ Append(w, c) \in Lines /\ u \o Append(w, c) = Append(u \o w, c)
           /\ u \o <<c>> = Append(u, c) /\ u \o << >> = u
           /\ Len(u \o w) = Len(u) + Len(w)
<1>1. PICK x : x = <<c>>
  OBVIOUS
<1>2. u \in Seq(Keys) /\ w \in Seq(Keys) /\ x \in Seq(Keys)
  BY <1>1 DEF Lines
<1>3. u \o w \in Seq(Keys) /\ Len(u \o w) = Len(u) + Len(w)
  BY <1>2, ConcatProperties
<1>4. Append(w, c) = w \o x /\ Append(u \o w, c) = (u \o w) \o x /\ u \o x = Append(u, c)
  BY <1>1, <1>2, <1>3, AppendIsConcat
<1>5. (u \o w) \o x = u \o (w \o x)
  BY <1>2, ConcatAssociative
<1>6. u \o << >> = u
  BY <1>2, ConcatEmptySeq
<1>7. Append(w, c) \in Seq(Keys)
  BY <1>2, AppendProperties
<1> QED
  BY <1>1, <1>3, <1>4, <1>5, <1>6, <1>7 DEF Lines

\* What is written for an argument is typed with keys, at least one.
LEMMA WrittenType ==
    ASSUME NEW a \in Args
    PROVE  Written(a) \in Lines /\ Len(Written(a)) \in Nat \ {0}
<1>1. a \in Texts /\ a \in Lines
  BY TextsTyped DEF Args
<1>2. CASE IsWord(a) /\ Written(a) = a
  <2>1. a # << >>
    BY <1>2 DEF IsWord
  <2> QED
    BY <1>1, <1>2, <2>1, NonEmpty DEF Lines
<1>3. ASSUME NEW q \in Quotes, Written(a) = Quoted(q, a)
      PROVE  Written(a) \in Lines /\ Len(Written(a)) \in Nat \ {0}
  <2>1. PICK x : x = <<q>>
    OBVIOUS
  <2>6. q \in Keys
    BY DEF Keys
  <2>2. q \in Keys /\ x \in Lines /\ Len(x) = 1
    BY <2>1, <2>6 DEF Lines
  <2>3. x \o a \in Lines /\ Len(x \o a) = 1 + Len(a)
    BY <1>1, <2>2, KeysAppend
  <2>4. (x \o a) \o x \in Lines /\ Len((x \o a) \o x) = 1 + Len(a) + 1
    BY <2>2, <2>3, KeysAppend
  <2>5. Len(a) \in Nat
    BY <1>1 DEF Texts
  <2> QED
    BY <1>3, <2>1, <2>4, <2>5 DEF Quoted
<1> QED
  BY <1>2, <1>3, WrittenIs

\* One argument more makes a longer line.
LEMMA TypeType ==
    ASSUME NEW s \in Lines, NEW a \in Args
    PROVE  TypeNext(s, a) \in Lines /\ Len(TypeNext(s, a)) > Len(s) /\ Len(s) \in Nat
           /\ TypeNext(s, a) = Append(s \o Written(a), " ") /\ s \o Written(a) \in Lines
<1>1. PICK w, c : w = Written(a) /\ c = " "
  OBVIOUS
<1>2. w \in Lines /\ Len(w) \in Nat \ {0} /\ c \in Keys
  BY <1>1, WrittenType DEF Keys, Blanks, Separators
<1>3. s \o w \in Lines /\ Len(s \o w) = Len(s) + Len(w)
  BY <1>2, KeysAppend
<1>4. (s \o w) \o <<c>> = Append(s \o w, c) /\ Append(s \o w, c) \in Lines
  BY <1>2, <1>3, KeysAppend
<1>5. Len(Append(s \o w, c)) = Len(s \o w) + 1
  BY <1>2, <1>3, AppendProperties DEF Lines
<1>6. Len(s) \in Nat
  BY DEF Lines
<1>7. PICK t : t = TypeNext(s, a)
  OBVIOUS
<1>8. t = Append(s \o w, c)
  BY <1>1, <1>4, <1>7 DEF TypeNext
<1>9. Len(t) > Len(s)
  BY <1>2, <1>3, <1>5, <1>6, <1>8
<1> QED
  BY <1>1, <1>3, <1>4, <1>6, <1>7, <1>8, <1>9

\* Typing is a run of its steps.
LEMMA TypedRun ==
    ASSUME NEW s \in Seq(Args)
    PROVE  \E f \in [0..Len(s) -> Lines] : /\ f[0] = Untyped /\ Typed(s) = f[Len(s)]
                                            /\ \A k \in 1..Len(s) : f[k] = TypeNext(f[k - 1], s[k])
<1>1. PICK n : n = Len(s)
  OBVIOUS
<1>2. n \in Nat /\ DOMAIN s = 1..n /\ \A k \in 1..n : s[k] \in Args
  BY <1>1
<1>3. Untyped \in Lines
  BY EmptySeq DEF Untyped, Lines
<1> DEFINE fold(g) == g = [T \in SUBSET (1..n) |-> IF T = {} THEN Untyped
                                    ELSE TypeNext(g[T \ {Max(T)}], s[Max(T)])]
<1>4. Typed(s) = (CHOOSE g : fold(g))[1..n]
  <2>1. Typed(s) = (CHOOSE g : g = [T \in SUBSET (DOMAIN s) |-> IF T = {} THEN Untyped
                               ELSE TypeNext(g[T \ {Max(T)}], s[Max(T)])])[DOMAIN s]
    BY DEF Typed, TypeNext, Untyped, FoldLeft, MapThenFoldSet
  <2> QED
    BY <1>2, <2>1
<1>5. PICK G : G = [k \in 1..n |-> [p \in Lines |-> TypeNext(p, s[k])]]
  OBVIOUS
<1>6. G \in [1..n -> [Lines -> Lines]]
  BY <1>2, <1>5, TypeType
<1>7. PICK g \in [SUBSET (1..n) -> Lines] : IsFold(g, n, Untyped, G)
  BY <1>2, <1>3, <1>6, FoldExists
<1>8. fold(g)
  <2>1. ASSUME NEW T \in SUBSET (1..n), T # {}
        PROVE  g[T] = TypeNext(g[T \ {Max(T)}], s[Max(T)])
    <3>1. PICK m : m = Max(T)
      OBVIOUS
    <3>2. m \in 1..n /\ T \ {m} \in SUBSET (1..n)
      BY <1>2, <2>1, <3>1, LastIndex
    <3>3. g[T] = G[m][g[T \ {m}]]
      BY <1>7, <2>1, <3>1 DEF IsFold
    <3> QED
      BY <1>5, <1>7, <3>1, <3>2, <3>3
  <2>2. g[{}] = Untyped
    BY <1>7 DEF IsFold
  <2> QED
    BY <1>7, <2>1, <2>2
<1>9. PICK l : l = CHOOSE r : fold(r)
  OBVIOUS
<1>10. fold(l)
  <2> HIDE DEF fold
  <2> QED
    BY <1>8, <1>9
<1>11. PICK f : f = [k \in 0..n |-> l[1..k]]
  OBVIOUS
<1>12. f[0] = Untyped
  <2>1. 1..0 = {}
    OBVIOUS
  <2> QED
    BY <1>2, <1>10, <1>11, <2>1
<1>13. ASSUME NEW k \in 1..n
       PROVE  f[k] = TypeNext(f[k - 1], s[k])
  <2>1. PICK T : T = 1..k
    OBVIOUS
  <2>2. T \in SUBSET (1..n) /\ T # {} /\ k \in T
    <3>1. k \in 1..k /\ \A m \in 1..k : m \in 1..n
      BY <1>2
    <3> QED
      BY <2>1, <3>1
  <2>3. Max(T) = k
    <3>1. Max(T) \in T /\ \A m \in T : m <= Max(T)
      BY <1>2, <2>2, LastIndex
    <3> QED
      BY <2>1, <2>2, <3>1
  <2>4. T \ {k} = 1..(k - 1)
    BY <2>1
  <2>5. l[T] = TypeNext(l[1..(k - 1)], s[k])
    BY <1>10, <2>2, <2>3, <2>4
  <2> QED
    BY <1>2, <1>11, <2>1, <2>5
<1>14. f \in [0..n -> Lines]
  <2> DEFINE P == {k \in 0..n : f[k] \in Lines}
  <2>1. 0 \in P
    BY <1>2, <1>3, <1>12
  <2>2. ASSUME NEW k \in 0..(n - 1), k \in P
        PROVE  k + 1 \in P
    <3>1. PICK m : m = k + 1
      OBVIOUS
    <3>2. m \in 1..n /\ m - 1 = k /\ f[k] \in Lines
      BY <1>2, <2>2, <3>1
    <3>3. f[m] = TypeNext(f[k], s[m]) /\ s[m] \in Args
      BY <1>2, <1>13, <3>2
    <3>4. TypeNext(f[k], s[m]) \in Lines
      BY <3>2, <3>3, TypeType
    <3> QED
      BY <1>2, <3>1, <3>2, <3>3, <3>4
  <2>3. 0..n \subseteq P
    <3> HIDE DEF P
    <3> QED
      BY <1>2, <2>1, <2>2, UpTo
  <2> QED
    BY <1>11, <2>3
<1>15. Typed(s) = f[n]
  <2>1. Typed(s) = l[1..n]
    <3> HIDE DEF fold
    <3> QED
      BY <1>4, <1>9
  <2> QED
    BY <1>2, <1>11, <2>1
<1> QED
  BY <1>1, <1>12, <1>13, <1>14, <1>15

\* Typing one argument more.
LEMMA TypedGrows ==
    /\ Typed(<< >>) = Untyped
    /\ \A s \in Seq(Args) : Typed(s) \in Lines
    /\ \A s \in Seq(Args), c \in Args : Typed(Append(s, c)) = TypeNext(Typed(s), c)
<1>1. << >> \in Seq(Args) /\ Len(<< >>) = 0
  BY EmptySeq
<1>2. Typed(<< >>) = Untyped
  <2>1. PICK e : e = << >>
    OBVIOUS
  <2>2. e \in Seq(Args)
    BY <1>1, <2>1
  <2>4. Len(e) = 0
    BY <2>1
  <2>3. \E f \in [0..Len(e) -> Lines] :
           /\ f[0] = Untyped /\ Typed(e) = f[Len(e)]
           /\ \A k \in 1..Len(e) : f[k] = TypeNext(f[k - 1], e[k])
    BY <2>2, TypedRun
  <2> QED
    BY <2>1, <2>3, <2>4
<1>3. ASSUME NEW s \in Seq(Args)
      PROVE  Typed(s) \in Lines
  <2>1. Len(s) \in Nat
    OBVIOUS
  <2>2. Len(s) \in 0..Len(s)
    BY <2>1
  <2> QED
    BY <2>2, TypedRun
<1>4. ASSUME NEW s \in Seq(Args), NEW c \in Args
      PROVE  Typed(Append(s, c)) = TypeNext(Typed(s), c)
  <2>1. PICK n, u : n = Len(s) /\ u = Append(s, c)
    OBVIOUS
  <2>2. /\ n \in Nat /\ u \in Seq(Args) /\ Len(u) = n + 1 /\ u[n + 1] = c
        /\ \A k \in 1..n : u[k] = s[k]
    BY <2>1, AppendProperties
  <2>3. PICK f \in [0..n -> Lines] : /\ f[0] = Untyped /\ Typed(s) = f[n]
                                      /\ \A k \in 1..n : f[k] = TypeNext(f[k - 1], s[k])
    BY <2>1, TypedRun
  <2>4. PICK g \in [0..(n + 1) -> Lines] :
                     /\ g[0] = Untyped /\ Typed(u) = g[n + 1]
                     /\ \A k \in 1..(n + 1) : g[k] = TypeNext(g[k - 1], u[k])
    <3>1. PICK m : m = Len(u)
      OBVIOUS
    <3>4. u \in Seq(Args)
      BY <2>2
    <3>5. \E g \in [0..Len(u) -> Lines] :
             /\ g[0] = Untyped /\ Typed(u) = g[Len(u)]
             /\ \A k \in 1..Len(u) : g[k] = TypeNext(g[k - 1], u[k])
      BY <3>4, TypedRun
    <3>2. \E g \in [0..m -> Lines] : /\ g[0] = Untyped /\ Typed(u) = g[m]
                                      /\ \A k \in 1..m : g[k] = TypeNext(g[k - 1], u[k])
      BY <3>1, <3>5
    <3>3. m = n + 1
      BY <2>2, <3>1
    <3> QED
      BY <3>2, <3>3
  <2>5. SameSteps(f, g, n)
    <3> SUFFICES ASSUME NEW k \in 1..n, f[k - 1] = g[k - 1] PROVE f[k] = g[k]
      BY DEF SameSteps
    <3>1. f[k] = TypeNext(f[k - 1], s[k]) /\ g[k] = TypeNext(g[k - 1], u[k]) /\ u[k] = s[k]
      BY <2>2, <2>3, <2>4
    <3> QED
      BY <3>1
  <2>6. f[n] = g[n]
    <3>2. f[0] = g[0] /\ n \in Nat
      BY <2>2, <2>3, <2>4
    <3>1. Same(f, g, n)
      BY <2>5, <3>2, SameRun
    <3> QED
      BY <2>2, <3>1 DEF Same
  <2>7. g[n + 1] = TypeNext(g[n], c)
    <3>1. n + 1 \in 1..(n + 1) /\ n + 1 - 1 = n
      BY <2>2
    <3> QED
      BY <2>2, <2>4, <3>1
  <2> QED
    BY <2>1, <2>3, <2>4, <2>6, <2>7
<1> QED
  BY <1>2, <1>3, <1>4

\* A state of the scanner.
State(b, m) == [argv |-> b, mode |-> m]

\* No key has the name of a mode.
LEMMA KeysAreNotModes ==
    ASSUME NEW c \in Keys
    PROVE  c # "between" /\ c # "word"
<1> QED
  BY ParseLineAssumption DEF Keys, Quotes, Blanks, Separators

\* Between arguments: one begins, or nothing happens.
LEMMA ScanBegins ==
    ASSUME NEW b \in Seq(Lines), NEW c \in Keys, NEW limit \in Nat
    PROVE  /\ isspace(c) \/ Len(b) >= limit =>
                 Scan(State(b, "between"), c, limit) = State(b, "between")
           /\ ~isspace(c) /\ Len(b) < limit /\ c \in Quotes =>
                 Scan(State(b, "between"), c, limit) = State(Append(b, << >>), c)
           /\ ~isspace(c) /\ Len(b) < limit /\ c \notin Quotes =>
                 Scan(State(b, "between"), c, limit) = State(Append(b, <<c>>), "word")
<1>1. PICK p : p = State(b, "between")
  OBVIOUS
<1>2. p.mode = "between" /\ p.argv = b /\ Len(b) \in Nat
  BY <1>1 DEF State
<1>3. ASSUME isspace(c) \/ Len(b) >= limit PROVE Scan(p, c, limit) = p
  BY <1>2, <1>3 DEF Scan
<1>4. ASSUME ~isspace(c), Len(b) < limit, c \in Quotes
      PROVE  Scan(p, c, limit) = State(Append(b, << >>), c)
  BY <1>2, <1>4 DEF Scan, State
<1>5. ASSUME ~isspace(c), Len(b) < limit, c \notin Quotes
      PROVE  Scan(p, c, limit) = State(Append(b, <<c>>), "word")
  BY <1>2, <1>5 DEF Scan, State
<1> QED
  BY <1>1, <1>3, <1>4, <1>5

\* In an argument: it ends.
LEMMA ScanEnds ==
    ASSUME NEW b \in Seq(Lines), NEW c \in Keys, NEW limit \in Nat, NEW m \in {"word"} \union Quotes,
           m = c \/ (m = "word" /\ isspace(c))
    PROVE  Scan(State(b, m), c, limit) = State(b, "between")
<1>1. PICK p : p = State(b, m)
  OBVIOUS
<1>2. p.mode = m /\ p.argv = b /\ p.mode # "between"
  BY <1>1 DEF State, Quotes
<1>3. Scan(p, c, limit) = [p EXCEPT !.mode = "between"]
  BY <1>2 DEF Scan
<1>4. [p EXCEPT !.mode = "between"] = State(b, "between")
  BY <1>1 DEF State
<1> QED
  BY <1>1, <1>3, <1>4

\* The end of a sequence, replaced.
LEMMA EndOfAppend ==
    ASSUME NEW S, NEW b \in Seq(S), NEW v \in S, NEW w \in S
    PROVE  WithEnd(Append(b, v), w) = Append(b, w)
<1>1. PICK x, y, n : x = Append(b, v) /\ y = Append(b, w) /\ n = Len(b)
  OBVIOUS
<1>2. /\ n \in Nat /\ x \in Seq(S) /\ Len(x) = n + 1 /\ x # << >>
      /\ \A k \in 1..n : x[k] = b[k]
  BY <1>1, AppendProperties
<1>3. y \in Seq(S) /\ Len(y) = n + 1 /\ y[n + 1] = w /\ \A k \in 1..n : y[k] = b[k]
  BY <1>1, AppendProperties
<1>4. /\ WithEnd(x, w) \in Seq(S) /\ Len(WithEnd(x, w)) = Len(x)
      /\ WithEnd(x, w)[Len(x)] = w /\ \A k \in 1..(Len(x) - 1) : WithEnd(x, w)[k] = x[k]
  <2>1. x \in Seq(S) /\ x # << >> /\ w \in S
    BY <1>2
  <2> QED
    BY <2>1, EndReplaced
<1>5. PICK z : z = WithEnd(x, w)
  OBVIOUS
<1>6. z \in Seq(S) /\ Len(z) = n + 1 /\ z[n + 1] = w /\ \A k \in 1..n : z[k] = x[k]
  <2>1. Len(x) - 1 = n
    BY <1>2
  <2> QED
    BY <1>2, <1>4, <1>5, <2>1
<1>7. ASSUME NEW k \in 1..Len(z) PROVE z[k] = y[k]
  <2>1. k \in 1..n \/ k = n + 1
    BY <1>2, <1>6
  <2> QED
    BY <1>2, <1>3, <1>6, <2>1
<1>8. z = y
  BY <1>3, <1>6, <1>7, SeqEqual
<1> QED
  BY <1>1, <1>5, <1>8

\* Or it grows.
LEMMA ScanGoesOn ==
    ASSUME NEW b \in Seq(Lines), NEW v \in Lines, NEW c \in Keys, NEW limit \in Nat,
           NEW m \in {"word"} \union Quotes, m # c, ~(m = "word" /\ isspace(c))
    PROVE  Scan(State(Append(b, v), m), c, limit) = State(Append(b, Append(v, c)), m)
<1>1. PICK x, p, e : x = Append(b, v) /\ p = State(x, m) /\ e = Append(v, c)
  OBVIOUS
<1>2. p.mode = m /\ p.argv = x /\ p.mode # "between"
  BY <1>1 DEF State, Quotes
<1>3. e \in Lines
  BY <1>1, AppendProperties DEF Lines
<1>4. x[Len(x)] = v
  BY <1>1, AppendProperties
<1>9. PICK n, r : n = Len(x) /\ r = Scan(p, c, limit)
  OBVIOUS
<1>5. r = [p EXCEPT !.argv[Len(p.argv)] = Append(@, c)]
  BY <1>2, <1>9 DEF Scan
<1>8. p \in [argv : Seq(Lines), mode : {"word"} \union Quotes]
  <2>1. x \in Seq(Lines)
    BY <1>1, AppendProperties
  <2> QED
    BY <1>1, <2>1 DEF State
<1>6. r = [argv |-> WithEnd(x, Append(x[n], c)), mode |-> m]
  BY <1>2, <1>5, <1>8, <1>9 DEF WithEnd
<1>7. WithEnd(x, e) = Append(b, e)
  BY <1>1, <1>3, EndOfAppend
<1> QED
  BY <1>1, <1>4, <1>6, <1>7, <1>9 DEF State

\* Scanning what is typed.
LEMMA KeysScanned ==
    ASSUME NEW u \in Lines, NEW limit \in Nat
    PROVE  /\ Scanned(u, limit).argv \in Seq(Lines)
           /\ \A c \in Keys : Scanned(Append(u, c), limit) = Scan(Scanned(u, limit), c, limit)
<1>1. Scanned(u, limit) \in Scans(Keys)
  BY ScanGrows DEF Lines
<1>2. Scanned(u, limit).argv \in Seq(Seq(Keys))
  BY <1>1 DEF Scans
<1>3. \A c \in Keys : Scanned(Append(u, c), limit) = Scan(Scanned(u, limit), c, limit)
  BY ScanGrows DEF Lines
<1> QED
  BY <1>2, <1>3 DEF Lines

\* With as many arguments as there may be, nothing more is taken.
LEMMA NothingMore ==
    ASSUME NEW u \in Lines, NEW w \in Lines, NEW limit \in Nat, NEW b,
           Scanned(u, limit) = State(b, "between"), Len(b) >= limit
    PROVE  Scanned(u \o w, limit) = State(b, "between")
<1> DEFINE P == {v \in Lines : Scanned(u \o v, limit) = State(b, "between")}
<1>1. << >> \in P
  <2>1. << >> \in Lines /\ u \o << >> = u
    BY EmptySeq, ConcatEmptySeq DEF Lines
  <2> QED
    BY <2>1
<1>2. ASSUME NEW v \in Lines, NEW c \in Keys, v \in P PROVE Append(v, c) \in P
  <2>1. PICK x : x = u \o v
    OBVIOUS
  <2>2. x \in Lines /\ Append(v, c) \in Lines /\ u \o Append(v, c) = Append(x, c)
    BY <2>1, KeysAppend
  <2>3. Scanned(x, limit) = State(b, "between")
    BY <1>2, <2>1
  <2>4. b \in Seq(Lines)
    <3>1. Scanned(x, limit).argv \in Seq(Lines)
      BY <2>2, KeysScanned
    <3> QED
      BY <2>3, <3>1 DEF State
  <2>5. Scanned(Append(x, c), limit) = Scan(State(b, "between"), c, limit)
    BY <2>2, <2>3, KeysScanned
  <2>6. Scan(State(b, "between"), c, limit) = State(b, "between")
    BY <2>4, ScanBegins
  <2> QED
    BY <2>2, <2>5, <2>6
<1>3. Lines \subseteq P
  <2> HIDE DEF P
  <2> QED
    BY <1>1, <1>2, ByAppending DEF Lines
<1> QED
  BY <1>3

\* A word is an argument that has not ended.
LEMMA WordScanned ==
    ASSUME NEW u \in Lines, NEW a \in Texts, IsWord(a), NEW limit \in Nat, NEW b \in Seq(Lines),
           Scanned(u, limit) = State(b, "between"), Len(b) < limit
    PROVE  Scanned(u \o a, limit) = State(Append(b, a), "word")
<1> DEFINE P == {v \in Texts : IsWord(v) => Scanned(u \o v, limit) = State(Append(b, v), "word")}
<1>1. << >> \in P
  <2>1. << >> \in Texts /\ ~IsWord(<< >>)
    BY EmptySeq DEF Texts, IsWord
  <2> QED
    BY <2>1
<1>2. ASSUME NEW v \in Texts, NEW c \in LineChars, v \in P PROVE Append(v, c) \in P
  <2>1. PICK x, w : x = u \o v /\ w = Append(v, c)
    OBVIOUS
  <2>2. v \in Lines /\ c \in Keys
    BY TextsTyped DEF Keys
  <2>3. x \in Lines /\ u \o w = Append(x, c) /\ u \o << >> = u
    BY <2>1, <2>2, KeysAppend
  <2>4. /\ w \in Texts /\ Len(w) = Len(v) + 1 /\ Len(v) \in Nat /\ w[Len(v) + 1] = c
        /\ \A k \in 1..Len(v) : w[k] = v[k]
    BY <2>1, AppendProperties DEF Texts
  <2>5. ASSUME IsWord(w) PROVE Scanned(u \o w, limit) = State(Append(b, w), "word")
    <3>1. c \notin Quotes /\ ~isspace(c)
      <4>1. Len(v) + 1 \in 1..Len(w)
        BY <2>4
      <4> QED
        BY <2>4, <2>5, <4>1 DEF IsWord
    <3>2. Scanned(Append(x, c), limit) = Scan(Scanned(x, limit), c, limit)
      BY <2>2, <2>3, KeysScanned
    <3>3. CASE v = << >>
      <4>1. x = u /\ w = <<c>>
        BY <2>1, <2>3, <3>3
      <4>2. Scan(State(b, "between"), c, limit) = State(Append(b, <<c>>), "word")
        BY <2>2, <3>1, ScanBegins
      <4> QED
        BY <2>3, <3>2, <4>1, <4>2
    <3>4. CASE v # << >>
      <4>1. IsWord(v)
        <5>1. \A k \in 1..Len(v) : k \in 1..Len(w)
          BY <2>4
        <5> QED
          BY <2>4, <2>5, <3>4, <5>1 DEF IsWord
      <4>2. Scanned(x, limit) = State(Append(b, v), "word")
        BY <1>2, <2>1, <4>1
      <4>3. "word" # c /\ ~("word" = "word" /\ isspace(c)) /\ "word" \in {"word"} \union Quotes
        BY <2>2, <3>1, KeysAreNotModes
      <4>4. Scan(State(Append(b, v), "word"), c, limit) = State(Append(b, Append(v, c)), "word")
        BY <2>2, <4>3, ScanGoesOn
      <4> QED
        BY <2>1, <2>3, <3>2, <4>2, <4>4
    <3> QED
      BY <3>3, <3>4
  <2> QED
    BY <2>1, <2>4, <2>5
<1>3. Texts \subseteq P
  <2> HIDE DEF P
  <2> QED
    BY <1>1, <1>2, ByAppending DEF Texts
<1> QED
  BY <1>3

\* So is a text behind a quote that is not in it.
LEMMA QuotedScanned ==
    ASSUME NEW u \in Lines, NEW a \in Texts, NEW q \in Quotes, ~Contains(a, q), NEW limit \in Nat,
           NEW b \in Seq(Lines), Scanned(u, limit) = State(b, "between"), Len(b) < limit
    PROVE  Scanned(u \o (<<q>> \o a), limit) = State(Append(b, a), q)
<1> DEFINE P == {v \in Texts : ~Contains(v, q) =>
                    Scanned(u \o (<<q>> \o v), limit) = State(Append(b, v), q)}
<1>1. q \in Keys /\ ~isspace(q) /\ q \in {"word"} \union Quotes /\ q # "word"
  BY DEF Keys, Quotes, isspace, Blanks, Separators
<1>2. <<q>> \in Lines
  BY <1>1 DEF Lines
<1>3. << >> \in P
  <2>1. << >> \in Texts
    BY EmptySeq DEF Texts
  <2>2. <<q>> \o << >> = <<q>> /\ u \o <<q>> = Append(u, q)
    BY <1>1, <1>2, KeysAppend
  <2>3. Scanned(Append(u, q), limit) = Scan(State(b, "between"), q, limit)
    BY <1>1, KeysScanned
  <2>4. Scan(State(b, "between"), q, limit) = State(Append(b, << >>), q)
    BY <1>1, ScanBegins
  <2> QED
    BY <2>1, <2>2, <2>3, <2>4
<1>4. ASSUME NEW v \in Texts, NEW c \in LineChars, v \in P PROVE Append(v, c) \in P
  <2>1. PICK x, y, w : x = <<q>> \o v /\ y = u \o x /\ w = Append(v, c)
    OBVIOUS
  <2>2. v \in Lines /\ c \in Keys /\ w \in Texts
    BY <2>1, TextsTyped, AppendProperties DEF Keys, Texts
  <2>3. x \in Lines /\ <<q>> \o w = Append(x, c)
    BY <1>2, <2>1, <2>2, KeysAppend
  <2>4. y \in Lines /\ u \o Append(x, c) = Append(y, c)
    BY <2>1, <2>2, <2>3, KeysAppend
  <2>5. ASSUME ~Contains(w, q)
        PROVE  Scanned(u \o (<<q>> \o w), limit) = State(Append(b, w), q)
    <3>1. q # c /\ ~Contains(v, q)
      BY <2>1, <2>5, ContainsAppend
    <3>2. Scanned(y, limit) = State(Append(b, v), q)
      BY <1>4, <2>1, <3>1
    <3>3. Scanned(Append(y, c), limit) = Scan(State(Append(b, v), q), c, limit)
      BY <2>2, <2>4, <3>2, KeysScanned
    <3>4. Scan(State(Append(b, v), q), c, limit) = State(Append(b, Append(v, c)), q)
      BY <1>1, <2>2, <3>1, ScanGoesOn
    <3> QED
      BY <2>1, <2>3, <2>4, <3>3, <3>4
  <2> QED
    BY <2>1, <2>2, <2>5
<1>5. Texts \subseteq P
  <2> HIDE DEF P
  <2> QED
    BY <1>3, <1>4, ByAppending DEF Texts
<1> QED
  BY <1>5

\* One argument more, with the blank behind it.
LEMMA ArgumentScanned ==
    ASSUME NEW u \in Lines, NEW a \in Args, NEW limit \in Nat, NEW b \in Seq(Lines),
           Scanned(u, limit) = State(b, "between"), Len(b) < limit
    PROVE  Scanned(TypeNext(u, a), limit) = State(Append(b, a), "between")
<1>1. PICK w, x, c, d : w = Written(a) /\ x = u \o w /\ c = " " /\ d = Append(b, a)
  OBVIOUS
<1>2. c \in Keys /\ isspace(c) /\ a \in Texts /\ a \in Lines
  BY <1>1, TextsTyped DEF Keys, isspace, Blanks, Separators, Args
<1>3. TypeNext(u, a) = Append(x, c) /\ x \in Lines
  BY <1>1, TypeType
<1>4. d \in Seq(Lines)
  BY <1>1, <1>2, AppendProperties
<1>5. Scanned(Append(x, c), limit) = Scan(Scanned(x, limit), c, limit)
  BY <1>2, <1>3, KeysScanned
<1>6. CASE IsWord(a) /\ w = a
  <2>1. Scanned(x, limit) = State(d, "word")
    <3>1. IsWord(a)
      BY <1>6
    <3>2. Scanned(u \o a, limit) = State(Append(b, a), "word")
      BY <1>2, <3>1, WordScanned
    <3> QED
      BY <1>1, <1>6, <3>2
  <2>2. Scan(State(d, "word"), c, limit) = State(d, "between")
    BY <1>2, <1>4, ScanEnds
  <2> QED
    BY <1>1, <1>3, <1>5, <2>1, <2>2
<1>7. ASSUME NEW q \in Quotes, ~Contains(a, q), w = Quoted(q, a)
      PROVE  Scanned(TypeNext(u, a), limit) = State(Append(b, a), "between")
  <2>1. PICK y, z : y = <<q>> \o a /\ z = u \o y
    OBVIOUS
  <2>2. q \in Keys
    BY DEF Keys
  <2>3. <<q>> \in Lines
    BY <2>2 DEF Lines
  <2>4. y \in Lines /\ y \o <<q>> = Append(y, q)
    BY <1>2, <2>1, <2>2, <2>3, KeysAppend
  <2>5. z \in Lines /\ u \o Append(y, q) = Append(z, q)
    BY <2>1, <2>2, <2>4, KeysAppend
  <2>6. x = Append(z, q)
    BY <1>1, <1>7, <2>1, <2>4, <2>5 DEF Quoted
  <2>7. Scanned(z, limit) = State(d, q)
    BY <1>1, <1>2, <1>7, <2>1, QuotedScanned
  <2>8. Scanned(x, limit) = Scan(State(d, q), q, limit)
    BY <2>2, <2>5, <2>6, <2>7, KeysScanned
  <2>9. Scan(State(d, q), q, limit) = State(d, "between")
    BY <1>4, <2>2, ScanEnds
  <2>10. Scan(State(d, "between"), c, limit) = State(d, "between")
    BY <1>2, <1>4, ScanBegins
  <2> QED
    BY <1>1, <1>3, <1>5, <2>8, <2>9, <2>10
<1> QED
  BY <1>1, <1>6, <1>7, WrittenIs

\* At most limit of the arguments A.
Kept(A, limit) == SubSeq(A, 1, Min({Len(A), limit}))

\* All of them, or as many as there may be, which are the same with one argument more.
LEMMA KeptIs ==
    ASSUME NEW A \in Seq(Args), NEW limit \in Nat
    PROVE  /\ Len(A) \in Nat /\ Kept(A, limit) \in Seq(Args)
           /\ Len(A) <= limit => Kept(A, limit) = A
           /\ Len(A) >= limit => /\ Len(Kept(A, limit)) = limit
                                 /\ \A a \in Args : Kept(Append(A, a), limit) = Kept(A, limit)
<1>1. PICK n : n = Len(A)
  OBVIOUS
<1>2. n \in Nat
  BY <1>1
<1>3. ASSUME NEW j \in Nat PROVE Min({j, limit}) = IF j <= limit THEN j ELSE limit
  BY DEF Min
<1>4. ASSUME n <= limit PROVE Kept(A, limit) = A
  <2>1. Min({n, limit}) = n
    BY <1>2, <1>3, <1>4
  <2>2. SubSeq(A, 1, n) = A
    BY <1>1, SubSeqFull
  <2> QED
    BY <1>1, <2>1, <2>2 DEF Kept
<1>5. ASSUME n >= limit
      PROVE  /\ Kept(A, limit) \in Seq(Args) /\ Len(Kept(A, limit)) = limit
             /\ \A a \in Args : Kept(Append(A, a), limit) = Kept(A, limit)
  <2>1. Min({n, limit}) = limit
    BY <1>2, <1>3, <1>5
  <2>2. PICK B : B = SubSeq(A, 1, limit)
    OBVIOUS
  <2>3. B = Kept(A, limit)
    BY <1>1, <2>1, <2>2 DEF Kept
  <2>4. \A k \in 1..limit : A[k] \in Args
    BY <1>1, <1>2, <1>5, ElementOfSeq
  <2>5. B \in Seq(Args) /\ Len(B) = limit /\ \A k \in 1..limit : B[k] = A[k]
    BY <1>1, <1>2, <1>5, <2>2, <2>4, SubSeqProperties
  <2>6. ASSUME NEW a \in Args PROVE Kept(Append(A, a), limit) = B
    <3>1. PICK D, m : D = Append(A, a) /\ m = n + 1
      OBVIOUS
    <3>2. D \in Seq(Args) /\ Len(D) = m /\ \A k \in 1..n : D[k] = A[k]
      BY <1>1, <3>1, AppendProperties
    <3>3. Min({m, limit}) = limit
      BY <1>2, <1>3, <1>5, <3>1
    <3>4. PICK E : E = SubSeq(D, 1, limit)
      OBVIOUS
    <3>5. \A k \in 1..limit : D[k] \in Args /\ D[k] = A[k]
      BY <1>2, <1>5, <2>4, <3>2
    <3>6. E \in Seq(Args) /\ Len(E) = limit /\ \A k \in 1..limit : E[k] = D[k]
      <4>1. limit <= Len(D)
        BY <1>2, <1>5, <3>1, <3>2
      <4> QED
        BY <3>2, <3>4, <3>5, <4>1, SubSeqProperties
    <3>7. E = B
      BY <2>5, <3>5, <3>6, SeqEqual
    <3> QED
      BY <3>1, <3>2, <3>3, <3>4, <3>7 DEF Kept
  <2> QED
    BY <2>3, <2>5, <2>6
<1> QED
  BY <1>1, <1>2, <1>4, <1>5

\* parseline makes of what is typed as many of the arguments as there may be.
LEMMA TypedScanned ==
    ASSUME NEW A \in Seq(Args), NEW limit \in Nat
    PROVE  ParseUpTo(Typed(A), limit) = Kept(A, limit)
<1> DEFINE P == {B \in Seq(Args) : Scanned(Typed(B), limit) = State(Kept(B, limit), "between")}
<1>1. << >> \in P
  <2>1. PICK e : e = << >>
    OBVIOUS
  <2>2. e \in Seq(Args) /\ Len(e) = 0
    BY <2>1, EmptySeq
  <2>3. Kept(e, limit) = e
    <3>1. Len(e) <= limit
      BY <2>2
    <3> QED
      BY <2>2, <3>1, KeptIs
  <2>4. Typed(e) = << >>
    BY <2>1, TypedGrows DEF Untyped
  <2>5. Scanned(<< >>, limit) = State(e, "between")
    BY <2>1, ScanGrows DEF Between, State
  <2> QED
    BY <2>1, <2>2, <2>3, <2>4, <2>5
<1>2. ASSUME NEW B \in Seq(Args), NEW a \in Args, B \in P PROVE Append(B, a) \in P
  <2>1. PICK u, b, D : u = Typed(B) /\ b = Kept(B, limit) /\ D = Append(B, a)
    OBVIOUS
  <2>2. u \in Lines /\ Typed(D) = TypeNext(u, a)
    BY <2>1, TypedGrows
  <2>3. D \in Seq(Args) /\ Len(D) = Len(B) + 1 /\ Len(B) \in Nat
    BY <2>1, AppendProperties
  <2>4. Scanned(u, limit) = State(b, "between")
    BY <1>2, <2>1
  <2>5. b \in Seq(Lines)
    <3>1. Args \subseteq Lines
      BY TextsTyped DEF Args
    <3>2. b \in Seq(Args)
      BY <2>1, KeptIs
    <3> QED
      BY <3>1, <3>2, SeqOfMore
  <2>6. CASE Len(B) < limit
    <3>1. b = B /\ Kept(D, limit) = D
      <4>1. Len(B) <= limit /\ Len(D) <= limit
        BY <2>3, <2>6
      <4>2. Kept(B, limit) = B
        BY <4>1, KeptIs
      <4>3. Kept(D, limit) = D
        BY <2>3, <4>1, KeptIs
      <4> QED
        BY <2>1, <4>2, <4>3
    <3>2. Scanned(TypeNext(u, a), limit) = State(Append(b, a), "between")
      <4>1. Len(b) < limit
        BY <2>6, <3>1
      <4> QED
        BY <2>2, <2>4, <2>5, <4>1, ArgumentScanned
    <3> QED
      BY <2>1, <2>2, <2>3, <3>1, <3>2
  <2>7. CASE Len(B) >= limit
    <3>1. Len(b) >= limit /\ Kept(D, limit) = b
      BY <2>1, <2>7, KeptIs
    <3>2. PICK w, x, c : w = Written(a) /\ x = u \o w /\ c = " "
      OBVIOUS
    <3>3. w \in Lines /\ x \in Lines /\ TypeNext(u, a) = Append(x, c) /\ c \in Keys
      BY <2>2, <3>2, WrittenType, TypeType DEF Keys, Blanks, Separators
    <3>4. Scanned(x, limit) = State(b, "between")
      <4>1. Scanned(u \o w, limit) = State(b, "between")
        BY <2>2, <2>4, <3>1, <3>3, NothingMore
      <4> QED
        BY <3>2, <4>1
    <3>5. Scanned(Append(x, c), limit) = Scan(State(b, "between"), c, limit)
      BY <3>3, <3>4, KeysScanned
    <3>6. Scan(State(b, "between"), c, limit) = State(b, "between")
      BY <2>5, <3>1, <3>3, ScanBegins
    <3> QED
      BY <2>1, <2>2, <2>3, <3>1, <3>3, <3>5, <3>6
  <2> QED
    BY <2>3, <2>6, <2>7
<1>3. Seq(Args) \subseteq P
  <2> HIDE DEF P
  <2> QED
    BY <1>1, <1>2, ByAppending
<1>4. Scanned(Typed(A), limit) = State(Kept(A, limit), "between")
  BY <1>3
<1>5. ParseUpTo(Typed(A), limit) = Scanned(Typed(A), limit).argv
  BY DEF ParseUpTo, Scanned, Between
<1> QED
  BY <1>4, <1>5 DEF State

\* What is typed has a character for each argument at least.
LEMMA TypedLength ==
    ASSUME NEW A \in Seq(Args)
    PROVE  Len(Typed(A)) \in Nat /\ Len(A) <= Len(Typed(A))
<1> DEFINE P == {B \in Seq(Args) : Len(Typed(B)) \in Nat /\ Len(B) <= Len(Typed(B))}
<1>1. << >> \in P
  <2>1. PICK e : e = << >>
    OBVIOUS
  <2>2. e \in Seq(Args) /\ Len(e) = 0 /\ Typed(e) = e
    BY <2>1, EmptySeq, TypedGrows DEF Untyped
  <2> QED
    BY <2>1, <2>2
<1>2. ASSUME NEW B \in Seq(Args), NEW a \in Args, B \in P PROVE Append(B, a) \in P
  <2>1. PICK u, v, D : u = Typed(B) /\ v = TypeNext(u, a) /\ D = Append(B, a)
    OBVIOUS
  <2>2. u \in Lines /\ Typed(D) = v
    BY <2>1, TypedGrows
  <2>3. D \in Seq(Args) /\ Len(D) = Len(B) + 1 /\ Len(B) \in Nat
    BY <2>1, AppendProperties
  <2>4. v \in Lines /\ Len(v) > Len(u)
    BY <2>1, <2>2, TypeType
  <2>5. Len(u) \in Nat /\ Len(v) \in Nat /\ Len(B) <= Len(u)
    BY <1>2, <2>1, <2>4 DEF Lines
  <2>6. Len(D) <= Len(v)
    BY <2>3, <2>4, <2>5
  <2> QED
    BY <2>1, <2>2, <2>3, <2>5, <2>6
<1>3. Seq(Args) \subseteq P
  <2> HIDE DEF P
  <2> QED
    BY <1>1, <1>2, ByAppending
<1> QED
  BY <1>3

\* The numbers of a part of 0..n, in order.
LEMMA OrderFound ==
    ASSUME NEW n \in Nat, NEW E \in SUBSET (0..n), 0 \in E
    PROVE  \E N \in Nat \ {0} : \E cut : InOrder(cut, N, E)
<1> DEFINE Upto(k) == E \intersect (0..k)
           Found(k) == \E N \in Nat \ {0} : \E cut : InOrder(cut, N, Upto(k))
           P == {k \in 0..n : Found(k)}
<1>1. 0 \in P
  <2>1. PICK cut : cut = [i \in 1..1 |-> 0]
    OBVIOUS
  <2>2. Upto(0) = {0}
    OBVIOUS
  <2>3. 1..1 = {1} /\ cut[1] = 0
    BY <2>1
  <2>4. InOrder(cut, 1, {0})
    BY <2>3 DEF InOrder
  <2>5. Found(0)
    BY <2>2, <2>4
  <2> HIDE DEF Found
  <2> QED
    BY <2>5
<1>2. ASSUME NEW k \in 0..(n - 1), k \in P PROVE k + 1 \in P
  <2>1. PICK N \in Nat \ {0} : \E cut : InOrder(cut, N, Upto(k))
    BY <1>2
  <2>2. PICK cut : InOrder(cut, N, Upto(k))
    BY <2>1
  <2>3. PICK e : e = k + 1
    OBVIOUS
  <2>4. 0..e = (0..k) \union {e} /\ e \in Nat /\ e \in 0..n
    BY <2>3
  <2>5. CASE e \notin E
    <3>1. Upto(e) = Upto(k)
      BY <2>4, <2>5
    <3>2. Found(e)
      BY <2>2, <3>1
    <3> HIDE DEF Found
    <3> QED
      BY <2>3, <2>4, <3>2
  <2>6. CASE e \in E
    <3>1. Upto(e) = Upto(k) \union {e}
      BY <2>4, <2>6
    <3>2. cut[N] < e
      <4>1. cut[N] \in Upto(k)
        <5>1. N \in 1..N
          OBVIOUS
        <5> QED
          BY <2>2, <5>1 DEF InOrder
      <4> QED
        BY <2>3, <4>1
    <3>3. PICK M, d : M = N + 1 /\ d = Ending(cut, M, e)
      OBVIOUS
    <3>4. InOrder(d, M, Upto(k) \union {e})
      <4> HIDE DEF Upto
      <4> QED
        BY <2>2, <2>4, <3>2, <3>3, OneMore
    <3>5. M \in Nat \ {0}
      BY <3>3
    <3>6. Found(e)
      <4> HIDE DEF Upto
      <4> QED
        BY <3>1, <3>4, <3>5
    <3> HIDE DEF Found
    <3> QED
      BY <2>3, <2>4, <3>6
  <2> QED
    BY <2>5, <2>6
<1>3. 0..n \subseteq P
  <2> HIDE DEF P
  <2> QED
    BY <1>1, <1>2, UpTo
<1>4. Found(n) /\ Upto(n) = E
  <2>1. n \in 0..n
    OBVIOUS
  <2> HIDE DEF Found
  <2> QED
    BY <1>3, <2>1
<1> QED
  BY <1>4

\* Cut makes texts of a text.
LEMMA CutType ==
    ASSUME NEW s \in Texts, NEW at \in SUBSET (1..Len(s))
    PROVE  Cut(s, at) \in Seq(Texts)
<1>1. PICK n, m, E : n = Len(s) /\ m = n + 1 /\ E = at \union {0, m}
  OBVIOUS
<1>2. n \in Nat /\ m \in Nat
  BY <1>1 DEF Texts
<1>3. E \in SUBSET (0..m) /\ 0 \in E
  <2>1. \A k \in at : k \in 1..n
    BY <1>1
  <2>2. \A k \in 1..n : k \in 0..m
    BY <1>1, <1>2
  <2>3. 0 \in 0..m /\ m \in 0..m
    BY <1>2
  <2>4. \A k \in E : k \in at \/ k = 0 \/ k = m
    BY <1>1
  <2>5. 0 \in E
    BY <1>1
  <2> QED
    BY <2>1, <2>2, <2>3, <2>4, <2>5
<1>4. PICK N \in Nat \ {0} : \E cut : InOrder(cut, N, E)
  BY <1>2, <1>3, OrderFound
<1>5. PICK cut : InOrder(cut, N, E)
  BY <1>4
<1>6. Cut(s, at) = Parts(s, cut, N - 1)
  BY <1>1, <1>5, CutIs
<1>7. ASSUME NEW k \in 1..(N - 1)
      PROVE  SubSeq(s, cut[k] + 1, cut[k + 1] - 1) \in Texts
  <2>1. PICK j : j = k + 1
    OBVIOUS
  <2>2. k \in 1..N /\ j \in 1..N /\ k < j
    BY <2>1
  <2>3. cut[k] \in 0..m /\ cut[j] \in 0..m /\ cut[k] < cut[j]
    BY <1>3, <1>5, <2>2 DEF InOrder
  <2>4. PICK a, b : a = cut[k] + 1 /\ b = cut[j] - 1
    OBVIOUS
  <2>5. a \in 1..(n + 1) /\ b \in (a - 1)..n
    BY <1>1, <1>2, <2>3, <2>4
  <2>6. SubSeq(s, a, b) \in Texts
    BY <1>1, <2>5, PartIs
  <2> QED
    BY <2>1, <2>4, <2>6
<1>8. Parts(s, cut, N - 1) \in [1..(N - 1) -> Texts]
  BY <1>7 DEF Parts
<1>9. N - 1 \in Nat
  OBVIOUS
<1> QED
  BY <1>6, <1>8, <1>9, SeqDef

\* Whatever arguments are typed, in quotes where they need them, parseline of phase 3 takes the
\* line apart into the same arguments, as many as argv holds, and parseline of phase 2
\* (phase2/myshell.c:82-105) does if there are no more than that.
THEOREM ArgumentsAreKept == Spec => []ArgumentsSurvive
<1>1. ASSUME line \in Texts PROVE ArgumentsSurvive
  <2>1. PICK A, at : at = {k \in DOMAIN line : line[k] = "|"} /\ A = Cut(line, at)
    OBVIOUS
  <2>2. A \in Seq(Texts) /\ DOMAIN A = 1..Len(A)
    <3>1. at \in SUBSET (1..Len(line))
      BY <1>1, <2>1 DEF Texts
    <3>2. A \in Seq(Texts)
      BY <1>1, <2>1, <3>1, CutType
    <3> QED
      BY <3>2, LenProperties
  <2>3. ASSUME \A k \in DOMAIN A : ~ Quotes \subseteq Range(A[k])
        PROVE  /\ Len(A) < MAXARGS => parseline2(Typed(A)) = A
               /\ parseline3(Typed(A)) = SubSeq(A, 1, Min({Len(A), MAXARGS - 1}))
    <3>1. A \in Seq(Args)
      <4>1. PICK n : n = Len(A)
        OBVIOUS
      <4>2. n \in Nat /\ A \in [1..n -> Texts]
        BY <2>2, <4>1, LenProperties
      <4>3. \A k \in 1..n : A[k] \in Args
        BY <2>2, <2>3, <4>1, <4>2 DEF Args
      <4>4. A \in [1..n -> Args]
        BY <4>2, <4>3
      <4> QED
        BY <4>2, <4>4, SeqDef
    <3>2. PICK n, m : n = Len(Typed(A)) /\ m = MAXARGS - 1
      OBVIOUS
    <3>3. n \in Nat /\ Len(A) <= n /\ m \in Nat
      BY <3>1, <3>2, TypedLength, ParseLineAssumption
    <3>4. ParseUpTo(Typed(A), n) = A
      BY <3>1, <3>3, TypedScanned, KeptIs
    <3>5. ParseUpTo(Typed(A), m) = Kept(A, m)
      BY <3>1, <3>3, TypedScanned
    <3> QED
      BY <3>2, <3>4, <3>5 DEF parseline2, parseline3, InArgv, Kept
  <2> QED
    BY <2>1, <2>3 DEF ArgumentsSurvive, Typed
<1> QED
  BY <1>1, LinesAreTexts, PTL

-----------------------------------------------------------------------------
(* The phases agree: strtok and the scanner on lines without quotes *)

\* A step of strtok: the tokens so far, of which the last one may be open.
TokenStep(t, c, D) ==
    IF c \in D THEN [t EXCEPT !.open = FALSE]
    ELSE IF t.open THEN [t EXCEPT !.toks[Len(t.toks)] = Append(@, c)]
    ELSE [toks |-> Append(t.toks, <<c>>), open |-> TRUE]

NoToken == [toks |-> << >>, open |-> FALSE]
Tokens(s, D) == FoldLeft(LAMBDA t, c : TokenStep(t, c, D), NoToken, s)
TokenStates == {t \in [toks : Seq(Texts), open : BOOLEAN] : t.open => t.toks # << >>}

\* These are the steps of strtok.
LEMMA StrtokIs ==
    ASSUME NEW s, NEW D
    PROVE  strtok(s, D) = Tokens(s, D).toks
BY DEF strtok, Tokens, TokenStep, NoToken, FoldLeft, MapThenFoldSet

\* What a state of strtok is made of.
LEMMA TokenIs ==
    ASSUME NEW a \in Seq(Texts), NEW b \in BOOLEAN, b => a # << >>
    PROVE  [toks |-> a, open |-> b] \in TokenStates
BY DEF TokenStates

\* A delimiter ends a token, anything else begins or extends one.
TokenMoves(t, c, D, r) ==
    /\ c \in D => r.toks = t.toks /\ ~r.open
    /\ c \notin D /\ ~t.open => r.toks = Append(t.toks, <<c>>) /\ r.open
    /\ c \notin D /\ t.open =>
          r.toks = WithEnd(t.toks, Append(t.toks[Len(t.toks)], c)) /\ r.open

\* TokenStep does so.
LEMMA TokenCases ==
    ASSUME NEW D, NEW t \in TokenStates, NEW c
    PROVE  TokenMoves(t, c, D, TokenStep(t, c, D))
<1>1. t \in [toks : Seq(Texts), open : BOOLEAN]
  BY DEF TokenStates
<1>2. PICK r : r = TokenStep(t, c, D)
  OBVIOUS
<1>3. ASSUME c \in D PROVE r.toks = t.toks /\ ~r.open
  <2>1. r = [t EXCEPT !.open = FALSE]
    BY <1>2, <1>3 DEF TokenStep
  <2> QED
    BY <1>1, <2>1
<1>4. ASSUME c \notin D, ~t.open PROVE r.toks = Append(t.toks, <<c>>) /\ r.open
  BY <1>2, <1>4 DEF TokenStep
<1>5. ASSUME c \notin D, t.open
      PROVE  r.toks = WithEnd(t.toks, Append(t.toks[Len(t.toks)], c)) /\ r.open
  <2>1. r = [t EXCEPT !.toks[Len(t.toks)] = Append(@, c)]
    BY <1>2, <1>5 DEF TokenStep
  <2>2. r.open = t.open
    BY <1>1, <2>1
  <2>3. r.toks = WithEnd(t.toks, Append(t.toks[Len(t.toks)], c))
    BY <1>1, <2>1 DEF WithEnd
  <2> QED
    BY <1>5, <2>2, <2>3
<1> QED
  BY <1>2, <1>3, <1>4, <1>5 DEF TokenMoves

\* A step of strtok goes from a state to a state, and makes at most one token.
LEMMA TokenStepType ==
    ASSUME NEW D, NEW t \in TokenStates, NEW c \in LineChars
    PROVE  /\ TokenStep(t, c, D) \in TokenStates
           /\ Len(t.toks) \in Nat /\ Len(TokenStep(t, c, D).toks) \in Nat
           /\ Len(t.toks) <= Len(TokenStep(t, c, D).toks)
           /\ Len(TokenStep(t, c, D).toks) <= Len(t.toks) + 1
<1>1. PICK a, n, r, q : a = t.toks /\ n = Len(a) /\ r = TokenStep(t, c, D) /\ q = r.toks
  OBVIOUS
<1>2. a \in Seq(Texts) /\ n \in Nat /\ t.open \in BOOLEAN /\ (t.open => a # << >>)
  BY <1>1 DEF TokenStates
<1>3. TokenMoves(t, c, D, r)
  BY <1>1, TokenCases
<1>4. r = [toks |-> q, open |-> r.open] /\ r.open \in BOOLEAN
  <2>1. t \in [toks : Seq(Texts), open : BOOLEAN]
    BY DEF TokenStates
  <2>2. CASE c \in D
    BY <1>1, <2>1, <2>2 DEF TokenStep
  <2>3. CASE c \notin D /\ t.open
    <3>1. r = [t EXCEPT !.toks[Len(t.toks)] = Append(@, c)]
      BY <1>1, <2>3 DEF TokenStep
    <3> QED
      BY <1>1, <2>1, <3>1
  <2>4. CASE c \notin D /\ ~t.open
    BY <1>1, <2>1, <2>4 DEF TokenStep
  <2> QED
    BY <2>2, <2>3, <2>4
<1>5. CASE c \in D
  BY <1>1, <1>2, <1>3, <1>4, <1>5, TokenIs DEF TokenMoves
<1>6. CASE c \notin D /\ ~t.open
  <2>1. PICK w : w = <<c>>
    OBVIOUS
  <2>2. w \in Texts
    BY <2>1 DEF Texts
  <2>3. q = Append(a, w) /\ r.open
    BY <1>1, <1>3, <1>6, <2>1 DEF TokenMoves
  <2>4. q \in Seq(Texts) /\ Len(q) = n + 1
    BY <1>1, <1>2, <2>2, <2>3, AppendProperties
  <2>5. q # << >>
    BY <1>2, <2>4
  <2> QED
    BY <1>1, <1>2, <1>4, <2>4, <2>5, TokenIs
<1>7. CASE c \notin D /\ t.open
  <2>1. PICK e : e = Append(a[n], c)
    OBVIOUS
  <2>2. a[n] \in Texts
    BY <1>1, <1>2, <1>7, NonEmpty
  <2>3. e \in Texts
    BY <2>1, <2>2, AppendProperties DEF Texts
  <2>4. q = WithEnd(a, e)
    BY <1>1, <1>3, <1>7, <2>1 DEF TokenMoves
  <2>5. q \in Seq(Texts) /\ Len(q) = n /\ q # << >>
    BY <1>1, <1>2, <1>7, <2>3, <2>4, EndReplaced
  <2> QED
    BY <1>1, <1>2, <1>4, <2>5, TokenIs
<1> QED
  BY <1>5, <1>6, <1>7

\* strtok is a run of its steps.
LEMMA TokensRun ==
    ASSUME NEW D, NEW s \in Seq(LineChars)
    PROVE  \E f \in [0..Len(s) -> TokenStates] : /\ f[0] = NoToken /\ Tokens(s, D) = f[Len(s)]
                                            /\ \A k \in 1..Len(s) : f[k] = TokenStep(f[k - 1], s[k], D)
<1>1. PICK n : n = Len(s)
  OBVIOUS
<1>2. n \in Nat /\ DOMAIN s = 1..n /\ \A k \in 1..n : s[k] \in LineChars
  BY <1>1
<1>3. NoToken \in TokenStates
  <2>1. << >> \in Seq(Texts)
    BY EmptySeq
  <2> QED
    BY <2>1, TokenIs DEF NoToken
<1> DEFINE fold(g) == g = [T \in SUBSET (1..n) |-> IF T = {} THEN NoToken
                                    ELSE TokenStep(g[T \ {Max(T)}], s[Max(T)], D)]
<1>4. Tokens(s, D) = (CHOOSE g : fold(g))[1..n]
  <2>1. Tokens(s, D) = (CHOOSE g : g = [T \in SUBSET (DOMAIN s) |-> IF T = {} THEN NoToken
                               ELSE TokenStep(g[T \ {Max(T)}], s[Max(T)], D)])[DOMAIN s]
    BY DEF Tokens, FoldLeft, MapThenFoldSet
  <2> QED
    BY <1>2, <2>1
<1>5. PICK G : G = [k \in 1..n |-> [p \in TokenStates |-> TokenStep(p, s[k], D)]]
  OBVIOUS
<1>6. G \in [1..n -> [TokenStates -> TokenStates]]
  BY <1>2, <1>5, TokenStepType
<1>7. PICK g \in [SUBSET (1..n) -> TokenStates] : IsFold(g, n, NoToken, G)
  BY <1>2, <1>3, <1>6, FoldExists
<1>8. fold(g)
  <2>1. ASSUME NEW T \in SUBSET (1..n), T # {}
        PROVE  g[T] = TokenStep(g[T \ {Max(T)}], s[Max(T)], D)
    <3>1. PICK m : m = Max(T)
      OBVIOUS
    <3>2. m \in 1..n /\ T \ {m} \in SUBSET (1..n)
      BY <1>2, <2>1, <3>1, LastIndex
    <3>3. g[T] = G[m][g[T \ {m}]]
      BY <1>7, <2>1, <3>1 DEF IsFold
    <3> QED
      BY <1>5, <1>7, <3>1, <3>2, <3>3
  <2>2. g[{}] = NoToken
    BY <1>7 DEF IsFold
  <2> QED
    BY <1>7, <2>1, <2>2
<1>9. PICK l : l = CHOOSE r : fold(r)
  OBVIOUS
<1>10. fold(l)
  <2> HIDE DEF fold
  <2> QED
    BY <1>8, <1>9
<1>11. PICK f : f = [k \in 0..n |-> l[1..k]]
  OBVIOUS
<1>12. f[0] = NoToken
  <2>1. 1..0 = {}
    OBVIOUS
  <2> QED
    BY <1>2, <1>10, <1>11, <2>1
<1>13. ASSUME NEW k \in 1..n
       PROVE  f[k] = TokenStep(f[k - 1], s[k], D)
  <2>1. PICK T : T = 1..k
    OBVIOUS
  <2>2. T \in SUBSET (1..n) /\ T # {} /\ k \in T
    <3>1. k \in 1..k /\ \A m \in 1..k : m \in 1..n
      BY <1>2
    <3> QED
      BY <2>1, <3>1
  <2>3. Max(T) = k
    <3>1. Max(T) \in T /\ \A m \in T : m <= Max(T)
      BY <1>2, <2>2, LastIndex
    <3> QED
      BY <2>1, <2>2, <3>1
  <2>4. T \ {k} = 1..(k - 1)
    BY <2>1
  <2>5. l[T] = TokenStep(l[1..(k - 1)], s[k], D)
    BY <1>10, <2>2, <2>3, <2>4
  <2> QED
    BY <1>2, <1>11, <2>1, <2>5
<1>14. f \in [0..n -> TokenStates]
  <2> DEFINE P == {k \in 0..n : f[k] \in TokenStates}
  <2>1. 0 \in P
    BY <1>2, <1>3, <1>12
  <2>2. ASSUME NEW k \in 0..(n - 1), k \in P
        PROVE  k + 1 \in P
    <3>1. PICK m : m = k + 1
      OBVIOUS
    <3>2. m \in 1..n /\ m - 1 = k /\ f[k] \in TokenStates
      BY <1>2, <2>2, <3>1
    <3>3. f[m] = TokenStep(f[k], s[m], D) /\ s[m] \in LineChars
      BY <1>2, <1>13, <3>2
    <3>4. TokenStep(f[k], s[m], D) \in TokenStates
      BY <3>2, <3>3, TokenStepType
    <3> QED
      BY <1>2, <3>1, <3>2, <3>3, <3>4
  <2>3. 0..n \subseteq P
    <3> HIDE DEF P
    <3> QED
      BY <1>2, <2>1, <2>2, UpTo
  <2> QED
    BY <1>11, <2>3
<1>15. Tokens(s, D) = f[n]
  <2>1. Tokens(s, D) = l[1..n]
    <3> HIDE DEF fold
    <3> QED
      BY <1>4, <1>9
  <2> QED
    BY <1>2, <1>11, <2>1
<1> QED
  BY <1>1, <1>12, <1>13, <1>14, <1>15

\* strtok of a line that grows.
LEMMA TokensGrow ==
    ASSUME NEW D
    PROVE
    /\ Tokens(<< >>, D) = NoToken
    /\ \A s \in Seq(LineChars) : Tokens(s, D) \in TokenStates
    /\ \A s \in Seq(LineChars), c \in LineChars : Tokens(Append(s, c), D) = TokenStep(Tokens(s, D), c, D)
<1>1. << >> \in Seq(LineChars) /\ Len(<< >>) = 0
  BY EmptySeq
<1>2. Tokens(<< >>, D) = NoToken
  <2>1. PICK e : e = << >>
    OBVIOUS
  <2>2. e \in Seq(LineChars)
    BY <1>1, <2>1
  <2>4. Len(e) = 0
    BY <2>1
  <2>3. \E f \in [0..Len(e) -> TokenStates] :
           /\ f[0] = NoToken /\ Tokens(e, D) = f[Len(e)]
           /\ \A k \in 1..Len(e) : f[k] = TokenStep(f[k - 1], e[k], D)
    BY <2>2, TokensRun
  <2> QED
    BY <2>1, <2>3, <2>4
<1>3. ASSUME NEW s \in Seq(LineChars)
      PROVE  Tokens(s, D) \in TokenStates
  <2>1. Len(s) \in Nat
    OBVIOUS
  <2>2. Len(s) \in 0..Len(s)
    BY <2>1
  <2> QED
    BY <2>2, TokensRun
<1>4. ASSUME NEW s \in Seq(LineChars), NEW c \in LineChars
      PROVE  Tokens(Append(s, c), D) = TokenStep(Tokens(s, D), c, D)
  <2>1. PICK n, u : n = Len(s) /\ u = Append(s, c)
    OBVIOUS
  <2>2. /\ n \in Nat /\ u \in Seq(LineChars) /\ Len(u) = n + 1 /\ u[n + 1] = c
        /\ \A k \in 1..n : u[k] = s[k]
    BY <2>1, AppendProperties
  <2>3. PICK f \in [0..n -> TokenStates] : /\ f[0] = NoToken /\ Tokens(s, D) = f[n]
                                      /\ \A k \in 1..n : f[k] = TokenStep(f[k - 1], s[k], D)
    BY <2>1, TokensRun
  <2>4. PICK g \in [0..(n + 1) -> TokenStates] :
                     /\ g[0] = NoToken /\ Tokens(u, D) = g[n + 1]
                     /\ \A k \in 1..(n + 1) : g[k] = TokenStep(g[k - 1], u[k], D)
    <3>1. PICK m : m = Len(u)
      OBVIOUS
    <3>4. u \in Seq(LineChars)
      BY <2>2
    <3>5. \E g \in [0..Len(u) -> TokenStates] :
             /\ g[0] = NoToken /\ Tokens(u, D) = g[Len(u)]
             /\ \A k \in 1..Len(u) : g[k] = TokenStep(g[k - 1], u[k], D)
      BY <3>4, TokensRun
    <3>2. \E g \in [0..m -> TokenStates] : /\ g[0] = NoToken /\ Tokens(u, D) = g[m]
                                      /\ \A k \in 1..m : g[k] = TokenStep(g[k - 1], u[k], D)
      BY <3>1, <3>5
    <3>3. m = n + 1
      BY <2>2, <3>1
    <3> QED
      BY <3>2, <3>3
  <2>5. SameSteps(f, g, n)
    <3> SUFFICES ASSUME NEW k \in 1..n, f[k - 1] = g[k - 1] PROVE f[k] = g[k]
      BY DEF SameSteps
    <3>1. f[k] = TokenStep(f[k - 1], s[k], D) /\ g[k] = TokenStep(g[k - 1], u[k], D) /\ u[k] = s[k]
      BY <2>2, <2>3, <2>4
    <3> QED
      BY <3>1
  <2>6. f[n] = g[n]
    <3>2. f[0] = g[0] /\ n \in Nat
      BY <2>2, <2>3, <2>4
    <3>1. Same(f, g, n)
      BY <2>5, <3>2, SameRun
    <3> QED
      BY <2>2, <3>1 DEF Same
  <2>7. g[n + 1] = TokenStep(g[n], c, D)
    <3>1. n + 1 \in 1..(n + 1) /\ n + 1 - 1 = n
      BY <2>2
    <3> QED
      BY <2>2, <2>4, <3>1
  <2> QED
    BY <2>1, <2>3, <2>4, <2>6, <2>7
<1> QED
  BY <1>2, <1>3, <1>4

\* A state of strtok is a state again with each character.
LEMMA TokensStep ==
    ASSUME NEW D, NEW s \in Texts, NEW c \in LineChars, NEW x, x = Append(s, c)
    PROVE  /\ Tokens(s, D) \in TokenStates /\ Tokens(x, D) = TokenStep(Tokens(s, D), c, D)
           /\ TokenMoves(Tokens(s, D), c, D, Tokens(x, D))
           /\ Len(Tokens(s, D).toks) \in Nat /\ Len(Tokens(x, D).toks) \in Nat
           /\ Len(Tokens(s, D).toks) <= Len(Tokens(x, D).toks)
           /\ Len(Tokens(x, D).toks) <= Len(Tokens(s, D).toks) + 1
<1>1. PICK t, r : t = Tokens(s, D) /\ r = Tokens(x, D)
  OBVIOUS
<1>2. t \in TokenStates /\ r = TokenStep(t, c, D)
  BY <1>1, TokensGrow DEF Texts
<1>3. TokenMoves(t, c, D, r)
  BY <1>2, TokenCases
<1>4. /\ Len(t.toks) \in Nat /\ Len(r.toks) \in Nat
      /\ Len(t.toks) <= Len(r.toks) /\ Len(r.toks) <= Len(t.toks) + 1
  BY <1>2, TokenStepType
<1> QED
  BY <1>1, <1>2, <1>3, <1>4

\* A line without quotes.
Plain(s) == \A k \in 1..Len(s) : s[k] \notin Quotes

\* A line that grows is plain, or blank, as long as its characters are.
LEMMA PlainAppend ==
    ASSUME NEW s \in Texts, NEW c \in LineChars, NEW x, x = Append(s, c)
    PROVE  /\ x \in Texts /\ Len(s) \in Nat /\ Len(x) = Len(s) + 1
           /\ Plain(x) <=> Plain(s) /\ c \notin Quotes
           /\ Blank(x) <=> Blank(s) /\ isspace(c)
<1>1. PICK n, m : n = Len(s) /\ m = n + 1
  OBVIOUS
<1>2. x \in Texts /\ n \in Nat /\ Len(x) = m /\ x[m] = c /\ \A k \in 1..n : x[k] = s[k]
  BY <1>1, AppendProperties DEF Texts
<1>3. \A k \in 1..m : k \in 1..n \/ k = m
  BY <1>1, <1>2
<1>4. m \in 1..m /\ \A k \in 1..n : k \in 1..m
  BY <1>1, <1>2
<1>5. Plain(x) <=> Plain(s) /\ c \notin Quotes
  BY <1>1, <1>2, <1>3, <1>4 DEF Plain
<1>6. Blank(x) <=> Blank(s) /\ isspace(c)
  BY <1>1, <1>2, <1>3, <1>4 DEF Blank
<1> QED
  BY <1>1, <1>2, <1>5, <1>6

\* A character is a text.
LEMMA OneChar ==
    ASSUME NEW c \in LineChars
    PROVE  <<c>> \in Texts
BY DEF Texts

\* What strtok makes of a line at its blanks.
Words(s) == Tokens(s, Blanks)

\* The state of the scanner that has the same words.
ScanOf(t) == [argv |-> t.toks, mode |-> IF t.open THEN "word" ELSE "between"]

\* Where there is room for the word, the scanner makes the step of strtok.
LEMMA PlainScan ==
    ASSUME NEW t \in TokenStates, NEW c \in LineChars, c \notin Quotes, NEW limit \in Nat,
           NEW r, r = TokenStep(t, c, Blanks), Len(r.toks) <= limit
    PROVE  Scan(ScanOf(t), c, limit) = ScanOf(r)
<1>1. PICK p, a, q : p = ScanOf(t) /\ a = t.toks /\ q = r.toks
  OBVIOUS
<1>2. /\ p = [argv |-> a, mode |-> IF t.open THEN "word" ELSE "between"] /\ t.open \in BOOLEAN
      /\ a \in Seq(Texts) /\ Len(a) \in Nat
  <2>1. p = [argv |-> a, mode |-> IF t.open THEN "word" ELSE "between"]
    BY <1>1 DEF ScanOf
  <2>2. t.open \in BOOLEAN /\ a \in Seq(Texts)
    BY <1>1 DEF TokenStates
  <2> QED
    BY <2>1, <2>2
<1>3. TokenMoves(t, c, Blanks, r)
  BY TokenCases
<1>4. c \in Blanks <=> isspace(c)
  BY DEF isspace
<1>5. c # "word"
  BY KeysAreNotModes DEF Keys
<1>6. CASE isspace(c) /\ ~t.open
  <2>1. q = a /\ ~r.open
    BY <1>1, <1>3, <1>4, <1>6 DEF TokenMoves
  <2>2. Scan(p, c, limit) = p
    BY <1>2, <1>6 DEF Scan
  <2> QED
    BY <1>1, <1>6, <2>1, <2>2 DEF ScanOf
<1>7. CASE isspace(c) /\ t.open
  <2>1. q = a /\ ~r.open
    BY <1>1, <1>3, <1>4, <1>7 DEF TokenMoves
  <2>2. Scan(p, c, limit) = [p EXCEPT !.mode = "between"]
    BY <1>2, <1>7 DEF Scan
  <2>4. p = [argv |-> a, mode |-> "word"]
    BY <1>2, <1>7
  <2>3. [p EXCEPT !.mode = "between"] = [argv |-> a, mode |-> "between"]
    BY <2>4
  <2> QED
    BY <1>1, <2>1, <2>2, <2>3 DEF ScanOf
<1>8. CASE ~isspace(c) /\ ~t.open
  <2>1. q = Append(a, <<c>>) /\ r.open
    BY <1>1, <1>3, <1>4, <1>8 DEF TokenMoves
  <2>2. <<c>> \in Texts
    BY OneChar
  <2>3. Len(q) = Len(a) + 1
    BY <1>2, <2>1, <2>2, AppendProperties
  <2>4. Len(a) < limit
    BY <1>1, <1>2, <2>3
  <2>5. Scan(p, c, limit) = [argv |-> Append(a, <<c>>), mode |-> "word"]
    BY <1>2, <1>8, <2>4 DEF Scan
  <2> QED
    BY <1>1, <2>1, <2>5 DEF ScanOf
<1>9. CASE ~isspace(c) /\ t.open
  <2>1. q = WithEnd(a, Append(a[Len(a)], c)) /\ r.open
    BY <1>1, <1>3, <1>4, <1>9 DEF TokenMoves
  <2>2. p.mode = "word" /\ p.argv = a
    BY <1>2, <1>9
  <2>3. Scan(p, c, limit) = [p EXCEPT !.argv[Len(p.argv)] = Append(@, c)]
    BY <1>5, <1>9, <2>2 DEF Scan
  <2>4. p \in [argv : Seq(Texts), mode : {"word"}]
    BY <1>2, <1>9
  <2>5. Scan(p, c, limit) = [argv |-> WithEnd(a, Append(a[Len(a)], c)), mode |-> "word"]
    BY <2>2, <2>3, <2>4 DEF WithEnd
  <2> QED
    BY <1>1, <2>1, <2>5 DEF ScanOf
<1> QED
  BY <1>1, <1>2, <1>6, <1>7, <1>8, <1>9

\* parseline finds the words of a line without quotes, if there is room for them.
LEMMA PlainWords ==
    ASSUME NEW s \in Texts, Plain(s), NEW limit \in Nat, Len(Words(s).toks) <= limit
    PROVE  ParseUpTo(s, limit) = Words(s).toks
<1> DEFINE P == {u \in Texts : Plain(u) /\ Len(Words(u).toks) <= limit =>
                                  Scanned(u, limit) = ScanOf(Words(u))}
<1>1. << >> \in P
  <2>1. << >> \in Texts
    BY EmptySeq DEF Texts
  <2>2. Words(<< >>) = NoToken
    BY TokensGrow DEF Words
  <2>3. Scanned(<< >>, limit) = Between
    BY ScanGrows
  <2>4. ScanOf(NoToken) = Between
    BY DEF ScanOf, NoToken, Between
  <2> QED
    BY <2>1, <2>2, <2>3, <2>4
<1>2. ASSUME NEW u \in Texts, NEW c \in LineChars, u \in P
      PROVE  Append(u, c) \in P
  <2>1. PICK x, t, r : x = Append(u, c) /\ t = Words(u) /\ r = Words(x)
    OBVIOUS
  <2>2. x \in Texts /\ (Plain(x) <=> Plain(u) /\ c \notin Quotes)
    BY <2>1, PlainAppend
  <2>3. /\ t \in TokenStates /\ r = TokenStep(t, c, Blanks)
        /\ Len(t.toks) \in Nat /\ Len(r.toks) \in Nat /\ Len(t.toks) <= Len(r.toks)
    BY <2>1, TokensStep DEF Words
  <2>4. ASSUME Plain(x), Len(r.toks) <= limit
        PROVE  Scanned(x, limit) = ScanOf(r)
    <3>1. Len(t.toks) <= limit
      BY <2>3, <2>4
    <3>2. Scanned(u, limit) = ScanOf(t)
      BY <1>2, <2>1, <2>2, <2>4, <3>1
    <3>3. Scanned(x, limit) = Scan(Scanned(u, limit), c, limit)
      BY <2>1, ScanGrows DEF Texts
    <3>4. Scan(ScanOf(t), c, limit) = ScanOf(r)
      BY <2>2, <2>3, <2>4, PlainScan
    <3> QED
      BY <3>2, <3>3, <3>4
  <2> QED
    BY <2>1, <2>2, <2>4
<1>3. Texts \subseteq P
  <2> HIDE DEF P
  <2> QED
    BY <1>1, <1>2, ByAppending DEF Texts
<1>4. Scanned(s, limit) = ScanOf(Words(s))
  BY <1>3
<1>5. ParseUpTo(s, limit) = Scanned(s, limit).argv
  BY DEF ParseUpTo, Scanned, Between
<1> QED
  BY <1>4, <1>5 DEF ScanOf

\* A line has no more words than characters.
LEMMA WordsFewer ==
    ASSUME NEW s \in Texts
    PROVE  Words(s) \in TokenStates /\ Len(Words(s).toks) \in 0..Len(s)
<1> DEFINE P == {u \in Texts : Words(u) \in TokenStates /\ Len(Words(u).toks) \in 0..Len(u)}
<1>1. << >> \in P
  <2>1. << >> \in Texts
    BY EmptySeq DEF Texts
  <2>2. Words(<< >>) = NoToken /\ NoToken \in TokenStates
    <3>1. << >> \in Seq(LineChars)
      BY <2>1 DEF Texts
    <3> QED
      BY <3>1, TokensGrow DEF Words
  <2>3. Len(NoToken.toks) = 0
    BY DEF NoToken
  <2> QED
    BY <2>1, <2>2, <2>3
<1>2. ASSUME NEW u \in Texts, NEW c \in LineChars, u \in P
      PROVE  Append(u, c) \in P
  <2>1. PICK x, t, r : x = Append(u, c) /\ t = Words(u) /\ r = Words(x)
    OBVIOUS
  <2>2. x \in Texts /\ Len(u) \in Nat /\ Len(x) = Len(u) + 1
    BY <2>1, PlainAppend
  <2>3. /\ t \in TokenStates /\ r = TokenStep(t, c, Blanks)
        /\ Len(t.toks) \in Nat /\ Len(r.toks) \in Nat /\ Len(r.toks) <= Len(t.toks) + 1
    BY <2>1, TokensStep DEF Words
  <2>4. r \in TokenStates
    BY <2>3, TokenStepType
  <2>5. Len(t.toks) \in 0..Len(u)
    BY <1>2, <2>1
  <2>6. Len(r.toks) \in 0..Len(x)
    BY <2>2, <2>3, <2>5
  <2> QED
    BY <2>1, <2>2, <2>4, <2>6
<1>3. Texts \subseteq P
  <2> HIDE DEF P
  <2> QED
    BY <1>1, <1>2, ByAppending DEF Texts
<1> QED
  BY <1>3

\* Blanks in front of a line or behind it make no words.
LEMMA BlanksAreNoWords ==
    ASSUME NEW w \in Texts, Blank(w), NEW s \in Texts
    PROVE  Words(w \o s) = Words(s) /\ Words(s \o w).toks = Words(s).toks
<1> DEFINE P == {u \in Texts : Blank(u) => Words(u) = NoToken}
           Q == {u \in Texts : Words(w \o u) = Words(u)}
           R == {u \in Texts : Blank(u) => Words(s \o u).toks = Words(s).toks}
<1>0. << >> \in Texts /\ w \o << >> = w /\ s \o << >> = s /\ Words(<< >>) = NoToken
  BY EmptySeq, ConcatEmptySeq, TokensGrow DEF Texts, Words
<1>1. << >> \in P /\ << >> \in R
  BY <1>0
<1>2. ASSUME NEW u \in Texts, NEW c \in LineChars, u \in P
      PROVE  Append(u, c) \in P
  <2>1. PICK x : x = Append(u, c)
    OBVIOUS
  <2>2. x \in Texts /\ (Blank(x) <=> Blank(u) /\ isspace(c))
    BY <2>1, PlainAppend
  <2>3. ASSUME Blank(x) PROVE Words(x) = NoToken
    <3>1. Words(u) = NoToken
      BY <1>2, <2>2, <2>3
    <3>2. Words(x) = TokenStep(NoToken, c, Blanks)
      BY <2>1, <3>1, TokensStep DEF Words
    <3>3. c \in Blanks
      BY <2>2, <2>3 DEF isspace
    <3>4. TokenStep(NoToken, c, Blanks) = [NoToken EXCEPT !.open = FALSE]
      BY <3>3 DEF TokenStep
    <3> QED
      BY <3>2, <3>4 DEF NoToken
  <2> QED
    BY <2>1, <2>2, <2>3
<1>3. Texts \subseteq P
  <2> HIDE DEF P
  <2> QED
    BY <1>1, <1>2, ByAppending DEF Texts
<1>4. << >> \in Q
  <2>1. Words(w) = NoToken
    BY <1>3
  <2> QED
    BY <1>0, <2>1
<1>5. ASSUME NEW u \in Texts, NEW c \in LineChars, u \in Q
      PROVE  Append(u, c) \in Q
  <2>1. PICK x, y, z : x = Append(u, c) /\ y = w \o u /\ z = Append(y, c)
    OBVIOUS
  <2>2. x \in Texts /\ y \in Texts /\ w \o x = z
    BY <2>1, PlainAppend, ConcatAppend
  <2>3. Words(z) = TokenStep(Words(y), c, Blanks)
    BY <2>1, <2>2, TokensStep DEF Words
  <2>4. Words(x) = TokenStep(Words(u), c, Blanks)
    BY <2>1, TokensStep DEF Words
  <2>5. Words(y) = Words(u)
    BY <1>5, <2>1
  <2> QED
    BY <2>1, <2>2, <2>3, <2>4, <2>5
<1>6. Texts \subseteq Q
  <2> HIDE DEF Q
  <2> QED
    BY <1>4, <1>5, ByAppending DEF Texts
<1>7. ASSUME NEW u \in Texts, NEW c \in LineChars, u \in R
      PROVE  Append(u, c) \in R
  <2>1. PICK x, y, z : x = Append(u, c) /\ y = s \o u /\ z = Append(y, c)
    OBVIOUS
  <2>2. x \in Texts /\ y \in Texts /\ s \o x = z /\ (Blank(x) <=> Blank(u) /\ isspace(c))
    BY <2>1, PlainAppend, ConcatAppend
  <2>3. ASSUME Blank(x) PROVE Words(z).toks = Words(s).toks
    <3>1. TokenMoves(Words(y), c, Blanks, Words(z))
      BY <2>1, <2>2, TokensStep DEF Words
    <3>2. c \in Blanks
      BY <2>2, <2>3 DEF isspace
    <3>3. Words(z).toks = Words(y).toks
      BY <3>1, <3>2 DEF TokenMoves
    <3>4. Words(y).toks = Words(s).toks
      BY <1>7, <2>1, <2>2, <2>3
    <3> QED
      BY <3>3, <3>4
  <2> QED
    BY <2>1, <2>2, <2>3
<1>8. Texts \subseteq R
  <2> HIDE DEF R
  <2> QED
    BY <1>1, <1>7, ByAppending DEF Texts
<1> QED
  BY <1>6, <1>8

\* A line has the words of its text.
LEMMA WordsOfText ==
    ASSUME NEW s \in Texts
    PROVE  Words(trim_ws(s)).toks = Words(s).toks
<1>1. PICK w, v \in Texts : Blank(w) /\ Blank(v) /\ s = (w \o trim_ws(s)) \o v
  BY Surrounded
<1>2. PICK t, y : t = trim_ws(s) /\ y = w \o t
  OBVIOUS
<1>3. t \in Texts
  BY <1>2, TrimType
<1>4. y \in Texts
  BY <1>2, <1>3, ConcatProperties DEF Texts
<1>5. Words(y) = Words(t)
  BY <1>1, <1>2, <1>3, BlanksAreNoWords
<1>6. Words(y \o v).toks = Words(y).toks
  BY <1>1, <1>4, BlanksAreNoWords
<1> QED
  BY <1>1, <1>2, <1>5, <1>6

\* P with another piece at a bar, and with c at the end of the last piece otherwise.
Extended(P, Q, c) ==
    /\ c = "|" => Q = Append(P, << >>)
    /\ c # "|" => Q = WithEnd(P, Append(P[Len(P)], c))

\* So do the pieces of a line without quotes change.
LEMMA SplitPlain ==
    ASSUME NEW s \in Texts, NEW c \in LineChars, c \notin Quotes, NEW x, x = Append(s, c),
           Split(s).quote = NoQuote, NEW P, P = Split(s).pieces, NEW Q, Q = Split(x).pieces
    PROVE  P \in Seq(Texts) /\ P # << >> /\ Split(x).quote = NoQuote /\ Extended(P, Q, c)
<1>1. PICK p : p = Split(s)
  OBVIOUS
<1>2. p \in Splits /\ Split(x) = SplitStep(p, c)
  BY <1>1, SplitGrows
<1>3. p \in [pieces : Seq(Texts), quote : Quotes \union {NoQuote}] /\ p.pieces # << >>
  BY <1>2 DEF Splits
<1>4. CASE c = "|"
  <2>1. SplitStep(p, c) = [p EXCEPT !.pieces = Append(@, << >>)]
    BY <1>1, <1>4 DEF SplitStep
  <2> QED
    BY <1>1, <1>2, <1>3, <1>4, <2>1 DEF Extended
<1>5. CASE c # "|"
  <2>1. SplitStep(p, c) = [pieces |-> [P EXCEPT ![Len(P)] = Append(@, c)], quote |-> NoQuote]
    BY <1>1, <1>5 DEF SplitStep
  <2> QED
    BY <1>1, <1>2, <1>3, <1>5, <2>1 DEF WithEnd, Extended
<1> QED
  BY <1>4, <1>5

\* None of the pieces P has a quote in it.
PlainPieces(P) == \A n \in 1..Len(P) : P[n] \in Texts /\ Plain(P[n])

\* With each character.
LEMMA PlainStep ==
    ASSUME NEW s \in Texts, NEW c \in LineChars, c \notin Quotes, NEW x, x = Append(s, c),
           Split(s).quote = NoQuote, PlainPieces(Split(s).pieces)
    PROVE  Split(x).quote = NoQuote /\ PlainPieces(Split(x).pieces)
<1>1. PICK P, Q, m, l : P = Split(s).pieces /\ Q = Split(x).pieces /\ m = Len(P) /\ l = P[m]
  OBVIOUS
<1>2. /\ P \in Seq(Texts) /\ P # << >> /\ Split(x).quote = NoQuote
      /\ c = "|" => Q = Append(P, << >>)
      /\ c # "|" => Q = WithEnd(P, Append(l, c))
  <2>1. P = Split(s).pieces /\ Q = Split(x).pieces /\ l = P[Len(P)]
    BY <1>1
  <2>2. P \in Seq(Texts) /\ P # << >> /\ Split(x).quote = NoQuote /\ Extended(P, Q, c)
    BY <2>1, SplitPlain
  <2> QED
    BY <2>1, <2>2 DEF Extended
<1>3. m \in Nat \ {0} /\ m \in 1..m
  BY <1>1, <1>2, NonEmpty
<1>4. \A n \in 1..m : P[n] \in Texts /\ Plain(P[n])
  BY <1>1 DEF PlainPieces
<1>5. CASE c = "|"
  <2>1. PICK e : e = << >>
    OBVIOUS
  <2>2. e \in Texts /\ Plain(e)
    BY <2>1, EmptySeq DEF Texts, Plain
  <2>3. Len(Q) = m + 1 /\ Q[m + 1] = e /\ \A n \in 1..m : Q[n] = P[n]
    <3>1. Q = Append(P, e) /\ m = Len(P) /\ P \in Seq(Texts) /\ e \in Texts
      BY <1>1, <1>2, <1>5, <2>1, <2>2
    <3> QED
      BY <3>1, AppendProperties
  <2>4. \A n \in 1..Len(Q) : n \in 1..m \/ n = m + 1
    BY <1>3, <2>3
  <2> QED
    BY <1>1, <1>2, <1>4, <2>2, <2>3, <2>4 DEF PlainPieces
<1>6. CASE c # "|"
  <2>1. PICK e : e = Append(l, c)
    OBVIOUS
  <2>2. e \in Texts /\ Plain(e)
    <3>1. l \in Texts /\ Plain(l)
      BY <1>1, <1>3, <1>4
    <3> QED
      BY <2>1, <3>1, PlainAppend
  <2>3. Len(Q) = m /\ Q[m] = e /\ \A n \in 1..(m - 1) : Q[n] = P[n]
    <3>1. P \in Seq(Texts) /\ P # << >> /\ e \in Texts
      BY <1>2, <2>2
    <3>2. /\ Len(WithEnd(P, e)) = Len(P) /\ WithEnd(P, e)[Len(P)] = e
          /\ \A n \in 1..(Len(P) - 1) : WithEnd(P, e)[n] = P[n]
      BY <3>1, EndReplaced
    <3>3. Q = WithEnd(P, e) /\ m = Len(P)
      BY <1>1, <1>2, <1>6, <2>1
    <3> QED
      BY <3>2, <3>3
  <2>4. \A n \in 1..Len(Q) : n \in 1..m /\ (n \in 1..(m - 1) \/ n = m)
    BY <1>3, <2>3
  <2> QED
    BY <1>1, <1>2, <1>4, <2>2, <2>3, <2>4 DEF PlainPieces
<1> QED
  BY <1>5, <1>6

\* The pieces of a line without quotes are without quotes.
LEMMA PlainSplit ==
    ASSUME NEW s \in Texts, Plain(s)
    PROVE  Split(s).quote = NoQuote /\ PlainPieces(Split(s).pieces)
<1> DEFINE P == {u \in Texts : Plain(u) => Split(u).quote = NoQuote /\ PlainPieces(Split(u).pieces)}
<1>1. << >> \in P
  <2>1. PICK e, W : e = << >> /\ W = Whole.pieces
    OBVIOUS
  <2>2. e \in Texts /\ Len(e) = 0 /\ Plain(e) /\ Split(e) = Whole
    BY <2>1, EmptySeq, SplitGrows DEF Texts, Plain
  <2>3. Len(W) = 1 /\ W[1] = e /\ Whole.quote = NoQuote
    BY <2>1 DEF Whole
  <2>4. PlainPieces(W)
    BY <2>2, <2>3 DEF PlainPieces
  <2> QED
    BY <2>1, <2>2, <2>3, <2>4
<1>2. ASSUME NEW u \in Texts, NEW c \in LineChars, u \in P
      PROVE  Append(u, c) \in P
  <2>1. PICK x : x = Append(u, c)
    OBVIOUS
  <2>2. x \in Texts /\ (Plain(x) <=> Plain(u) /\ c \notin Quotes)
    BY <2>1, PlainAppend
  <2>3. ASSUME Plain(x) PROVE Split(x).quote = NoQuote /\ PlainPieces(Split(x).pieces)
    <3>1. Split(u).quote = NoQuote /\ PlainPieces(Split(u).pieces)
      BY <1>2, <2>2, <2>3
    <3> QED
      BY <2>1, <2>2, <2>3, <3>1, PlainStep
  <2> QED
    BY <2>1, <2>2, <2>3
<1>3. Texts \subseteq P
  <2> HIDE DEF P
  <2> QED
    BY <1>1, <1>2, ByAppending DEF Texts
<1> QED
  BY <1>3

\* Without other blanks a line has the same tokens at the separators of phase 1.
LEMMA SeparatedWords ==
    ASSUME NEW s \in Texts, Range(s) \intersect (Blanks \ Separators) = {}
    PROVE  strtok(s, Separators) = Words(s).toks
<1> DEFINE P == {u \in Texts : Range(u) \intersect (Blanks \ Separators) = {} =>
                                   Tokens(u, Separators) = Tokens(u, Blanks)}
<1>1. << >> \in P
  <2>1. << >> \in Texts
    BY EmptySeq DEF Texts
  <2>2. Tokens(<< >>, Separators) = Tokens(<< >>, Blanks)
    BY TokensGrow
  <2> QED
    BY <2>1, <2>2
<1>2. ASSUME NEW u \in Texts, NEW c \in LineChars, u \in P
      PROVE  Append(u, c) \in P
  <2>1. PICK x : x = Append(u, c)
    OBVIOUS
  <2>2. x \in Texts /\ Range(x) = Range(u) \union {c}
    <3>1. /\ x \in Texts /\ Len(x) = Len(u) + 1 /\ Len(u) \in Nat
          /\ x[Len(u) + 1] = c /\ \A k \in 1..Len(u) : x[k] = u[k]
      BY <2>1, AppendProperties DEF Texts
    <3>2. DOMAIN x = 1..(Len(u) + 1) /\ DOMAIN u = 1..Len(u)
      BY <3>1 DEF Texts
    <3>3. \A k \in 1..(Len(u) + 1) : k \in 1..Len(u) \/ k = Len(u) + 1
      BY <3>1
    <3>4. Len(u) + 1 \in 1..(Len(u) + 1) /\ \A k \in 1..Len(u) : k \in 1..(Len(u) + 1)
      BY <3>1
    <3> QED
      BY <3>1, <3>2, <3>3, <3>4 DEF Range
  <2>3. ASSUME Range(x) \intersect (Blanks \ Separators) = {}
        PROVE  Tokens(x, Separators) = Tokens(x, Blanks)
    <3>1. Tokens(u, Separators) = Tokens(u, Blanks)
      BY <1>2, <2>2, <2>3
    <3>2. c \in Separators <=> c \in Blanks
      BY <2>2, <2>3 DEF Blanks
    <3>3. PICK t : t = Tokens(u, Blanks)
      OBVIOUS
    <3>4. TokenStep(t, c, Separators) = TokenStep(t, c, Blanks)
      BY <3>2 DEF TokenStep
    <3>5. Tokens(x, Separators) = TokenStep(Tokens(u, Separators), c, Separators)
      BY <2>1, TokensStep
    <3>6. Tokens(x, Blanks) = TokenStep(Tokens(u, Blanks), c, Blanks)
      BY <2>1, TokensStep
    <3> QED
      BY <3>1, <3>3, <3>4, <3>5, <3>6
  <2> QED
    BY <2>1, <2>2, <2>3
<1>3. Texts \subseteq P
  <2> HIDE DEF P
  <2> QED
    BY <1>1, <1>2, ByAppending DEF Texts
<1> QED
  BY <1>3, StrtokIs DEF Words

\* T has the tokens of a line with the pieces P, of which only the last one may be empty.
TokensAre(P, T) ==
    \/ P[Len(P)] # << >> /\ T.open /\ T.toks = P
    \/ P[Len(P)] = << >> /\ ~T.open /\ Append(T.toks, << >>) = P

AllBegun(P) == \A n \in 1..(Len(P) - 1) : P[n] # << >>

\* With each character.
LEMMA BarStep ==
    ASSUME NEW s \in Texts, NEW c \in LineChars, c \notin Quotes, NEW x, x = Append(s, c),
           Split(s).quote = NoQuote, AllBegun(Split(x).pieces),
           AllBegun(Split(s).pieces) => TokensAre(Split(s).pieces, Tokens(s, {"|"}))
    PROVE  TokensAre(Split(x).pieces, Tokens(x, {"|"}))
<1>1. PICK P, Q, T, R, m, l : /\ P = Split(s).pieces /\ Q = Split(x).pieces /\ m = Len(P)
                              /\ T = Tokens(s, {"|"}) /\ R = Tokens(x, {"|"}) /\ l = P[m]
  OBVIOUS
<1>2. /\ P \in Seq(Texts) /\ P # << >>
      /\ c = "|" => Q = Append(P, << >>)
      /\ c # "|" => Q = WithEnd(P, Append(l, c))
  <2>1. P = Split(s).pieces /\ Q = Split(x).pieces /\ l = P[Len(P)]
    BY <1>1
  <2>2. P \in Seq(Texts) /\ P # << >> /\ Split(x).quote = NoQuote /\ Extended(P, Q, c)
    BY <2>1, SplitPlain
  <2> QED
    BY <2>1, <2>2 DEF Extended
<1>3. m \in Nat \ {0} /\ l \in Texts
  BY <1>1, <1>2, NonEmpty
<1>4. TokenMoves(T, c, {"|"}, R) /\ T \in TokenStates
  BY <1>1, TokensStep
<1>5. CASE c = "|"
  <2>1. PICK e, d : e = << >> /\ d = m + 1
    OBVIOUS
  <2>2. e \in Texts
    BY <2>1, EmptySeq DEF Texts
  <2>3. Q = Append(P, e) /\ Len(Q) = d /\ Q[d] = e /\ \A n \in 1..m : Q[n] = P[n]
    <3>1. Q = Append(P, e) /\ m = Len(P) /\ d = Len(P) + 1
      BY <1>1, <1>2, <1>5, <2>1
    <3>2. P \in Seq(Texts) /\ e \in Texts
      BY <1>2, <2>2
    <3> QED
      BY <3>1, <3>2, AppendProperties
  <2>4. \A n \in 1..m : P[n] # << >>
    <3>1. d - 1 = m
      BY <1>3, <2>1
    <3>2. \A n \in 1..m : Q[n] # << >>
      BY <1>1, <2>3, <3>1 DEF AllBegun
    <3> QED
      BY <2>3, <3>2
  <2>5. TokensAre(P, T) /\ l # << >>
    <3>1. m \in 1..m /\ \A n \in 1..(m - 1) : n \in 1..m
      BY <1>3
    <3>2. AllBegun(P)
      BY <1>1, <2>4, <3>1 DEF AllBegun
    <3> QED
      BY <1>1, <2>4, <3>1, <3>2
  <2>6. T.toks = P
    BY <1>1, <2>5 DEF TokensAre
  <2>7. R.toks = P /\ ~R.open
    BY <1>4, <1>5, <2>6 DEF TokenMoves
  <2> QED
    BY <1>1, <2>1, <2>3, <2>7 DEF TokensAre
<1>6. CASE c # "|"
  <2>1. PICK e : e = Append(l, c)
    OBVIOUS
  <2>2. e \in Texts /\ e # << >>
    <3>1. e \in Texts /\ Len(e) = Len(l) + 1 /\ Len(l) \in Nat
      BY <1>3, <2>1, PlainAppend
    <3>2. Len(e) # 0
      BY <3>1
    <3> QED
      BY <3>1, <3>2, EmptySeq
  <2>3. Q = WithEnd(P, e) /\ Len(Q) = m /\ Q[m] = e /\ \A n \in 1..(m - 1) : Q[n] = P[n]
    <3>1. P \in Seq(Texts) /\ P # << >> /\ e \in Texts
      BY <1>2, <2>2
    <3>2. /\ Len(WithEnd(P, e)) = Len(P) /\ WithEnd(P, e)[Len(P)] = e
          /\ \A n \in 1..(Len(P) - 1) : WithEnd(P, e)[n] = P[n]
      BY <3>1, EndReplaced
    <3>3. Q = WithEnd(P, e) /\ m = Len(P)
      BY <1>1, <1>2, <1>6, <2>1
    <3> QED
      BY <3>2, <3>3
  <2>4. TokensAre(P, T)
    <3>1. \A n \in 1..(m - 1) : P[n] # << >>
      BY <1>1, <2>3 DEF AllBegun
    <3> QED
      BY <1>1, <3>1 DEF AllBegun
  <2>5. c \notin {"|"}
    BY <1>6
  <2>6. CASE l # << >>
    <3>1. T.open /\ T.toks = P
      BY <1>1, <2>4, <2>6 DEF TokensAre
    <3>2. R.open /\ R.toks = WithEnd(P, e)
      BY <1>1, <1>4, <2>1, <2>5, <3>1 DEF TokenMoves
    <3> QED
      BY <1>1, <2>2, <2>3, <3>2 DEF TokensAre
  <2>7. CASE l = << >>
    <3>1. PICK a, z : a = T.toks /\ z = << >>
      OBVIOUS
    <3>2. ~T.open /\ Append(a, z) = P
      BY <1>1, <2>4, <2>7, <3>1 DEF TokensAre
    <3>3. e = <<c>>
      BY <2>1, <2>7
    <3>4. R.open /\ R.toks = Append(a, e)
      BY <1>4, <2>5, <3>1, <3>2, <3>3 DEF TokenMoves
    <3>5. a \in Seq(Texts) /\ z \in Texts
      BY <1>4, <3>1, EmptySeq DEF TokenStates, Texts
    <3>6. WithEnd(P, e) = Append(a, e)
      BY <2>2, <3>2, <3>5, EndOfAppend
    <3> QED
      BY <1>1, <2>2, <2>3, <3>4, <3>6 DEF TokensAre
  <2> QED
    BY <2>6, <2>7
<1> QED
  BY <1>5, <1>6

\* At the bars, strtok finds the pieces of a line without quotes if none is empty.
LEMMA BarTokens ==
    ASSUME NEW s \in Texts, Plain(s), AllBegun(Split(s).pieces)
    PROVE  TokensAre(Split(s).pieces, Tokens(s, {"|"}))
<1> DEFINE P == {u \in Texts : Plain(u) /\ AllBegun(Split(u).pieces) =>
                                  TokensAre(Split(u).pieces, Tokens(u, {"|"}))}
<1>1. << >> \in P
  <2>1. PICK e, W : e = << >> /\ W = Whole.pieces
    OBVIOUS
  <2>2. e \in Texts /\ Tokens(e, {"|"}) = NoToken /\ Split(e) = Whole
    BY <2>1, EmptySeq, TokensGrow, SplitGrows DEF Texts
  <2>3. Len(W) = 1 /\ W[1] = e /\ W = <<e>>
    BY <2>1 DEF Whole
  <2>4. ~NoToken.open /\ Append(NoToken.toks, e) = <<e>>
    BY DEF NoToken
  <2>5. TokensAre(W, NoToken)
    BY <2>1, <2>3, <2>4 DEF TokensAre
  <2> QED
    BY <2>1, <2>2, <2>5
<1>2. ASSUME NEW u \in Texts, NEW c \in LineChars, u \in P
      PROVE  Append(u, c) \in P
  <2>1. PICK x : x = Append(u, c)
    OBVIOUS
  <2>2. x \in Texts /\ (Plain(x) <=> Plain(u) /\ c \notin Quotes)
    BY <2>1, PlainAppend
  <2>3. ASSUME Plain(x), AllBegun(Split(x).pieces)
        PROVE  TokensAre(Split(x).pieces, Tokens(x, {"|"}))
    <3>1. Plain(u) /\ c \notin Quotes
      BY <2>2, <2>3
    <3>2. Split(u).quote = NoQuote
      BY <3>1, PlainSplit
    <3>3. AllBegun(Split(u).pieces) => TokensAre(Split(u).pieces, Tokens(u, {"|"}))
      BY <1>2, <3>1
    <3> QED
      BY <2>1, <2>3, <3>1, <3>2, <3>3, BarStep
  <2> QED
    BY <2>1, <2>2, <2>3
<1>3. Texts \subseteq P
  <2> HIDE DEF P
  <2> QED
    BY <1>1, <1>2, ByAppending DEF Texts
<1> QED
  BY <1>3

\* Without bars a line is one piece.
LEMMA NoBars ==
    ASSUME NEW s \in Texts, Plain(s), ~Contains(s, "|")
    PROVE  Split(s).pieces = <<s>>
<1> DEFINE P == {u \in Texts : Plain(u) /\ ~Contains(u, "|") => Len(Split(u).pieces) = 1}
<1>1. << >> \in P
  <2>1. << >> \in Texts
    BY EmptySeq DEF Texts
  <2>2. Len(Whole.pieces) = 1
    BY DEF Whole
  <2> QED
    BY <2>1, <2>2, SplitGrows
<1>2. ASSUME NEW u \in Texts, NEW c \in LineChars, u \in P
      PROVE  Append(u, c) \in P
  <2>1. PICK x : x = Append(u, c)
    OBVIOUS
  <2>2. x \in Texts /\ (Plain(x) <=> Plain(u) /\ c \notin Quotes)
    BY <2>1, PlainAppend
  <2>3. Contains(x, "|") <=> c = "|" \/ Contains(u, "|")
    BY <2>1, ContainsAppend
  <2>4. ASSUME Plain(x), ~Contains(x, "|") PROVE Len(Split(x).pieces) = 1
    <3>1. PICK p, Q : p = Split(u) /\ Q = Split(x).pieces
      OBVIOUS
    <3>2. Len(p.pieces) = 1
      BY <1>2, <2>2, <2>3, <2>4, <3>1
    <3>3. p \in Splits /\ Split(x) = SplitStep(p, c)
      BY <2>1, <3>1, SplitGrows
    <3>4. LastGrows(p.pieces, Q, c)
      BY <2>3, <2>4, <3>1, <3>3, SplitChar
    <3> QED
      BY <3>1, <3>2, <3>4 DEF LastGrows
  <2> QED
    BY <2>1, <2>2, <2>4
<1>3. Texts \subseteq P
  <2> HIDE DEF P
  <2> QED
    BY <1>1, <1>2, ByAppending DEF Texts
<1>4. PICK p, Q : p = Split(s) /\ Q = p.pieces
  OBVIOUS
<1>5. Len(Q) = 1
  BY <1>3, <1>4
<1>6. Q[1] = s
  BY <1>4, <1>5, OnePiece
<1>7. Q \in Seq(Texts)
  BY <1>4, SplitGrows DEF Splits
<1>8. Q = <<s>>
  BY <1>5, <1>6, <1>7
<1> QED
  BY <1>4, <1>8

\* No character of a line is no character of its text.
LEMMA PlainText ==
    ASSUME NEW s \in Texts, Plain(s)
    PROVE  Plain(trim_ws(s)) /\ trim_ws(s) \in Texts
<1>1. PICK t : t = trim_ws(s)
  OBVIOUS
<1>2. t \in Texts
  BY <1>1, TrimType
<1>3. ASSUME NEW k \in 1..Len(t), t[k] \in Quotes PROVE FALSE
  <2>1. PICK q : q = t[k]
    OBVIOUS
  <2>2. Contains(t, q) /\ ~isspace(q)
    BY <1>3, <2>1 DEF Contains, Quotes, isspace, Blanks, Separators
  <2>3. Contains(s, q)
    BY <1>1, <2>2, TrimKeeps
  <2> QED
    BY <1>3, <2>1, <2>3 DEF Plain, Contains
<1> QED
  BY <1>1, <1>2, <1>3 DEF Plain

\* A line without & that is accepted has its pieces for segments, none of them empty.
LEMMA PlainSegments ==
    ASSUME NEW s \in Texts, ~Contains(s, "&"), parse_line(s).ok, parse_line(s).segments # << >>
    PROVE  /\ parse_line(s).segments = TextPieces(s) /\ Len(TextPieces(s)) <= MAXCMDS
           /\ \A n \in 1..Len(TextPieces(s)) : TextPieces(s)[n] # << >>
<1>1. ~Blank(s)
  <2>1. ASSUME Blank(s) PROVE FALSE
    <3>1. parse_line(s).segments = << >>
      BY <2>1, ParsedBlank DEF Read
    <3> QED
      BY <3>1
  <2> QED
    BY <2>1
<1>2. PICK t, f, c : t = trim_ws(s) /\ f = Front(t) /\ c = Last(t)
  OBVIOUS
<1>3. t \in Texts /\ f \in Texts /\ c \in LineChars /\ t = Append(f, c)
  BY <1>1, <1>2, TextIs
<1>4. c # "&"
  <2>1. ~Contains(t, "&")
    <3>1. ~isspace("&")
      BY DEF isspace, Blanks, Separators
    <3> QED
      BY <1>2, <3>1, TrimKeeps
  <2>2. Contains(t, c)
    BY <1>3, ContainsAppend
  <2> QED
    BY <2>1, <2>2
<1>5. ~AtEnd(t) /\ Command(t) = t
  BY <1>2, <1>4 DEF AtEnd, Command
<1>6. PICK Y : Y = TextPieces(s)
  OBVIOUS
<1>7. TextPieces(t) = Y
  BY <1>2, <1>6, TextHasThePieces
<1>8. parse_line(s) = Verdict(Y, AtEnd(t))
  BY <1>1, <1>2, <1>5, <1>7, ParsedText
<1>9. ~(Len(Y) > MAXCMDS \/ \E n \in 1..Len(Y) : Bad(Y[n]))
  BY <1>8 DEF Verdict, Error
<1>10. parse_line(s).segments = Y
  BY <1>8, <1>9 DEF Verdict, Read
<1>11. Len(Y) \in Nat
  BY <1>6, TextPiecesHas
<1>12. Len(Y) <= MAXCMDS
  BY <1>9, <1>11, ParseLineAssumption
<1>13. \A n \in 1..Len(Y) : Y[n] # << >>
  BY <1>9 DEF Bad
<1> QED
  BY <1>6, <1>10, <1>12, <1>13

\* The commands that phase 2 has of a line without quotes, with a | or without.
CommandsOf(s) == IF Contains(s, "|") THEN Commands2(s) ELSE <<s>>

\* They are its pieces, if none of these is empty or one too many.
LEMMA CommandsArePieces ==
    ASSUME NEW s \in Texts, Plain(s), NEW P, P = Split(s).pieces, Len(P) <= MAXCMDS,
           \A n \in 1..Len(P) : P[n] # << >>
    PROVE  CommandsOf(s) = P
<1>1. P \in Seq(Texts) /\ P # << >> /\ Len(P) \in Nat \ {0}
  <2>1. P \in Seq(Texts) /\ P # << >>
    BY SplitGrows DEF Splits
  <2> QED
    BY <2>1, NonEmpty
<1>2. CASE ~Contains(s, "|")
  BY <1>2, NoBars DEF CommandsOf
<1>3. CASE Contains(s, "|")
  <2>1. Len(P) \in 1..Len(P) /\ \A n \in 1..(Len(P) - 1) : n \in 1..Len(P)
    BY <1>1
  <2>2. TokensAre(P, Tokens(s, {"|"}))
    <3>1. AllBegun(P)
      BY <2>1 DEF AllBegun
    <3> QED
      BY <3>1, BarTokens
  <2>3. strtok(s, {"|"}) = P
    <3>1. Tokens(s, {"|"}).toks = P
      BY <2>1, <2>2 DEF TokensAre
    <3> QED
      BY <3>1, StrtokIs
  <2>4. Last(s) # "|"
    <3>1. ASSUME Last(s) = "|" PROVE FALSE
      <4>1. s # << >>
        BY <1>3, EmptySeq DEF Contains
      <4>2. PICK f \in Texts, c \in LineChars : s = Append(f, c)
        BY <4>1, SequenceEmptyOrAppend DEF Texts
      <4>3. c = Last(s)
        BY <4>2, FrontOfAppend DEF Texts
      <4>4. PICK O : O = Split(f).pieces
        OBVIOUS
      <4>5. c = "|" /\ c \notin Quotes
        BY <3>1, <4>3 DEF Quotes
      <4>6. Split(f).quote = NoQuote
        BY <4>2, PlainAppend, PlainSplit
      <4>7. O \in Seq(Texts) /\ Extended(O, P, c)
        BY <4>2, <4>5, <4>6, <4>4, SplitPlain
      <4>8. O \in Seq(Texts) /\ P = Append(O, << >>)
        BY <4>5, <4>7 DEF Extended
      <4>9. P[Len(P)] = << >>
        BY <4>8, EmptySeq, AppendProperties
      <4> QED
        BY <2>1, <4>9
    <3> QED
      BY <3>1
  <2>5. Min({Len(P), MAXCMDS}) = Len(P)
    BY <1>1, ParseLineAssumption DEF Min
  <2>6. SubSeq(P, 1, Len(P)) = P /\ P \o << >> = P
    BY <1>1, SubSeqFull
  <2> QED
    BY <1>3, <2>3, <2>4, <2>5, <2>6 DEF CommandsOf, Commands2
<1> QED
  BY <1>2, <1>3

\* What parseline of phase 2 has for a line without quotes, if argv holds it.
LEMMA PlainReads ==
    ASSUME NEW s \in Texts, Plain(s)
    PROVE  /\ parseline2(s) = InArgv(Words(s).toks)
           /\ parseline2(s) # Overflow => /\ parseline2(s) = Words(s).toks
                                          /\ Len(Words(s).toks) \in 0..(MAXARGS - 1)
<1>1. Len(s) \in Nat /\ Len(Words(s).toks) \in 0..Len(s)
  BY WordsFewer DEF Texts
<1>2. Len(Words(s).toks) <= Len(s)
  BY <1>1
<1>3. parseline2(s) = InArgv(Words(s).toks)
  BY <1>1, <1>2, PlainWords DEF parseline2
<1>4. ASSUME parseline2(s) # Overflow
      PROVE  parseline2(s) = Words(s).toks /\ Len(Words(s).toks) < MAXARGS
  BY <1>3, <1>4 DEF InArgv
<1> QED
  BY <1>1, <1>3, <1>4, ParseLineAssumption

\* A piece and its text have the same words to phases 2 and 3, if argv holds them.
LEMMA PieceReads ==
    ASSUME NEW u \in Texts, Plain(u), parseline2(u) # Overflow
    PROVE  parseline3(trim_ws(u)) = parseline2(u)
<1>1. PICK t, w, k : t = trim_ws(u) /\ w = Words(u).toks /\ k = MAXARGS - 1
  OBVIOUS
<1>2. t \in Texts /\ Plain(t) /\ Words(t).toks = w
  BY <1>1, PlainText, WordsOfText
<1>3. parseline2(u) = w /\ Len(w) \in 0..k
  BY <1>1, PlainReads
<1>4. k \in Nat /\ Len(w) <= k
  BY <1>1, <1>3, ParseLineAssumption
<1>5. ParseUpTo(t, k) = w
  BY <1>2, <1>4, PlainWords
<1> QED
  BY <1>1, <1>3, <1>5 DEF parseline3

\* On a line without quotes and & each phase (phase1, phase2 and phase3/myshell.c) reads what the
\* one before it reads: words without a | and without other blanks than phase 1 splits at, the
\* commands of a pipeline with their arguments; all where the earlier one does not overflow argv.
THEOREM PhasesExtend == Spec => []LaterPhasesExtendEarlier
<1>1. ASSUME line \in Texts, Range(line) \intersect (Quotes \union {"&"}) = {}
      PROVE  Plain(line) /\ ~Contains(line, "&")
  <2>1. DOMAIN line = 1..Len(line)
    BY <1>1 DEF Texts
  <2>2. \A k \in 1..Len(line) : line[k] \notin Quotes \union {"&"}
    BY <1>1, <2>1 DEF Range
  <2> QED
    BY <2>2 DEF Plain, Contains
<1>2. ASSUME line \in Texts, Plain(line), Range(line) \intersect (Blanks \ Separators) = {}
      PROVE  parseline2(line) = parseline1(line)
  BY <1>2, PlainReads, SeparatedWords DEF parseline1
<1>3. ASSUME line \in Texts, Plain(line), ~Contains(line, "&"), parse_line(line).ok,
             parse_line(line).segments # << >>,
             NEW cmds, cmds = CommandsOf(line), NEW segments, segments = parse_line(line).segments,
             \A k \in DOMAIN cmds : parseline2(cmds[k]) # Overflow
      PROVE  [k \in DOMAIN cmds |-> parseline2(cmds[k])]
             = [k \in DOMAIN segments |-> parseline3(segments[k])]
  <2>1. PICK P, Z, m : P = Split(line).pieces /\ Z = TextPieces(line) /\ m = Len(P)
    OBVIOUS
  <2>2. segments = Z /\ Len(Z) <= MAXCMDS /\ \A n \in 1..Len(Z) : Z[n] # << >>
    BY <1>3, <2>1, PlainSegments
  <2>3. /\ Z \in Seq(Texts) /\ Len(Z) = m /\ m \in Nat
        /\ \A n \in 1..m : Z[n] = trim_ws(P[n]) /\ P[n] \in Texts
    BY <1>3, <2>1, TextPiecesHas
  <2>4. P \in Seq(Texts)
    BY <1>3, <2>1, SplitGrows DEF Splits
  <2>5. \A n \in 1..m : P[n] # << >>
    <3>1. ASSUME NEW n \in 1..m, P[n] = << >> PROVE FALSE
      <4>1. PICK e : e = << >>
        OBVIOUS
      <4>2. e \in Texts /\ Blank(e)
        BY <4>1, EmptySeq DEF Texts, Blank
      <4>3. trim_ws(e) = << >>
        BY <4>2, TrimBlank
      <4> QED
        BY <2>2, <2>3, <3>1, <4>1, <4>3
    <3> QED
      BY <3>1
  <2>6. cmds = P
    BY <1>3, <2>1, <2>2, <2>3, <2>5, CommandsArePieces
  <2>7. DOMAIN P = 1..m /\ DOMAIN Z = 1..m
    BY <2>1, <2>3, <2>4
  <2>8. ASSUME NEW n \in 1..m PROVE parseline3(Z[n]) = parseline2(P[n])
    <3>1. PlainPieces(P)
      BY <1>3, <2>1, PlainSplit
    <3>2. P[n] \in Texts /\ Plain(P[n])
      BY <2>1, <3>1 DEF PlainPieces
    <3>3. parseline2(P[n]) # Overflow
      BY <1>3, <2>6, <2>7
    <3> QED
      BY <2>3, <3>2, <3>3, PieceReads
  <2> QED
    BY <2>2, <2>6, <2>8, <2>7
<1>4. ASSUME line \in Texts PROVE LaterPhasesExtendEarlier
  <2>1. PICK p, cmds : p = parse_line(line) /\ cmds = CommandsOf(line)
    OBVIOUS
  <2>2. ASSUME Range(line) \intersect (Quotes \union {"&"}) = {}
        PROVE  /\ Range(line) \intersect (Blanks \ Separators) = {} => parseline2(line) = parseline1(line)
               /\ p.ok /\ p.segments # << >> /\ (\A k \in DOMAIN cmds : parseline2(cmds[k]) # Overflow) =>
                     [k \in DOMAIN cmds |-> parseline2(cmds[k])]
                         = [k \in DOMAIN p.segments |-> parseline3(p.segments[k])]
    <3>1. Plain(line) /\ ~Contains(line, "&")
      BY <1>1, <1>4, <2>2
    <3>2. Range(line) \intersect (Blanks \ Separators) = {} => parseline2(line) = parseline1(line)
      BY <1>2, <1>4, <3>1
    <3>3. ASSUME p.ok, p.segments # << >>, \A k \in DOMAIN cmds : parseline2(cmds[k]) # Overflow
          PROVE  [k \in DOMAIN cmds |-> parseline2(cmds[k])]
                 = [k \in DOMAIN p.segments |-> parseline3(p.segments[k])]
      BY <1>3, <1>4, <2>1, <3>1, <3>3
    <3> QED
      BY <3>2, <3>3
  <2> QED
    BY <2>1, <2>2 DEF LaterPhasesExtendEarlier, CommandsOf
<1> QED
  BY <1>4, LinesAreTexts, PTL

-----------------------------------------------------------------------------
(* Numbers: powers of ten and sums *)

\* A digit has a value, and what else may stand in a job id is none.
LEMMA DigitIs ==
    /\ \A c \in DOMAIN Digits : Digits[c] \in Nat
    /\ "%" \notin DOMAIN Digits /\ "+" \notin DOMAIN Digits /\ "-" \notin DOMAIN Digits
    /\ \A c \in DOMAIN Digits : ~isspace(c)
<1>1. PICK N : N = <<"0", "1", "2", "3", "4", "5", "6", "7", "8", "9">>
  OBVIOUS
<1>2. PICK D : D = [c \in Range(N) |-> CHOOSE d \in 0..9 : N[d + 1] = c]
  OBVIOUS
<1>3. Digits = D /\ DOMAIN D = Range(N)
  BY <1>1, <1>2 DEF Digits
<1>4. DOMAIN N = 1..10
  BY <1>1
<1>5. ASSUME NEW c \in Range(N) PROVE D[c] \in Nat
  <2>1. PICK k \in 1..10 : c = N[k]
    BY <1>4, <1>5 DEF Range
  <2>2. k - 1 \in 0..9 /\ k - 1 + 1 = k
    OBVIOUS
  <2>3. \E d \in 0..9 : N[d + 1] = c
    BY <2>1, <2>2
  <2>4. D[c] \in 0..9
    BY <1>2, <1>5, <2>3
  <2> QED
    BY <2>4
<1>6. \A c \in Range(N) : c \in {"0", "1", "2", "3", "4", "5", "6", "7", "8", "9"}
  BY <1>1, <1>4 DEF Range
<1>7. "%" \notin Range(N) /\ "+" \notin Range(N) /\ "-" \notin Range(N)
  BY <1>6
<1>8. \A c \in Range(N) : ~isspace(c)
  BY <1>6 DEF isspace, Blanks, Separators
<1> QED
  BY <1>3, <1>5, <1>7, <1>8

IsTenTo(f, n) == f[0] = 1 /\ \A k \in 1..n : f[k] = 10 * f[k - 1]

\* The powers of ten.
LEMMA TenToIs ==
    /\ \A k \in Nat : TenTo[k] \in Nat
    /\ TenTo[0] = 1
    /\ \A k \in Nat \ {0} : TenTo[k] = 10 * TenTo[k - 1]
<1>1. ASSUME NEW n \in Nat PROVE \E f \in [0..n -> Nat] : IsTenTo(f, n)
  <2> DEFINE P == {k \in 0..n : \E f \in [0..n -> Nat] : IsTenTo(f, k)}
  <2>1. 0 \in P
    <3>1. PICK f : f = [k \in 0..n |-> 1]
      OBVIOUS
    <3>2. f \in [0..n -> Nat] /\ IsTenTo(f, 0)
      BY <3>1 DEF IsTenTo
    <3> QED
      BY <3>2
  <2>2. ASSUME NEW k \in 0..(n - 1), k \in P PROVE k + 1 \in P
    <3>1. PICK f \in [0..n -> Nat] : IsTenTo(f, k)
      BY <2>2
    <3>2. PICK g : g = [f EXCEPT ![k + 1] = 10 * f[k]]
      OBVIOUS
    <3>3. g \in [0..n -> Nat]
      BY <3>1, <3>2
    <3>4. g[k + 1] = 10 * f[k] /\ \A m \in 0..k : g[m] = f[m]
      BY <3>1, <3>2
    <3>5. ASSUME NEW m \in 1..(k + 1) PROVE g[m] = 10 * g[m - 1]
      <4>1. m - 1 \in 0..k
        OBVIOUS
      <4>2. g[m - 1] = f[m - 1]
        BY <3>4, <4>1
      <4>3. m = k + 1 => m - 1 = k
        OBVIOUS
      <4>4. m # k + 1 => m \in 1..k /\ m \in 0..k
        OBVIOUS
      <4> QED
        BY <3>1, <3>4, <4>2, <4>3, <4>4 DEF IsTenTo
    <3>6. IsTenTo(g, k + 1)
      BY <3>1, <3>4, <3>5 DEF IsTenTo
    <3> QED
      BY <3>3, <3>6
  <2>3. 0..n \subseteq P
    <3> HIDE DEF P
    <3> QED
      BY <2>1, <2>2, UpTo
  <2> HIDE DEF P
  <2>4. n \in P
    BY <2>3
  <2> QED
    BY <2>4 DEF P
<1>2. PICK A : A = [n \in Nat |-> CHOOSE f \in [0..n -> Nat] : IsTenTo(f, n)]
  OBVIOUS
<1>3. \A n \in Nat : A[n] \in [0..n -> Nat] /\ IsTenTo(A[n], n)
  BY <1>1, <1>2
<1>4. PICK T : T = [n \in Nat |-> A[n][n]]
  OBVIOUS
<1>5. \A n \in Nat : T[n] \in Nat /\ T[n] = A[n][n]
  BY <1>3, <1>4
<1>6. ASSUME NEW n \in Nat \ {0} PROVE T[n] = 10 * T[n - 1]
  <2>1. PICK m : m = n - 1
    OBVIOUS
  <2>2. m \in Nat
    BY <2>1
  <2>3. IsTenTo(A[n], n) /\ IsTenTo(A[m], m)
    BY <1>3, <2>2
  <2>4. A[n][0] = A[m][0]
    BY <2>3 DEF IsTenTo
  <2>5. SameSteps(A[n], A[m], m)
    <3>1. \A k \in 1..m : k \in 1..n
      BY <2>1
    <3> QED
      BY <2>3, <3>1 DEF SameSteps, IsTenTo
  <2>6. Same(A[n], A[m], m)
    BY <2>2, <2>4, <2>5, SameRun
  <2>7. A[n][m] = A[m][m]
    BY <2>2, <2>6 DEF Same
  <2>8. A[n][n] = 10 * A[n][m]
    BY <2>1, <2>3 DEF IsTenTo
  <2> QED
    BY <1>5, <2>1, <2>2, <2>7, <2>8
<1>7. T[0] = 1
  BY <1>3, <1>5 DEF IsTenTo
<1> DEFINE powers(f) == f = [k \in Nat |-> IF k = 0 THEN 1 ELSE 10 * f[k - 1]]
<1>8. powers(T)
  BY <1>4, <1>6, <1>7
<1>9. TenTo = CHOOSE f : powers(f)
  BY DEF TenTo
<1>10. powers(TenTo)
  <2> HIDE DEF powers
  <2> QED
    BY <1>8, <1>9
<1>11. PICK U : U = TenTo
  OBVIOUS
<1>12. \A k \in Nat : U[k] = IF k = 0 THEN 1 ELSE 10 * U[k - 1]
  BY <1>10, <1>11
<1>13. U[0] = 1 /\ T[0] = U[0]
  BY <1>7, <1>12
<1>14. ASSUME NEW n \in Nat PROVE U[n] \in Nat
  <2>1. SameSteps(T, U, n)
    BY <1>6, <1>12 DEF SameSteps
  <2>2. Same(T, U, n)
    BY <1>13, <2>1, SameRun
  <2>3. n \in 0..n
    OBVIOUS
  <2> QED
    BY <1>5, <2>2, <2>3 DEF Same
<1> QED
  BY <1>11, <1>12, <1>13, <1>14

\* The element that a sum takes next.
Some(T) == CHOOSE x \in T : TRUE

\* g has at each part of S, as long as it has at most n elements, what they weigh together.
IsSum(g, S, W, n) ==
    /\ g[{}] = 0
    /\ \A T \in SUBSET S : T # {} /\ Cardinality(T) <= n => g[T] = W[Some(T)] + g[T \ {Some(T)}]

\* What is left when one is taken.
LEMMA OneTaken ==
    ASSUME NEW S, IsFiniteSet(S), NEW T \in SUBSET S, NEW x \in T
    PROVE  /\ T \ {x} \in SUBSET S /\ Cardinality(T) \in Nat \ {0}
           /\ Cardinality(T \ {x}) = Cardinality(T) - 1
<1>1. IsFiniteSet(T)
  BY FS_Subset
<1>2. Cardinality(T) \in Nat /\ Cardinality(T) # 0
  BY <1>1, FS_CardinalityType, FS_EmptySet
<1>3. Cardinality(T \ {x}) = Cardinality(T) - 1
  BY <1>1, FS_RemoveElement
<1> QED
  BY <1>2, <1>3

\* There is such a g.
LEMMA SumExists ==
    ASSUME NEW S, IsFiniteSet(S), NEW W \in [S -> Nat]
    PROVE  \E g \in [SUBSET S -> Nat] : IsSum(g, S, W, Cardinality(S))
<1>1. PICK n : n = Cardinality(S)
  OBVIOUS
<1>2. n \in Nat
  BY <1>1, FS_CardinalityType
<1> DEFINE P == {k \in 0..n : \E g \in [SUBSET S -> Nat] : IsSum(g, S, W, k)}
<1>3. 0 \in P
  <2>1. PICK g : g = [T \in SUBSET S |-> 0]
    OBVIOUS
  <2>2. g \in [SUBSET S -> Nat] /\ g[{}] = 0
    BY <2>1
  <2>3. ASSUME NEW T \in SUBSET S, T # {} PROVE ~(Cardinality(T) <= 0)
    <3>1. PICK x \in T : TRUE
      BY <2>3
    <3>2. Cardinality(T) \in Nat \ {0}
      BY OneTaken
    <3> QED
      BY <3>2
  <2>4. IsSum(g, S, W, 0)
    BY <2>2, <2>3 DEF IsSum
  <2> QED
    BY <1>2, <2>2, <2>4
<1>4. ASSUME NEW k \in 0..(n - 1), k \in P PROVE k + 1 \in P
  <2>1. PICK g \in [SUBSET S -> Nat] : IsSum(g, S, W, k)
    BY <1>4
  <2>2. PICK h : h = [T \in SUBSET S |-> IF Cardinality(T) = k + 1 THEN W[Some(T)] + g[T \ {Some(T)}]
                                         ELSE g[T]]
    OBVIOUS
  <2>3. ASSUME NEW T \in SUBSET S, T # {}
        PROVE  /\ Some(T) \in T /\ T \ {Some(T)} \in SUBSET S /\ Cardinality(T) \in Nat
               /\ Cardinality(T \ {Some(T)}) = Cardinality(T) - 1
               /\ W[Some(T)] \in Nat /\ g[T \ {Some(T)}] \in Nat
    <3>1. Some(T) \in T
      BY <2>3 DEF Some
    <3>2. /\ T \ {Some(T)} \in SUBSET S /\ Cardinality(T) \in Nat
          /\ Cardinality(T \ {Some(T)}) = Cardinality(T) - 1
      BY <3>1, OneTaken
    <3> QED
      BY <2>1, <3>1, <3>2
  <2>4. Cardinality({}) # k + 1
    BY FS_EmptySet
  <2>5. ASSUME NEW T \in SUBSET S PROVE h[T] \in Nat
    <3>1. CASE Cardinality(T) = k + 1
      <4>1. T # {}
        BY <2>4, <3>1
      <4>2. h[T] = W[Some(T)] + g[T \ {Some(T)}]
        BY <2>2, <3>1
      <4>3. W[Some(T)] \in Nat /\ g[T \ {Some(T)}] \in Nat
        BY <2>3, <4>1
      <4>4. \A a \in Nat, b \in Nat : a + b \in Nat
        OBVIOUS
      <4> QED
        BY <4>2, <4>3, <4>4
    <3>2. CASE Cardinality(T) # k + 1
      BY <2>1, <2>2, <3>2
    <3> QED
      BY <3>1, <3>2
  <2>6. h \in [SUBSET S -> Nat]
    BY <2>2, <2>5
  <2>7. h[{}] = 0
    BY <2>1, <2>2, <2>4 DEF IsSum
  <2>8. ASSUME NEW T \in SUBSET S, T # {}, Cardinality(T) <= k + 1
        PROVE  h[T] = W[Some(T)] + h[T \ {Some(T)}]
    <3>1. PICK R : R = T \ {Some(T)}
      OBVIOUS
    <3>2. R \in SUBSET S /\ Cardinality(T) \in Nat /\ Cardinality(R) = Cardinality(T) - 1
      BY <2>3, <2>8, <3>1
    <3>3. Cardinality(R) # k + 1
      BY <2>8, <3>2
    <3>4. h[R] = g[R]
      BY <2>2, <3>2, <3>3
    <3>5. CASE Cardinality(T) = k + 1
      <4>1. h[T] = W[Some(T)] + g[R]
        BY <2>2, <3>1, <3>5
      <4> QED
        BY <3>1, <3>4, <4>1
    <3>6. CASE Cardinality(T) # k + 1
      <4>1. h[T] = g[T] /\ Cardinality(T) <= k
        BY <2>2, <2>8, <3>2, <3>6
      <4>2. g[T] = W[Some(T)] + g[R]
        BY <2>1, <2>8, <3>1, <4>1 DEF IsSum
      <4> QED
        BY <3>1, <3>4, <4>1, <4>2
    <3> QED
      BY <3>5, <3>6
  <2>9. IsSum(h, S, W, k + 1)
    BY <2>7, <2>8 DEF IsSum
  <2>10. k + 1 \in 0..n
    BY <1>2
  <2> QED
    BY <2>6, <2>9, <2>10
<1>5. 0..n \subseteq P
  <2> HIDE DEF P
  <2> QED
    BY <1>2, <1>3, <1>4, UpTo
<1> HIDE DEF P
<1>6. n \in P
  BY <1>2, <1>5
<1> QED
  BY <1>1, <1>6 DEF P

AnyOrder(g, S, W) == \A T \in SUBSET S : \A y \in T : g[T] = W[y] + g[T \ {y}]

\* Its elements may be taken in any order.
LEMMA InAnyOrder ==
    ASSUME NEW S, IsFiniteSet(S), NEW W \in [S -> Nat],
           NEW g \in [SUBSET S -> Nat], IsSum(g, S, W, Cardinality(S))
    PROVE  AnyOrder(g, S, W)
<1>1. PICK n : n = Cardinality(S)
  OBVIOUS
<1>2. n \in Nat /\ \A T \in SUBSET S : Cardinality(T) <= n
  BY <1>1, FS_CardinalityType, FS_Subset
<1> DEFINE order(T) == \A y \in T : g[T] = W[y] + g[T \ {y}]
           P == {k \in 0..n : \A T \in SUBSET S : Cardinality(T) <= k => order(T)}
<1>3. 0 \in P
  <2>1. ASSUME NEW T \in SUBSET S, Cardinality(T) <= 0, NEW y \in T PROVE FALSE
    <3>1. Cardinality(T) \in Nat \ {0}
      BY OneTaken
    <3> QED
      BY <2>1, <3>1
  <2> QED
    BY <1>2, <2>1
<1>4. ASSUME NEW k \in 0..(n - 1), k \in P PROVE k + 1 \in P
  <2>1. ASSUME NEW T \in SUBSET S, Cardinality(T) <= k + 1, NEW y \in T
        PROVE  g[T] = W[y] + g[T \ {y}]
    <3>1. PICK x : x = Some(T)
      OBVIOUS
    <3>2. x \in T
      BY <3>1 DEF Some
    <3>3. g[T] = W[x] + g[T \ {x}]
      <4>1. T # {} /\ Cardinality(T) <= n
        BY <1>2
      <4> QED
        BY <1>1, <3>1, <4>1 DEF IsSum
    <3>4. CASE x = y
      BY <3>3, <3>4
    <3>5. CASE x # y
      <4>1. PICK X, Y, R : X = T \ {x} /\ Y = T \ {y} /\ R = T \ {x, y}
        OBVIOUS
      <4>2. X \ {y} = R /\ Y \ {x} = R /\ y \in X /\ x \in Y
        BY <3>2, <3>5, <4>1
      <4>3. /\ X \in SUBSET S /\ Cardinality(X) = Cardinality(T) - 1
            /\ Y \in SUBSET S /\ Cardinality(Y) = Cardinality(T) - 1
            /\ Cardinality(T) \in Nat
        BY <3>2, <4>1, OneTaken
      <4>4. Cardinality(X) <= k /\ Cardinality(Y) <= k
        BY <2>1, <4>3
      <4>5. g[X] = W[y] + g[R] /\ g[Y] = W[x] + g[R]
        BY <1>4, <4>2, <4>3, <4>4
      <4>6. W[x] \in Nat /\ W[y] \in Nat /\ g[R] \in Nat
        BY <3>2, <4>1
      <4> QED
        BY <3>3, <4>1, <4>5, <4>6
    <3> QED
      BY <3>4, <3>5
  <2>2. \A T \in SUBSET S : Cardinality(T) <= k + 1 => order(T)
    BY <2>1
  <2>3. k + 1 \in 0..n
    BY <1>2
  <2> HIDE DEF order
  <2> QED
    BY <2>2, <2>3
<1>5. 0..n \subseteq P
  <2> HIDE DEF P
  <2> QED
    BY <1>2, <1>3, <1>4, UpTo
<1>6. n \in P
  <2> HIDE DEF P
  <2> QED
    BY <1>2, <1>5
<1> QED
  BY <1>2, <1>6 DEF AnyOrder

\* A sum of numbers is a number.
LEMMA SumType ==
    ASSUME NEW S, IsFiniteSet(S), NEW W \in [S -> Nat], NEW g, IsSum(g, S, W, Cardinality(S))
    PROVE  \A T \in SUBSET S : g[T] \in Nat
<1>1. PICK n : n = Cardinality(S)
  OBVIOUS
<1>2. n \in Nat /\ \A T \in SUBSET S : Cardinality(T) <= n
  BY <1>1, FS_CardinalityType, FS_Subset
<1> DEFINE P == {k \in 0..n : \A T \in SUBSET S : Cardinality(T) <= k => g[T] \in Nat}
<1>3. ASSUME NEW T \in SUBSET S, T # {}
      PROVE  /\ Some(T) \in T /\ T \ {Some(T)} \in SUBSET S /\ Cardinality(T) \in Nat \ {0}
             /\ Cardinality(T \ {Some(T)}) = Cardinality(T) - 1
             /\ g[T] = W[Some(T)] + g[T \ {Some(T)}] /\ W[Some(T)] \in Nat
  <2>1. Some(T) \in T
    BY <1>3 DEF Some
  <2>2. /\ T \ {Some(T)} \in SUBSET S /\ Cardinality(T) \in Nat \ {0}
        /\ Cardinality(T \ {Some(T)}) = Cardinality(T) - 1
    BY <2>1, OneTaken
  <2>3. g[T] = W[Some(T)] + g[T \ {Some(T)}]
    BY <1>1, <1>2, <1>3 DEF IsSum
  <2> QED
    BY <2>1, <2>2, <2>3
<1>4. g[{}] = 0
  BY DEF IsSum
<1>5. 0 \in P
  <2>1. ASSUME NEW T \in SUBSET S, Cardinality(T) <= 0 PROVE g[T] \in Nat
    <3>1. CASE T # {}
      <4>1. Cardinality(T) \in Nat \ {0}
        BY <1>3, <3>1
      <4> QED
        BY <2>1, <4>1
    <3> QED
      BY <1>4, <3>1
  <2> QED
    BY <1>2, <2>1
<1>6. ASSUME NEW k \in 0..(n - 1), k \in P PROVE k + 1 \in P
  <2>1. ASSUME NEW T \in SUBSET S, Cardinality(T) <= k + 1 PROVE g[T] \in Nat
    <3>1. CASE T # {}
      <4>1. PICK R, w : R = T \ {Some(T)} /\ w = W[Some(T)]
        OBVIOUS
      <4>2. /\ R \in SUBSET S /\ Cardinality(T) \in Nat /\ Cardinality(R) = Cardinality(T) - 1
            /\ g[T] = w + g[R] /\ w \in Nat
        BY <1>3, <3>1, <4>1
      <4>3. Cardinality(R) <= k
        BY <2>1, <4>2
      <4>4. g[R] \in Nat
        BY <1>6, <4>2, <4>3
      <4> QED
        BY <4>2, <4>4
    <3> QED
      BY <1>4, <3>1
  <2>2. k + 1 \in 0..n
    BY <1>2
  <2> QED
    BY <2>1, <2>2
<1>7. 0..n \subseteq P
  <2> HIDE DEF P
  <2> QED
    BY <1>2, <1>5, <1>6, UpTo
<1> HIDE DEF P
<1>8. n \in P
  BY <1>2, <1>7
<1> QED
  BY <1>2, <1>8 DEF P

\* The number that the digits from i on stand for.
Value(s, i) == MapThenSumSet(LAMBDA m : Digits[s[m]] * TenTo[Len(s) - m], i..Len(s))

DigitsIn(s, i, n) == \A m \in i..n : s[m] \in DOMAIN Digits

\* v[m] is what the digits from m on are worth.
IsValue(v, s, i, n) ==
    /\ v[n + 1] = 0 /\ v[i] = Value(s, i)
    /\ \A m \in i..n : v[m] = Digits[s[m]] * TenTo[n - m] + v[m + 1]

\* The sum of NumberTyped, one digit after the other.
LEMMA ValueIs ==
    ASSUME NEW s, NEW n \in Nat, n = Len(s), NEW i \in 1..(n + 1), DigitsIn(s, i, n)
    PROVE  \E v \in [i..(n + 1) -> Nat] : IsValue(v, s, i, n)
<1>1. PICK S : S = i..n
  OBVIOUS
<1>2. IsFiniteSet(S)
  BY <1>1, FS_Interval
<1>3. PICK W : W = [m \in S |-> Digits[s[m]] * TenTo[n - m]]
  OBVIOUS
<1>4. W \in [S -> Nat]
  <2>1. ASSUME NEW m \in S PROVE Digits[s[m]] * TenTo[n - m] \in Nat
    <3>1. Digits[s[m]] \in Nat
      BY <1>1, DigitIs DEF DigitsIn
    <3>2. n - m \in Nat
      BY <1>1
    <3>3. TenTo[n - m] \in Nat
      BY <3>2, TenToIs
    <3>4. \A a \in Nat, b \in Nat : a * b \in Nat
      OBVIOUS
    <3> QED
      BY <3>1, <3>3, <3>4
  <2> QED
    BY <1>3, <2>1
<1> DEFINE sum(g) == g = [T \in SUBSET S |-> IF T = {} THEN 0 ELSE W[Some(T)] + g[T \ {Some(T)}]]
<1>5. Value(s, i) = (CHOOSE g : sum(g))[S]
  <2> DEFINE adds(g) == g = [T \in SUBSET S |-> IF T = {} THEN 0
                 ELSE (Digits[s[CHOOSE x \in T : TRUE]] * TenTo[Len(s) - (CHOOSE x \in T : TRUE)])
                          + g[T \ {CHOOSE x \in T : TRUE}]]
  <2>1. Value(s, i) = (CHOOSE g : adds(g))[S]
    BY <1>1 DEF Value, MapThenSumSet, MapThenFoldSet
  <2>2. ASSUME NEW g PROVE adds(g) <=> sum(g)
    <3>1. \A T \in SUBSET S : T # {} =>
             W[Some(T)] = Digits[s[CHOOSE x \in T : TRUE]] * TenTo[Len(s) - (CHOOSE x \in T : TRUE)]
      BY <1>3 DEF Some
    <3> QED
      BY <3>1 DEF Some
  <2>3. (CHOOSE g : adds(g)) = (CHOOSE g : sum(g))
    <3> HIDE DEF adds, sum
    <3> QED
      BY <2>2, Zenon
  <2> QED
    BY <2>1, <2>3
<1>6. PICK g \in [SUBSET S -> Nat] : IsSum(g, S, W, Cardinality(S))
  BY <1>2, <1>4, SumExists
<1>7. sum(g)
  <2>1. \A T \in SUBSET S : Cardinality(T) <= Cardinality(S)
    BY <1>2, FS_Subset
  <2> QED
    BY <1>6, <2>1 DEF IsSum
<1>8. PICK l : l = CHOOSE h : sum(h)
  OBVIOUS
<1>9. sum(l)
  <2> HIDE DEF sum
  <2> QED
    BY <1>7, <1>8
<1>10. IsSum(l, S, W, Cardinality(S))
  BY <1>9 DEF IsSum
<1>11. \A T \in SUBSET S : l[T] \in Nat
  BY <1>2, <1>4, <1>10, SumType
<1>12. l \in [SUBSET S -> Nat]
  BY <1>9, <1>11
<1>13. PICK v : v = [m \in i..(n + 1) |-> l[m..n]]
  OBVIOUS
<1>14. ASSUME NEW m \in i..(n + 1) PROVE m..n \in SUBSET S
  BY <1>1
<1>15. v \in [i..(n + 1) -> Nat]
  BY <1>11, <1>13, <1>14
<1>16. v[n + 1] = 0
  <2>1. (n + 1)..n = {} /\ n + 1 \in i..(n + 1)
    OBVIOUS
  <2> QED
    BY <1>10, <1>13, <2>1 DEF IsSum
<1>17. v[i] = Value(s, i)
  <2>1. i \in i..(n + 1)
    OBVIOUS
  <2>2. Value(s, i) = l[S]
    <3> HIDE DEF sum
    <3> QED
      BY <1>5, <1>8
  <2> QED
    BY <1>1, <1>13, <2>1, <2>2
<1>18. ASSUME NEW m \in i..n PROVE v[m] = Digits[s[m]] * TenTo[n - m] + v[m + 1]
  <2>1. PICK T, R : T = m..n /\ R = (m + 1)..n
    OBVIOUS
  <2>2. /\ m \in i..(n + 1) /\ m + 1 \in i..(n + 1) /\ T \in SUBSET S /\ m \in T /\ R = T \ {m}
        /\ m \in S
    BY <1>1, <2>1
  <2>3. AnyOrder(l, S, W)
    BY <1>2, <1>4, <1>10, <1>12, InAnyOrder
  <2>4. l[T] = W[m] + l[R]
    BY <2>2, <2>3 DEF AnyOrder
  <2> QED
    BY <1>3, <1>13, <2>1, <2>2, <2>4
<1> QED
  BY <1>15, <1>16, <1>17, <1>18 DEF IsValue

\* A step of the loop of strtol over digits.
DecimalStep(v, c) == 10 * v + Digits[c]

\* It goes from numbers to numbers.
LEMMA DecimalStepType ==
    ASSUME NEW v \in Nat, NEW c \in DOMAIN Digits
    PROVE  DecimalStep(v, c) \in Nat
<1>1. Digits[c] \in Nat
  BY DigitIs
<1>2. \A d \in Nat : 10 * v + d \in Nat
  OBVIOUS
<1> QED
  BY <1>1, <1>2 DEF DecimalStep

\* The loop is a run of its steps.
LEMMA DecimalRun ==
    ASSUME NEW s \in Seq(DOMAIN Digits)
    PROVE  \E f \in [0..Len(s) -> Nat] : /\ f[0] = 0 /\ Decimal(s) = f[Len(s)]
                                            /\ \A k \in 1..Len(s) : f[k] = DecimalStep(f[k - 1], s[k])
<1>1. PICK n : n = Len(s)
  OBVIOUS
<1>2. n \in Nat /\ DOMAIN s = 1..n /\ \A k \in 1..n : s[k] \in DOMAIN Digits
  BY <1>1
<1>3. 0 \in Nat
  OBVIOUS
<1> DEFINE fold(g) == g = [T \in SUBSET (1..n) |-> IF T = {} THEN 0
                                    ELSE DecimalStep(g[T \ {Max(T)}], s[Max(T)])]
<1>4. Decimal(s) = (CHOOSE g : fold(g))[1..n]
  <2>1. Decimal(s) = (CHOOSE g : g = [T \in SUBSET (DOMAIN s) |-> IF T = {} THEN 0
                               ELSE DecimalStep(g[T \ {Max(T)}], s[Max(T)])])[DOMAIN s]
    BY DEF Decimal, DecimalStep, FoldLeft, MapThenFoldSet
  <2> QED
    BY <1>2, <2>1
<1>5. PICK G : G = [k \in 1..n |-> [p \in Nat |-> DecimalStep(p, s[k])]]
  OBVIOUS
<1>6. G \in [1..n -> [Nat -> Nat]]
  BY <1>2, <1>5, DecimalStepType
<1>7. PICK g \in [SUBSET (1..n) -> Nat] : IsFold(g, n, 0, G)
  BY <1>2, <1>3, <1>6, FoldExists
<1>8. fold(g)
  <2>1. ASSUME NEW T \in SUBSET (1..n), T # {}
        PROVE  g[T] = DecimalStep(g[T \ {Max(T)}], s[Max(T)])
    <3>1. PICK m : m = Max(T)
      OBVIOUS
    <3>2. m \in 1..n /\ T \ {m} \in SUBSET (1..n)
      BY <1>2, <2>1, <3>1, LastIndex
    <3>3. g[T] = G[m][g[T \ {m}]]
      BY <1>7, <2>1, <3>1 DEF IsFold
    <3> QED
      BY <1>5, <1>7, <3>1, <3>2, <3>3
  <2>2. g[{}] = 0
    BY <1>7 DEF IsFold
  <2> QED
    BY <1>7, <2>1, <2>2
<1>9. PICK l : l = CHOOSE r : fold(r)
  OBVIOUS
<1>10. fold(l)
  <2> HIDE DEF fold
  <2> QED
    BY <1>8, <1>9
<1>11. PICK f : f = [k \in 0..n |-> l[1..k]]
  OBVIOUS
<1>12. f[0] = 0
  <2>1. 1..0 = {}
    OBVIOUS
  <2> QED
    BY <1>2, <1>10, <1>11, <2>1
<1>13. ASSUME NEW k \in 1..n
       PROVE  f[k] = DecimalStep(f[k - 1], s[k])
  <2>1. PICK T : T = 1..k
    OBVIOUS
  <2>2. T \in SUBSET (1..n) /\ T # {} /\ k \in T
    <3>1. k \in 1..k /\ \A m \in 1..k : m \in 1..n
      BY <1>2
    <3> QED
      BY <2>1, <3>1
  <2>3. Max(T) = k
    <3>1. Max(T) \in T /\ \A m \in T : m <= Max(T)
      BY <1>2, <2>2, LastIndex
    <3> QED
      BY <2>1, <2>2, <3>1
  <2>4. T \ {k} = 1..(k - 1)
    BY <2>1
  <2>5. l[T] = DecimalStep(l[1..(k - 1)], s[k])
    BY <1>10, <2>2, <2>3, <2>4
  <2> QED
    BY <1>2, <1>11, <2>1, <2>5
<1>14. f \in [0..n -> Nat]
  <2> DEFINE P == {k \in 0..n : f[k] \in Nat}
  <2>1. 0 \in P
    BY <1>2, <1>3, <1>12
  <2>2. ASSUME NEW k \in 0..(n - 1), k \in P
        PROVE  k + 1 \in P
    <3>1. PICK m : m = k + 1
      OBVIOUS
    <3>2. m \in 1..n /\ m - 1 = k /\ f[k] \in Nat
      BY <1>2, <2>2, <3>1
    <3>3. f[m] = DecimalStep(f[k], s[m]) /\ s[m] \in DOMAIN Digits
      BY <1>2, <1>13, <3>2
    <3>4. DecimalStep(f[k], s[m]) \in Nat
      BY <3>2, <3>3, DecimalStepType
    <3> QED
      BY <1>2, <3>1, <3>2, <3>3, <3>4
  <2>3. 0..n \subseteq P
    <3> HIDE DEF P
    <3> QED
      BY <1>2, <2>1, <2>2, UpTo
  <2> QED
    BY <1>11, <2>3
<1>15. Decimal(s) = f[n]
  <2>1. Decimal(s) = l[1..n]
    <3> HIDE DEF fold
    <3> QED
      BY <1>4, <1>9
  <2> QED
    BY <1>2, <1>11, <2>1
<1> QED
  BY <1>1, <1>12, <1>13, <1>14, <1>15

\* It is what the digits stand for.
LEMMA NumeralIs ==
    ASSUME NEW s \in Seq(IdChars), NEW n \in Nat, n = Len(s), NEW i \in 1..(n + 1), DigitsIn(s, i, n)
    PROVE  Decimal(SubSeq(s, i, n)) = Value(s, i) /\ Value(s, i) \in Nat
<1>1. PICK N, t : N = n - i + 1 /\ t = SubSeq(s, i, n)
  OBVIOUS
<1>2. N \in Nat
  BY <1>1
<1>3. /\ t \in Seq(DOMAIN Digits) /\ Len(t) = N
      /\ \A k \in 1..N : t[k] = s[i + k - 1]
  <2>1. i \in Int /\ n \in Int /\ \A m \in i..n : s[m] \in DOMAIN Digits
    BY DEF DigitsIn
  <2>2. /\ t \in Seq(DOMAIN Digits) /\ Len(t) = IF i <= n THEN n - i + 1 ELSE 0
        /\ \A k \in 1..(n - i + 1) : t[k] = s[i + k - 1]
    BY <1>1, <2>1, SubSeqProperties
  <2> QED
    BY <1>1, <2>2
<1>4. PICK f \in [0..N -> Nat] : /\ f[0] = 0 /\ Decimal(t) = f[N]
                                 /\ \A k \in 1..N : f[k] = DecimalStep(f[k - 1], t[k])
  BY <1>3, DecimalRun
<1>5. PICK v \in [i..(n + 1) -> Nat] : IsValue(v, s, i, n)
  BY ValueIs
<1> DEFINE P == {k \in 0..N : f[k] * TenTo[N - k] + v[i + k] = v[i]}
<1>6. 0 \in P
  <2>1. PICK a, b : a = TenTo[N - 0] /\ b = v[i + 0]
    OBVIOUS
  <2>2. a \in Nat
    BY <1>2, <2>1, TenToIs
  <2>3. b \in Nat /\ b = v[i]
    <3>1. i + 0 = i /\ i \in i..(n + 1)
      OBVIOUS
    <3> QED
      BY <1>5, <2>1, <3>1
  <2>4. 0 * a + b = b
    BY <2>2, <2>3
  <2> QED
    BY <1>2, <1>4, <2>1, <2>3, <2>4
<1>7. ASSUME NEW k \in 0..(N - 1), k \in P PROVE k + 1 \in P
  <2>1. PICK m, r : m = i + k /\ r = N - (k + 1)
    OBVIOUS
  <2>2. /\ r \in Nat /\ N - k \in Nat \ {0} /\ N - k - 1 = r /\ m \in i..n /\ n - m = r
        /\ k + 1 \in 1..N /\ i + (k + 1) - 1 = m /\ k + 1 - 1 = k /\ i + (k + 1) = m + 1
        /\ k + 1 \in 0..N /\ m \in i..(n + 1) /\ m + 1 \in i..(n + 1)
    BY <1>1, <1>2, <2>1
  <2>3. PICK p, d : p = TenTo[r] /\ d = Digits[s[m]]
    OBVIOUS
  <2>4. p \in Nat /\ TenTo[N - k] = 10 * p
    BY <2>2, <2>3, TenToIs
  <2>5. d \in Nat /\ t[k + 1] = s[m]
    BY <1>3, <2>2, <2>3, DigitIs DEF DigitsIn
  <2>6. f[k + 1] = 10 * f[k] + d
    BY <1>4, <2>2, <2>3, <2>5 DEF DecimalStep
  <2>7. v[m] = d * p + v[m + 1]
    BY <1>5, <2>2, <2>3 DEF IsValue
  <2>8. f[k] * (10 * p) + v[m] = v[i]
    BY <1>7, <2>1, <2>4
  <2>9. f[k] \in Nat /\ v[m] \in Nat /\ v[m + 1] \in Nat /\ v[i] \in Nat
    <3>1. i \in i..(n + 1)
      OBVIOUS
    <3>2. \A j \in i..(n + 1) : v[j] \in Nat
      BY <1>5
    <3>3. k \in 0..N
      BY <1>2
    <3>4. f[k] \in Nat
      BY <1>4, <3>3
    <3> QED
      BY <2>2, <3>1, <3>2, <3>4
  <2>10. \A a \in Nat, x \in Nat, y \in Nat :
            a * (10 * p) + (d * p + x) = y => (10 * a + d) * p + x = y
    BY <2>4, <2>5
  <2>11. f[k + 1] * p + v[m + 1] = v[i]
    BY <2>6, <2>7, <2>8, <2>9, <2>10
  <2> QED
    BY <2>1, <2>2, <2>3, <2>11
<1>8. 0..N \subseteq P
  <2> HIDE DEF P
  <2> QED
    BY <1>2, <1>6, <1>7, UpTo
<1>9. f[N] * TenTo[0] + v[n + 1] = v[i]
  <2>1. N \in P
    <3> HIDE DEF P
    <3> QED
      BY <1>2, <1>8
  <2>2. N - N = 0 /\ i + N = n + 1
    BY <1>1, <1>2
  <2> QED
    BY <2>1, <2>2
<1>10. f[N] = v[i]
  <2>1. f[N] \in Nat /\ TenTo[0] = 1 /\ v[n + 1] = 0
    BY <1>2, <1>4, <1>5, TenToIs DEF IsValue
  <2>2. \A a \in Nat : a * 1 + 0 = a
    OBVIOUS
  <2> QED
    BY <1>9, <2>1, <2>2
<1>11. v[i] = Value(s, i) /\ v[i] \in Nat
  <2>1. i \in i..(n + 1)
    OBVIOUS
  <2> QED
    BY <1>5, <2>1 DEF IsValue
<1> QED
  BY <1>1, <1>4, <1>10, <1>11

-----------------------------------------------------------------------------
(* Job ids *)

\* The indices behind i up to k are in D, and k is the last for which this is so.
IsRun(D, i, n, k) == k \in i..n /\ (\A m \in (i + 1)..k : m \in D) /\ (k < n => k + 1 \notin D)

\* There is one.
LEMMA RunEnds ==
    ASSUME NEW n \in Nat, NEW i \in 0..n, NEW D
    PROVE  \E k : IsRun(D, i, n, k)
<1>1. PICK T : T = {m \in 1..n : m > i /\ m \notin D}
  OBVIOUS
<1>2. CASE T = {}
  <2>1. \A m \in (i + 1)..n : m \in D
    BY <1>1, <1>2
  <2>2. n \in i..n /\ ~(n < n)
    OBVIOUS
  <2> QED
    BY <2>1, <2>2 DEF IsRun
<1>3. CASE T # {}
  <2>1. PICK f : f = Min(T)
    OBVIOUS
  <2>2. T \in SUBSET (1..n)
    BY <1>1
  <2>3. f \in T /\ \A m \in T : f <= m
    BY <1>3, <2>1, <2>2, FirstIndex
  <2>4. f \in 1..n /\ f > i /\ f \notin D
    BY <1>1, <2>3
  <2>5. \A m \in (i + 1)..(f - 1) : m \in D
    <3>1. ASSUME NEW m \in (i + 1)..(f - 1), m \notin D PROVE FALSE
      <4>1. m \in T
        BY <1>1, <2>4, <3>1
      <4> QED
        BY <2>3, <2>4, <4>1
    <3> QED
      BY <3>1
  <2>6. PICK k : k = f - 1
    OBVIOUS
  <2>7. k \in i..n /\ k + 1 = f /\ k + 1 \notin D
    BY <2>4, <2>6
  <2> QED
    BY <2>5, <2>6, <2>7 DEF IsRun
<1> QED
  BY <1>2, <1>3

\* What strtol skips, the sign and the digits that it finds.
Skips(u, k) ==
    /\ k \in 0..Len(u) /\ \A m \in 1..k : isspace(u[m])
    /\ k < Len(u) => ~isspace(u[k + 1])
HasSign(u, k) == k < Len(u) /\ u[k + 1] \in {"+", "-"}
Counts(u, i, k) ==
    /\ k \in i..Len(u) /\ \A m \in (i + 1)..k : u[m] \in DOMAIN Digits
    /\ k < Len(u) => u[k + 1] \notin DOMAIN Digits
AsLong(n) == Max({-LONG_MAX - 1, Min({LONG_MAX, n})})

IsRead(u, skip, from, to, neg) ==
    /\ Skips(u, skip) /\ from = (IF HasSign(u, skip) THEN skip + 1 ELSE skip)
    /\ Counts(u, from, to)
    /\ neg <=> HasSign(u, skip) /\ u[from] = "-"
    /\ strtol(u).n = AsLong(IF neg THEN -Decimal(SubSeq(u, from + 1, to)) ELSE Decimal(SubSeq(u, from + 1, to)))
    /\ strtol(u).end = IF to = from THEN 0 ELSE to

\* strtol finds them.
LEMMA StrtolIs ==
    ASSUME NEW u \in Seq(IdChars)
    PROVE  \E skip, from, to, neg : IsRead(u, skip, from, to, neg)
<1>1. PICK n : n = Len(u)
  OBVIOUS
<1>2. n \in Nat
  BY <1>1
<1>3. PICK skip : skip = CHOOSE k \in 0..Len(u) : /\ \A m \in 1..k : isspace(u[m])
                                                  /\ k < Len(u) => ~isspace(u[k + 1])
  OBVIOUS
<1>4. Skips(u, skip)
  <2>1. PICK D : D = {m \in Nat : isspace(u[m])}
    OBVIOUS
  <2>2. PICK k : IsRun(D, 0, n, k)
    <3>1. 0 \in 0..n
      BY <1>2
    <3> QED
      BY <1>2, <3>1, RunEnds
  <2>3. k \in 0..n /\ (\A m \in 1..k : isspace(u[m])) /\ (k < n => ~isspace(u[k + 1]))
    BY <1>2, <2>1, <2>2 DEF IsRun
  <2>4. \E j \in 0..Len(u) : /\ \A m \in 1..j : isspace(u[m])
                             /\ j < Len(u) => ~isspace(u[j + 1])
    BY <1>1, <2>2, <2>3
  <2> QED
    BY <1>3, <2>4 DEF Skips
<1>5. PICK sign : sign = IF skip < Len(u) /\ u[skip + 1] \in {"+", "-"} THEN 1 ELSE 0
  OBVIOUS
<1>6. PICK from : from = skip + sign
  OBVIOUS
<1>7. /\ from \in 0..n /\ from = (IF HasSign(u, skip) THEN skip + 1 ELSE skip)
      /\ sign = 1 <=> HasSign(u, skip)
  BY <1>1, <1>2, <1>4, <1>5, <1>6 DEF Skips, HasSign
<1>8. PICK to : to = CHOOSE k \in from..Len(u) : /\ \A m \in (from + 1)..k : u[m] \in DOMAIN Digits
                                                 /\ k < Len(u) => u[k + 1] \notin DOMAIN Digits
  OBVIOUS
<1>9. Counts(u, from, to)
  <2>1. PICK D : D = {m \in Nat : u[m] \in DOMAIN Digits}
    OBVIOUS
  <2>2. PICK k : IsRun(D, from, n, k)
    BY <1>2, <1>7, RunEnds
  <2>3. /\ k \in from..n /\ \A m \in (from + 1)..k : u[m] \in DOMAIN Digits
        /\ k < n => u[k + 1] \notin DOMAIN Digits
    BY <1>2, <1>7, <2>1, <2>2 DEF IsRun
  <2>4. \E j \in from..Len(u) : /\ \A m \in (from + 1)..j : u[m] \in DOMAIN Digits
                                /\ j < Len(u) => u[j + 1] \notin DOMAIN Digits
    BY <1>1, <2>2, <2>3
  <2> QED
    BY <1>8, <2>4 DEF Counts
<1>10. PICK h : h = Decimal(SubSeq(u, from + 1, to))
  OBVIOUS
<1>12. PICK neg : neg = (HasSign(u, skip) /\ u[from] = "-")
  OBVIOUS
<1>13. strtol(u) = [n |-> AsLong(IF sign = 1 /\ u[from] = "-" THEN -h ELSE h),
                    end |-> IF to = from THEN 0 ELSE to]
  BY <1>3, <1>5, <1>6, <1>8, <1>10 DEF strtol, AsLong
<1>14. neg <=> (sign = 1 /\ u[from] = "-")
  BY <1>7, <1>12
<1>15. strtol(u).n = AsLong(IF neg THEN -h ELSE h) /\ strtol(u).end = IF to = from THEN 0 ELSE to
  BY <1>13, <1>14
<1>16. IsRead(u, skip, from, to, neg)
  BY <1>4, <1>7, <1>9, <1>10, <1>12, <1>15 DEF IsRead
<1> QED
  BY <1>16

\* A number that is an int is kept.
LEMMA IntsAreKept ==
    ASSUME NEW n \in Int, -INT_MAX <= n, n <= INT_MAX
    PROVE  AsInt(AsLong(n)) = n
<1>1. INT_MAX \in Nat /\ LONG_MAX \in Nat /\ INT_MAX <= LONG_MAX
  BY ParseLineAssumption
<1>2. Min({LONG_MAX, n}) = n
  <2>1. n <= LONG_MAX
    BY <1>1
  <2>2. \E x \in {LONG_MAX, n} : \A y \in {LONG_MAX, n} : x <= y
    BY <1>1, <2>1
  <2>3. PICK m : m = Min({LONG_MAX, n})
    OBVIOUS
  <2>4. m \in {LONG_MAX, n} /\ m <= n /\ m <= LONG_MAX
    BY <2>2, <2>3 DEF Min
  <2> QED
    BY <1>1, <2>1, <2>3, <2>4
<1>3. Max({-LONG_MAX - 1, n}) = n
  <2>1. -LONG_MAX - 1 <= n /\ -LONG_MAX - 1 \in Int
    BY <1>1
  <2>2. \E x \in {-LONG_MAX - 1, n} : \A y \in {-LONG_MAX - 1, n} : x >= y
    BY <2>1
  <2>3. PICK m : m = Max({-LONG_MAX - 1, n})
    OBVIOUS
  <2>4. m \in {-LONG_MAX - 1, n} /\ m >= n /\ m >= -LONG_MAX - 1
    BY <2>2, <2>3 DEF Max
  <2> QED
    BY <2>1, <2>3, <2>4
<1>4. PICK d, x : d = 2 * INT_MAX + 2 /\ x = n + INT_MAX + 1
  OBVIOUS
<1>5. d \in Nat \ {0} /\ x \in 0..(d - 1) /\ x - (INT_MAX + 1) = n
  BY <1>1, <1>4
<1>6. x % d = x
  BY <1>5
<1>7. AsLong(n) = n
  BY <1>2, <1>3 DEF AsLong
<1> QED
  BY <1>4, <1>5, <1>6, <1>7 DEF AsInt

\* The digits at the end of s begin at k.
FirstDigit(s, k) ==
    /\ k \in 1..(Len(s) + 1) /\ DigitsIn(s, k, Len(s))
    /\ k > 1 => s[k - 1] \notin DOMAIN Digits

\* NumberTyped finds them.
LEMMA NumberIs ==
    ASSUME NEW s \in Seq(IdChars)
    PROVE  \E first : /\ FirstDigit(s, first)
                      /\ NumberTyped(s).n = Value(s, first)
                      /\ NumberTyped(s).before = SubSeq(s, 1, first - 1)
<1>1. PICK n : n = Len(s)
  OBVIOUS
<1>2. n \in Nat
  BY <1>1
<1>3. PICK first : first = CHOOSE k \in 1..(Len(s) + 1) : /\ \A m \in k..Len(s) : s[m] \in DOMAIN Digits
                                                          /\ k > 1 => s[k - 1] \notin DOMAIN Digits
  OBVIOUS
<1>4. PICK T : T = {m \in 1..n : s[m] \notin DOMAIN Digits}
  OBVIOUS
<1>5. \E k \in 1..(n + 1) : /\ \A m \in k..n : s[m] \in DOMAIN Digits
                            /\ k > 1 => s[k - 1] \notin DOMAIN Digits
  <2>1. CASE T = {}
    <3>1. \A m \in 1..n : s[m] \in DOMAIN Digits
      BY <1>4, <2>1
    <3>2. 1 \in 1..(n + 1) /\ ~(1 > 1)
      BY <1>2
    <3> QED
      BY <3>1, <3>2
  <2>2. CASE T # {}
    <3>1. PICK k : k = Max(T)
      OBVIOUS
    <3>2. T \in SUBSET (1..n)
      BY <1>4
    <3>3. k \in T /\ \A m \in T : m <= k
      BY <1>2, <2>2, <3>1, <3>2, LastIndex
    <3>4. k \in 1..n /\ s[k] \notin DOMAIN Digits
      BY <1>4, <3>3
    <3>5. \A m \in (k + 1)..n : s[m] \in DOMAIN Digits
      <4>1. ASSUME NEW m \in (k + 1)..n, s[m] \notin DOMAIN Digits PROVE FALSE
        <5>1. m \in T
          BY <1>2, <1>4, <3>4, <4>1
        <5> QED
          BY <1>2, <3>3, <3>4, <5>1
      <4> QED
        BY <4>1
    <3>6. k + 1 \in 1..(n + 1) /\ (k + 1) - 1 = k
      BY <1>2, <3>4
    <3> QED
      BY <3>4, <3>5, <3>6
  <2> QED
    BY <2>1, <2>2
<1>6. FirstDigit(s, first)
  BY <1>1, <1>3, <1>5 DEF FirstDigit, DigitsIn
<1>7. PICK v : v = Value(s, first)
  OBVIOUS
<1>8. v = MapThenSumSet(LAMBDA m : Digits[s[m]] * TenTo[Len(s) - m], first..Len(s))
  BY <1>7 DEF Value
<1>9. NumberTyped(s) = [before |-> SubSeq(s, 1, first - 1), n |-> v]
  BY <1>3, <1>8 DEF NumberTyped
<1>10. NumberTyped(s).n = v /\ NumberTyped(s).before = SubSeq(s, 1, first - 1)
  <2>1. PICK b : b = SubSeq(s, 1, first - 1)
    OBVIOUS
  <2>2. NumberTyped(s) = [before |-> b, n |-> v]
    BY <1>9, <2>1
  <2>3. NumberTyped(s).n = v /\ NumberTyped(s).before = b
    BY <2>2
  <2> QED
    BY <2>1, <2>3, Zenon
<1> QED
  BY <1>6, <1>7, <1>10

\* What is behind the first character, and the number there.
LEMMA TailReads ==
    ASSUME NEW s \in Seq(IdChars), s # << >>, NEW n, n = Len(s) - 1, NEW u, u = Tail(s),
           NEW from \in 0..n, DigitsIn(u, from + 1, n)
    PROVE  /\ DigitsIn(s, from + 2, n + 1)
           /\ Decimal(SubSeq(u, from + 1, n)) = Value(s, from + 2)
           /\ Value(s, from + 2) \in Nat
<1>1. n \in Nat /\ Len(s) = n + 1
  BY EmptySeq
<1>2. u \in Seq(IdChars) /\ Len(u) = n /\ \A m \in 1..n : u[m] = s[m + 1]
  BY <1>1
<1>3. DigitsIn(s, from + 2, n + 1)
  <2>1. ASSUME NEW m \in (from + 2)..(n + 1) PROVE s[m] \in DOMAIN Digits
    <3>1. PICK j : j = m - 1
      OBVIOUS
    <3>2. j \in (from + 1)..n /\ j \in 1..n /\ j + 1 = m
      BY <1>1, <3>1
    <3> QED
      BY <1>2, <3>2 DEF DigitsIn
  <2> QED
    BY <2>1 DEF DigitsIn
<1>4. SubSeq(u, from + 1, n) = SubSeq(s, from + 2, n + 1)
  <2>1. PICK t, r : t = SubSeq(u, from + 1, n) /\ r = SubSeq(s, from + 2, n + 1)
    OBVIOUS
  <2>2. from + 1 \in Int /\ from + 2 \in Int /\ n \in Int /\ n + 1 \in Int
    BY <1>1
  <2>3. \A m \in (from + 1)..n : u[m] \in DOMAIN Digits
    BY DEF DigitsIn
  <2>4. \A m \in (from + 2)..(n + 1) : s[m] \in DOMAIN Digits
    BY <1>3 DEF DigitsIn
  <2>5. /\ t \in Seq(DOMAIN Digits)
        /\ Len(t) = IF from + 1 <= n THEN n - (from + 1) + 1 ELSE 0
        /\ \A k \in 1..(n - (from + 1) + 1) : t[k] = u[from + 1 + k - 1]
    BY <2>1, <2>2, <2>3, SubSeqProperties
  <2>6. /\ r \in Seq(DOMAIN Digits)
        /\ Len(r) = IF from + 2 <= n + 1 THEN n + 1 - (from + 2) + 1 ELSE 0
        /\ \A k \in 1..(n + 1 - (from + 2) + 1) : r[k] = s[from + 2 + k - 1]
    BY <2>1, <2>2, <2>4, SubSeqProperties
  <2>7. Len(t) = n - from /\ Len(r) = n - from
    BY <1>1, <2>5, <2>6
  <2>8. ASSUME NEW k \in 1..(n - from) PROVE t[k] = r[k]
    <3>1. /\ k \in 1..(n - (from + 1) + 1) /\ k \in 1..(n + 1 - (from + 2) + 1)
          /\ from + 1 + k - 1 = from + k /\ from + 2 + k - 1 = from + k + 1 /\ from + k \in 1..n
      BY <1>1
    <3>2. t[k] = u[from + k] /\ r[k] = s[from + k + 1]
      BY <2>5, <2>6, <3>1
    <3> QED
      BY <1>2, <3>1, <3>2
  <2>9. t = r
    BY <2>5, <2>6, <2>7, <2>8, SeqEqual
  <2> QED
    BY <2>1, <2>9
<1>5. PICK i, L : i = from + 2 /\ L = n + 1
  OBVIOUS
<1>6. L \in Nat /\ L = Len(s) /\ i \in 1..(L + 1) /\ DigitsIn(s, i, L)
  BY <1>1, <1>3, <1>5
<1>7. Decimal(SubSeq(s, i, L)) = Value(s, i) /\ Value(s, i) \in Nat
  BY <1>6, NumeralIs
<1> QED
  BY <1>3, <1>4, <1>5, <1>7

\* A job id that is accepted is the number behind blanks, or a +, behind the %.
LEMMA AcceptedId ==
    ASSUME NEW s \in Seq(IdChars), NEW first, FirstDigit(s, first), Value(s, first) <= INT_MAX,
           parse_job_id(s) # NoJobId
    PROVE  /\ parse_job_id(s) = Value(s, first) /\ s[1] = "%" /\ first >= 2
           /\ \A m \in 2..(first - 1) : isspace(s[m]) \/ s[m] = "+"
<1>1. PICK n, u, r : n = Len(s) - 1 /\ u = Tail(s) /\ r = strtol(u)
  OBVIOUS
<1>2. /\ s # << >> /\ s[1] = "%" /\ s # <<"%">> /\ r.end = n
      /\ ~(AsInt(r.n) <= 0) /\ parse_job_id(s) = AsInt(r.n)
  BY <1>1 DEF parse_job_id
<1>3. n \in Nat /\ Len(s) = n + 1
  BY <1>1, <1>2, EmptySeq
<1>4. u \in Seq(IdChars) /\ Len(u) = n /\ \A m \in 1..n : u[m] = s[m + 1]
  BY <1>1, <1>2, <1>3
<1>5. n # 0
  <2>1. CASE n = 0
    <3>1. PICK t : t = <<"%">>
      OBVIOUS
    <3>2. t \in Seq({"%"}) /\ Len(t) = 1 /\ t[1] = "%"
      BY <3>1
    <3>3. Len(s) = 1
      BY <1>3, <2>1
    <3>4. s = t
      BY <1>2, <3>2, <3>3, SeqEqual
    <3> QED
      BY <1>2, <3>1, <3>4
  <2> QED
    BY <2>1
<1>6. PICK skip, from, to, neg : IsRead(u, skip, from, to, neg)
  BY <1>4, StrtolIs
<1>7. PICK d : d = Decimal(SubSeq(u, from + 1, to))
  OBVIOUS
<1>8. /\ Skips(u, skip) /\ from = (IF HasSign(u, skip) THEN skip + 1 ELSE skip)
      /\ Counts(u, from, to)
      /\ neg <=> HasSign(u, skip) /\ u[from] = "-"
      /\ r.n = AsLong(IF neg THEN -d ELSE d) /\ r.end = IF to = from THEN 0 ELSE to
  BY <1>1, <1>6, <1>7 DEF IsRead
<1>9. skip \in 0..n /\ from \in 0..n /\ to \in from..n
  BY <1>3, <1>4, <1>8 DEF Skips, HasSign, Counts
<1>10. to = n /\ from # n
  BY <1>2, <1>5, <1>8
<1>11. DigitsIn(u, from + 1, n)
  BY <1>8, <1>10 DEF Counts, DigitsIn
<1>12. DigitsIn(s, from + 2, n + 1) /\ d = Value(s, from + 2) /\ d \in Nat
  <2>1. d = Decimal(SubSeq(u, from + 1, n))
    BY <1>7, <1>10
  <2>2. /\ DigitsIn(s, from + 2, n + 1)
        /\ Decimal(SubSeq(u, from + 1, n)) = Value(s, from + 2) /\ Value(s, from + 2) \in Nat
    BY <1>1, <1>2, <1>9, <1>11, TailReads
  <2> QED
    BY <2>1, <2>2
<1>13. s[from + 1] \notin DOMAIN Digits
  <2>1. CASE from = 0
    BY <1>2, <2>1, DigitIs
  <2>2. CASE from # 0
    <3>1. from \in 1..n /\ u[from] = s[from + 1]
      BY <1>4, <1>9, <2>2
    <3>2. CASE HasSign(u, skip)
      <4>1. u[from] = "+" \/ u[from] = "-"
        BY <1>8, <3>2 DEF HasSign
      <4> QED
        BY <3>1, <4>1, DigitIs
    <3>3. CASE ~HasSign(u, skip)
      <4>1. isspace(u[from])
        BY <1>8, <1>9, <3>1, <3>3 DEF Skips
      <4> QED
        BY <3>1, <4>1, DigitIs
    <3> QED
      BY <3>2, <3>3
  <2> QED
    BY <2>1, <2>2
<1>14. first = from + 2
  <2>1. first \in 1..(n + 2) /\ \A m \in first..(n + 1) : s[m] \in DOMAIN Digits
    BY <1>3 DEF FirstDigit, DigitsIn
  <2>2. ~(first <= from + 1)
    <3>1. CASE first <= from + 1
      <4>1. from + 1 \in first..(n + 1)
        BY <1>3, <1>9, <2>1, <3>1
      <4> QED
        BY <1>13, <2>1, <4>1
    <3> QED
      BY <3>1
  <2>3. ~(first > from + 2)
    <3>1. CASE first > from + 2
      <4>1. first - 1 \in (from + 2)..(n + 1) /\ first > 1
        BY <1>3, <1>9, <2>1, <3>1
      <4>2. s[first - 1] \in DOMAIN Digits
        BY <1>12, <4>1 DEF DigitsIn
      <4> QED
        BY <4>1, <4>2 DEF FirstDigit
    <3> QED
      BY <3>1
  <2> QED
    BY <1>3, <1>9, <2>1, <2>2, <2>3
<1>15. d <= INT_MAX /\ INT_MAX \in Nat
  BY <1>12, <1>14, ParseLineAssumption
<1>16. ~neg
  <2>1. CASE neg
    <3>1. r.n = AsLong(-d)
      BY <1>8, <2>1
    <3>2. -d \in Int /\ -INT_MAX <= -d /\ -d <= INT_MAX /\ -d <= 0
      BY <1>12, <1>15
    <3>3. AsInt(AsLong(-d)) = -d
      BY <3>2, IntsAreKept
    <3> QED
      BY <1>2, <3>1, <3>2, <3>3
  <2> QED
    BY <2>1
<1>17. AsInt(r.n) = d
  <2>1. d \in Int /\ -INT_MAX <= d
    BY <1>12, <1>15
  <2>2. AsInt(AsLong(d)) = d
    BY <1>15, <2>1, IntsAreKept
  <2> QED
    BY <1>8, <1>16, <2>2
<1>18. ASSUME NEW m \in 2..(first - 1) PROVE isspace(s[m]) \/ s[m] = "+"
  <2>1. PICK j : j = m - 1
    OBVIOUS
  <2>2. j \in 1..from /\ j \in 1..n /\ u[j] = s[m]
    <3>1. j \in 1..from /\ j \in 1..n /\ j + 1 = m
      BY <1>3, <1>9, <1>14, <2>1
    <3> QED
      BY <1>4, <3>1
  <2>3. CASE j <= skip
    BY <1>8, <1>9, <2>2, <2>3 DEF Skips
  <2>4. CASE ~(j <= skip)
    <3>1. HasSign(u, skip) /\ j = from /\ from = skip + 1
      BY <1>8, <1>9, <2>2, <2>4
    <3>2. u[from] = "+"
      BY <1>8, <1>16, <3>1 DEF HasSign
    <3> QED
      BY <2>2, <3>1, <3>2
  <2> QED
    BY <2>3, <2>4
<1>19. first >= 2
  BY <1>9, <1>14
<1> QED
  BY <1>2, <1>12, <1>14, <1>17, <1>18, <1>19

\* A positive number right behind the % is accepted.
LEMMA TakenId ==
    ASSUME NEW s \in Seq(IdChars), FirstDigit(s, 2), s[1] = "%",
           Value(s, 2) > 0, Value(s, 2) <= INT_MAX
    PROVE  parse_job_id(s) = Value(s, 2)
<1>1. PICK n, u, r : n = Len(s) - 1 /\ u = Tail(s) /\ r = strtol(u)
  OBVIOUS
<1>2. n \in Nat /\ Len(s) = n + 1 /\ s # << >>
  <2>1. 2 \in 1..(Len(s) + 1) /\ Len(s) \in Nat
    BY DEF FirstDigit
  <2>2. Len(s) # 0
    BY <2>1
  <2> QED
    BY <1>1, <2>1, <2>2, EmptySeq
<1>3. u \in Seq(IdChars) /\ Len(u) = n /\ \A m \in 1..n : u[m] = s[m + 1]
  BY <1>1, <1>2
<1>4. n # 0
  <2>1. CASE n = 0
    <3>1. PICK L : L = Len(s)
      OBVIOUS
    <3>2. L \in Nat /\ 2 \in 1..(L + 1) /\ L + 1 = 2 /\ DigitsIn(s, 2, L)
      BY <1>2, <2>1, <3>1 DEF FirstDigit
    <3>3. PICK v : IsValue(v, s, 2, L)
      BY <3>1, <3>2, ValueIs
    <3>4. Value(s, 2) = 0
      BY <3>2, <3>3 DEF IsValue
    <3> QED
      BY <3>4
  <2> QED
    BY <2>1
<1>5. s # <<"%">>
  <2>1. PICK t : t = <<"%">>
    OBVIOUS
  <2>2. Len(t) = 1
    BY <2>1
  <2>3. Len(s) # 1
    BY <1>2, <1>4
  <2> QED
    BY <2>1, <2>2, <2>3
<1>6. \A m \in 1..n : u[m] \in DOMAIN Digits
  <2>1. \A m \in 1..n : m + 1 \in 2..(n + 1)
    BY <1>2
  <2> QED
    BY <1>2, <1>3, <2>1 DEF FirstDigit, DigitsIn
<1>7. PICK skip, from, to, neg : IsRead(u, skip, from, to, neg)
  BY <1>3, StrtolIs
<1>8. PICK d : d = Decimal(SubSeq(u, from + 1, to))
  OBVIOUS
<1>9. /\ Skips(u, skip) /\ from = (IF HasSign(u, skip) THEN skip + 1 ELSE skip)
      /\ Counts(u, from, to)
      /\ neg <=> HasSign(u, skip) /\ u[from] = "-"
      /\ r.n = AsLong(IF neg THEN -d ELSE d) /\ r.end = IF to = from THEN 0 ELSE to
  BY <1>1, <1>7, <1>8 DEF IsRead
<1>10. u[1] \in DOMAIN Digits /\ ~isspace(u[1]) /\ u[1] # "+" /\ u[1] # "-"
  <2>1. 1 \in 1..n
    BY <1>2, <1>4
  <2> QED
    BY <1>6, <2>1, DigitIs
<1>11. skip = 0
  <2>1. skip \in Nat /\ (skip # 0 => 1 \in 1..skip)
    BY <1>9 DEF Skips
  <2> QED
    BY <1>9, <1>10, <2>1 DEF Skips
<1>12. ~HasSign(u, skip)
  BY <1>10, <1>11 DEF HasSign
<1>13. from = 0 /\ ~neg
  BY <1>9, <1>11, <1>12
<1>14. to = n
  <2>1. to \in 0..n /\ (to < n => u[to + 1] \notin DOMAIN Digits)
    BY <1>3, <1>9, <1>13 DEF Counts
  <2>2. to < n => to + 1 \in 1..n
    BY <1>2, <2>1
  <2> QED
    BY <1>2, <1>6, <2>1, <2>2
<1>15. from + 1 = 1 /\ from + 2 = 2 /\ from \in 0..n /\ DigitsIn(u, from + 1, n)
  BY <1>2, <1>6, <1>13 DEF DigitsIn
<1>16. d = Value(s, 2) /\ d \in Nat
  <2>1. Decimal(SubSeq(u, from + 1, n)) = Value(s, from + 2) /\ Value(s, from + 2) \in Nat
    BY <1>1, <1>2, <1>15, TailReads
  <2> QED
    BY <1>8, <1>14, <1>15, <2>1
<1>17. AsInt(r.n) = d
  <2>1. d \in Int /\ -INT_MAX <= d /\ d <= INT_MAX
    BY <1>16, ParseLineAssumption
  <2>2. AsInt(AsLong(d)) = d
    BY <2>1, IntsAreKept
  <2> QED
    BY <1>9, <1>13, <2>2
<1>18. r.end = Len(s) - 1 /\ ~(AsInt(r.n) <= 0)
  BY <1>1, <1>4, <1>9, <1>13, <1>14, <1>16, <1>17
<1> QED
  BY <1>1, <1>2, <1>5, <1>16, <1>17, <1>18 DEF parse_job_id

\* Every argument is a sequence of characters.
LEMMA ArgsAreIds == Spec => [](arg \in Seq(IdChars))
<1>1. Init => arg \in Seq(IdChars)
  BY EmptySeq DEF Init
<1>2. arg \in Seq(IdChars) /\ [Next]_vars => (arg \in Seq(IdChars))'
  <2> SUFFICES ASSUME arg \in Seq(IdChars), [Next]_vars PROVE arg' \in Seq(IdChars)
    OBVIOUS
  <2>1. ASSUME NEW c \in LineChars, Type(c) PROVE arg' \in Seq(IdChars)
    BY <2>1 DEF Type
  <2>2. ASSUME NEW c \in IdChars, TypeId(c) PROVE arg' \in Seq(IdChars)
    BY <2>2, AppendProperties DEF TypeId
  <2>3. CASE UNCHANGED vars
    BY <2>3 DEF vars
  <2> QED
    BY <2>1, <2>2, <2>3 DEF Next
<1> QED
  BY <1>1, <1>2, PTL DEF Spec

\* JobIdsAreWhatWasTyped: parse_job_id of phase 3 accepts, among the arguments whose number
\* is that of an int, only numbers behind a %, with blanks and a + at most between them, and
\* all positive ones right behind it, and returns the number that the digits stand for.
THEOREM JobIdsAreRead == Spec => []JobIdsAreWhatWasTyped
<1>1. arg \in Seq(IdChars) => JobIdsAreWhatWasTyped
  <2> SUFFICES ASSUME arg \in Seq(IdChars) PROVE JobIdsAreWhatWasTyped
    OBVIOUS
  <2>1. PICK s, t : s = arg /\ t = NumberTyped(s)
    OBVIOUS
  <2>2. s \in Seq(IdChars) /\ Len(s) \in Nat
    BY <2>1
  <2>3. PICK first : /\ FirstDigit(s, first) /\ t.n = Value(s, first)
                     /\ t.before = SubSeq(s, 1, first - 1)
    BY <2>1, <2>2, NumberIs
  <2>4. PICK b : b = t.before
    OBVIOUS
  <2>5. /\ first \in 1..(Len(s) + 1) /\ b \in Seq(IdChars) /\ Len(b) = first - 1
        /\ \A k \in 1..(first - 1) : b[k] = s[k]
    <3>1. first \in 1..(Len(s) + 1)
      BY <2>3 DEF FirstDigit
    <3>2. 1 \in Int /\ first - 1 \in Int /\ \A k \in 1..(first - 1) : s[k] \in IdChars
      BY <2>2, <3>1
    <3>3. /\ b \in Seq(IdChars) /\ Len(b) = IF 1 <= first - 1 THEN first - 1 - 1 + 1 ELSE 0
          /\ \A k \in 1..(first - 1 - 1 + 1) : b[k] = s[1 + k - 1]
      BY <2>3, <2>4, <3>2, SubSeqProperties
    <3> QED
      BY <2>2, <3>1, <3>3
  <2>6. ASSUME t.n <= INT_MAX, parse_job_id(s) # NoJobId
        PROVE  parse_job_id(s) = t.n /\ s[1] = "%" /\ Range(Tail(b)) \subseteq Blanks \union {"+"}
    <3>1. /\ parse_job_id(s) = Value(s, first) /\ s[1] = "%" /\ first >= 2
          /\ \A m \in 2..(first - 1) : isspace(s[m]) \/ s[m] = "+"
      BY <2>2, <2>3, <2>6, AcceptedId
    <3>2. PICK k, B : k = first - 2 /\ B = Tail(b)
      OBVIOUS
    <3>3. k \in Nat /\ Len(b) = k + 1 /\ b # << >>
      BY <2>2, <2>5, <3>1, <3>2, EmptySeq
    <3>4. DOMAIN B = 1..k /\ \A m \in 1..k : B[m] = b[m + 1]
      BY <2>5, <3>2, <3>3
    <3>5. ASSUME NEW m \in 1..k PROVE isspace(B[m]) \/ B[m] = "+"
      <4>1. m + 1 \in 2..(first - 1) /\ m + 1 \in 1..(first - 1)
        BY <2>2, <2>5, <3>2, <3>3
      <4>2. B[m] = s[m + 1]
        BY <2>5, <3>4, <4>1
      <4> QED
        BY <3>1, <4>1, <4>2
    <3>6. \A c \in Range(B) : isspace(c) \/ c = "+"
      BY <3>4, <3>5 DEF Range
    <3>7. Range(B) \subseteq Blanks \union {"+"}
      BY <3>6, Zenon DEF isspace
    <3> QED
      BY <2>3, <3>1, <3>2, <3>7
  <2>7. ASSUME t.n <= INT_MAX, b = <<"%">>, t.n > 0
        PROVE  parse_job_id(s) = t.n
    <3>1. Len(b) = 1 /\ b[1] = "%"
      BY <2>7
    <3>2. first = 2
      <4>1. first \in 1..(Len(s) + 1) /\ first - 1 = 1
        BY <2>5, <3>1
      <4> QED
        BY <2>2, <4>1
    <3>3. 1 \in 1..(first - 1)
      BY <3>2
    <3>4. s[1] = "%"
      BY <2>5, <3>1, <3>3
    <3> QED
      BY <2>2, <2>3, <2>7, <3>2, <3>4, TakenId
  <2> QED
    BY <2>1, <2>4, <2>6, <2>7 DEF JobIdsAreWhatWasTyped
<1> QED
  BY <1>1, ArgsAreIds, PTL
===============================================================================
