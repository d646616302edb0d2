-------------------------------- MODULE Bitmap --------------------------------
(***************************************************************************)
(* The bitmap of sp_prj1/20241620/bitmap.c as a pure data structure: a       *)
(* number of bits and the elements that hold them, each element the set of   *)
(* its positions that are 1.                                                 *)
(*                                                                           *)
(* An element has ElemBits bits (unsigned long: 64).  The instructions that  *)
(* set, clear and flip a bit (orl, andl, xorl on the operand's %k form) work *)
(* on AsmBits of them (32).  The rest of an element keeps what malloc gave.  *)
(*                                                                           *)
(* Bit numbers and ranges lie within the bitmap: what is beyond is an        *)
(* ASSERT that ends the program or, in mark, reset and flip, a stray write.  *)
(***************************************************************************)
EXTENDS Integers, FiniteSets, FiniteSetsExt

CONSTANTS ElemBits, AsmBits

ASSUME BitmapAssumption == ElemBits \in Nat \ {0} /\ AsmBits \in 1..ElemBits

Positions == 0..(ElemBits - 1)

BITMAP_ERROR == -1    \* SIZE_MAX, which is no bit number

elem_idx(idx) == idx \div ElemBits
bit_mask(idx) == {idx % ElemBits}
elem_cnt(cnt) == (cnt + ElemBits - 1) \div ElemBits

Elements(cnt) == [0..(elem_cnt(cnt) - 1) -> SUBSET Positions]

\* The bitmaps of cnt bits.
BitmapsOf(cnt) == [bit_cnt : {cnt}, bits : Elements(cnt)]

\* What an instruction sees of a mask.
Operand(mask) == mask \intersect 0..(AsmBits - 1)

bitmap_mark(b, idx) == [b EXCEPT !.bits[elem_idx(idx)] = @ \union Operand(bit_mask(idx))]
bitmap_reset(b, idx) == [b EXCEPT !.bits[elem_idx(idx)] = @ \ Operand(bit_mask(idx))]
bitmap_flip(b, idx) == [b EXCEPT !.bits[elem_idx(idx)] = SymDiff(@, Operand(bit_mask(idx)))]

bitmap_set(b, idx, value) == IF value THEN bitmap_mark(b, idx) ELSE bitmap_reset(b, idx)
bitmap_test(b, idx) == b.bits[elem_idx(idx)] \intersect bit_mask(idx) # {}

bitmap_set_multiple(b, start, cnt, value) ==
    LET after[n \in 0..cnt] == IF n = 0 THEN b
                               ELSE bitmap_set(after[n - 1], start + n - 1, value)
    IN  after[cnt]

bitmap_set_all(b, value) == bitmap_set_multiple(b, 0, b.bit_cnt, value)

\* junk: what malloc returned.
bitmap_create(cnt, junk) == bitmap_set_all([bit_cnt |-> cnt, bits |-> junk], FALSE)

bitmap_expand(b, size, junk) ==
    LET copied[n \in 0..b.bit_cnt] ==
          IF n = 0 THEN bitmap_create(b.bit_cnt + size, junk)
          ELSE bitmap_set(copied[n - 1], n - 1, bitmap_test(b, n - 1))
    IN  copied[b.bit_cnt]

bitmap_count(b, start, cnt, value) ==
    Cardinality({idx \in start..(start + cnt - 1) : bitmap_test(b, idx) = value})

bitmap_contains(b, start, cnt, value) ==
    \E idx \in start..(start + cnt - 1) : bitmap_test(b, idx) = value

bitmap_any(b, start, cnt) == bitmap_contains(b, start, cnt, TRUE)
bitmap_none(b, start, cnt) == ~bitmap_contains(b, start, cnt, TRUE)
bitmap_all(b, start, cnt) == ~bitmap_contains(b, start, cnt, FALSE)

\* Plausible bug: the last place for a group is not tried.
bitmap_scan_StopsShort(b, start, cnt, value) ==
    LET found == {idx \in start..(b.bit_cnt - cnt - 1) : ~bitmap_contains(b, idx, cnt, ~value)}
    IN  IF found = {} THEN BITMAP_ERROR ELSE Min(found)

\* The range is empty when cnt is more than there is from start on.
bitmap_scan(b, start, cnt, value) ==
    LET found == {idx \in start..(b.bit_cnt - cnt) : ~bitmap_contains(b, idx, cnt, ~value)}
    IN  IF found = {} THEN BITMAP_ERROR ELSE Min(found)

\* The bitmap after it; it returns what bitmap_scan does.
bitmap_scan_and_flip(b, start, cnt, value) ==
    LET idx == bitmap_scan(b, start, cnt, value)
    IN  IF idx = BITMAP_ERROR THEN b ELSE bitmap_set_multiple(b, idx, cnt, ~value)
=============================================================================
