------------------------------- MODULE HashTable -------------------------------
(***************************************************************************)
(* The hash table of sp_prj1/20241620/hash.c over integer items, as a pure   *)
(* data structure: buckets are sequences of items (the lists of ListHeap,    *)
(* which PintosList shows to behave as sequences), val gives the value of    *)
(* an item.                                                                  *)
(*                                                                           *)
(* MinBuckets and BestElems stand for the 4 and the 2 of rehash.  An int has *)
(* Width bits and wraps around; its upper bytes are 0.  Of a hash only the   *)
(* lowest byte is kept, which is enough for up to 256 buckets: products and  *)
(* exclusive ors carry nothing downwards.                                    *)
(***************************************************************************)
EXTENDS Integers, SequencesExt

CONSTANTS MinBuckets, BestElems, Width

ASSUME HashTableAssumption ==
    /\ MinBuckets \in {2 ^ k : k \in 0..8}
    /\ BestElems \in Nat \ {0}
    /\ Width \in 1..8

Ints == 0..(2 ^ Width - 1)

NoItem == 0     \* NULL; items are positive

Bit(x, k) == (x \div 2 ^ k) % 2
Xor(x, y) == MapThenSumSet(LAMBDA k : IF Bit(x, k) = Bit(y, k) THEN 0 ELSE 2 ^ k, 0..7)

\* 16777619 and 2166136261, modulo 256.
FNV_32_PRIME == 147
FNV_32_BASIS == 197

hash_bytes(buf) ==
    FoldLeft(LAMBDA hash, byte : Xor((hash * FNV_32_PRIME) % 256, byte), FNV_32_BASIS, buf)

hash_int == [i \in Ints |-> hash_bytes(<<i, 0, 0, 0>>)]

\* What hash_apply is called with.
square == [v \in Ints |-> (v * v) % 2 ^ Width]
triple == [v \in Ints |-> (v * v * v) % 2 ^ Width]

hash_init ==
    [elem_cnt |-> 0, bucket_cnt |-> MinBuckets, buckets |-> [b \in 0..(MinBuckets - 1) |-> <<>>]]

hash_clear(h) == [h EXCEPT !.elem_cnt = 0, !.buckets = [b \in DOMAIN @ |-> <<>>]]

\* The order in which hash_next and hash_apply visit the items.
Visited(h) == FlattenSeq([k \in 1..h.bucket_cnt |-> h.buckets[k - 1]])

Members(h) == UNION {Range(h.buckets[b]) : b \in DOMAIN h.buckets}

\* The number of buckets is a power of 2, so that the mask is a remainder.
find_bucket(h, v) == hash_int[v] % h.bucket_cnt

find_elem(h, val, b, v) ==
    LET k == SelectInSeq(h.buckets[b], LAMBDA i : val[i] = v)
    IN  IF k = 0 THEN NoItem ELSE h.buckets[b][k]

insert_elem(h, b, i) == [h EXCEPT !.elem_cnt = @ + 1, !.buckets[b] = <<i>> \o @]

\* list_remove takes the item out of whichever bucket it is linked into.
remove_elem(h, i) ==
    [h EXCEPT !.elem_cnt = @ - 1, !.buckets = [b \in DOMAIN @ |-> RemoveFirst(@[b], i)]]

\* turn_off_least_1bit until one bit is left.
PowerOfTwoUpTo(n) == Max({p \in {2 ^ k : k \in 0..n} : p <= n})

\* Plausible bug: the number of buckets need not be a power of 2.
NewBucketCnt_AnyNumber(h) == Max({h.elem_cnt \div BestElems, MinBuckets})

NewBucketCnt(h) == PowerOfTwoUpTo(Max({h.elem_cnt \div BestElems, MinBuckets}))

\* Plausible bug: the elements are moved before the new number of buckets is stored.
Moved_OldCount(h, val, cnt) ==
    FoldLeft(LAMBDA new, i : LET b == find_bucket(h, val[i]) % cnt
                             IN  [new EXCEPT !.buckets[b] = <<i>> \o @],
             [h EXCEPT !.bucket_cnt = cnt, !.buckets = [b \in 0..(cnt - 1) |-> <<>>]],
             Visited(h))

\* Each item goes to the front of its new bucket.
Moved(h, val, cnt) ==
    FoldLeft(LAMBDA new, i : [new EXCEPT !.buckets[find_bucket(new, val[i])] = <<i>> \o @],
             [h EXCEPT !.bucket_cnt = cnt, !.buckets = [b \in 0..(cnt - 1) |-> <<>>]],
             Visited(h))

\* ok: malloc finds memory for the new buckets.  If not, the old ones stay.
rehash(h, val, ok) ==
    IF ok /\ NewBucketCnt(h) # h.bucket_cnt THEN Moved(h, val, NewBucketCnt(h)) ELSE h

\* The item that equals i and is already there, or NoItem.
hash_find(h, val, v) == find_elem(h, val, find_bucket(h, v), v)

hash_insert(h, val, i, ok) ==
    rehash(IF hash_find(h, val, val[i]) = NoItem
           THEN insert_elem(h, find_bucket(h, val[i]), i) ELSE h, val, ok)

hash_replace(h, val, i, ok) ==
    LET old == hash_find(h, val, val[i])
    IN  rehash(insert_elem(IF old = NoItem THEN h ELSE remove_elem(h, old),
                           find_bucket(h, val[i]), i), val, ok)

hash_delete(h, val, v, ok) ==
    LET found == hash_find(h, val, v)
    IN  IF found = NoItem THEN h ELSE rehash(remove_elem(h, found), val, ok)

\* The values after an action on every item of the table.
hash_apply(h, val, action) ==
    [i \in DOMAIN val |-> IF i \in Members(h) THEN action[val[i]] ELSE val[i]]
=============================================================================
