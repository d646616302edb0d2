------------------------------ MODULE Interpreter ------------------------------
(***************************************************************************)
(* The interpreter of project 1 (sp_prj1/20241620/main.c): named objects of  *)
(* three kinds in slots, the memory their data is allocated from, and the    *)
(* commands on hash tables and bitmaps.  The commands on lists are those of  *)
(* PintosList; here a list is only created and deleted.                      *)
(*                                                                           *)
(* A command that names no object, has too few arguments or arguments out of *)
(* range does nothing (or ends in an ASSERT) and is left out.                *)
(***************************************************************************)
EXTENDS Bitmap, HashTable

CONSTANTS
    MAX_DS,         \* slots for each kind of object
    Names,          \* the names in command lines
    LongNames,      \* those with NAME_LEN characters or more
    Kept,           \* the name that the first NAME_LEN - 1 characters of each of them are
    NumItems,       \* bounds the hash items there can be at one time
    Values,         \* the integers in command lines
    MaxBits,        \* bounds the size of a bitmap
    Scripts         \* what a script has commands for: kinds to create, families to use

ASSUME InterpreterAssumption ==
    /\ MAX_DS \in Nat \ {0} /\ NumItems \in Nat /\ MaxBits \in Nat
    /\ LongNames \subseteq Names /\ Kept \in Names \ LongNames
    /\ Values \subseteq Ints
    /\ Scripts \subseteq SUBSET {"list", "hashtable", "bitmap", "hash_", "bitmap_"}

VARIABLES
    table,      \* table[kind][slot]: the arrays lists, hashes and bitmaps
    val,        \* val[i]: the value of hash item i, or NoValue if it is not allocated
    block,      \* block[b]: the bitmap at address b, or Unallocated
    running,    \* main has not left its loop
    script,     \* what the input has commands for
    cmd         \* the last command: what it does, the name in it, its slot,
                \* its arguments, and what it prints

vars == <<table, val, block, running, script, cmd>>


Kinds == {"list", "hashtable", "bitmap"}
Slots == 1..MAX_DS
NoSlot == 0
Items == 1..NumItems
NoValue == -1
Blocks == 1..(MAX_DS + 1)     \* one more, for an expansion in progress
Unallocated == [bit_cnt |-> 0, bits |-> << >>, free |-> TRUE]
NoObject == [no |-> "object"]

\* A name as it is stored.
copy_name(n) == IF n \in LongNames THEN Kept ELSE n

\* A slot that is not in use keeps a name and a pointer that nobody reads.
NotUsed == [used |-> FALSE, name |-> "", obj |-> NoObject]

Init ==
    /\ table = [k \in Kinds |-> [s \in Slots |-> NotUsed]]
    /\ val = [i \in Items |-> NoValue]
    /\ block = [b \in Blocks |-> Unallocated]
    /\ running = TRUE
    /\ script \in Scripts
    /\ cmd = [do |-> "start", name |-> "", at |-> NoSlot, arg |-> << >>, out |-> {}]

Does(word, n, s, arg, out) ==
    cmd' = [do |-> word, name |-> n, at |-> s, arg |-> arg, out |-> out]

-----------------------------------------------------------------------------
(* The registry.                                                            *)

find_used(k, n) ==
    LET found == {s \in Slots : table[k][s].used /\ table[k][s].name = n}
    IN  IF found = {} THEN NoSlot ELSE Min(found)

find_empty(k) ==
    LET found == {s \in Slots : ~table[k][s].used}
    IN  IF found = {} THEN NoSlot ELSE Min(found)

\* The kinds are searched in this order.
find_object(n) ==
    IF find_used("list", n) # NoSlot THEN "list"
    ELSE IF find_used("hashtable", n) # NoSlot THEN "hashtable"
    ELSE "bitmap"

Allocated == {i \in Items : val[i] # NoValue}
FreeBlocks == {b \in Blocks : block[b] = Unallocated}

\* malloc: any address will do, so the first.
Fresh == Min(Items \ Allocated)
FreshBlock == Min(FreeBlocks)

\* What malloc may leave in the elements of cnt bits; what is beyond is never read.
Junk(cnt) ==
    {e \in Elements(cnt) : \A k \in DOMAIN e : \A p \in e[k] : k * ElemBits + p < cnt}

Register(k, s, n, obj) ==
    table' = [table EXCEPT ![k][s] = [used |-> TRUE, name |-> copy_name(n), obj |-> obj]]

create_list_object(n) ==
    LET s == find_empty("list")
    IN  /\ s # NoSlot
        /\ Register("list", s, n, NoObject)
        /\ UNCHANGED <<val, block>>
        /\ Does("create list", n, s, << >>, {})

create_hash_object(n) ==
    LET s == find_empty("hashtable")
    IN  /\ s # NoSlot
        /\ Register("hashtable", s, n, hash_init)
        /\ UNCHANGED <<val, block>>
        /\ Does("create hashtable", n, s, << >>, {})

create_bitmap_object(n, cnt) ==
    LET s == find_empty("bitmap")
    IN  /\ s # NoSlot
        /\ \E junk \in Junk(cnt) : block' = [block EXCEPT ![FreshBlock] = bitmap_create(cnt, junk)]
        /\ Register("bitmap", s, n, FreshBlock)
        /\ UNCHANGED val
        /\ Does("create bitmap", n, s, <<cnt>>, {})

\* All slots are in use.
CreateIgnored(k, n) ==
    /\ find_empty(k) = NoSlot
    /\ UNCHANGED <<table, val, block>>
    /\ Does("ignored", n, NoSlot, << >>, {})

HashAt(s) == table["hashtable"][s].obj
ItemsOf(s) == Members(HashAt(s))
BitmapAt(s) == block[table["bitmap"][s].obj]

Freed(items) == [i \in Items |-> IF i \in items THEN NoValue ELSE val[i]]
FreedBlocks(bs) == [b \in Blocks |-> IF b \in bs THEN Unallocated ELSE block[b]]

\* destroy_list, destroy_hash and destroy_bitmap: what is in slots ss of each kind goes.
Destroy(ss) ==
    /\ table' = [k \in Kinds |-> [s \in Slots |-> IF s \in ss[k] THEN NotUsed ELSE table[k][s]]]
    /\ val' = Freed(UNION {ItemsOf(s) : s \in ss["hashtable"]})
    /\ block' = FreedBlocks({table["bitmap"][s].obj : s \in ss["bitmap"]})

DeleteWord ==
    [list |-> "delete list", hashtable |-> "delete hashtable", bitmap |-> "delete bitmap"]
DumpWord == [list |-> "dump list", hashtable |-> "dump hashtable", bitmap |-> "dump bitmap"]

do_delete(n) ==
    LET kind == find_object(n)
        s == find_used(kind, n)
    IN  /\ s # NoSlot
        /\ Destroy([k \in Kinds |-> IF k = kind THEN {s} ELSE {}])
        /\ Does(DeleteWord[kind], n, s, << >>, {})

do_dumpdata(n) ==
    LET kind == find_object(n)
        s == find_used(kind, n)
    IN  /\ s # NoSlot
        /\ UNCHANGED <<table, val, block>>
        /\ Does(DumpWord[kind], n, s, << >>,
                IF kind = "hashtable" THEN [k \in DOMAIN Visited(HashAt(s)) |-> val[Visited(HashAt(s))[k]]]
                ELSE IF kind = "bitmap"
                     THEN [i \in 0..(BitmapAt(s).bit_cnt - 1) |-> bitmap_test(BitmapAt(s), i)]
                ELSE << >>)

cleanup_all_objects == Destroy([k \in Kinds |-> {s \in Slots : table[k][s].used}])

\* quit, or the end of the input.
Quit ==
    /\ running' = FALSE
    /\ cleanup_all_objects
    /\ Does("quit", "", NoSlot, << >>, {})

-----------------------------------------------------------------------------
(* The commands on the hash table in slot s, do_hash_command.               *)

InHash(s, h) ==
    table' = [table EXCEPT !["hashtable"][s].obj = h]

\* make_hash_item; the bound on items is a malloc that fails.
Made(v) == [val EXCEPT ![Fresh] = v]

ItemNotMade(s, n, word, v) ==
    /\ Allocated = Items
    /\ UNCHANGED <<table, val, block>>
    /\ Does("ignored", n, s, <<word, v>>, {})

\* Plausible bug: the item that was not needed is not freed.
HashInsert_Leaks(s, n, v) ==
    /\ Allocated # Items
    /\ \E ok \in BOOLEAN : InHash(s, hash_insert(HashAt(s), Made(v), Fresh, ok))
    /\ val' = Made(v)
    /\ UNCHANGED block
    /\ Does("hash_insert", n, s, <<v>>, {})

\* An item that was there already makes the new one superfluous.
HashInsert(s, n, v) ==
    /\ Allocated # Items
    /\ \E ok \in BOOLEAN : InHash(s, hash_insert(HashAt(s), Made(v), Fresh, ok))
    /\ val' = IF hash_find(HashAt(s), val, v) = NoItem THEN Made(v) ELSE val
    /\ UNCHANGED block
    /\ Does("hash_insert", n, s, <<v>>, {})

HashReplace(s, n, v) ==
    /\ Allocated # Items
    /\ \E ok \in BOOLEAN : InHash(s, hash_replace(HashAt(s), Made(v), Fresh, ok))
    /\ val' = [i \in Items |-> IF i = hash_find(HashAt(s), val, v) THEN NoValue ELSE Made(v)[i]]
    /\ UNCHANGED block
    /\ Does("hash_replace", n, s, <<v>>, {})

HashDelete(s, n, v) ==
    /\ \E ok \in BOOLEAN : InHash(s, hash_delete(HashAt(s), val, v, ok))
    /\ val' = Freed({hash_find(HashAt(s), val, v)})
    /\ UNCHANGED block
    /\ Does("hash_delete", n, s, <<v>>, {})

HashClear(s, n) ==
    /\ InHash(s, hash_clear(HashAt(s)))
    /\ val' = Freed(ItemsOf(s))
    /\ UNCHANGED block
    /\ Does("hash_clear", n, s, << >>, {})

HashApply(s, n) ==
    /\ \/ val' = hash_apply(HashAt(s), val, square) /\ Does("hash_apply", n, s, <<"square">>, {})
       \/ val' = hash_apply(HashAt(s), val, triple) /\ Does("hash_apply", n, s, <<"triple">>, {})
    /\ UNCHANGED <<table, block>>

\* hash_find, hash_size and hash_empty print; a value that is not found prints nothing.
HashQuery(s, n) ==
    /\ \/ \E v \in Values :
            LET found == hash_find(HashAt(s), val, v)
            IN  Does("hash_find", n, s, <<v>>, IF found = NoItem THEN {} ELSE {val[found]})
       \/ Does("hash_size", n, s, << >>, HashAt(s).elem_cnt)
       \/ Does("hash_empty", n, s, << >>, HashAt(s).elem_cnt = 0)
    /\ UNCHANGED <<table, val, block>>

do_hash_command(n) ==
    LET s == find_used("hashtable", n)
    IN  /\ s # NoSlot
        /\ \/ \E v \in Values :
                 \/ HashInsert(s, n, v)
                 \/ HashReplace(s, n, v)
                 \/ \E word \in {"hash_insert", "hash_replace"} : ItemNotMade(s, n, word, v)
           \/ \E v \in Values : HashDelete(s, n, v)
           \/ HashClear(s, n)
           \/ HashApply(s, n)
           \/ HashQuery(s, n)

-----------------------------------------------------------------------------
(* The commands on the bitmap in slot s, do_bitmap_command.                 *)

InBitmap(s, b) ==
    /\ block' = [block EXCEPT ![table["bitmap"][s].obj] = b]
    /\ UNCHANGED <<table, val>>

\* The ranges of up to cnt bits that lie in a bitmap.
RangesIn(b) == {r \in (0..b.bit_cnt) \X (0..b.bit_cnt) : r[1] + r[2] <= b.bit_cnt}

BitmapUpdate(s, n) ==
    LET b == BitmapAt(s)
    IN  \/ \E i \in 0..(b.bit_cnt - 1) :
              \/ InBitmap(s, bitmap_mark(b, i)) /\ Does("bitmap_mark", n, s, <<i>>, {})
              \/ InBitmap(s, bitmap_reset(b, i)) /\ Does("bitmap_reset", n, s, <<i>>, {})
              \/ InBitmap(s, bitmap_flip(b, i)) /\ Does("bitmap_flip", n, s, <<i>>, {})
              \/ \E v \in BOOLEAN : /\ InBitmap(s, bitmap_set(b, i, v))
                                    /\ Does("bitmap_set", n, s, <<i, v>>, {})
        \/ \E v \in BOOLEAN : /\ InBitmap(s, bitmap_set_all(b, v))
                              /\ Does("bitmap_set_all", n, s, <<v>>, {})
        \/ \E r \in RangesIn(b), v \in BOOLEAN :
              /\ InBitmap(s, bitmap_set_multiple(b, r[1], r[2], v))
              /\ Does("bitmap_set_multiple", n, s, <<r[1], r[2], v>>, {})

BitmapQuery(s, n) ==
    LET b == BitmapAt(s)
    IN  /\ \/ \E i \in 0..(b.bit_cnt - 1) : Does("bitmap_test", n, s, <<i>>, bitmap_test(b, i))
           \/ Does("bitmap_size", n, s, << >>, b.bit_cnt)
           \/ \E r \in RangesIn(b) :
                 LET start == r[1]
                     cnt == r[2]
                 IN  \/ Does("bitmap_any", n, s, r, bitmap_any(b, start, cnt))
                     \/ Does("bitmap_none", n, s, r, bitmap_none(b, start, cnt))
                     \/ Does("bitmap_all", n, s, r, bitmap_all(b, start, cnt))
                     \/ \E v \in BOOLEAN :
                           \/ Does("bitmap_count", n, s, <<start, cnt, v>>,
                                   bitmap_count(b, start, cnt, v))
                           \/ Does("bitmap_contains", n, s, <<start, cnt, v>>,
                                   bitmap_contains(b, start, cnt, v))
        /\ UNCHANGED <<table, val, block>>

\* The only bound on the count is that of the model.
BitmapScan(s, n) ==
    LET b == BitmapAt(s)
    IN  \E start \in 0..b.bit_cnt, cnt \in 0..(MaxBits + 1), v \in BOOLEAN :
           LET found == bitmap_scan(b, start, cnt, v)
           IN  \/ /\ Does("bitmap_scan", n, s, <<start, cnt, v>>, found)
                  /\ UNCHANGED <<table, val, block>>
               \/ /\ InBitmap(s, bitmap_scan_and_flip(b, start, cnt, v))
                  /\ Does("bitmap_scan_and_flip", n, s, <<start, cnt, v>>, found)

\* Plausible bug: the object keeps the address of the bitmap that was freed.
BitmapExpand_KeepsOld(s, n) ==
    LET old == table["bitmap"][s].obj
    IN  \E size \in 0..(MaxBits - block[old].bit_cnt) :
           \E junk \in Junk(block[old].bit_cnt + size) :
              /\ block' = [FreedBlocks({old}) EXCEPT ![FreshBlock] =
                             bitmap_expand(block[old], size, junk)]
              /\ UNCHANGED <<table, val>>
              /\ Does("bitmap_expand", n, s, <<size>>, {})

BitmapExpand(s, n) ==
    LET old == table["bitmap"][s].obj
    IN  \E size \in 0..(MaxBits - block[old].bit_cnt) :
           \E junk \in Junk(block[old].bit_cnt + size) :
              /\ block' = [FreedBlocks({old}) EXCEPT ![FreshBlock] =
                             bitmap_expand(block[old], size, junk)]
              /\ table' = [table EXCEPT !["bitmap"][s].obj = FreshBlock]
              /\ UNCHANGED val
              /\ Does("bitmap_expand", n, s, <<size>>, {})

do_bitmap_command(n) ==
    LET s == find_used("bitmap", n)
    IN  /\ s # NoSlot
        /\ BitmapUpdate(s, n) \/ BitmapQuery(s, n) \/ BitmapScan(s, n) \/ BitmapExpand(s, n)

-----------------------------------------------------------------------------
\* malloc fails in create or bitmap_expand: nothing has changed.
OutOfMemory(n) ==
    /\ UNCHANGED <<table, val, block>>
    /\ Does("ignored", n, NoSlot, << >>, {})

do_create(n) ==
    \/ "list" \in script /\ (create_list_object(n) \/ CreateIgnored("list", n))
    \/ "hashtable" \in script /\ (create_hash_object(n) \/ CreateIgnored("hashtable", n))
    \/ /\ "bitmap" \in script
       /\ \/ \E cnt \in 0..MaxBits : create_bitmap_object(n, cnt)
          \/ CreateIgnored("bitmap", n)
          \/ OutOfMemory(n)

\* One line of the input.
Command(n) ==
    \/ do_create(n)
    \/ do_delete(n)
    \/ do_dumpdata(n)
    \/ "hash_" \in script /\ do_hash_command(n)
    \/ "bitmap_" \in script /\ do_bitmap_command(n)

Next ==
    /\ running
    /\ UNCHANGED script
    /\ \/ \E n \in Names : UNCHANGED running /\ Command(n)
       \/ Quit

Spec == Init /\ [][Next]_vars
-----------------------------------------------------------------------------
UsedSlots(k) == {s \in Slots : table[k][s].used}

\* The numbers of buckets there may be: powers of 2, and not too few.
BucketCnts == {p \in {2 ^ k : k \in 0..(NumItems + MinBuckets)} : p >= MinBuckets}

HashOK(h) ==
    /\ h.bucket_cnt \in BucketCnts
    /\ h.elem_cnt \in 0..NumItems
    /\ DOMAIN h.buckets = 0..(h.bucket_cnt - 1)
    /\ \A b \in DOMAIN h.buckets : h.buckets[b] \in Seq(Items)

\* Types: among them, that the number of buckets, with which find_bucket masks hash
\* values, is a power of two, and that an object in use has an address.
TypeOK ==
    /\ DOMAIN table = Kinds
    /\ \A k \in Kinds : \A s \in UsedSlots(k) : table[k][s].name \in Names \ LongNames
    /\ \A s \in UsedSlots("hashtable") : HashOK(HashAt(s))
    /\ \A s \in UsedSlots("bitmap") : table["bitmap"][s].obj \in Blocks
    /\ val \in [Items -> Ints \union {NoValue}]
    /\ \A b \in Blocks \ FreeBlocks : block[b] \in BitmapsOf(block[b].bit_cnt)
    /\ running \in BOOLEAN

\* Whatever item is allocated is owned by one place in one table, and none is owned that
\* was freed.  After cleanup_all_objects nothing is left.
ItemsHaveOwners ==
    LET places == {p \in UsedSlots("hashtable") \X (1..NumItems) : p[2] <= Len(Visited(HashAt(p[1])))}
    IN  /\ Allocated = {Visited(HashAt(p[1]))[p[2]] : p \in places}
        /\ Cardinality(Allocated) = Cardinality(places)
        /\ ~running => Allocated = {}

\* The same of bitmaps: each that is allocated belongs to one object, and each object in
\* use has one, whatever bitmap_expand allocates and frees.
BitmapsHaveOwners ==
    /\ Blocks \ FreeBlocks = {table["bitmap"][s].obj : s \in UsedSlots("bitmap")}
    /\ Cardinality(Blocks \ FreeBlocks) = Cardinality(UsedSlots("bitmap"))
    /\ ~running => FreeBlocks = Blocks

\* What can be told of an object in use.
Meaning(k, s) ==
    CASE k = "hashtable" -> [i \in ItemsOf(s) |-> val[i]]
      [] k = "bitmap" -> BitmapAt(s)
      [] OTHER -> NoObject

\* Until quit, a command changes at most one of the objects that are in use, and only
\* one whose stored name is the one it gives: an object created with a longer name than
\* a slot holds answers to what was kept of it only, and no memory is shared by two
\* objects.
OnlyTheNamedChanges ==
    [][ LET changed == {o \in Kinds \X Slots :
                          /\ table[o[1]][o[2]].used
                          /\ \/ ~table[o[1]][o[2]].used'
                             \/ table[o[1]][o[2]].name' # table[o[1]][o[2]].name
                             \/ Meaning(o[1], o[2])' # Meaning(o[1], o[2])}
        IN  running' => /\ Cardinality(changed) <= 1
                        /\ \A o \in changed : table[o[1]][o[2]].name = cmd'.name
      ]_vars

\* What the next command can depend on.  Which of the items has a value makes no
\* difference: renaming items renames them in every state that follows.
Objects ==
    <<[k \in Kinds |-> [s \in Slots |->
         IF k = "hashtable" /\ table[k][s].used
         THEN [table[k][s] EXCEPT !.obj.buckets =
                 [b \in DOMAIN @ |-> [p \in DOMAIN @[b] |-> val[@[b][p]]]]]
         ELSE table[k][s]]],
      Cardinality(Allocated), block, running, script>>

\* An item that is not in the bucket of its value, or has the value of another.
Misplaced(s) ==
    \E b \in DOMAIN HashAt(s).buckets : \E i \in ToSet(HashAt(s).buckets[b]) :
       \/ find_bucket(HashAt(s), val[i]) # b
       \/ \E j \in ItemsOf(s) \ {i} : val[j] = val[i]

\* The hash tables in use as what the commands can tell of them, and those in which a
\* search may miss.
Elems == [s \in UsedSlots("hashtable") |-> [i \in ItemsOf(s) |-> val[i]]]
Stale == {s \in UsedSlots("hashtable") : Misplaced(s)}

HashTables == INSTANCE HashSpec WITH Tables <- Slots, elems <- Elems, stale <- Stale

\* Every command on hash tables does what HashSpec says, however rehash moves the
\* items and whether or not it gets the memory: none is lost, none is there twice,
\* none is missed, except in a table whose values hash_apply has changed.
ImplementsHashSpec == HashTables!Spec

Works(i) == i % ElemBits < AsmBits

\* The bitmaps in use as what the commands can tell of them.
Arrays ==
    [s \in UsedSlots("bitmap") |->
       [i \in 0..(BitmapAt(s).bit_cnt - 1) |-> bitmap_test(BitmapAt(s), i)]]

BitmapObjects ==
    INSTANCE BitmapSpec WITH Bitmaps <- Slots, Error <- BITMAP_ERROR, bits <- Arrays

\* Every command on bitmaps does what BitmapSpec says of an array of booleans, at the
\* boundaries of elements and of the bitmap too; bits that the instructions do not
\* reach keep what malloc left there.
ImplementsBitmapSpec == BitmapObjects!Spec

\* What bitmap.c says at its lines 146 and 158: bitmap_set and bitmap_mark set the bit,
\* and so that a test finds it.
MarkedBitsAreSet ==
    [][ cmd'.do \in {"bitmap_mark", "bitmap_set"} /\ (cmd'.do = "bitmap_set" => cmd'.arg[2])
          => \A s \in Slots : s = cmd'.at => bitmap_test(BitmapAt(s)', cmd'.arg[1]) ]_vars

\* bitmap.c says at line 333 of bitmap_scan_and_flip: "If CNT is zero, returns 0."
ScanAndFlipOfNothingIsZero ==
    [][ cmd'.do = "bitmap_scan_and_flip" /\ cmd'.arg[2] = 0 => cmd'.out = 0 ]_vars
=============================================================================
