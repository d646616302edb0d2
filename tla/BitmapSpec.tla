------------------------------- MODULE BitmapSpec -------------------------------
(***************************************************************************)
(* What the commands on bitmaps promise, without elements: a bitmap is an    *)
(* array of booleans.  A bit that Works is what the commands make it.  Any   *)
(* other is whatever it was when memory was allocated, and stays so.         *)
(***************************************************************************)
EXTENDS Integers, FiniteSets, Functions, Sequences

CONSTANTS Bitmaps, Works(_), Error

VARIABLES
    bits,       \* bits[b]: bit number -> boolean, for every bitmap b there is
    cmd         \* the command that was done last

bsVars == <<bits, cmd>>

Init == bits = << >> /\ cmd.do = "start"

Size(b) == Cardinality(DOMAIN bits[b])

\* Of the new array a, only the bits that work are known.
Create(b, cnt) ==
    /\ b \in Bitmaps \ DOMAIN bits
    /\ \E a \in [0..(cnt - 1) -> BOOLEAN] :
          /\ \A i \in DOMAIN a : Works(i) => ~a[i]
          /\ bits' = [k \in DOMAIN bits \union {b} |-> IF k = b THEN a ELSE bits[k]]

Expand(b, size) ==
    \E a \in [0..(Size(b) + size - 1) -> BOOLEAN] :
       /\ \A i \in DOMAIN a : Works(i) => (a[i] <=> i < Size(b) /\ bits[b][i])
       /\ bits' = [bits EXCEPT ![b] = a]

\* The bits in I become what To says of them.
Write(b, I, To(_)) ==
    bits' = [bits EXCEPT ![b] = [i \in DOMAIN @ |-> IF i \in I /\ Works(i) THEN To(i) ELSE @[i]]]

Range_(start, cnt) == start..(start + cnt - 1)

Group(b, at, cnt, v) ==
    at + cnt <= Size(b) /\ \A i \in Range_(at, cnt) : bits[b][i] = v

\* The first group of cnt bits with value v, from start on.
FirstGroup(b, start, cnt, v, at) ==
    LET groups == {k \in start..Size(b) : Group(b, k, cnt, v)}
    IN  IF groups = {} THEN at = Error ELSE at \in groups /\ \A k \in groups : at <= k

Updates(b, word, arg) ==
    \/ word = "bitmap_mark" /\ Write(b, {arg[1]}, LAMBDA i : TRUE)
    \/ word = "bitmap_reset" /\ Write(b, {arg[1]}, LAMBDA i : FALSE)
    \/ word = "bitmap_flip" /\ Write(b, {arg[1]}, LAMBDA i : ~bits[b][i])
    \/ word = "bitmap_set" /\ Write(b, {arg[1]}, LAMBDA i : arg[2])
    \/ word = "bitmap_set_all" /\ Write(b, DOMAIN bits[b], LAMBDA i : arg[1])
    \/ word = "bitmap_set_multiple" /\ Write(b, Range_(arg[1], arg[2]), LAMBDA i : arg[3])
    \/ word = "bitmap_expand" /\ Expand(b, arg[1])
    \/ word = "delete bitmap" /\ bits' = Restrict(bits, DOMAIN bits \ {b})

Queries(b, word, arg, out) ==
    LET within == Range_(arg[1], arg[2])
        ones == {i \in within : bits[b][i]}
    IN  \/ word = "bitmap_test" /\ out = bits[b][arg[1]]
        \/ word = "bitmap_size" /\ out = Size(b)
        \/ word = "bitmap_any" /\ out = (ones # {})
        \/ word = "bitmap_none" /\ out = (ones = {})
        \/ word = "bitmap_all" /\ out = (ones = within)
        \/ word = "bitmap_count" /\ out = Cardinality(IF arg[3] THEN ones ELSE within \ ones)
        \/ word = "bitmap_contains" /\ out = (IF arg[3] THEN ones # {} ELSE ones # within)
        \/ word = "bitmap_scan" /\ FirstGroup(b, arg[1], arg[2], arg[3], out)
        \/ word = "dump bitmap" /\ out = bits[b]

\* For no bits, too, it is the first group, at START; bitmap.c says otherwise (333), and
\* Interpreter refutes it (ScanAndFlipOfNothingIsZero).
ScanAndFlip(b, arg, at) ==
    /\ FirstGroup(b, arg[1], arg[2], arg[3], at)
    /\ IF at = Error THEN UNCHANGED bits
       ELSE Write(b, Range_(at, arg[2]), LAMBDA i : ~arg[3])

BitmapWords == {"create bitmap", "delete bitmap", "dump bitmap", "bitmap_mark", "bitmap_reset", "bitmap_flip",
                "bitmap_set", "bitmap_set_all", "bitmap_set_multiple", "bitmap_expand", "bitmap_test",
                "bitmap_size", "bitmap_any", "bitmap_none", "bitmap_all", "bitmap_count",
                "bitmap_contains", "bitmap_scan", "bitmap_scan_and_flip"}

Next ==
    \/ cmd'.do = "create bitmap" /\ Create(cmd'.at, cmd'.arg[1])
    \/ \E b \in DOMAIN bits :
          /\ b = cmd'.at
          /\ \/ Updates(b, cmd'.do, cmd'.arg)
             \/ Queries(b, cmd'.do, cmd'.arg, cmd'.out) /\ UNCHANGED bits
             \/ cmd'.do = "bitmap_scan_and_flip" /\ ScanAndFlip(b, cmd'.arg, cmd'.out)
    \/ cmd'.do = "quit" /\ bits' = << >>
    \/ cmd'.do \notin BitmapWords \union {"quit"} /\ UNCHANGED bits

Spec == Init /\ [][Next]_bsVars
=============================================================================
