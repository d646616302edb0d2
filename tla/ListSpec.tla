------------------------------- MODULE ListSpec -------------------------------
(***************************************************************************)
(* What the list commands of the interpreter promise, without pointers: a   *)
(* list is a sequence of items, and an item has a value.  The indexes in a  *)
(* command count from 0, those of sequences from 1.                         *)
(***************************************************************************)
EXTENDS Integers, SequencesExt

CONSTANTS Lists, Items, Values

NoValue == -1
NoList == 0

VARIABLES
    seq,        \* seq[l]: the items of list l, for every list there is
    val,        \* val[i]: the value of item i, or NoValue if there is no such item
    cmd         \* the command that was done last

lsVars == <<seq, val, cmd>>

Init == seq = << >> /\ val = [i \in Items |-> NoValue] /\ cmd = << >>

Created == DOMAIN seq

Create(l) ==
    /\ l \notin Created
    /\ seq' = [k \in Created \union {l} |-> IF k = l THEN <<>> ELSE seq[k]]
    /\ UNCHANGED val

Gone(s) == val' = [i \in Items |-> IF i \in ToSet(s) THEN NoValue ELSE val[i]]

Delete(l) ==
    /\ seq' = [k \in Created \ {l} |-> seq[k]]
    /\ Gone(seq[l])

Add(l, k, v) ==
    \E i \in Items :
       /\ val[i] = NoValue
       /\ val' = [val EXCEPT ![i] = v]
       /\ seq' = [seq EXCEPT ![l] = InsertAt(@, k, i)]

\* After every item that is not greater.
InsertOrdered(l, v) ==
    \E i \in Items :
       /\ val[i] = NoValue
       /\ val' = [val EXCEPT ![i] = v]
       /\ \E k \in 1..(Len(seq[l]) + 1) :
             /\ \A m \in 1..(k - 1) : val[seq[l][m]] <= v
             /\ k <= Len(seq[l]) => v < val[seq[l][k]]
             /\ seq' = [seq EXCEPT ![l] = InsertAt(@, k, i)]

RemoveOne(l, k) ==
    /\ seq' = [seq EXCEPT ![l] = RemoveAt(@, k)]
    /\ Gone(<<seq[l][k]>>)

ReverseList(l) == seq' = [seq EXCEPT ![l] = Reverse(@)] /\ UNCHANGED val

\* A stable sort: the place of an item is the number of items that are smaller,
\* or equal and before it.
Place(s, k) ==
    1 + Cardinality({m \in DOMAIN s : \/ val[s[m]] < val[s[k]]
                                      \/ val[s[m]] = val[s[k]] /\ m < k})

Sorted(s) == [p \in DOMAIN s |-> s[CHOOSE k \in DOMAIN s : Place(s, k) = p]]

Sort(l) == seq' = [seq EXCEPT ![l] = Sorted(@)] /\ UNCHANGED val

\* The items a to b of list k move in front of position p of list l.
Splice(l, p, k, a, b) ==
    LET run == SubSeq(seq[k], a, b)
    IN  /\ l = k => p \notin a..b
        /\ seq' =
             IF l = k
             THEN [seq EXCEPT ![l] =
                     IF p <= a
                     THEN SubSeq(@, 1, p - 1) \o run \o SubSeq(@, p, a - 1) \o SubSeq(@, b + 1, Len(@))
                     ELSE SubSeq(@, 1, a - 1) \o SubSeq(@, b + 1, p - 1) \o run \o SubSeq(@, p, Len(@))]
             ELSE [seq EXCEPT ![l] = SubSeq(@, 1, p - 1) \o run \o SubSeq(@, p, Len(@)),
                              ![k] = SubSeq(@, 1, a - 1) \o SubSeq(@, b + 1, Len(@))]
        /\ UNCHANGED val

\* Items equal to the one before them go, to the end of dup if there is one.
Repeats(s) == {s[k] : k \in {m \in 2..Len(s) : val[s[m]] = val[s[m - 1]]}}

\* Those of s that are in X, in their order.
Among(s, X) ==
    LET among[k \in 0..Len(s)] ==
            IF k = 0 THEN <<>>
            ELSE IF s[k] \in X THEN Append(among[k - 1], s[k]) ELSE among[k - 1]
    IN  among[Len(s)]

Unique(l, dup) ==
    LET out == Among(seq[l], Repeats(seq[l]))
        kept == Among(seq[l], ToSet(seq[l]) \ Repeats(seq[l]))
    IN  /\ dup # l
        /\ seq' = IF dup = NoList THEN [seq EXCEPT ![l] = kept]
                  ELSE [seq EXCEPT ![l] = kept, ![dup] = @ \o out]
        /\ IF dup = NoList THEN Gone(out) ELSE UNCHANGED val

SwapTwo(l, a, b) ==
    /\ seq' = [seq EXCEPT ![l][a] = seq[l][b], ![l][b] = seq[l][a]]
    /\ UNCHANGED val

Shuffle(l) ==
    /\ \E p \in [DOMAIN seq[l] -> DOMAIN seq[l]] :
          /\ \A a, b \in DOMAIN p : p[a] = p[b] => a = b
          /\ seq' = [seq EXCEPT ![l] = [k \in DOMAIN @ |-> @[p[k]]]]
    /\ UNCHANGED val

Adding(l) ==
    \E v \in Values :
       \/ Add(l, 1, v) /\ cmd' = <<"list_push_front", l, v>>
       \/ Add(l, Len(seq[l]) + 1, v) /\ cmd' = <<"list_push_back", l, v>>
       \/ \E idx \in 0..Len(seq[l]) : Add(l, idx + 1, v) /\ cmd' = <<"list_insert", l, idx, v>>
       \/ InsertOrdered(l, v) /\ cmd' = <<"list_insert_ordered", l, v>>

Removing(l) ==
    /\ seq[l] # <<>>
    /\ \/ RemoveOne(l, 1) /\ cmd' = <<"list_pop_front", l>>
       \/ RemoveOne(l, Len(seq[l])) /\ cmd' = <<"list_pop_back", l>>
       \/ \E idx \in 0..(Len(seq[l]) - 1) : RemoveOne(l, idx + 1) /\ cmd' = <<"list_remove", l, idx>>

Ordering(l) ==
    \/ ReverseList(l) /\ cmd' = <<"list_reverse", l>>
    \/ Sort(l) /\ cmd' = <<"list_sort", l>>
    \/ Shuffle(l) /\ cmd' = <<"list_shuffle", l>>
    \/ \E a, b \in 0..(Len(seq[l]) - 1) :
          SwapTwo(l, a + 1, b + 1) /\ cmd' = <<"list_swap", l, a, b>>

\* The end of a range is exclusive in the command; an empty range moves nothing.
Moving(l) ==
    \/ \E dup \in {NoList} \union Created : Unique(l, dup) /\ cmd' = <<"list_unique", l, dup>>
    \/ \E k \in Created, idx \in 0..Len(seq[l]) :
          \E from \in 0..(Len(seq[k]) - 1), to \in 0..Len(seq[k]) :
             /\ Splice(l, idx + 1, k, from + 1, to)
             /\ cmd' = <<"list_splice", l, idx, k, from, to>>

Next ==
    \/ \E l \in Lists : Create(l) /\ cmd' = <<"create list", l>>
    \/ \E l \in Created : \/ Delete(l) /\ cmd' = <<"delete", l>>
                          \/ Adding(l) \/ Removing(l) \/ Ordering(l) \/ Moving(l)

Spec == Init /\ [][Next]_lsVars
=============================================================================
