------------------------------- MODULE ListHeap -------------------------------
(***************************************************************************)
(* The doubly linked lists of project 1 (sp_prj1/20241620/list.c): nodes    *)
(* with a next and a prev pointer, and the operations of the library as     *)
(* operators from heaps to heaps.  Every list has a head and a tail node,   *)
(* whose outer pointers are NULL, around the items it holds.                *)
(*                                                                          *)
(* less is the comparison of the interpreter (list_item_less in main.c):    *)
(* val is the value of every item.  A loop is While over a function from    *)
(* the variables that it changes to what a round leaves in them.            *)
(***************************************************************************)
EXTENDS Integers, Sequences, FiniteSets

CONSTANTS
    NumLists,   \* how many lists there may be
    MaxItems    \* bound: how many items exist at a time

ASSUME ListHeapAssumption == NumLists \in Nat \ {0} /\ MaxItems \in Nat

Lists == 1..NumLists
Items == 1..MaxItems

elem(i) == <<"item", i>>        \* the struct list_elem in item i
head(l) == <<"head", l>>
tail(l) == <<"tail", l>>
NULL == <<"null", 0>>

Nodes == {elem(i) : i \in Items} \union {head(l) : l \in Lists} \union {tail(l) : l \in Lists}

Heaps == [next : [Nodes -> Nodes \union {NULL}], prev : [Nodes -> Nodes \union {NULL}]]

NoLinks == [next |-> [n \in Nodes |-> NULL], prev |-> [n \in Nodes |-> NULL]]

list_init(h, l) ==
    [next |-> [h.next EXCEPT ![head(l)] = tail(l), ![tail(l)] = NULL],
     prev |-> [h.prev EXCEPT ![head(l)] = NULL, ![tail(l)] = head(l)]]

list_begin(h, l) == h.next[head(l)]
list_end(l) == tail(l)
list_empty(h, l) == list_begin(h, l) = list_end(l)

\* Repeats round, which leaves x alone once the loop has ended.  Every loop here takes an
\* item of a list in each of its rounds, and so has no more rounds than there are items.
Rounds == MaxItems

While(round, x) ==
    LET loop[k \in 0..Rounds] == IF k = 0 THEN x ELSE round[loop[k - 1]]
    IN  loop[Rounds]

\* The nodes from a on, up to but without b, in the order of a walk.
Walk(h, a, b) ==
    While([y \in [at : Nodes, seen : Seq(Nodes)] |->
             IF y.at = b THEN y ELSE [at |-> h.next[y.at], seen |-> Append(y.seen, y.at)]],
          [at |-> a, seen |-> <<>>]).seen

\* Plausible bug: the old predecessor still points to BEFORE.
list_insert_OneWay(h, before, e) ==
    [next |-> [h.next EXCEPT ![e] = before],
     prev |-> [h.prev EXCEPT ![e] = h.prev[before], ![before] = e]]

list_insert(h, before, e) ==
    [next |-> [h.next EXCEPT ![e] = before, ![h.prev[before]] = e],
     prev |-> [h.prev EXCEPT ![e] = h.prev[before], ![before] = e]]

list_remove(h, e) ==
    [next |-> [h.next EXCEPT ![h.prev[e]] = h.next[e]],
     prev |-> [h.prev EXCEPT ![h.next[e]] = h.prev[e]]]

\* Moves the nodes from first up to but without last in front of before.
list_splice(h, before, first, last) ==
    LET z == h.prev[last]
        cut == [next |-> [h.next EXCEPT ![h.prev[first]] = h.next[z]],
                prev |-> [h.prev EXCEPT ![h.next[z]] = h.prev[first]]]
        p == cut.prev[before]
    IN  IF first = last THEN h
        ELSE [next |-> [cut.next EXCEPT ![z] = before, ![p] = first],
              prev |-> [cut.prev EXCEPT ![first] = p, ![before] = z]]

\* The loop exchanges the pointers of every item; the ends follow.
list_reverse(h, l) ==
    LET inside == {n \in Nodes : \E k \in DOMAIN Walk(h, list_begin(h, l), tail(l)) :
                                    Walk(h, list_begin(h, l), tail(l))[k] = n}
        f == h.next[head(l)]
        b == h.prev[tail(l)]
        turned == [next |-> [n \in Nodes |-> IF n \in inside THEN h.prev[n] ELSE h.next[n]],
                   prev |-> [n \in Nodes |-> IF n \in inside THEN h.next[n] ELSE h.prev[n]]]
    IN  IF list_empty(h, l) THEN h
        ELSE [next |-> [turned.next EXCEPT ![head(l)] = b, ![f] = tail(l)],
              prev |-> [turned.prev EXCEPT ![tail(l)] = f, ![b] = head(l)]]

\* The three writes of each branch: neighbours first, then the two themselves.
SwapNeighbours(h, a, b) ==
    LET pa == h.prev[a]
        nb == h.next[b]
    IN  [next |-> [h.next EXCEPT ![pa] = b, ![b] = a, ![a] = nb],
         prev |-> [h.prev EXCEPT ![b] = pa, ![a] = b, ![nb] = a]]

SwapApart(h, a, b) ==
    [next |-> [h.next EXCEPT ![h.prev[a]] = b, ![h.prev[b]] = a,
                             ![a] = h.next[b], ![b] = h.next[a]],
     prev |-> [h.prev EXCEPT ![h.next[a]] = b, ![h.next[b]] = a,
                             ![a] = h.prev[b], ![b] = h.prev[a]]]

\* Plausible bug: neighbours are not a case of their own.
list_swap_NoNeighbours(h, a, b) == IF a = b THEN h ELSE SwapApart(h, a, b)

list_swap(h, a, b) ==
    IF a = b THEN h
    ELSE IF h.next[a] = b THEN SwapNeighbours(h, a, b)
    ELSE IF h.next[b] = a THEN SwapNeighbours(h, b, a)
    ELSE SwapApart(h, a, b)

-----------------------------------------------------------------------------
(* The operations that compare items *)

less(val, a, b) == val[a[2]] < val[b[2]]

\* The first node after a that ends a nondecreasing run, or b.
find_end_of_run(h, val, a, b) ==
    While([n \in Nodes |-> IF n # b /\ ~less(val, n, h.prev[n]) THEN h.next[n] ELSE n],
          h.next[a])

\* Where inplace_merge is: the second run is from a1b0 on, what is before a0 is merged.
Merging == [heap : Heaps, a0 : Nodes, a1b0 : Nodes]

\* Plausible bug: of two equal items, the one of the second run comes first.
inplace_merge_Unstable(h, val, a, b, b1) ==
    While([y \in Merging |->
             IF y.a0 = y.a1b0 \/ y.a1b0 = b1 THEN y
             ELSE IF less(val, y.a0, y.a1b0) THEN [y EXCEPT !.a0 = y.heap.next[@]]
             ELSE LET m == y.heap.next[y.a1b0]
                  IN  [heap |-> list_splice(y.heap, y.a0, y.heap.prev[m], m),
                       a0 |-> y.a0, a1b0 |-> m]],
          [heap |-> h, a0 |-> a, a1b0 |-> b]).heap

inplace_merge(h, val, a, b, b1) ==
    While([y \in Merging |->
             IF y.a0 = y.a1b0 \/ y.a1b0 = b1 THEN y
             ELSE IF ~less(val, y.a1b0, y.a0) THEN [y EXCEPT !.a0 = y.heap.next[@]]
             ELSE LET m == y.heap.next[y.a1b0]
                  IN  [heap |-> list_splice(y.heap, y.a0, y.heap.prev[m], m),
                       a0 |-> y.a0, a1b0 |-> m]],
          [heap |-> h, a0 |-> a, a1b0 |-> b]).heap

\* One pass merges pairs of adjacent runs; runs counts what it puts out.  The break leaves
\* nothing behind.
Passing == [heap : Heaps, a0 : Nodes, runs : Nat]

MergePass(h, val, l) ==
    While([y \in Passing |->
             LET a1b0 == find_end_of_run(y.heap, val, y.a0, tail(l))
                 b1 == find_end_of_run(y.heap, val, a1b0, tail(l))
             IN  IF y.a0 = tail(l) THEN y
                 ELSE IF a1b0 = tail(l) THEN [heap |-> y.heap, a0 |-> a1b0, runs |-> y.runs + 1]
                 ELSE [heap |-> inplace_merge(y.heap, val, y.a0, a1b0, b1),
                       a0 |-> b1, runs |-> y.runs + 1]],
          [heap |-> h, a0 |-> list_begin(h, l), runs |-> 0])

list_sort(h, val, l) ==
    While([y \in Passing |-> IF y.runs <= 1 THEN y ELSE MergePass(y.heap, val, l)],
          MergePass(h, val, l)).heap

\* Plausible bug: in front of an equal item instead of after it.
list_insert_ordered_First(h, val, l, e) ==
    list_insert(h, While([n \in Nodes |-> IF n # tail(l) /\ less(val, n, e) THEN h.next[n] ELSE n],
                         list_begin(h, l)), e)

list_insert_ordered(h, val, l, e) ==
    list_insert(h, While([n \in Nodes |-> IF n # tail(l) /\ ~less(val, e, n) THEN h.next[n] ELSE n],
                         list_begin(h, l)), e)

NoList == 0     \* the NULL of a missing operand

\* Removes all but the first of adjacent equal items, to the end of dup if there
\* is such a list.
list_unique(h, val, l, dup) ==
    IF list_empty(h, l) THEN h
    ELSE While([y \in [heap : Heaps, at : Nodes] |->
                  LET m == y.heap.next[y.at]
                      cut == list_remove(y.heap, m)
                  IN  IF m = tail(l) THEN y
                      ELSE IF less(val, y.at, m) \/ less(val, m, y.at) THEN [y EXCEPT !.at = m]
                      ELSE IF dup = NoList THEN [y EXCEPT !.heap = cut]
                      ELSE [y EXCEPT !.heap = list_insert(cut, tail(dup), m)]],
               [heap |-> h, at |-> list_begin(h, l)]).heap

\* The item that the loop of list_max or list_min ends with.
Extreme(h, l, Better(_, _)) ==
    IF list_empty(h, l) THEN tail(l)
    ELSE While([y \in [at : Nodes, best : Nodes] |->
                  IF y.at = tail(l) THEN y
                  ELSE [at |-> h.next[y.at],
                        best |-> IF Better(y.best, y.at) THEN y.at ELSE y.best]],
               [at |-> h.next[list_begin(h, l)], best |-> list_begin(h, l)]).best

list_max(h, val, l) == Extreme(h, l, LAMBDA max, e : less(val, max, e))

\* Plausible bug: the last of several minima.
list_min_Last(h, val, l) == Extreme(h, l, LAMBDA min, e : ~less(val, min, e))

list_min(h, val, l) == Extreme(h, l, LAMBDA min, e : less(val, e, min))

\* The item at an index, and the position in front of it or at the end.
list_elem_at(h, l, idx) == Walk(h, list_begin(h, l), tail(l))[idx + 1]
list_size(h, l) == Len(Walk(h, list_begin(h, l), tail(l)))
list_pos_at(h, l, idx) ==
    IF idx = list_size(h, l) THEN list_end(l) ELSE list_elem_at(h, l, idx)

\* choice[i] is what rand() makes of j in round i.
list_shuffle(h, l, choice) ==
    IF list_size(h, l) <= 1 THEN h
    ELSE While([y \in [heap : Heaps, i : Nat] |->
                  IF y.i >= list_size(h, l) THEN y
                  ELSE [heap |-> list_swap(y.heap, list_elem_at(y.heap, l, y.i),
                                           list_elem_at(y.heap, l, choice[y.i])),
                        i |-> y.i + 1]],
               [heap |-> h, i |-> 0]).heap
=============================================================================
