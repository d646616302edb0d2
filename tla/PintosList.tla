------------------------------ MODULE PintosList ------------------------------
(***************************************************************************)
(* The list commands of the interpreter of project 1 (do_list_command, and  *)
(* create and delete for lists, in sp_prj1/20241620/main.c) over the heap   *)
(* of ListHeap.  A command with an index out of range does nothing and is   *)
(* left out; so are commands that only print, except for what they return.  *)
(*                                                                          *)
(* Two commands are restricted to what list.c expects of its caller and the *)
(* interpreter does not check: list_splice gets a range of one list with    *)
(* BEFORE outside of it, list_unique gets two different lists.              *)
(***************************************************************************)
EXTENDS ListHeap

CONSTANT Values     \* the values an item may have

ASSUME PintosListAssumption == Values \subseteq Nat

VARIABLES
    heap,       \* the pointers
    val,        \* val[i]: the value of item i, or NoValue if no pointer leads to it
    used,       \* the lists that were created
    cmd         \* the command line that was read last

vars == <<heap, val, used, cmd>>

\* What the next command can depend on.
Objects == <<heap, val, used>>

NoValue == -1

TypeOK ==
    /\ heap \in Heaps
    /\ val \in [Items -> Values \union {NoValue}]
    /\ used \subseteq Lists

Init ==
    /\ heap = NoLinks
    /\ val = [i \in Items |-> NoValue]
    /\ used = {}
    /\ cmd = << >>

Content(l) == Walk(heap, list_begin(heap, l), tail(l))
Size(l) == Len(Content(l))

Allocated == {i \in Items : val[i] # NoValue}

\* malloc: any item will do, so the first.
Fresh == CHOOSE i \in Items \ Allocated : \A j \in Items \ Allocated : i <= j

\* A freed item has no links.
Forget(h, ns) ==
    [next |-> [n \in Nodes |-> IF n \in ns THEN NULL ELSE h.next[n]],
     prev |-> [n \in Nodes |-> IF n \in ns THEN NULL ELSE h.prev[n]]]

Free(ns) == val' = [i \in Items |-> IF elem(i) \in ns THEN NoValue ELSE val[i]]

\* Plausible bug: the search goes from the back and starts past the last slot.
Create_PastTheEnd(l) ==
    /\ l \notin used
    /\ used' = used \union {NumLists + 1}
    /\ UNCHANGED <<heap, val>>
    /\ cmd' = <<"create list", l>>

\* find_empty_list_slot takes the first free slot.
Create(l) ==
    /\ l \notin used /\ \A k \in Lists \ used : l <= k
    /\ used' = used \union {l}
    /\ heap' = list_init(heap, l)
    /\ UNCHANGED val
    /\ cmd' = <<"create list", l>>

\* destroy_list pops and frees item after item.
Delete(l) ==
    /\ used' = used \ {l}
    /\ LET ns == {Content(l)[k] : k \in 1..Size(l)}
       IN  /\ heap' = Forget(heap, ns \union {head(l), tail(l)})
           /\ Free(ns)
    /\ cmd' = <<"delete", l>>

\* The value is set before the item is inserted.
Make(v) == Allocated # Items /\ val' = [val EXCEPT ![Fresh] = v]

PushFront(l, v) ==
    /\ Make(v)
    /\ heap' = list_insert(heap, list_begin(heap, l), elem(Fresh))
    /\ UNCHANGED used
    /\ cmd' = <<"list_push_front", l, v>>

PushBack(l, v) ==
    /\ Make(v)
    /\ heap' = list_insert(heap, list_end(l), elem(Fresh))
    /\ UNCHANGED used
    /\ cmd' = <<"list_push_back", l, v>>

Insert(l, idx, v) ==
    /\ Make(v)
    /\ heap' = list_insert(heap, list_pos_at(heap, l, idx), elem(Fresh))
    /\ UNCHANGED used
    /\ cmd' = <<"list_insert", l, idx, v>>

InsertOrdered(l, v) ==
    /\ Make(v)
    /\ heap' = list_insert_ordered(heap, val', l, elem(Fresh))
    /\ UNCHANGED used
    /\ cmd' = <<"list_insert_ordered", l, v>>

RemoveNode(n) ==
    /\ heap' = Forget(list_remove(heap, n), {n})
    /\ Free({n})
    /\ UNCHANGED used

PopFront(l) ==
    /\ ~list_empty(heap, l)
    /\ RemoveNode(heap.next[head(l)])
    /\ cmd' = <<"list_pop_front", l>>

PopBack(l) ==
    /\ ~list_empty(heap, l)
    /\ RemoveNode(heap.prev[tail(l)])
    /\ cmd' = <<"list_pop_back", l>>

Remove(l, idx) ==
    /\ RemoveNode(list_elem_at(heap, l, idx))
    /\ cmd' = <<"list_remove", l, idx>>

Reverse(l) ==
    /\ heap' = list_reverse(heap, l)
    /\ cmd' = <<"list_reverse", l>>
    /\ UNCHANGED <<val, used>>

Sort(l) ==
    /\ heap' = list_sort(heap, val, l)
    /\ cmd' = <<"list_sort", l>>
    /\ UNCHANGED <<val, used>>

\* to is exclusive and not before from.  BEFORE may be the end of the range but not its first item,
\* which list_splice would link to itself.
Splice(l, idx, src, from, to) ==
    /\ from <= to
    /\ l = src => idx < from \/ to <= idx
    /\ heap' = list_splice(heap, list_pos_at(heap, l, idx),
                           list_elem_at(heap, src, from), list_pos_at(heap, src, to))
    /\ UNCHANGED <<val, used>>
    /\ cmd' = <<"list_splice", l, idx, src, from, to>>

\* Without a list of duplicates nothing points to the removed items any more.  The
\* code does not free them; the model, which knows only items that a pointer leads
\* to, forgets them.
Unique(l, dup) ==
    /\ dup # l
    /\ LET h == list_unique(heap, val, l, dup)
           lost == {elem(i) : i \in {j \in Allocated : h.next[h.prev[elem(j)]] # elem(j)}}
       IN  heap' = Forget(h, lost) /\ Free(lost)
    /\ UNCHANGED used
    /\ cmd' = <<"list_unique", l, dup>>

Swap(l, a, b) ==
    /\ heap' = list_swap(heap, list_elem_at(heap, l, a), list_elem_at(heap, l, b))
    /\ UNCHANGED <<val, used>>
    /\ cmd' = <<"list_swap", l, a, b>>

\* j = i + rand() % (size - i) in round i.
Shuffle(l) ==
    /\ \E choice \in [0..(Size(l) - 1) -> 0..(Size(l) - 1)] :
          /\ \A i \in DOMAIN choice : i <= choice[i]
          /\ heap' = list_shuffle(heap, l, choice)
    /\ UNCHANGED <<val, used>>
    /\ cmd' = <<"list_shuffle", l>>

Command(l) ==
    \/ Delete(l)
    \/ \E v \in Values : PushFront(l, v)
    \/ \E v \in Values : PushBack(l, v)
    \/ \E v \in Values, idx \in 0..Size(l) : Insert(l, idx, v)
    \/ \E v \in Values : InsertOrdered(l, v)
    \/ PopFront(l)
    \/ PopBack(l)
    \/ \E idx \in 0..(Size(l) - 1) : Remove(l, idx)
    \/ Reverse(l)
    \/ Sort(l)
    \/ \E src \in used, idx \in 0..Size(l) :
          \E from \in 0..(Size(src) - 1), to \in 0..Size(src) :
             Splice(l, idx, src, from, to)
    \/ \E dup \in {NoList} \union used : Unique(l, dup)
    \/ \E a, b \in 0..(Size(l) - 1) : Swap(l, a, b)
    \/ Shuffle(l)

Next ==
    \/ \E l \in Lists : Create(l)
    \/ \E l \in used : Command(l)

Spec == Init /\ [][Next]_vars

-----------------------------------------------------------------------------
(* Properties *)

\* The lists share no node, every allocated item is on one of them, and walking
\* back along prev retraces every walk along next.
Linked ==
    /\ \A l \in used :
          LET w == <<head(l)>> \o Content(l) \o <<tail(l)>>
          IN  /\ \A k \in 1..(Len(w) - 1) : heap.prev[w[k + 1]] = w[k]
              /\ heap.prev[head(l)] = NULL /\ heap.next[tail(l)] = NULL
    /\ \A i \in Allocated :
          Cardinality({l \in used : \E k \in 1..Size(l) : Content(l)[k] = elem(i)}) = 1

\* list_max and list_min return the first of several greatest or smallest items.
ExtremesAreFirst ==
    \A l \in used :
       LET v == [k \in 1..Size(l) |-> val[Content(l)[k][2]]]
       IN  ~list_empty(heap, l) =>
           \E a, b \in 1..Size(l) :
              /\ list_max(heap, val, l) = Content(l)[a]
              /\ \A k \in 1..Size(l) : v[k] <= v[a] /\ (v[k] = v[a] => a <= k)
              /\ list_min(heap, val, l) = Content(l)[b]
              /\ \A k \in 1..Size(l) : v[b] <= v[k] /\ (v[k] = v[b] => b <= k)

\* What the pointers say that the lists hold.
Seqs == [l \in used |-> [k \in 1..Size(l) |-> Content(l)[k][2]]]

LS == INSTANCE ListSpec WITH seq <- Seqs

\* Every command does to the pointers what ListSpec says it does to a sequence:
\* the merge sort sorts and is stable, a splice moves its range and nothing
\* else, the order of a list depends on no item that has left it.
ImplementsListSpec == LS!Spec
=============================================================================
