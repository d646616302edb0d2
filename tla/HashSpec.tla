------------------------------- MODULE HashSpec -------------------------------
(***************************************************************************)
(* What the commands on hash tables promise, without buckets: a table is a   *)
(* set of items, each with a value; no two have the same, and each is found  *)
(* by its value.  hash_apply may give items other values behind the table's  *)
(* back: then the table may be stale, and a search for a value may miss the  *)
(* items that have it.  What is in the table is known even then.             *)
(***************************************************************************)
EXTENDS Integers, FiniteSets, Functions, Sequences

CONSTANTS Tables, Items, square, triple

VARIABLES
    elems,      \* elems[t]: item -> value, for every table t there is
    stale,      \* the tables in which a search may miss
    cmd         \* the command that was done last

hsVars == <<elems, stale, cmd>>

Init == elems = << >> /\ stale = {} /\ cmd.do = "start"

InUse == UNION {DOMAIN elems[t] : t \in DOMAIN elems}
Having(t, v) == {i \in DOMAIN elems[t] : elems[t][i] = v}

Becomes(t, e) == elems' = [elems EXCEPT ![t] = e]
With(e, i, v) == [k \in DOMAIN e \union {i} |-> IF k = i THEN v ELSE e[k]]

Create(t) ==
    /\ t \in Tables \ DOMAIN elems
    /\ elems' = [k \in DOMAIN elems \union {t} |-> IF k = t THEN << >> ELSE elems[k]]
    /\ t \notin stale'

Delete(t) == elems' = Restrict(elems, DOMAIN elems \ {t})

\* A search finds one of the items with the value, if there is one; not so in a stale table.
Misses(t, v) == t \in stale \/ Having(t, v) = {}

Insert(t, v) ==
    \/ Having(t, v) # {} /\ UNCHANGED elems
    \/ Misses(t, v) /\ \E i \in Items \ InUse : Becomes(t, With(elems[t], i, v))

Replace(t, v) ==
    \E i \in Items \ InUse :
       \/ \E old \in Having(t, v) : Becomes(t, With(Restrict(elems[t], DOMAIN elems[t] \ {old}), i, v))
       \/ Misses(t, v) /\ Becomes(t, With(elems[t], i, v))

Remove(t, v) ==
    \/ \E old \in Having(t, v) : Becomes(t, Restrict(elems[t], DOMAIN elems[t] \ {old}))
    \/ Misses(t, v) /\ UNCHANGED elems

Find(t, v, printed) ==
    \/ Having(t, v) # {} /\ printed = {v}
    \/ Misses(t, v) /\ printed = {}

\* Every value of the table, once for each item that has it.
Lists(t, printed) ==
    /\ Len(printed) = Cardinality(DOMAIN elems[t])
    /\ \A v \in Range(elems[t]) :
          Cardinality(Having(t, v)) = Cardinality({k \in DOMAIN printed : printed[k] = v})

\* Only this may make a table stale.
Apply(t, action) ==
    /\ Becomes(t, [i \in DOMAIN elems[t] |-> action[elems[t][i]]])
    /\ stale' \subseteq stale \union {t}

\* Whatever else is done to a table, it does not become stale.
Orderly(t) ==
    LET v == cmd'.arg[1]
    IN  \/ cmd'.do = "hash_insert" /\ Insert(t, v)
        \/ cmd'.do = "hash_replace" /\ Replace(t, v)
        \/ cmd'.do = "hash_delete" /\ Remove(t, v)
        \/ cmd'.do = "hash_find" /\ Find(t, v, cmd'.out) /\ UNCHANGED elems
        \/ cmd'.do = "hash_clear" /\ Becomes(t, << >>)
        \/ cmd'.do = "hash_size" /\ cmd'.out = Cardinality(DOMAIN elems[t]) /\ UNCHANGED elems
        \/ cmd'.do = "hash_empty" /\ cmd'.out = (DOMAIN elems[t] = {}) /\ UNCHANGED elems
        \/ cmd'.do = "dump hashtable" /\ Lists(t, cmd'.out) /\ UNCHANGED elems
        \/ cmd'.do = "delete hashtable" /\ Delete(t)

HashWords == {"create hashtable", "delete hashtable", "dump hashtable", "hash_insert", "hash_replace",
              "hash_delete", "hash_find", "hash_clear", "hash_size", "hash_empty", "hash_apply"}

Next ==
    \/ cmd'.do = "create hashtable" /\ Create(cmd'.at) /\ stale' \subseteq stale
    \/ \E t \in DOMAIN elems :
          /\ t = cmd'.at
          /\ \/ Orderly(t) /\ stale' \subseteq stale
             \/ /\ cmd'.do = "hash_apply"
                /\ \/ cmd'.arg = <<"square">> /\ Apply(t, square)
                   \/ cmd'.arg = <<"triple">> /\ Apply(t, triple)
    \/ cmd'.do = "quit" /\ elems' = << >> /\ stale' = {}
    \/ cmd'.do \notin HashWords \union {"quit"} /\ UNCHANGED <<elems, stale>>

Spec == Init /\ [][Next]_hsVars
=============================================================================
