----------------------------- MODULE PipesProofs -----------------------------
(***************************************************************************)
(* Lemmas about descriptor tables and pipes, for the proofs about the       *)
(* phase-2 shell.                                                           *)
(***************************************************************************)
EXTENDS Pipes, TLAPS

PipeEnds == PipeIds \union {Terminal}

\* A process that has no pipe open, as after exit.
LEMMA NoPipesType ==
    /\ NoPipes \in FdTable
    /\ NoPipes.in = Terminal /\ NoPipes.out = Terminal
    /\ NoPipes.rds = {} /\ NoPipes.wrs = {}
BY DEF NoPipes, FdTable

\* The fields of a table of descriptors.
LEMMA FdFields ==
    ASSUME NEW r \in FdTable
    PROVE  /\ r.in \in PipeEnds /\ r.out \in PipeEnds
           /\ r.rds \subseteq PipeIds /\ r.wrs \subseteq PipeIds
BY DEF FdTable, PipeEnds

\* What dup2, pipe and close do to a table.
SetEnds(r, R, W) == [r EXCEPT !.rds = R, !.wrs = W]
SetOut(r, o, R, W) == [r EXCEPT !.out = o, !.rds = R, !.wrs = W]
SetAll(r, i, o, R, W) == [r EXCEPT !.in = i, !.out = o, !.rds = R, !.wrs = W]

\* Whatever ends of pipes a process opens and closes, its table stays one.
LEMMA FdUpdateType ==
    ASSUME NEW r \in FdTable, NEW R, R \subseteq PipeIds, NEW W, W \subseteq PipeIds
    PROVE  /\ SetEnds(r, R, W) \in FdTable
           /\ \A i, o \in PipeEnds : SetAll(r, i, o, R, W) \in FdTable
BY DEF FdTable, PipeEnds, SetEnds, SetAll

\* And after one of them is changed.
LEMMA FdUpdateFields ==
    ASSUME NEW r \in FdTable, NEW R, NEW W, NEW i, NEW o
    PROVE  /\ SetEnds(r, R, W).in = r.in /\ SetEnds(r, R, W).out = r.out
           /\ SetEnds(r, R, W).rds = R /\ SetEnds(r, R, W).wrs = W
           /\ SetAll(r, i, o, R, W).in = i /\ SetAll(r, i, o, R, W).out = o
           /\ SetAll(r, i, o, R, W).rds = R /\ SetAll(r, i, o, R, W).wrs = W
BY DEF FdTable, SetEnds, SetAll

\* Closing everything leaves standard input and output as they are.
LEMMA CloseFields ==
    ASSUME NEW r \in FdTable
    PROVE  LET f == SetEnds(r, {}, {})
           IN  /\ f \in FdTable /\ f.in = r.in /\ f.out = r.out
               /\ f.rds = {} /\ f.wrs = {}
BY DEF FdTable, SetEnds

\* A process that redirects its output keeps its input.
LEMMA OutputRedirected ==
    ASSUME NEW r \in FdTable, NEW k, NEW R, NEW W
    PROVE  SetOut(r, k, R, W) = SetAll(r, r.in, k, R, W)
BY DEF FdTable, SetOut, SetAll

\* A new pipe belongs to the process that made it.
LEMMA PipeMade ==
    ASSUME NEW procs, PipesTypeOK(procs), NEW p \in procs, NEW k \in PipeIds, pipe(p, k)
    PROVE  /\ PipesTypeOK(procs)'
           /\ \A q \in procs \ {p} : fd'[q] = fd[q]
           /\ fd'[p].in = fd[p].in /\ fd'[p].out = fd[p].out
           /\ fd'[p].rds = fd[p].rds \union {k}
           /\ fd'[p].wrs = fd[p].wrs \union {k}
<1>1. PICK r, R, W : r = fd[p] /\ R = fd[p].rds \union {k} /\ W = fd[p].wrs \union {k}
  OBVIOUS
<1>2. fd \in [procs -> FdTable] /\ items \in [PipeIds -> 0..PipeSize]
  BY DEF PipesTypeOK
<1>3. r \in FdTable
  BY <1>1, <1>2
<1>4. R \subseteq PipeIds /\ W \subseteq PipeIds
  BY <1>1, <1>3, FdFields
<1>5. PICK t : t = SetEnds(r, R, W)
  OBVIOUS
<1>6. fd' = [fd EXCEPT ![p] = t] /\ items' = [items EXCEPT ![k] = 0]
  BY <1>1, <1>5 DEF pipe, SetEnds
<1>7. t \in FdTable
  BY <1>3, <1>4, <1>5, FdUpdateType
<1>8. t.in = r.in /\ t.out = r.out /\ t.rds = R /\ t.wrs = W
  BY <1>3, <1>5, FdUpdateFields
<1>9. fd' \in [procs -> FdTable] /\ fd'[p] = t /\ \A q \in procs \ {p} : fd'[q] = fd[q]
  BY <1>2, <1>6, <1>7
<1>10. items' \in [PipeIds -> 0..PipeSize]
  <2>1. 0 \in 0..PipeSize
    BY PipesAssumption
  <2> QED
    BY <1>2, <1>6, <2>1
<1> QED
  BY <1>1, <1>8, <1>9, <1>10 DEF PipesTypeOK

\* What flows through a pipe stays within its size and moves no descriptor.
LEMMA FlowType ==
    ASSUME NEW procs, PipesTypeOK(procs), NEW p \in procs,
           ReadItem(p) \/ WriteItem(p)
    PROVE  items' \in [PipeIds -> 0..PipeSize] /\ fd' = fd
<1> USE PipesAssumption
<1>1. fd[p].in \in PipeEnds /\ fd[p].out \in PipeEnds /\ items \in [PipeIds -> 0..PipeSize]
  BY FdFields DEF PipesTypeOK
<1>2. CASE ReadItem(p)
  <2>1. PICK k : k = fd[p].in
    OBVIOUS
  <2>2. /\ k \in PipeIds /\ items[k] > 0
        /\ items' = [items EXCEPT ![k] = @ - 1] /\ fd' = fd
    BY <1>1, <1>2, <2>1 DEF ReadItem, PipeEnds
  <2>3. items[k] - 1 \in 0..PipeSize
    BY <1>1, <2>2
  <2> QED
    BY <1>1, <2>2, <2>3
<1>3. CASE WriteItem(p)
  <2>1. PICK k : k = fd[p].out
    OBVIOUS
  <2>2. /\ k \in PipeIds /\ items[k] < PipeSize
        /\ items' = [items EXCEPT ![k] = @ + 1] /\ fd' = fd
    BY <1>1, <1>3, <2>1 DEF WriteItem, PipeEnds
  <2>3. items[k] + 1 \in 0..PipeSize
    BY <1>1, <2>2
  <2> QED
    BY <1>1, <2>2, <2>3
<1> QED
  BY <1>2, <1>3
=============================================================================
