-------------------------------- MODULE Pipes --------------------------------
(***************************************************************************)
(* Pipes, descriptor tables and the programs at the two ends of a pipe: an  *)
(* external component, the operating system and the commands the user runs, *)
(* modelled from how the shell of phase 2 uses them (pipe, fork, dup2,      *)
(* close, exit).  The module that extends this one names the processes and  *)
(* says which of them run a program.                                        *)
(*                                                                          *)
(* Only descriptors of pipes are kept.  What flows through a pipe is a      *)
(* number of items, at most PipeSize.                                       *)
(***************************************************************************)
EXTENDS Integers, Sequences, FiniteSets

CONSTANTS
    MaxPipes,   \* bound: how many pipes there are
    PipeSize    \* bound: items a pipe holds before a writer blocks

ASSUME PipesAssumption == MaxPipes \in Nat /\ PipeSize \in Nat \ {0}

VARIABLES
    fd,         \* fd[p]: the ends of pipes that process p has open
    items       \* items[k]: what is in pipe k

pipeVars == <<fd, items>>

PipeIds == 1..MaxPipes
Terminal == 0

\* Standard input and output, and the ends open on other descriptors.
FdTable == [in : PipeIds \union {Terminal}, out : PipeIds \union {Terminal},
            rds : SUBSET PipeIds, wrs : SUBSET PipeIds]

NoPipes == [in |-> Terminal, out |-> Terminal, rds |-> {}, wrs |-> {}]

PipesTypeOK(procs) ==
    /\ fd \in [procs -> FdTable]
    /\ items \in [PipeIds -> 0..PipeSize]

PipesInit(procs) ==
    /\ fd = [p \in procs |-> NoPipes]
    /\ items = [k \in PipeIds |-> 0]

Readers(k) == {p \in DOMAIN fd : fd[p].in = k \/ k \in fd[p].rds}
Writers(k) == {p \in DOMAIN fd : fd[p].out = k \/ k \in fd[p].wrs}

pipe(p, k) ==
    /\ fd' = [fd EXCEPT ![p].rds = @ \union {k}, ![p].wrs = @ \union {k}]
    /\ items' = [items EXCEPT ![k] = 0]

\* fork: the child has the parent's descriptors.
Inherit(p, child) == fd' = [fd EXCEPT ![child] = fd[p]] /\ UNCHANGED items

\* exit closes everything.
CloseAll(p) == fd' = [fd EXCEPT ![p] = NoPipes] /\ UNCHANGED items

(* What a program may do: read, and write if someone may read *)

ReadItem(p) ==
    LET k == fd[p].in
    IN  /\ k # Terminal
        /\ items[k] > 0
        /\ items' = [items EXCEPT ![k] = @ - 1]
        /\ UNCHANGED fd

WriteItem(p) ==
    LET k == fd[p].out
    IN  /\ k # Terminal
        /\ Readers(k) # {}
        /\ items[k] < PipeSize
        /\ items' = [items EXCEPT ![k] = @ + 1]
        /\ UNCHANGED fd

EndOfInput(p) ==
    LET k == fd[p].in IN k # Terminal /\ items[k] = 0 /\ Writers(k) = {}

BrokenPipe(p) ==
    LET k == fd[p].out IN k # Terminal /\ Readers(k) = {}
=============================================================================
