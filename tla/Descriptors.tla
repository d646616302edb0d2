----------------------------- MODULE Descriptors -----------------------------
(***************************************************************************)
(* Descriptor tables with their numbers, and pipes: the calls pipe, dup2,   *)
(* close and fork as launch_pipeline uses them, an external component.  The *)
(* numbers matter because a close or a dup2 of a number that was closed     *)
(* before names whatever was opened under it since.                         *)
(*                                                                          *)
(* What flows through a pipe is a number of items, at most PipeSize.        *)
(***************************************************************************)
EXTENDS Integers

CONSTANTS
    MaxPipes,   \* bound: how many pipes are ever made
    MaxFds,     \* descriptors a process may have
    PipeSize    \* bound: items a pipe holds before a writer blocks

ASSUME DescriptorsAssumption ==
    MaxPipes \in Nat /\ MaxFds \in Nat \ (0..2) /\ PipeSize \in Nat \ {0}

VARIABLES
    fd,         \* fd[p][n]: what descriptor n of process p is
    items       \* items[k]: what is in pipe k

pipeVars == <<fd, items>>

STDIN == 0
STDOUT == 1
Fds == 0..(MaxFds - 1)
PipeIds == 1..MaxPipes

\* A descriptor is an end of a pipe or none: one of 0, 1 and 2 that is none is the
\* terminal, any other is closed.
ReadEnd(k) == k
WriteEnd(k) == -k
None == 0
Ends == (-MaxPipes)..MaxPipes
NoPipes == [n \in Fds |-> None]

DescriptorsTypeOK(procs) ==
    /\ fd \in [procs -> [Fds -> Ends]]
    /\ items \in [PipeIds -> 0..PipeSize]

DescriptorsInit(procs) ==
    /\ fd = [p \in procs |-> NoPipes]
    /\ items = [k \in PipeIds |-> 0]

Readers(k) == {p \in DOMAIN fd : \E n \in Fds : fd[p][n] = ReadEnd(k)}
Writers(k) == {p \in DOMAIN fd : \E n \in Fds : fd[p][n] = WriteEnd(k)}

Free(f) == {n \in Fds \ (0..2) : f[n] = None}

\* pipe gives the two lowest free numbers, the lower one to the reading end.
LowestTwo(f, r, w) ==
    /\ r \in Free(f) /\ w \in Free(f) /\ r < w
    /\ \A n \in Free(f) \ {r, w} : w < n

pipe(p, k, r, w) ==
    /\ LowestTwo(fd[p], r, w)
    /\ fd' = [fd EXCEPT ![p] = [@ EXCEPT ![r] = ReadEnd(k), ![w] = WriteEnd(k)]]
    /\ items' = [items EXCEPT ![k] = 0]

\* dup2 and close fail, and change nothing, on a number that is closed.
dup2(f, n, m) == IF n \in Fds /\ f[n] # None THEN [f EXCEPT ![m] = f[n]] ELSE f
close(f, closed) == [n \in Fds |-> IF n \in closed THEN None ELSE f[n]]

(* What a program may do: read, and write if someone may read *)

ReadItem(p) ==
    \E k \in PipeIds :
       /\ fd[p][STDIN] = ReadEnd(k)
       /\ items[k] > 0
       /\ items' = [items EXCEPT ![k] = @ - 1]
       /\ UNCHANGED fd

WriteItem(p) ==
    \E k \in PipeIds :
       /\ fd[p][STDOUT] = WriteEnd(k)
       /\ Readers(k) # {}
       /\ items[k] < PipeSize
       /\ items' = [items EXCEPT ![k] = @ + 1]
       /\ UNCHANGED fd

EndOfInput(p) ==
    \E k \in PipeIds :
       fd[p][STDIN] = ReadEnd(k) /\ items[k] = 0 /\ Writers(k) = {}

BrokenPipe(p) ==
    \E k \in PipeIds : fd[p][STDOUT] = WriteEnd(k) /\ Readers(k) = {}
=============================================================================
