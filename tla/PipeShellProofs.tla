--------------------------- MODULE PipeShellProofs ---------------------------
(***************************************************************************)
(* Theorems about eval and run_pipe of the phase-2 shell, for pipelines of  *)
(* any length, any size of a pipe, and whether fork may fail or not.        *)
(***************************************************************************)
EXTENDS PipeShell, PipesProofs

-----------------------------------------------------------------------------
(* The inductive invariant *)

LeftLabels == {"none", "forked", "program", "zombie"}

\* Only where commands are left for a right child is there a pipe to make.
Labels ==
    \A k \in Depths :
       /\ st[Left(k)] \in LeftLabels
       /\ st[Right(k)] \in {"piped", "left", "right"} => k + 1 \in Depths

NoneBelow(k) ==
    \A j \in Depths : j > k => st[Left(j)] = "none" /\ st[Right(j)] = "none"

\* The children of depth k are all there is below it, and they are there only from
\* the forks to the second Waitpid; after the first there is one at most.
TreeAt(k) ==
    /\ st[Right(k)] \notin {"left", "right", "closed", "waited"} => NoneBelow(k)
    /\ st[Right(k)] = "left" => NoneBelow(k + 1) /\ st[Right(k + 1)] = "none"
    /\ st[Right(k)] = "waited" =>
          \A c, d \in Children(k) : st[c] # "none" /\ st[d] # "none" => c = d

Tree ==
    /\ \A k \in Depths : TreeAt(k)
    /\ st[Left(0)] # "none" => st[Shell] = "waited"

\* A left child reads what the depth above it reads and writes to its own pipe,
\* whose ends are all it may have open, until it closes them.
LeftEnds(k) ==
    /\ fd[Left(k)].in \in {Terminal, k - 1}
    /\ fd[Left(k)].out # Terminal => fd[Left(k)].out = k /\ st[Left(k)] = "program"
    /\ st[Left(k)] # "forked" => fd[Left(k)].rds = {} /\ fd[Left(k)].wrs = {}
    /\ fd[Left(k)].rds \subseteq {k} /\ fd[Left(k)].wrs \subseteq {k}

\* A right child reads the pipe that was made above it, once it has started, and
\* never writes; it may have both ends of that pipe until it starts, and both ends of
\* its own from making it to closing it.
RightEnds(k) ==
    /\ fd[Right(k)].in \in {Terminal, IF st[Right(k)] = "forked" THEN k - 1 ELSE k}
    /\ fd[Right(k)].out = Terminal
    /\ LET made == CASE st[Right(k)] = "forked" -> {k}
                     [] st[Right(k)] \in {"piped", "left", "right"} -> {k + 1}
                     [] OTHER -> {}
       IN  fd[Right(k)].rds \subseteq made /\ fd[Right(k)].wrs \subseteq made

Ends == \A k \in Depths : LeftEnds(k) /\ RightEnds(k)

IInv ==
    /\ TypeOK
    /\ Labels
    /\ Tree
    /\ Ends

-----------------------------------------------------------------------------
(* Names of processes *)

\* Arithmetic of depths that the steps below need.
LEMMA Numbers ==
    /\ MaxCmds \in Nat \ {0} /\ Depths = 0..(MaxCmds - 1)
    /\ PipeIds = 1..(MaxCmds - 1) /\ Terminal = 0 /\ 0 \in Depths
BY PipeShellAssumption DEF Depths, PipeIds, Terminal

\* The names of processes at different depths are different.
LEMMA Names ==
    /\ \A k \in Depths : Left(k) \in Procs /\ Right(k) \in Procs
    /\ \A p \in Procs : \E k \in Depths : p = Left(k) \/ p = Right(k)
    /\ \A j, k : /\ Left(j) # Right(k)
                 /\ Left(j) = Left(k) => j = k
                 /\ Right(j) = Right(k) => j = k
    /\ Shell = Right(0) /\ Shell \in Procs
BY Numbers DEF Left, Right, Procs, Shell

\* Who may be waited for at depth k.
LEMMA ChildrenOf ==
    ASSUME NEW k \in Depths
    PROVE  /\ Children(k) \subseteq Procs
           /\ \A c \in Children(k) :
                 \/ k + 1 \in Depths /\ (c = Left(k + 1) \/ c = Right(k + 1))
                 \/ k = 0 /\ c = Left(0)
           /\ k + 1 \in Depths => Left(k + 1) \in Children(k) /\ Right(k + 1) \in Children(k)
           /\ k = 0 => Left(0) \in Children(k)
BY Names, Numbers DEF Children

\* The invariant includes type correctness.
LEMMA IInvTypes ==
    IInv => /\ PipesTypeOK(Procs) /\ fd \in [Procs -> FdTable]
            /\ items \in [PipeIds -> 0..PipeSize]
            /\ st \in [Procs -> States]
            /\ cmds \in UNION {[1..n -> CmdKinds] : n \in 0..MaxCmds}
            /\ Len(cmds) \in 0..MaxCmds
            /\ BetweenCommands
<1> SUFFICES ASSUME IInv PROVE Len(cmds) \in 0..MaxCmds
  BY DEF IInv, TypeOK, PipesTypeOK
<1>1. PICK n \in 0..MaxCmds : cmds \in [1..n -> CmdKinds]
  BY DEF IInv, TypeOK
<1>2. n \in Nat /\ cmds \in Seq(CmdKinds)
  BY <1>1, Numbers
<1>3. Len(cmds) = n
  BY <1>1, <1>2
<1> QED
  BY <1>1, <1>3

\* Only the shell is there, at its prompt.
LEMMA InitIInv == Init => IInv
<1> SUFFICES ASSUME Init PROVE IInv
  OBVIOUS
<1> USE Numbers DEF Init, PipesInit
<1>1. \A p \in Procs : fd[p] = NoPipes /\ (p # Shell => st[p] = "none")
  OBVIOUS
<1>2. st[Shell] = "prompt" /\ \A k \in Depths : st[Left(k)] = "none" /\ st[Right(k)] \in {"none", "prompt"}
  BY Names
<1>3. TypeOK
  <2>1. PipesTypeOK(Procs)
    BY NoPipesType, PipesAssumption DEF PipesTypeOK
  <2>2. cmds \in [1..0 -> CmdKinds] /\ 0 \in 0..MaxCmds
    OBVIOUS
  <2>3. st \in [Procs -> States]
    BY DEF States
  <2>4. BetweenCommands
    BY <1>2 DEF BetweenCommands
  <2> QED
    BY <2>1, <2>2, <2>3, <2>4 DEF TypeOK
<1>4. Labels
  BY <1>2 DEF Labels, LeftLabels
<1>5. Tree
  <2>1. \A k \in Depths : NoneBelow(k)
    <3>1. ASSUME NEW j \in Depths, j > 0 PROVE st[Right(j)] = "none"
      BY <1>1, <3>1, Names
    <3> QED
      BY <1>2, <3>1 DEF NoneBelow
  <2> QED
    BY <1>2, <2>1 DEF Tree, TreeAt
<1>6. Ends
  BY <1>1, <1>2, Names, NoPipesType DEF Ends, LeftEnds, RightEnds
<1> QED
  BY <1>3, <1>4, <1>5, <1>6 DEF IInv

-----------------------------------------------------------------------------
(* The processes form a tree. *)

Forked == {"left", "right", "closed", "waited"}

\* Who has a child at some depth has it below processes that have forked it.
LEMMA Ancestors ==
    ASSUME Tree, NEW k \in Depths, NEW j \in Depths, k < j,
           st[Left(j)] # "none" \/ st[Right(j)] # "none"
    PROVE  /\ st[Right(k)] \in {"left", "right", "closed", "waited"}
           /\ st[Right(k)] = "left" => j = k + 1 /\ st[Right(j)] = "none"
<1> USE Numbers
<1>1. TreeAt(k)
  BY DEF Tree
<1>2. ~NoneBelow(k)
  BY DEF NoneBelow
<1>3. j > k + 1 => ~NoneBelow(k + 1)
  BY DEF NoneBelow
<1> QED
  BY <1>1, <1>2, <1>3 DEF TreeAt

\* A step in which no process comes or goes, and none of those that forked children
\* becomes another, keeps the tree.
LEMMA SameTree ==
    ASSUME Tree, Labels,
           \A p \in Procs : st'[p] = "none" <=> st[p] = "none",
           \A k \in Depths :
              \/ st'[Right(k)] = st[Right(k)]
              \/ st[Right(k)] \notin Forked /\ st'[Right(k)] \notin Forked
              \/ st[Right(k)] = "right" /\ st'[Right(k)] = "closed"
    PROVE  Tree'
<1> USE Numbers, Names DEF Forked
<1>1. ASSUME NEW k \in Depths
      PROVE  TreeAt(k)'
  <2>1. TreeAt(k)
    BY DEF Tree
  <2>2. /\ NoneBelow(k) => NoneBelow(k)'
        /\ NoneBelow(k + 1) => NoneBelow(k + 1)'
    BY DEF NoneBelow
  <2>3. st'[Right(k)] \notin Forked => NoneBelow(k)'
    BY <2>1, <2>2 DEF TreeAt
  <2>4. st'[Right(k)] = "left" => NoneBelow(k + 1)' /\ (st'[Right(k + 1)] = "none")
    <3> SUFFICES ASSUME st'[Right(k)] = "left" PROVE NoneBelow(k + 1)' /\ (st'[Right(k + 1)] = "none")
      OBVIOUS
    <3>1. NoneBelow(k + 1) /\ st[Right(k + 1)] = "none"
      BY <2>1 DEF TreeAt
    <3>2. k + 1 \in Depths
      BY DEF Labels
    <3> QED
      BY <2>2, <3>1, <3>2
  <2> QED
    BY <2>1, <2>3, <2>4, ChildrenOf DEF TreeAt
<1>2. st'[Left(0)] # "none" => st'[Shell] = "waited"
  BY DEF Tree
<1> QED
  BY <1>1, <1>2 DEF Tree

\* Nothing changes above a process that forks or waits.
LEMMA AncestorsKept ==
    ASSUME Tree, Labels, NEW k \in Depths, NEW j \in Depths, j < k,
           st[Right(k)] # "none", st'[Right(k)] # "none", st'[Left(k)] = st[Left(k)],
           \A i \in Depths : i < k => /\ st'[Left(i)] = st[Left(i)]
                                      /\ st'[Right(i)] = st[Right(i)]
    PROVE  TreeAt(j)'
<1> USE Numbers
<1>1. st[Right(j)] \in Forked /\ st[Right(j)] # "left"
  BY Ancestors DEF Forked
<1>2. TreeAt(j) /\ st'[Right(j)] = st[Right(j)]
  BY DEF Tree
<1>3. ASSUME NEW c \in Children(j)
      PROVE  st'[c] = "none" <=> st[c] = "none"
  <2>1. CASE j + 1 \in Depths /\ (c = Left(j + 1) \/ c = Right(j + 1))
    <3>1. CASE j + 1 = k
      BY <2>1, <3>1
    <3>2. CASE j + 1 < k
      BY <2>1, <3>2
    <3> QED
      BY <2>1, <3>1, <3>2
  <2>2. CASE j = 0 /\ c = Left(0)
    BY <2>2
  <2> QED
    BY <2>1, <2>2, ChildrenOf
<1> QED
  BY <1>1, <1>2, <1>3 DEF TreeAt, Forked

\* The two forks of run_pipe, whether they succeed or not.
LEMMA ForkTree ==
    ASSUME IInv, NEW k \in Depths, ForkLeft(k) \/ ForkRight(k)
    PROVE  Tree' /\ Labels'
<1> USE Numbers, Names
<1>1. /\ Tree /\ Labels /\ st \in [Procs -> States]
      /\ TreeAt(k) /\ k + 1 \in Depths
  BY IInvTypes DEF IInv, Tree, Labels, ForkLeft, ForkRight
<1>2. /\ st[Right(k)] # "none" /\ st'[Right(k)] # "none"
      /\ \A i \in Depths : i # k + 1 => st'[Left(i)] = st[Left(i)]
      /\ \A i \in Depths : i # k /\ i # k + 1 => st'[Right(i)] = st[Right(i)]
  BY <1>1 DEF ForkLeft, ForkRight, Fork, Goto
<1>3. /\ st[Right(k)] = "piped" => /\ st'[Right(k)] = "left"
                                   /\ st'[Right(k + 1)] = st[Right(k + 1)]
                                   /\ st'[Left(k + 1)] \in {st[Left(k + 1)], "forked"}
                                   /\ NoneBelow(k)
      /\ st[Right(k)] = "left" => /\ st'[Right(k)] = "right"
                                  /\ st'[Left(k + 1)] = st[Left(k + 1)]
                                  /\ st'[Right(k + 1)] \in {"none", "forked"}
                                  /\ st[Right(k + 1)] = "none"
                                  /\ NoneBelow(k + 1)
      /\ st[Right(k)] \in {"piped", "left"}
  BY <1>1 DEF ForkLeft, ForkRight, Fork, Goto, TreeAt
<1>4. ASSUME NEW j \in Depths, j < k
      PROVE  TreeAt(j)'
  BY <1>1, <1>2, <1>4, AncestorsKept
<1>5. TreeAt(k)'
  <2>1. st[Right(k)] = "piped" => NoneBelow(k + 1)' /\ (st'[Right(k + 1)] = "none")
    BY <1>1, <1>2, <1>3 DEF NoneBelow
  <2> QED
    BY <1>3, <2>1 DEF TreeAt
<1>6. ASSUME NEW j \in Depths, k < j
      PROVE  TreeAt(j)'
  <2>1. NoneBelow(j)'
    BY <1>2, <1>3, <1>6 DEF NoneBelow
  <2>2. st'[Right(j)] \in {"none", "forked"}
    <3>1. CASE j = k + 1
      BY <1>1, <1>3, <3>1 DEF NoneBelow
    <3>2. CASE j > k + 1
      BY <1>2, <1>3, <3>2 DEF NoneBelow
    <3> QED
      BY <1>6, <3>1, <3>2
  <2> QED
    BY <2>1, <2>2 DEF TreeAt
<1>7. \A j \in Depths : TreeAt(j)'
  BY <1>4, <1>5, <1>6
<1>8. st'[Left(0)] # "none" => st'[Shell] = "waited"
  <2>1. st'[Left(0)] = st[Left(0)]
    BY <1>2
  <2>2. CASE k = 0
    BY <1>1, <1>3, <2>1, <2>2 DEF Tree
  <2>3. CASE k # 0
    <3>1. CASE st[Left(0)] # "none"
      BY <1>1, <1>2, <2>1, <2>3, <3>1 DEF Tree
    <3> QED
      BY <2>1, <3>1
  <2> QED
    BY <2>2, <2>3
<1>9. Labels'
  <2>1. ASSUME NEW i \in Depths
        PROVE  /\ st'[Left(i)] \in LeftLabels
               /\ st'[Right(i)] \in {"piped", "left", "right"} => i + 1 \in Depths
    <3>1. /\ st[Left(i)] \in LeftLabels
          /\ st[Right(i)] \in {"piped", "left", "right"} => i + 1 \in Depths
      BY <1>1 DEF Labels
    <3>2. st'[Left(i)] \in {st[Left(i)], "forked"}
      BY <1>2, <1>3
    <3>3. i = k \/ st'[Right(i)] = st[Right(i)] \/ st'[Right(i)] \in {"none", "forked"}
      BY <1>2, <1>3
    <3> QED
      BY <1>1, <3>1, <3>2, <3>3 DEF LeftLabels
  <2> QED
    BY <2>1 DEF Labels
<1> QED
  BY <1>7, <1>8, <1>9 DEF Tree

\* Waitpid at depth k: of the two children one is taken away, or there was none.
LEMMA WaitTree ==
    ASSUME IInv, NEW k \in Depths, Wait(k)
    PROVE  Tree' /\ Labels'
<1> USE Numbers, Names
<1>1. /\ Tree /\ Labels /\ st \in [Procs -> States] /\ TreeAt(k)
      /\ st[Right(k)] \in {"closed", "waited"}
  BY IInvTypes DEF IInv, Tree, Wait
<1>2. AfterWait(k) = IF st[Right(k)] = "closed" THEN "waited"
                     ELSE IF k = 0 THEN "prompt" ELSE "zombie"
  BY <1>1 DEF AfterWait
<1>3. Right(k) \notin Children(k)
  BY ChildrenOf
<1>4. /\ st'[Right(k)] = AfterWait(k)
      /\ \A p \in Procs : p # Right(k) /\ p \notin Children(k) => st'[p] = st[p]
      /\ \A c \in Children(k) : st'[c] = st[c] \/ (st[c] = "zombie" /\ st'[c] = "none")
      /\ \/ \A c \in Children(k) : st'[c] = "none"
         \/ \E c \in Children(k) : st[c] # "none" /\ st'[c] = "none"
  <2>1. CASE \E c \in Children(k) :
               /\ st[c] = "zombie"
               /\ st' = [st EXCEPT ![c] = "none", ![Right(k)] = AfterWait(k)]
    <3>1. PICK c \in Children(k) :
               /\ st[c] = "zombie"
               /\ st' = [st EXCEPT ![c] = "none", ![Right(k)] = AfterWait(k)]
      BY <2>1
    <3>2. c \in Procs /\ c # Right(k)
      BY <1>3, ChildrenOf
    <3>3. /\ st'[Right(k)] = AfterWait(k) /\ st'[c] = "none"
          /\ \A p \in Procs : p # Right(k) /\ p # c => st'[p] = st[p]
      BY <1>1, <3>1, <3>2
    <3> QED
      BY <1>3, <3>1, <3>3, ChildrenOf
  <2>2. CASE (\A c \in Children(k) : st[c] = "none") /\ Goto(Right(k), AfterWait(k))
    <3>1. /\ st'[Right(k)] = AfterWait(k)
          /\ \A p \in Procs : p # Right(k) => st'[p] = st[p]
      BY <1>1, <2>2 DEF Goto
    <3> QED
      BY <1>3, <2>2, <3>1, ChildrenOf
  <2> QED
    BY <2>1, <2>2 DEF Wait
<1>5. \A i \in Depths :
         /\ i # k + 1 /\ ~(i = 0 /\ k = 0) => st'[Left(i)] = st[Left(i)]
         /\ i # k /\ i # k + 1 => st'[Right(i)] = st[Right(i)]
         /\ st'[Left(i)] \in {st[Left(i)], "none"}
         /\ i # k => st'[Right(i)] \in {st[Right(i)], "none"}
  BY <1>4, ChildrenOf
<1>6. ASSUME NEW j \in Depths, j < k
      PROVE  TreeAt(j)'
  BY <1>1, <1>2, <1>4, <1>5, <1>6, AncestorsKept
<1>7. \A j \in Depths : NoneBelow(j) => NoneBelow(j)'
  <2>1. ASSUME NEW j \in Depths, NoneBelow(j) PROVE NoneBelow(j)'
    <3>1. k <= j
      BY <1>1, <2>1 DEF NoneBelow
    <3> QED
      BY <1>5, <2>1, <3>1 DEF NoneBelow
  <2> QED
    BY <2>1
<1>8. ASSUME NEW j \in Depths, k < j
      PROVE  TreeAt(j)'
  <2>1. TreeAt(j)
    BY <1>1 DEF Tree
  <2>2. CASE st'[Right(j)] = st[Right(j)]
    <3>1. \A c \in Children(j) : st'[c] = st[c]
      BY <1>5, <1>8, ChildrenOf
    <3>2. st[Right(j)] = "left" => j + 1 \in Depths /\ st'[Right(j + 1)] = st[Right(j + 1)]
                                   /\ NoneBelow(j + 1)'
      BY <1>1, <1>5, <1>7, <1>8, <2>1 DEF Labels, TreeAt
    <3> QED
      BY <1>7, <2>1, <2>2, <3>1, <3>2 DEF TreeAt
  <2>3. CASE st'[Right(j)] # st[Right(j)]
    <3>1. st[Right(j)] = "zombie" /\ st'[Right(j)] = "none"
      BY <1>4, <1>8, <2>3
    <3>2. NoneBelow(j)
      BY <2>1, <3>1 DEF TreeAt
    <3> QED
      BY <1>7, <3>1, <3>2 DEF TreeAt
  <2> QED
    BY <2>2, <2>3
<1>9. k = 0 /\ st[Shell] = "closed" => st[Left(0)] = "none"
  BY <1>1 DEF Tree
<1>10. st[Right(k)] = "waited" => \A c \in Children(k) : st'[c] = "none"
  BY <1>1, <1>4 DEF TreeAt
<1>11. TreeAt(k)'
  <2>1. CASE st[Right(k)] = "closed"
    <3>1. st'[Right(k)] = "waited"
      BY <1>2, <1>4, <2>1
    <3>2. ASSUME NEW c \in Children(k), NEW d \in Children(k),
                 st'[c] # "none", st'[d] # "none"
          PROVE  c = d
      <4>1. k = 0 => c # Left(0) /\ d # Left(0)
        BY <1>4, <1>9, <2>1, <3>2
      <4>2. k + 1 \in Depths /\ c \in {Left(k + 1), Right(k + 1)}
                             /\ d \in {Left(k + 1), Right(k + 1)}
        BY <4>1, ChildrenOf
      <4>3. PICK e \in Children(k) : st[e] # "none" /\ st'[e] = "none"
        BY <1>4, <3>2
      <4>4. e \in {Left(k + 1), Right(k + 1)}
        BY <1>9, <2>1, <4>3, ChildrenOf
      <4> QED
        BY <3>2, <4>2, <4>3, <4>4
    <3> QED
      BY <3>1, <3>2 DEF TreeAt
  <2>2. CASE st[Right(k)] = "waited"
    <3>1. NoneBelow(k)'
      <4>1. ASSUME NEW j \in Depths, j > k
            PROVE  st'[Left(j)] = "none" /\ st'[Right(j)] = "none"
        <5>1. k + 1 \in Depths
          BY <4>1
        <5>2. st'[Left(k + 1)] = "none" /\ st'[Right(k + 1)] = "none"
          BY <1>10, <2>2, <5>1, ChildrenOf
        <5>3. NoneBelow(k + 1)'
          BY <1>8, <5>1, <5>2 DEF TreeAt
        <5> QED
          BY <4>1, <5>1, <5>2, <5>3 DEF NoneBelow
      <4> QED
        BY <4>1 DEF NoneBelow
    <3> QED
      BY <1>2, <1>4, <2>2, <3>1 DEF TreeAt
  <2> QED
    BY <1>1, <2>1, <2>2
<1>12. \A j \in Depths : TreeAt(j)'
  BY <1>6, <1>8, <1>11
<1>13. st'[Left(0)] # "none" => st'[Shell] = "waited"
  <2>1. CASE k = 0
    <3>1. Left(0) \in Children(k)
      BY <2>1, ChildrenOf
    <3> QED
      BY <1>1, <1>2, <1>4, <1>10, <2>1, <3>1
  <2>2. CASE k # 0
    BY <1>1, <1>5, <2>2 DEF Tree
  <2> QED
    BY <2>1, <2>2
<1>14. Labels'
  BY <1>1, <1>2, <1>4, <1>5 DEF Labels, LeftLabels
<1> QED
  BY <1>12, <1>13, <1>14 DEF Tree

\* The fork of eval.
LEMMA ForkPlainTree ==
    ASSUME IInv, ForkPlain
    PROVE  Tree' /\ Labels'
<1> USE Numbers, Names
<1>1. /\ Tree /\ Labels /\ st \in [Procs -> States] /\ TreeAt(0)
      /\ st[Shell] = "plain" /\ st'[Shell] = "waited"
      /\ st'[Left(0)] \in {st[Left(0)], "forked"}
      /\ \A i \in Depths : i # 0 => /\ st'[Left(i)] = st[Left(i)]
                                    /\ st'[Right(i)] = st[Right(i)]
  BY IInvTypes DEF IInv, Tree, ForkPlain, Fork, Goto
<1>2. NoneBelow(0)
  BY <1>1 DEF TreeAt
<1>3. ASSUME NEW j \in Depths
      PROVE  NoneBelow(j)'
  BY <1>1, <1>2, <1>3 DEF NoneBelow
<1>4. ASSUME NEW j \in Depths, j # 0
      PROVE  st'[Right(j)] = "none"
  BY <1>1, <1>2, <1>4 DEF NoneBelow
<1>5. \A c \in Children(0) : c # Left(0) => st'[c] = "none"
  BY <1>1, <1>2, ChildrenOf DEF NoneBelow
<1>6. \A j \in Depths : TreeAt(j)'
  <2>1. TreeAt(0)'
    BY <1>1, <1>5 DEF TreeAt
  <2>2. ASSUME NEW j \in Depths, j # 0 PROVE TreeAt(j)'
    BY <1>3, <1>4, <2>2 DEF TreeAt
  <2> QED
    BY <2>1, <2>2
<1>7. Labels'
  BY <1>1, <1>4 DEF Labels, LeftLabels
<1> QED
  BY <1>1, <1>6, <1>7 DEF Tree

-----------------------------------------------------------------------------
(* Steps of one process *)

\* Only process p changes, and it neither comes nor goes nor forks.
LEMMA OneStep ==
    ASSUME IInv, NEW p \in Procs, NEW label \in States, NEW f \in FdTable,
           st[p] # "none", label # "none",
           st' = [st EXCEPT ![p] = label], fd' = [fd EXCEPT ![p] = f],
           items' = items,
           cmds' \in UNION {[1..n -> CmdKinds] : n \in 0..MaxCmds},
           \/ cmds' = cmds
           \/ \A j \in Depths : st[Right(j)] \notin {"piped", "left", "right"},
           \/ \E k \in Depths : /\ p = Left(k) /\ label \in LeftLabels
                                /\ LeftEnds(k)'
           \/ \E k \in Depths : /\ p = Right(k)
                                /\ \/ st[p] \notin Forked /\ label \notin Forked
                                   \/ st[p] = "right" /\ label = "closed"
                                /\ label \notin {"piped", "left", "right"}
                                /\ RightEnds(k)'
    PROVE  IInv'
<1> USE Numbers, Names
<1>1. st \in [Procs -> States] /\ fd \in [Procs -> FdTable]
  BY IInvTypes
<1>2. /\ st'[p] = label /\ fd'[p] = f
      /\ \A q \in Procs : q # p => st'[q] = st[q] /\ fd'[q] = fd[q]
      /\ st' \in [Procs -> States] /\ fd' \in [Procs -> FdTable]
  BY <1>1
<1>3. TypeOK'
  <2>1. BetweenCommands'
    BY <1>2, IInvTypes DEF BetweenCommands, LeftLabels
  <2> QED
    BY <1>2, <2>1, IInvTypes DEF TypeOK, PipesTypeOK
<1>4. Tree'
  BY <1>2, SameTree DEF IInv
<1>5. Labels'
  BY <1>2 DEF IInv, Labels
<1>6. Ends'
  BY <1>2 DEF IInv, Ends, LeftEnds, RightEnds
<1> QED
  BY <1>3, <1>4, <1>5, <1>6 DEF IInv

\* A step that touches no descriptor leaves everybody the ends they had.
LEMMA SameFds ==
    ASSUME IInv, NEW p \in Procs, fd' = fd
    PROVE  fd[p] \in FdTable /\ fd' = [fd EXCEPT ![p] = fd[p]]
BY IInvTypes

\* eval reads a line.
LEMMA ReadStep ==
    ASSUME IInv, (\E c \in CmdKinds : ReadPlain(c)) \/ (\E n \in 1..MaxCmds : ReadPipe(n))
                    \/ ReadExit
    PROVE  IInv'
<1> USE Numbers, Names
<1>1. PICK label : /\ label \in {"plain", "start", "zombie"}
                   /\ st[Shell] = "prompt" /\ st' = [st EXCEPT ![Shell] = label]
                   /\ fd' = fd /\ items' = items
  BY DEF ReadPlain, ReadPipe, ReadExit, Goto, pipeVars
<1>2. cmds' \in UNION {[1..n -> CmdKinds] : n \in 0..MaxCmds}
  <2>1. ASSUME NEW c \in CmdKinds, cmds' = <<c>>
        PROVE  cmds' \in [1..1 -> CmdKinds] /\ 1 \in 0..MaxCmds
    BY <2>1
  <2>2. CASE \E c \in CmdKinds : ReadPlain(c)
    BY <2>1, <2>2 DEF ReadPlain
  <2>3. CASE \E n \in 1..MaxCmds : ReadPipe(n)
    BY <2>3 DEF ReadPipe
  <2>4. CASE ReadExit
    BY <2>4, IInvTypes DEF ReadExit
  <2> QED
    BY <2>2, <2>3, <2>4
<1>3. RightEnds(0)'
  <2>1. RightEnds(0) /\ st'[Right(0)] = label
    BY <1>1, IInvTypes DEF IInv, Ends
  <2> QED
    BY <1>1, <2>1 DEF RightEnds
<1>4. ASSUME NEW j \in Depths
      PROVE  st[Right(j)] \notin {"piped", "left", "right"}
  <2>1. NoneBelow(0)
    BY <1>1 DEF IInv, Tree, TreeAt
  <2> QED
    BY <1>1, <2>1 DEF NoneBelow
<1>5. /\ Shell \in Procs /\ 0 \in Depths /\ Shell = Right(0)
      /\ fd[Shell] \in FdTable /\ fd' = [fd EXCEPT ![Shell] = fd[Shell]]
      /\ label \in States /\ label \notin Forked /\ label # "none"
      /\ label \notin {"piped", "left", "right"}
      /\ st[Shell] \notin Forked /\ st[Shell] # "none"
  BY <1>1, SameFds DEF States, Forked
<1> QED
  BY <1>1, <1>2, <1>3, <1>4, <1>5, OneStep

\* A process becomes the program of its command, or ends at once.
LEMMA RunLastStep ==
    ASSUME IInv, NEW k \in Depths, RunLast(k)
    PROVE  IInv'
<1> USE Numbers, Names, NoPipesType
<1>1. RightEnds(k) /\ fd \in [Procs -> FdTable] /\ st \in [Procs -> States]
  BY IInvTypes DEF IInv, Ends
<1>2. PICK label, f : /\ label \in {"program", "zombie"} /\ f \in {fd[Right(k)], NoPipes}
                      /\ st[Right(k)] = "start" /\ st' = [st EXCEPT ![Right(k)] = label]
                      /\ fd' = [fd EXCEPT ![Right(k)] = f] /\ items' = items /\ cmds' = cmds
  <2>1. fd' = fd => fd' = [fd EXCEPT ![Right(k)] = fd[Right(k)]]
    BY SameFds
  <2>2. CASE cmds[k + 1] = "program"
    BY <2>1, <2>2 DEF RunLast, Become, Goto, pipeVars
  <2>3. CASE cmds[k + 1] # "program"
    BY <2>3 DEF RunLast, Become, Goto, CloseAll
  <2> QED
    BY <2>2, <2>3
<1>3. RightEnds(k)'
  BY <1>1, <1>2 DEF RightEnds
<1> QED
  BY <1>1, <1>2, <1>3, IInvTypes, OneStep DEF States, Forked

\* run_pipe opens a pipe whose ends nobody else has.
LEMMA MakePipeStep ==
    ASSUME IInv, NEW k \in Depths, MakePipe(k)
    PROVE  IInv'
<1> USE Numbers, Names
<1>1. /\ RightEnds(k) /\ fd \in [Procs -> FdTable] /\ st \in [Procs -> States]
      /\ st[Right(k)] = "start" /\ st' = [st EXCEPT ![Right(k)] = "piped"]
      /\ cmds' = cmds
  BY IInvTypes DEF IInv, Ends, MakePipe, Goto
<1>2. k + 1 \in Depths /\ k + 1 \in PipeIds
  BY IInvTypes DEF MakePipe, Remaining
<1>3. /\ PipesTypeOK(Procs)'
      /\ \A q \in Procs \ {Right(k)} : fd'[q] = fd[q]
      /\ fd'[Right(k)].in = fd[Right(k)].in /\ fd'[Right(k)].out = fd[Right(k)].out
      /\ fd'[Right(k)].rds = fd[Right(k)].rds \union {k + 1}
      /\ fd'[Right(k)].wrs = fd[Right(k)].wrs \union {k + 1}
  <2>1. PipesTypeOK(Procs) /\ pipe(Right(k), k + 1)
    BY IInvTypes DEF MakePipe
  <2> QED
    BY <1>2, <2>1, PipeMade
<1>4. /\ st'[Right(k)] = "piped" /\ \A q \in Procs : q # Right(k) => st'[q] = st[q]
      /\ st' \in [Procs -> States]
  BY <1>1 DEF States
<1>5. TypeOK'
  <2>1. k + 1 < Len(cmds)
    BY IInvTypes DEF MakePipe, Remaining
  <2>2. BetweenCommands'
    BY <1>1, <1>4, <2>1, IInvTypes DEF BetweenCommands
  <2> QED
    BY <1>1, <1>3, <1>4, <2>2, IInvTypes DEF TypeOK
<1>6. Tree'
  BY <1>1, <1>4, SameTree DEF IInv, Forked
<1>7. Labels'
  BY <1>2, <1>4 DEF IInv, Labels
<1>8. RightEnds(k)'
  BY <1>1, <1>3, <1>4 DEF RightEnds
<1>9. Ends'
  <2>1. ASSUME NEW j \in Depths
        PROVE  LeftEnds(j)'
    BY <1>3, <1>4 DEF IInv, Ends, LeftEnds
  <2>2. ASSUME NEW j \in Depths, j # k
        PROVE  RightEnds(j)'
    BY <1>3, <1>4, <2>2 DEF IInv, Ends, RightEnds
  <2> QED
    BY <1>8, <2>1, <2>2 DEF Ends
<1> QED
  BY <1>5, <1>6, <1>7, <1>9 DEF IInv

\* It closes both ends once both children are forked.
LEMMA CloseEndsStep ==
    ASSUME IInv, NEW k \in Depths, CloseEnds(k)
    PROVE  IInv'
<1> USE Numbers, Names
<1>1. /\ RightEnds(k) /\ fd \in [Procs -> FdTable] /\ st \in [Procs -> States]
      /\ st[Right(k)] = "right" /\ st' = [st EXCEPT ![Right(k)] = "closed"]
      /\ cmds' = cmds /\ items' = items
  BY IInvTypes DEF IInv, Ends, CloseEnds, Goto
<1>2. PICK r : r = fd[Right(k)] /\ r \in FdTable
  BY <1>1
<1>3. PICK f : f = SetEnds(r, {}, {}) /\ fd' = [fd EXCEPT ![Right(k)] = f]
  <2>1. SetEnds(r, {}, {}) = [[fd[Right(k)] EXCEPT !.rds = {}] EXCEPT !.wrs = {}]
    BY <1>2 DEF SetEnds
  <2>2. fd' = [fd EXCEPT ![Right(k)] = [[fd[Right(k)] EXCEPT !.rds = {}] EXCEPT !.wrs = {}]]
    BY <1>1 DEF CloseEnds
  <2> QED
    BY <2>1, <2>2
<1>4. f \in FdTable /\ f.in = r.in /\ f.out = r.out /\ f.rds = {} /\ f.wrs = {}
  BY <1>2, <1>3, CloseFields
<1>6. RightEnds(k)'
  BY <1>1, <1>2, <1>3, <1>4 DEF RightEnds
<1> QED
  BY <1>1, <1>3, <1>4, <1>6, IInvTypes, OneStep DEF States

\* The child of a plain line inherits nothing but the terminal.
LEMMA PlainChildStep ==
    ASSUME IInv, PlainChild
    PROVE  IInv'
<1> USE Numbers, Names, NoPipesType
<1>1. /\ LeftEnds(0) /\ fd \in [Procs -> FdTable] /\ st \in [Procs -> States]
      /\ fd[Left(0)].rds \subseteq PipeIds /\ fd[Left(0)].wrs \subseteq PipeIds
  BY IInvTypes, FdFields DEF IInv, Ends
<1>2. PICK label, f : /\ label \in {"program", "zombie"} /\ f \in {fd[Left(0)], NoPipes}
                      /\ st[Left(0)] = "forked" /\ st' = [st EXCEPT ![Left(0)] = label]
                      /\ fd' = [fd EXCEPT ![Left(0)] = f] /\ items' = items /\ cmds' = cmds
  <2>1. fd' = fd => fd' = [fd EXCEPT ![Left(0)] = fd[Left(0)]]
    BY SameFds
  <2>2. CASE cmds[1] = "program"
    BY <2>1, <2>2 DEF PlainChild, Become, Goto, pipeVars
  <2>3. CASE cmds[1] # "program"
    BY <2>3 DEF PlainChild, Become, Goto, CloseAll
  <2> QED
    BY <2>2, <2>3
<1>3. LeftEnds(0)'
  BY <1>1, <1>2 DEF LeftEnds
<1> QED
  BY <1>1, <1>2, <1>3, IInvTypes, OneStep DEF States, LeftLabels

\* The left child writes to the new pipe, and reads what its parent read.
LEMMA LeftChildStep ==
    ASSUME IInv, NEW k \in Depths \ {0}, LeftChild(k)
    PROVE  IInv'
<1> USE Numbers, Names, NoPipesType
<1>1. /\ LeftEnds(k) /\ fd \in [Procs -> FdTable] /\ st \in [Procs -> States]
      /\ st[Left(k)] = "forked" /\ k \in PipeIds /\ cmds' = cmds /\ items' = items
  BY IInvTypes DEF IInv, Ends, LeftChild, CloseAll
<1>2. CASE st' = [st EXCEPT ![Left(k)] = "zombie"] /\ fd' = [fd EXCEPT ![Left(k)] = NoPipes]
  <2>1. LeftEnds(k)'
    BY <1>1, <1>2 DEF LeftEnds
  <2> QED
    BY <1>1, <1>2, <2>1, IInvTypes, OneStep DEF States, LeftLabels
<1>3. CASE st' = [st EXCEPT ![Left(k)] = "program"] /\ fd' = [fd EXCEPT ![Left(k)] = LeftFds(k)]
  <2>1. PICK r, R, W : /\ r = fd[Left(k)] /\ r \in FdTable
                       /\ R = r.rds \ {k} /\ W = r.wrs \ {k}
    BY <1>1
  <2>2. r.in \in PipeEnds /\ k \in PipeEnds /\ R \subseteq PipeIds /\ W \subseteq PipeIds
    BY <1>1, <2>1, FdFields DEF PipeEnds
  <2>3. LeftFds(k) = SetAll(r, r.in, k, R, W)
    <3>1. LeftFds(k) = SetOut(r, k, R, W)
      BY <2>1 DEF LeftFds, SetOut
    <3>2. SetOut(r, k, R, W) = SetAll(r, r.in, k, R, W)
      BY <2>1, OutputRedirected
    <3> QED
      BY <3>1, <3>2
  <2>4. LeftFds(k) \in FdTable
    <3>1. SetAll(r, r.in, k, R, W) \in FdTable
      BY <2>1, <2>2, FdUpdateType
    <3> QED
      BY <2>3, <3>1
  <2>5. LeftFds(k).in = r.in /\ LeftFds(k).out = k /\ LeftFds(k).rds = R /\ LeftFds(k).wrs = W
    BY <2>1, <2>3, FdUpdateFields
  <2>6. LeftEnds(k)'
    <3>1. R = {} /\ W = {} /\ r.in \in {Terminal, k - 1}
      BY <1>1, <2>1 DEF LeftEnds
    <3>2. fd'[Left(k)] = LeftFds(k) /\ st'[Left(k)] = "program"
      BY <1>1, <1>3
    <3> QED
      BY <2>5, <3>1, <3>2 DEF LeftEnds
  <2> QED
    BY <1>1, <1>3, <2>4, <2>6, IInvTypes, OneStep DEF States, LeftLabels
<1> QED
  BY <1>2, <1>3 DEF LeftChild, Goto, CloseAll

\* The right child reads the new pipe, and goes on as run_pipe one level down.
LEMMA RightChildStep ==
    ASSUME IInv, NEW k \in Depths \ {0}, RightChild(k)
    PROVE  IInv'
<1> USE Numbers, Names
<1>1. /\ RightEnds(k) /\ fd \in [Procs -> FdTable] /\ st \in [Procs -> States]
      /\ st[Right(k)] = "forked" /\ st' = [st EXCEPT ![Right(k)] = "start"]
      /\ fd' = [fd EXCEPT ![Right(k)] = RightFds(k)]
      /\ k \in PipeIds /\ cmds' = cmds /\ items' = items
  BY IInvTypes DEF IInv, Ends, RightChild, Goto
<1>2. PICK r, R, W : /\ r = fd[Right(k)] /\ r \in FdTable
                     /\ R = r.rds \ {k} /\ W = r.wrs \ {k}
  BY <1>1
<1>3. r.out \in PipeEnds /\ k \in PipeEnds /\ R \subseteq PipeIds /\ W \subseteq PipeIds
  BY <1>1, <1>2, FdFields DEF PipeEnds
<1>4. RightFds(k) = SetAll(r, k, r.out, R, W)
  BY <1>2 DEF RightFds, SetAll, FdTable
<1>5. RightFds(k) \in FdTable
  BY <1>2, <1>3, <1>4, FdUpdateType
<1>6. RightFds(k).in = k /\ RightFds(k).out = r.out /\ RightFds(k).rds = R /\ RightFds(k).wrs = W
  BY <1>2, <1>4, FdUpdateFields
<1>7. RightEnds(k)'
  <2>1. R = {} /\ W = {} /\ r.out = Terminal
    BY <1>1, <1>2 DEF RightEnds
  <2>2. fd'[Right(k)] = RightFds(k) /\ st'[Right(k)] = "start"
    BY <1>1
  <2> QED
    BY <1>6, <2>1, <2>2 DEF RightEnds
<1> QED
  BY <1>1, <1>5, <1>7, IInvTypes, OneStep DEF States, Forked

\* exit closes everything.
LEMMA QuitsStep ==
    ASSUME IInv, NEW p \in Procs, Quits(p)
    PROVE  IInv'
<1> USE Numbers, Names, NoPipesType
<1>1. /\ fd \in [Procs -> FdTable] /\ st \in [Procs -> States]
      /\ st[p] = "program" /\ st' = [st EXCEPT ![p] = "zombie"]
      /\ fd' = [fd EXCEPT ![p] = NoPipes] /\ items' = items /\ cmds' = cmds
  BY IInvTypes DEF Quits, Exits, Goto, CloseAll
<1>2. PICK k \in Depths : p = Left(k) \/ p = Right(k)
  OBVIOUS
<1>3. p = Left(k) => LeftEnds(k)'
  BY <1>1 DEF LeftEnds
<1>4. p = Right(k) => RightEnds(k)'
  BY <1>1 DEF RightEnds
<1> QED
  BY <1>1, <1>2, <1>3, <1>4, IInvTypes, OneStep DEF States, Forked, LeftLabels

-----------------------------------------------------------------------------
(* Steps of two processes *)

\* A forked child has what its parent has.
LEMMA ForkStep ==
    ASSUME IInv, NEW k \in Depths, ForkLeft(k) \/ ForkRight(k)
    PROVE  IInv'
<1> USE Numbers, Names
<1>1. /\ RightEnds(k) /\ fd \in [Procs -> FdTable] /\ st \in [Procs -> States]
      /\ k + 1 \in Depths /\ st[Right(k)] \in {"piped", "left"}
  BY IInvTypes DEF IInv, Ends, Labels, ForkLeft, ForkRight
<1>2. PICK label, child :
         /\ label \in {"left", "right"} /\ child \in {Left(k + 1), Right(k + 1)}
         /\ \/ /\ st' = [st EXCEPT ![Right(k)] = label, ![child] = "forked"]
               /\ fd' = [fd EXCEPT ![child] = fd[Right(k)]]
            \/ st' = [st EXCEPT ![Right(k)] = label] /\ fd' = fd
         /\ items' = items /\ cmds' = cmds
  BY DEF ForkLeft, ForkRight, Fork, Inherit, Goto, pipeVars
<1>3. child \in Procs /\ child # Right(k)
  BY <1>1, <1>2
<1>4. /\ \A q \in Procs : q # child /\ q # Right(k) => st'[q] = st[q] /\ fd'[q] = fd[q]
      /\ st'[Right(k)] = label /\ fd'[Right(k)] = fd[Right(k)]
      /\ \/ st'[child] = "forked" /\ fd'[child] = fd[Right(k)]
         \/ st'[child] = st[child] /\ fd'[child] = fd[child]
      /\ st' \in [Procs -> States] /\ fd' \in [Procs -> FdTable]
  BY <1>1, <1>2, <1>3 DEF States
<1>5. TypeOK'
  <2>1. BetweenCommands'
    BY <1>1, <1>2, <1>4, IInvTypes DEF BetweenCommands
  <2> QED
    BY <1>2, <1>4, <2>1, IInvTypes DEF TypeOK, PipesTypeOK
<1>6. RightEnds(k)'
  BY <1>1, <1>2, <1>4 DEF RightEnds
<1>7. LeftEnds(k + 1)'
  <2>1. LeftEnds(k + 1)
    BY <1>1 DEF IInv, Ends
  <2>2. CASE child = Left(k + 1) /\ st'[child] = "forked" /\ fd'[child] = fd[Right(k)]
    BY <1>1, <2>2 DEF LeftEnds, RightEnds
  <2>3. CASE child = Left(k + 1) /\ st'[child] = st[child] /\ fd'[child] = fd[child]
    BY <2>1, <2>3 DEF LeftEnds
  <2>4. CASE child = Right(k + 1)
    BY <1>1, <1>4, <2>1, <2>4 DEF LeftEnds
  <2> QED
    BY <1>2, <1>4, <2>2, <2>3, <2>4
<1>8. RightEnds(k + 1)'
  <2>1. RightEnds(k + 1)
    BY <1>1 DEF IInv, Ends
  <2>2. CASE child = Right(k + 1) /\ st'[child] = "forked" /\ fd'[child] = fd[Right(k)]
    BY <1>1, <2>2 DEF RightEnds
  <2>3. CASE child = Right(k + 1) /\ st'[child] = st[child] /\ fd'[child] = fd[child]
    BY <2>1, <2>3 DEF RightEnds
  <2>4. CASE child = Left(k + 1)
    BY <1>1, <1>4, <2>1, <2>4 DEF RightEnds
  <2> QED
    BY <1>2, <1>4, <2>2, <2>3, <2>4
<1>9. ASSUME NEW j \in Depths, j # k + 1
      PROVE  LeftEnds(j)' /\ (j # k => RightEnds(j)')
  <2>1. LeftEnds(j) /\ RightEnds(j)
    BY DEF IInv, Ends
  <2>2. /\ st'[Left(j)] = st[Left(j)] /\ fd'[Left(j)] = fd[Left(j)]
        /\ j # k => st'[Right(j)] = st[Right(j)] /\ fd'[Right(j)] = fd[Right(j)]
    BY <1>2, <1>4, <1>9
  <2> QED
    BY <2>1, <2>2 DEF LeftEnds, RightEnds
<1>10. Ends'
  BY <1>6, <1>7, <1>8, <1>9 DEF Ends
<1> QED
  BY <1>5, <1>10, ForkTree DEF IInv

\* After the fork of a plain line its process waits for that child only.
LEMMA ForkPlainStep ==
    ASSUME IInv, ForkPlain
    PROVE  IInv'
<1> USE Numbers, Names
<1>1. /\ RightEnds(0) /\ LeftEnds(0) /\ fd \in [Procs -> FdTable]
      /\ st \in [Procs -> States] /\ st[Right(0)] = "plain"
  BY IInvTypes DEF IInv, Ends, ForkPlain
<1>2. /\ \/ /\ st' = [st EXCEPT ![Right(0)] = "waited", ![Left(0)] = "forked"]
            /\ fd' = [fd EXCEPT ![Left(0)] = fd[Right(0)]]
         \/ st' = [st EXCEPT ![Right(0)] = "waited"] /\ fd' = fd
      /\ items' = items /\ cmds' = cmds
  BY DEF ForkPlain, Fork, Inherit, Goto, pipeVars
<1>3. /\ \A q \in Procs : q # Left(0) /\ q # Right(0) => st'[q] = st[q] /\ fd'[q] = fd[q]
      /\ st'[Right(0)] = "waited" /\ fd'[Right(0)] = fd[Right(0)]
      /\ \/ st'[Left(0)] = "forked" /\ fd'[Left(0)] = fd[Right(0)]
         \/ st'[Left(0)] = st[Left(0)] /\ fd'[Left(0)] = fd[Left(0)]
      /\ st' \in [Procs -> States] /\ fd' \in [Procs -> FdTable]
  BY <1>1, <1>2 DEF States
<1>4. TypeOK'
  <2>1. BetweenCommands'
    BY <1>2, <1>3, IInvTypes DEF BetweenCommands
  <2> QED
    BY <1>2, <1>3, <2>1, IInvTypes DEF TypeOK, PipesTypeOK
<1>5. RightEnds(0)' /\ LeftEnds(0)'
  BY <1>1, <1>3 DEF RightEnds, LeftEnds
<1>6. ASSUME NEW j \in Depths, j # 0
      PROVE  LeftEnds(j)' /\ RightEnds(j)'
  <2>1. /\ st'[Left(j)] = st[Left(j)] /\ fd'[Left(j)] = fd[Left(j)]
        /\ st'[Right(j)] = st[Right(j)] /\ fd'[Right(j)] = fd[Right(j)]
    BY <1>3, <1>6
  <2> QED
    BY <2>1 DEF IInv, Ends, LeftEnds, RightEnds
<1> QED
  BY <1>4, <1>5, <1>6, ForkPlainTree DEF IInv, Ends

\* A waiting process moves on when the child it waits for is a zombie.
LEMMA WaitStep ==
    ASSUME IInv, NEW k \in Depths, Wait(k)
    PROVE  IInv'
<1> USE Numbers, Names, NoPipesType
<1>1. /\ fd \in [Procs -> FdTable] /\ st \in [Procs -> States]
      /\ st[Right(k)] \in {"closed", "waited"} /\ cmds' = cmds
  BY IInvTypes DEF Wait
<1>2. AfterWait(k) \in {"waited", "prompt", "zombie"}
  BY <1>1 DEF AfterWait
<1>3. /\ st' \in [Procs -> States]
      /\ st'[Right(k)] = AfterWait(k)
      /\ \A p \in Procs : p # Right(k) =>
            st'[p] = st[p] \/ (st[p] = "zombie" /\ st'[p] = "none")
  <2>1. ASSUME NEW c \in Children(k), st[c] = "zombie",
               st' = [st EXCEPT ![c] = "none", ![Right(k)] = AfterWait(k)]
        PROVE  /\ st' \in [Procs -> States]
               /\ st'[Right(k)] = AfterWait(k)
               /\ \A p \in Procs : p # Right(k) =>
                     st'[p] = st[p] \/ (st[p] = "zombie" /\ st'[p] = "none")
    BY <1>1, <1>2, <2>1 DEF States
  <2>2. CASE Goto(Right(k), AfterWait(k))
    BY <1>1, <1>2, <2>2 DEF Goto, States
  <2> QED
    BY <2>1, <2>2 DEF Wait
<1>4. /\ fd' \in [Procs -> FdTable] /\ items' = items
      /\ \A p \in Procs : p # Right(k) => fd'[p] = fd[p]
      /\ fd'[Right(k)] \in {fd[Right(k)], NoPipes}
  BY <1>1 DEF Wait, CloseAll, pipeVars
<1>5. TypeOK'
  <2>1. BetweenCommands'
    BY <1>1, <1>2, <1>3, IInvTypes DEF BetweenCommands
  <2> QED
    BY <1>1, <1>3, <1>4, <2>1, IInvTypes DEF TypeOK, PipesTypeOK
<1>6. Ends'
  <2>1. ASSUME NEW j \in Depths PROVE LeftEnds(j)'
    BY <1>3, <1>4, <2>1 DEF IInv, Ends, LeftEnds
  <2>2. ASSUME NEW j \in Depths, j # k PROVE RightEnds(j)'
    <3>1. RightEnds(j) /\ fd'[Right(j)] = fd[Right(j)]
      BY <1>4, <2>2 DEF IInv, Ends
    <3>2. st'[Right(j)] = st[Right(j)] \/ (st[Right(j)] = "zombie" /\ st'[Right(j)] = "none")
      BY <1>3, <2>2
    <3> QED
      BY <3>1, <3>2 DEF RightEnds
  <2>3. RightEnds(k)'
    BY <1>1, <1>2, <1>3, <1>4 DEF IInv, Ends, RightEnds
  <2> QED
    BY <2>1, <2>2, <2>3 DEF Ends
<1> QED
  BY <1>5, <1>6, WaitTree DEF IInv

\* Reads, writes and ends of programs open no descriptor and fork nobody.
LEMMA QuietStep ==
    ASSUME IInv, st' = st, fd' = fd, cmds' = cmds, items' \in [PipeIds -> 0..PipeSize]
    PROVE  IInv'
<1>1. TypeOK' /\ Labels'
  BY DEF IInv, TypeOK, PipesTypeOK, Labels, BetweenCommands
<1>2. Tree'
  BY DEF IInv, Tree, TreeAt, NoneBelow
<1>3. Ends'
  BY DEF IInv, Ends, LeftEnds, RightEnds
<1> QED
  BY <1>1, <1>2, <1>3 DEF IInv

\* IInv is inductive: every step of the shell, of a right child that runs run_pipe, of
\* a command and of its program keeps it, also when a fork fails.
LEMMA IInvStep ==
    ASSUME IInv, [Next]_vars
    PROVE  IInv'
<1>1. CASE (\E c \in CmdKinds : ReadPlain(c)) \/ (\E n \in 1..MaxCmds : ReadPipe(n)) \/ ReadExit
  BY <1>1, ReadStep
<1>2. CASE ForkPlain
  BY <1>2, ForkPlainStep
<1>3. ASSUME NEW k \in Depths, RunPipe(k)
      PROVE  IInv'
  BY <1>3, RunLastStep, MakePipeStep, ForkStep, CloseEndsStep, WaitStep DEF RunPipe
<1>4. CASE Child
  BY <1>4, PlainChildStep, LeftChildStep, RightChildStep DEF Child
<1>5. ASSUME NEW p \in Procs, Quits(p)
      PROVE  IInv'
  BY <1>5, QuitsStep
<1>6. ASSUME NEW p \in Procs, Reads(p) \/ Writes(p)
      PROVE  IInv'
  <2>1. PipesTypeOK(Procs)
    BY IInvTypes
  <2> QED
    BY <1>6, <2>1, FlowType, QuietStep DEF Reads, Writes
<1>7. CASE UNCHANGED vars
  BY <1>7, IInvTypes, QuietStep DEF vars, pipeVars
<1> QED
  BY <1>1, <1>2, <1>3, <1>4, <1>5, <1>6, <1>7 DEF Next

-----------------------------------------------------------------------------
(* The theorems *)

\* eval and run_pipe keep the tree of their processes and the ends each of them has.
THEOREM IInvCorrect == Spec => []IInv
BY InitIInv, IInvStep, PTL DEF Spec

\* No depth of run_pipe uses a pipe or forks a child that the command line has not.
THEOREM TypeCorrect == Spec => []TypeOK
<1>1. IInv => TypeOK
  BY DEF IInv
<1> QED
  BY <1>1, IInvCorrect, PTL

\* The two Waitpid(-1) of run_pipe, at every depth, and the one of eval: the shell
\* prompts over no child, however long the pipeline was and whichever forks failed.
THEOREM PromptsAlone == Spec => []NothingOutlivesTheLine
<1>1. IInv => NothingOutlivesTheLine
  <2> SUFFICES ASSUME IInv, st[Shell] = "prompt", NEW p \in Procs \ {Shell}
               PROVE  st[p] = "none"
    BY DEF NothingOutlivesTheLine
  <2> USE Numbers, Names
  <2>1. NoneBelow(0) /\ st[Left(0)] = "none"
    BY DEF IInv, Tree, TreeAt
  <2>2. PICK k \in Depths : p = Left(k) \/ p = Right(k)
    OBVIOUS
  <2> QED
    BY <2>1, <2>2 DEF NoneBelow
<1> QED
  BY <1>1, IInvCorrect, PTL

\* The closes of run_pipe, of the left child and of the right one leave each pipe with
\* one writer and the readers after it, at every depth.
THEOREM EndsOwned == Spec => []EndsHaveOwners
<1>1. IInv => EndsHaveOwners
  <2> SUFFICES ASSUME IInv, NEW k \in PipeIds, NEW p \in Settled
               PROVE  /\ p \in Writers(k) => p = Left(k)
                      /\ p \in Readers(k) =>
                            p = Right(k) \/ (k + 1 \in Depths /\ p = Left(k + 1))
    BY DEF EndsHaveOwners
  <2> USE Numbers, Names
  <2>1. p \in Procs /\ st[p] \in {"closed", "waited", "program"}
    BY DEF Settled
  <2>2. PICK j \in Depths : p = Left(j) \/ p = Right(j)
    BY <2>1
  <2>3. LeftEnds(j) /\ RightEnds(j)
    BY DEF IInv, Ends
  <2>4. CASE p = Left(j)
    BY <2>1, <2>3, <2>4 DEF LeftEnds, Writers, Readers
  <2>5. CASE p = Right(j)
    BY <2>1, <2>3, <2>5 DEF RightEnds, Writers, Readers
  <2> QED
    BY <2>2, <2>4, <2>5
<1> QED
  BY <1>1, IInvCorrect, PTL
=============================================================================
