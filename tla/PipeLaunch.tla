------------------------------ MODULE PipeLaunch ------------------------------
(***************************************************************************)
(* The pipes of the phase-3 shell: the loop of launch_pipeline              *)
(* (sp_prj2/phase3/myshell.c), in which the shell forks every stage itself  *)
(* and hands the reading end of a pipe on in prev_read, and what each stage *)
(* does before it becomes a program.  MyShell models the same loop for its  *)
(* process group and its job and leaves the pipes out.                      *)
(*                                                                          *)
(* A stage whose Execvp fails does not exit: it goes on in the loop as a    *)
(* second shell, with its copy of the locals, launches the stages after it  *)
(* once more and then waits or prompts like the first.  So every process    *)
(* that was not yet replaced by a program has the locals of the loop.  A    *)
(* command line may be launched while earlier pipelines run, by any shell   *)
(* (a second one inherits what stdio has buffered of the input).  The wait  *)
(* for a foreground job is not modelled: a shell need not go on.            *)
(***************************************************************************)
EXTENDS Descriptors

CONSTANTS
    MaxCmds,    \* bound: stages of a command line
    MaxProcs,   \* bound: how many children are ever forked
    MaxLines,   \* bound: how many command lines are launched
    Faults      \* which calls may fail: subset of {"fork", "pipe", "exec"}

ASSUME PipeLaunchAssumption ==
    /\ MaxCmds \in Nat \ {0} /\ MaxProcs \in Nat \ {0} /\ MaxLines \in Nat
    /\ Faults \subseteq {"fork", "pipe", "exec"}

VARIABLES
    st,         \* st[p]: what process p is
    loop,       \* loop[p]: where p is in launch_pipeline, and its locals
    lines,      \* how many command lines were launched
    kin,        \* kin[p]: p and the processes it descends from (history)
    maker,      \* maker[k]: the process that made pipe k (history)
    from,       \* from[k]: the stage forked to write to pipe k (history)
    to          \* to[k]: the stage forked to read pipe k (history)

history == <<kin, maker, from, to>>
vars == <<st, loop, lines, history, pipeVars>>

Shell == 0
Children == 1..MaxProcs
Procs == {Shell} \union Children
NoProc == -1
Closed == -1        \* -1 in the code: no descriptor

\* What a local that names a descriptor may be.
Handles == (Fds \ (0..2)) \union {Closed}

\* stage and last count the stages from 1; rd and wr are fd[0] and fd[1] of the code.
Locals == [pc : {"prompt", "pipe", "fork", "close"}, stage : 1..MaxCmds,
           last : 0..MaxCmds, prev_read : Handles, rd : Handles, wr : Handles]

AtPrompt == [pc |-> "prompt", stage |-> 1, last |-> 0,
             prev_read |-> Closed, rd |-> Closed, wr |-> Closed]

TypeOK ==
    /\ DescriptorsTypeOK(Procs)
    /\ st \in [Procs -> {"none", "forked", "shell", "program", "ended"}]
    /\ loop \in [Procs -> Locals]
    /\ lines \in 0..MaxLines
    /\ kin \in [Procs -> SUBSET Procs]
    /\ maker \in [PipeIds -> Procs \union {NoProc}]
    /\ from \in [PipeIds -> Children \union {NoProc}]
    /\ to \in [PipeIds -> Children \union {NoProc}]
    /\ \A p \in Procs : loop[p].pc # "prompt" => loop[p].stage <= loop[p].last

Init ==
    /\ DescriptorsInit(Procs)
    /\ st = [p \in Procs |-> IF p = Shell THEN "shell" ELSE "none"]
    /\ loop = [p \in Procs |-> AtPrompt]
    /\ lines = 0
    /\ kin = [p \in Procs |-> {p}]
    /\ maker = [k \in PipeIds |-> NoProc]
    /\ from = [k \in PipeIds |-> NoProc]
    /\ to = [k \in PipeIds |-> NoProc]

-----------------------------------------------------------------------------
(* launch_pipeline, in any shell *)

At(q, label) == st[q] = "shell" /\ loop[q].pc = label

Launch(q, n) ==
    /\ lines < MaxLines
    /\ At(q, "prompt")
    /\ loop' = [loop EXCEPT ![q] = [AtPrompt EXCEPT !.pc = "pipe", !.last = n]]
    /\ lines' = lines + 1
    /\ UNCHANGED <<st, history, pipeVars>>

Unmade == {k \in PipeIds : maker[k] = NoProc}

\* A pipe for every stage but the last.
MakePipe(q) ==
    /\ At(q, "pipe")
    /\ loop[q].stage < loop[q].last
    /\ \E k \in Unmade, r, w \in Fds :
          /\ \A j \in Unmade : k <= j
          /\ pipe(q, k, r, w)
          /\ maker' = [maker EXCEPT ![k] = q]
          /\ loop' = [loop EXCEPT ![q].pc = "fork", ![q].rd = r, ![q].wr = w]
    /\ UNCHANGED <<st, lines, kin, from, to>>

\* The launch is given up, also when there is no pipe or no descriptor left;
\* prev_read stays open.
PipeFails(q) ==
    /\ At(q, "pipe")
    /\ loop[q].stage < loop[q].last
    /\ \/ "pipe" \in Faults
       \/ Unmade = {}
       \/ ~\E r, w \in Fds : LowestTwo(fd[q], r, w)
    /\ loop' = [loop EXCEPT ![q] = AtPrompt]
    /\ UNCHANGED <<st, lines, history, pipeVars>>

Unborn == {c \in Children : st[c] = "none"}

\* What a stage that is forked now is to write to and to read.
Output(q) == {k \in PipeIds : loop[q].wr # Closed /\ fd[q][loop[q].wr] = WriteEnd(k)}
Input(q) ==
    {k \in PipeIds : loop[q].prev_read # Closed /\ fd[q][loop[q].prev_read] = ReadEnd(k)}

AtFork(q) == At(q, "fork") \/ (At(q, "pipe") /\ loop[q].stage = loop[q].last)

\* The child has a copy of the locals and of the descriptors.
ForkStage(q) ==
    /\ AtFork(q)
    /\ \E c \in Unborn :
          /\ \A d \in Unborn : c <= d
          /\ st' = [st EXCEPT ![c] = "forked"]
          /\ loop' = [loop EXCEPT ![q].pc = "close", ![c] = loop[q]]
          /\ fd' = [fd EXCEPT ![c] = fd[q]]
          /\ kin' = [kin EXCEPT ![c] = kin[q] \union {c}]
          /\ from' = [k \in PipeIds |-> IF k \in Output(q) THEN c ELSE from[k]]
          /\ to' = [k \in PipeIds |-> IF k \in Input(q) THEN c ELSE to[k]]
    /\ UNCHANGED <<lines, maker, items>>

\* Also when there is no process left.
ForkFails(q) ==
    /\ AtFork(q)
    /\ "fork" \in Faults \/ Unborn = {}
    /\ loop' = [loop EXCEPT ![q].pc = "close"]
    /\ UNCHANGED <<st, lines, history, pipeVars>>

\* Plausible bugs: the shell keeps the end it handed on, or the writing end.
HandedOn_KeepsPrevRead(q) == {loop[q].wr}

HandedOn_KeepsWriter(q) == {loop[q].prev_read}

\* What the shell closes at the end of the loop's body.
HandedOn(q) == {loop[q].prev_read, loop[q].wr}

\* Plausible bug: the loop runs once too often.
NextStage_RunsOn(l) ==
    IF l.stage <= l.last
    THEN [l EXCEPT !.pc = "pipe", !.stage = @ + 1, !.prev_read = l.rd,
                   !.rd = Closed, !.wr = Closed]
    ELSE AtPrompt

\* The locals when the loop goes on, or has ended.
NextStage(l) ==
    IF l.stage < l.last
    THEN [l EXCEPT !.pc = "pipe", !.stage = @ + 1, !.prev_read = l.rd,
                   !.rd = Closed, !.wr = Closed]
    ELSE AtPrompt

CloseEnds(q) ==
    /\ At(q, "close")
    /\ fd' = [fd EXCEPT ![q] = close(fd[q], HandedOn(q))]
    /\ loop' = [loop EXCEPT ![q] = NextStage(loop[q])]
    /\ UNCHANGED <<st, lines, history, items>>

-----------------------------------------------------------------------------
(* The stages *)

\* Plausible bug: the reading end of the stage's own output stays open.
StageFds_KeepsReader(f, l) ==
    close(dup2(dup2(f, l.prev_read, STDIN), l.wr, STDOUT), {l.prev_read, l.wr})

\* dup2 of the ends it uses, and close of its descriptors.
StageFds(f, l) ==
    close(dup2(dup2(f, l.prev_read, STDIN), l.wr, STDOUT), {l.prev_read, l.rd, l.wr})

StartProgram(p) ==
    /\ st[p] = "forked"
    /\ st' = [st EXCEPT ![p] = "program"]
    /\ fd' = [fd EXCEPT ![p] = StageFds(fd[p], loop[p])]
    /\ loop' = [loop EXCEPT ![p] = AtPrompt]
    /\ UNCHANGED <<lines, history, items>>

\* The stage goes on with the closes of line 355, as a shell.
ExecFails(p) ==
    /\ "exec" \in Faults
    /\ st[p] = "forked"
    /\ st' = [st EXCEPT ![p] = "shell"]
    /\ fd' = [fd EXCEPT ![p] = StageFds(fd[p], loop[p])]
    /\ loop' = [loop EXCEPT ![p].pc = "close"]
    /\ UNCHANGED <<lines, history, items>>

Exits(p) ==
    /\ st' = [st EXCEPT ![p] = "ended"]
    /\ fd' = [fd EXCEPT ![p] = NoPipes]
    /\ loop' = [loop EXCEPT ![p] = AtPrompt]
    /\ UNCHANGED <<lines, history, items>>

\* A program, or a shell between two command lines, uses its input and output.
Runs(p) == st[p] = "program" \/ At(p, "prompt")

Reads(p) == Runs(p) /\ ReadItem(p) /\ UNCHANGED <<st, loop, lines, history>>
Writes(p) == Runs(p) /\ WriteItem(p) /\ UNCHANGED <<st, loop, lines, history>>

\* By itself or killed by a signal; a second shell also at the end of its input.
Quits(p) == st[p] \in {"forked", "program", "shell"} /\ Exits(p)

\* A program that reads ends with its input, and SIGPIPE kills one that writes
\* to a pipe nobody can read.
MustEnd(p) == st[p] = "program" /\ (EndOfInput(p) \/ BrokenPipe(p)) /\ Exits(p)

LoopStep(q) ==
    MakePipe(q) \/ PipeFails(q) \/ ForkStage(q) \/ ForkFails(q) \/ CloseEnds(q)

Starts(p) == StartProgram(p) \/ ExecFails(p)

Next ==
    \/ \E p \in Procs :
          \/ \E n \in 1..MaxCmds : Launch(p, n)
          \/ MakePipe(p) \/ PipeFails(p)
          \/ ForkStage(p) \/ ForkFails(p) \/ CloseEnds(p)
          \/ Reads(p) \/ Writes(p)
    \/ \E p \in Children : StartProgram(p) \/ ExecFails(p) \/ Quits(p)

Spec == Init /\ [][Next]_vars

\* A launch goes on; a stage starts its program, or finds that it cannot; a program
\* reads what it can and ends when it must.  No program need write, or end by itself,
\* and no shell need prompt.
Fairness ==
    /\ \A p \in Procs : WF_vars(LoopStep(p))
    /\ \A p \in Children : /\ WF_vars(Starts(p))
                           /\ WF_vars(st[p] = "program" /\ Reads(p))
                           /\ WF_vars(MustEnd(p))

FairSpec == Spec /\ Fairness

-----------------------------------------------------------------------------
(* Properties *)

\* A stage and, if it could not be executed, what it launched as a second shell.
Family(s) == {p \in Procs : s \in kin[p]}

\* Only the family of the stage a pipe comes from can write to it, and its maker
\* between making it and the closes that follow the fork: no later stage and no later
\* command line of another shell, even if a launch was given up.
WritersAreOwners ==
    \A k \in PipeIds : \A p \in Writers(k) :
       \/ p \in Family(from[k])
       \/ /\ p = maker[k] /\ loop[p].pc \in {"fork", "close"}
          /\ fd[p][loop[p].wr] = WriteEnd(k)

\* A pipe that was handed on to a stage can be read by the family of that stage
\* only, once the stage that writes to it has started and the maker has gone on: a
\* writer is never kept alive by a descriptor that a later command line inherited.
ReadersAreNeighbours ==
    \A k \in PipeIds : to[k] # NoProc =>
       \A p \in Readers(k) :
          \/ p \in Family(to[k])
          \/ p = from[k] /\ st[p] = "forked"
          \/ p = maker[k] /\ loop[p].pc = "close"

Gone(s) == \A p \in Family(s) : st[p] = "ended"

\* A program that reads a pipe ends once the family of the stage that writes to it
\* has, whatever other stages and later command lines do.
EndOfFileArrives ==
    \A p \in Children, k \in PipeIds :
       (st[p] = "program" /\ fd[p][STDIN] = ReadEnd(k) /\ Gone(from[k]))
       ~> st[p] = "ended"

\* A program that goes on writing to a pipe that was handed on is killed by SIGPIPE
\* after the family of the stage that reads it has ended, even if stages further down
\* never end.
WriterIsStopped ==
    \A p \in Children, k \in PipeIds :
       (st[p] = "program" /\ fd[p][STDOUT] = WriteEnd(k) /\ to[k] # NoProc /\ Gone(to[k]))
       ~> st[p] = "ended"
=============================================================================
