------------------------------ MODULE PipeShell ------------------------------
(***************************************************************************)
(* The phase-2 shell (sp_prj2/phase2/myshell.c): eval and the recursion of  *)
(* run_pipe over processes.  run_pipe forks a left child for the first      *)
(* command and a right child that calls run_pipe on the others, closes its  *)
(* pipe and waits for both; given one command it becomes that command.      *)
(* The shell and the right children thus run the same code, at depths 0, 1, *)
(* ...; without a pipe in the line, eval forks and waits itself, which is   *)
(* also all that the phase-1 shell does.                                    *)
(***************************************************************************)
EXTENDS Pipes

CONSTANTS
    MaxCmds,    \* bound: commands of a pipeline (MAXCMDS in the code)
    Lines,      \* kinds of lines the user may type
    ForkMayFail

ASSUME PipeShellAssumption ==
    /\ MaxCmds \in Nat \ {0}
    /\ MaxPipes = MaxCmds - 1   \* pipe k is made at depth k - 1
    /\ Lines \subseteq {"plain", "pipe", "lone", "exit"}
    /\ ForkMayFail \in BOOLEAN

VARIABLES
    st,         \* st[p]: where process p is
    cmds        \* the commands of the line, as strtok splits it

vars == <<st, cmds, pipeVars>>

Depths == 0..(MaxCmds - 1)
Shell == <<"R", 0>>
Right(k) == <<"R", k>>      \* runs run_pipe on all but k of the commands
Left(k) == <<"L", k>>       \* runs command k; command 1 of a plain line if 0
Procs == {"L", "R"} \X Depths

\* A command either is a program or makes its process exit at once: it is
\* empty, a builtin, or cannot be executed.
CmdKinds == {"program", "nothing"}

States == {"none", "prompt", "plain", "forked", "start", "piped", "left", "right",
           "closed", "waited", "program", "zombie"}

\* A pipe that run_pipe makes has a command on either side.
BetweenCommands ==
    \A k \in Depths : st[Right(k)] \in {"piped", "left", "right"} => k + 1 < Len(cmds)

TypeOK ==
    /\ PipesTypeOK(Procs)
    /\ st \in [Procs -> States]
    /\ cmds \in UNION {[1..n -> CmdKinds] : n \in 0..MaxCmds}
    /\ BetweenCommands

Init ==
    /\ PipesInit(Procs)
    /\ st = [p \in Procs |-> IF p = Shell THEN "prompt" ELSE "none"]
    /\ cmds = <<>>

Goto(p, label) == st' = [st EXCEPT ![p] = label]

-----------------------------------------------------------------------------
(* eval *)

\* A line without '|'.
ReadPlain(c) ==
    /\ "plain" \in Lines
    /\ st[Shell] = "prompt"
    /\ Goto(Shell, "plain")
    /\ cmds' = <<c>>
    /\ UNCHANGED pipeVars

\* A line with '|' that strtok splits in n commands: strtok skips a leading
\* '|', so a line may have a '|' and a lone command.
ReadPipe(n) ==
    /\ (IF n = 1 THEN "lone" ELSE "pipe") \in Lines
    /\ st[Shell] = "prompt"
    /\ Goto(Shell, "start")
    /\ cmds' \in [1..n -> CmdKinds]
    /\ UNCHANGED pipeVars

ReadExit ==
    /\ "exit" \in Lines
    /\ st[Shell] = "prompt"
    /\ Goto(Shell, "zombie")
    /\ UNCHANGED <<cmds, pipeVars>>

Fork(p, child, label) ==
    \/ /\ st' = [st EXCEPT ![p] = label, ![child] = "forked"]
       /\ Inherit(p, child)
    \/ ForkMayFail /\ Goto(p, label) /\ UNCHANGED pipeVars

ForkPlain ==
    /\ st[Shell] = "plain"
    /\ Fork(Shell, Left(0), "waited")
    /\ UNCHANGED cmds

-----------------------------------------------------------------------------
(* run_pipe at depth k *)

Remaining(k) == Len(cmds) - k

Become(p, c) ==
    IF c = "program" THEN Goto(p, "program") /\ UNCHANGED pipeVars
    ELSE Goto(p, "zombie") /\ CloseAll(p)

\* The last command replaces the process that runs run_pipe, be it the shell.
RunLast(k) ==
    /\ st[Right(k)] = "start"
    /\ Remaining(k) = 1
    /\ Become(Right(k), cmds[k + 1])
    /\ UNCHANGED cmds

\* Plausible bug: the recursion does not stop at one command.
MakePipe_NoBase(k) ==
    /\ st[Right(k)] = "start"
    /\ Remaining(k) > 0
    /\ pipe(Right(k), k + 1)
    /\ Goto(Right(k), "piped")
    /\ UNCHANGED cmds

MakePipe(k) ==
    /\ st[Right(k)] = "start"
    /\ Remaining(k) > 1
    /\ pipe(Right(k), k + 1)
    /\ Goto(Right(k), "piped")
    /\ UNCHANGED cmds

ForkLeft(k) ==
    /\ st[Right(k)] = "piped"
    /\ Fork(Right(k), Left(k + 1), "left")
    /\ UNCHANGED cmds

ForkRight(k) ==
    /\ st[Right(k)] = "left"
    /\ Fork(Right(k), Right(k + 1), "right")
    /\ UNCHANGED cmds

\* Plausible bugs: the writing end, or the reading end, stays open.
CloseEnds_KeepsWriter(k) ==
    /\ st[Right(k)] = "right"
    /\ fd' = [fd EXCEPT ![Right(k)].rds = {}]
    /\ Goto(Right(k), "closed")
    /\ UNCHANGED <<items, cmds>>

CloseEnds_KeepsReader(k) ==
    /\ st[Right(k)] = "right"
    /\ fd' = [fd EXCEPT ![Right(k)].wrs = {}]
    /\ Goto(Right(k), "closed")
    /\ UNCHANGED <<items, cmds>>

CloseEnds(k) ==
    /\ st[Right(k)] = "right"
    /\ fd' = [fd EXCEPT ![Right(k)].rds = {}, ![Right(k)].wrs = {}]
    /\ Goto(Right(k), "closed")
    /\ UNCHANGED <<items, cmds>>

Children(k) == {p \in Procs : \/ k + 1 \in Depths /\ p \in {Left(k + 1), Right(k + 1)}
                              \/ k = 0 /\ p = Left(0)}

\* Plausible bug: one Waitpid only.
AfterWait_Once(k) == IF k = 0 THEN "prompt" ELSE "zombie"

\* The second Waitpid, or what follows it: the prompt, or the right child's exit.
AfterWait(k) == CASE st[Right(k)] = "closed" -> "waited"
                  [] st[Right(k)] = "waited" -> IF k = 0 THEN "prompt" ELSE "zombie"

\* Waitpid(-1): for any child; it fails at once when there is none.
Wait(k) ==
    /\ st[Right(k)] \in {"closed", "waited"}
    /\ \/ \E c \in Children(k) :
             /\ st[c] = "zombie"
             /\ st' = [st EXCEPT ![c] = "none", ![Right(k)] = AfterWait(k)]
       \/ /\ \A c \in Children(k) : st[c] = "none"
          /\ Goto(Right(k), AfterWait(k))
    /\ IF AfterWait(k) = "zombie" THEN CloseAll(Right(k)) ELSE UNCHANGED pipeVars
    /\ UNCHANGED cmds

-----------------------------------------------------------------------------
(* A child after fork *)

\* Plausible bug: the left child keeps the reading end of its own pipe.
LeftFds_KeepsReader(k) == [fd[Left(k)] EXCEPT !.out = k, !.wrs = @ \ {k}]

\* dup2 of the end it uses, and close of both descriptors.
LeftFds(k) == [fd[Left(k)] EXCEPT !.out = k, !.rds = @ \ {k}, !.wrs = @ \ {k}]
RightFds(k) == [fd[Right(k)] EXCEPT !.in = k, !.rds = @ \ {k}, !.wrs = @ \ {k}]

PlainChild ==
    /\ st[Left(0)] = "forked"
    /\ Become(Left(0), cmds[1])
    /\ UNCHANGED cmds

LeftChild(k) ==
    /\ st[Left(k)] = "forked"
    /\ IF cmds[k] = "program"
       THEN /\ Goto(Left(k), "program")
            /\ fd' = [fd EXCEPT ![Left(k)] = LeftFds(k)]
            /\ UNCHANGED items
       ELSE Goto(Left(k), "zombie") /\ CloseAll(Left(k))
    /\ UNCHANGED cmds

RightChild(k) ==
    /\ st[Right(k)] = "forked"
    /\ Goto(Right(k), "start")
    /\ fd' = [fd EXCEPT ![Right(k)] = RightFds(k)]
    /\ UNCHANGED <<items, cmds>>

-----------------------------------------------------------------------------
(* The programs *)

Exits(p) == Goto(p, "zombie") /\ CloseAll(p) /\ UNCHANGED cmds

Reads(p) == st[p] = "program" /\ ReadItem(p) /\ UNCHANGED <<st, cmds>>
Writes(p) == st[p] = "program" /\ WriteItem(p) /\ UNCHANGED <<st, cmds>>
Quits(p) == st[p] = "program" /\ Exits(p)

\* A program that reads ends with its input, and SIGPIPE kills one that writes
\* to a pipe nobody can read.
MustEnd(p) == st[p] = "program" /\ (EndOfInput(p) \/ BrokenPipe(p)) /\ Exits(p)

RunPipe(k) ==
    \/ RunLast(k)
    \/ MakePipe(k)
    \/ ForkLeft(k)
    \/ ForkRight(k)
    \/ CloseEnds(k)
    \/ Wait(k)

Child == PlainChild \/ \E k \in Depths \ {0} : LeftChild(k) \/ RightChild(k)

Next ==
    \/ \E c \in CmdKinds : ReadPlain(c)
    \/ \E n \in 1..MaxCmds : ReadPipe(n)
    \/ ReadExit
    \/ ForkPlain
    \/ \E k \in Depths : RunPipe(k)
    \/ Child
    \/ \E p \in Procs : Reads(p) \/ Writes(p) \/ Quits(p)

Spec == Init /\ [][Next]_vars

\* The shell and its children run; programs read what they can and end when
\* they must.  No program need write, or end by itself.
Fairness ==
    /\ WF_vars(ForkPlain)
    /\ WF_vars(PlainChild)
    /\ \A k \in Depths : WF_vars(RunPipe(k))
    /\ \A k \in Depths \ {0} : WF_vars(LeftChild(k)) /\ WF_vars(RightChild(k))
    /\ \A p \in Procs : WF_vars(Reads(p)) /\ WF_vars(MustEnd(p))

FairSpec == Spec /\ Fairness

-----------------------------------------------------------------------------
(* Properties *)

\* The shell prompts only when every process of the command line, at whatever
\* depth of the recursion, has ended and was waited for: the two Waitpid(-1) of
\* each depth reap exactly the two children forked there.
NothingOutlivesTheLine ==
    st[Shell] = "prompt" => \A p \in Procs \ {Shell} : st[p] = "none"

\* Processes past the close of run_pipe.
Settled == {p \in Procs : st[p] \in {"closed", "waited", "program"}}

\* Among the processes that have closed what run_pipe tells them to close, only
\* the left child can write to a pipe, and only the right child and the command
\* that inherits its input can read it.
EndsHaveOwners ==
    \A k \in PipeIds :
       /\ Writers(k) \intersect Settled \subseteq {Left(k)}
       /\ Readers(k) \intersect Settled
             \subseteq {Right(k)} \union {Left(j) : j \in {k + 1} \intersect Depths}

\* If the first command ends, the whole pipeline does and the shell prompts:
\* every command gets its end of file, whichever descriptors were inherited.
PipelineEnds ==
    (/\ st[Shell] \in {"closed", "waited"}
     /\ Len(cmds) > 1
     /\ st[Left(1)] \in {"none", "zombie"})
    ~> st[Shell] = "prompt"

\* A command that goes on writing is killed by SIGPIPE after all the commands
\* to its right have ended.
WriterIsStopped ==
    \A k \in Depths \ {0} :
       (/\ st[Left(k)] = "program"
        /\ st[Right(k)] \in {"none", "zombie"}
        /\ st[Right(k - 1)] \in {"closed", "waited"})
       ~> st[Left(k)] # "program"
=============================================================================
