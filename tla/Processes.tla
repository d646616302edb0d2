------------------------------ MODULE Processes ------------------------------
(***************************************************************************)
(* The children of the shell, as far as job control can tell them apart:    *)
(* an external component, the operating system, modelled from how the       *)
(* phase-3 shell uses it (fork, setpgid, execvp, kill, waitpid, SIGCHLD).   *)
(*                                                                          *)
(* Pids are handed out in ascending order and never recycled; MaxPid bounds *)
(* the model.  Group 0 stands for the shell's own process group, which is   *)
(* also the terminal's foreground group because the shell never calls       *)
(* tcsetpgrp.                                                               *)
(***************************************************************************)
EXTENDS Integers, FiniteSets

CONSTANTS
    MaxPid,     \* bound: how many children a behaviour may create
    Faults,     \* which calls may fail: subset of {"fork", "pipe", "exec"}
    Env         \* signals from outside the shell: subset of {"stop", "cont"}

ASSUME ProcessesAssumption ==
    /\ MaxPid \in Nat
    /\ Faults \subseteq {"fork", "pipe", "exec"}
    /\ Env \subseteq {"stop", "cont"}

VARIABLES
    proc,       \* proc[p]: what the kernel knows of child p
    chld,       \* a SIGCHLD is pending for the shell
    next_pid    \* the pid the next fork returns

procVars == <<proc, chld, next_pid>>

Pids == 1..MaxPid
ShellGroup == 0

\* A child is free before it is forked; it is live or stopped, a zombie once
\* it terminated, and reaped when the shell has waited for it.  Its image is
\* the shell's own code until execvp succeeds ("fork"), the program's after
\* ("prog"), and stays the shell's when execvp fails ("clone").  rep is the
\* stop or continue that waitpid has not reported yet, the latest only.
ProcRecord ==
    [st : {"free", "live", "stop", "zombie", "reaped"},
     img : {"fork", "prog", "clone"},
     grp : 0..MaxPid,
     bg : BOOLEAN,
     rep : {"none", "stopped", "continued"},
     pend : SUBSET {"INT", "TSTP", "TERM", "KILL"}]

BlankProc == [st |-> "free", img |-> "fork", grp |-> 0, bg |-> FALSE,
              rep |-> "none", pend |-> {}]

ProcTypeOK ==
    /\ proc \in [Pids -> ProcRecord]
    /\ chld \in BOOLEAN
    /\ next_pid \in 1..(MaxPid + 1)

ProcInit ==
    /\ proc = [p \in Pids |-> BlankProc]
    /\ chld = FALSE
    /\ next_pid = 1

Unreaped(p) == proc[p].st \in {"live", "stop", "zombie"}

(* System calls of the shell *)

\* fork and the setpgid that follows it in parent and child, whichever runs
\* first: until then the child still has the shell's handlers.
ForkInto(grp, bg) ==
    /\ next_pid \in Pids
    /\ proc' = [proc EXCEPT ![next_pid] =
                   [BlankProc EXCEPT !.st = "live", !.grp = grp, !.bg = bg]]
    /\ next_pid' = next_pid + 1
    /\ UNCHANGED chld

\* The children that kill(-pgid, sig) reaches.  kill(0, sig) reaches the
\* caller's own group; for pgid -1 the call is kill(1, sig), which is refused.
Members(pgid) == {p \in Pids : Unreaped(p) /\ proc[p].grp = pgid}

KillFails(pgid) == pgid = -1 \/ (pgid > 0 /\ Members(pgid) = {})

\* SIGCONT acts at once, even on a stopped process, and discards a pending
\* stop; any other signal waits until the process runs (SIGKILL excepted).
Signalled(r, sig) ==
    IF sig = "CONT"
    THEN [r EXCEPT !.st = IF @ = "stop" THEN "live" ELSE @,
                   !.rep = IF r.st = "stop" THEN "continued" ELSE @,
                   !.pend = @ \ {"TSTP"}]
    ELSE IF r.st = "zombie" \/ (r.st = "stop" /\ sig = "TSTP")
    THEN r
    ELSE [r EXCEPT !.pend = @ \union {sig}]

kill(pgid, sig) ==
    /\ proc' = [p \in Pids |-> IF p \in Members(pgid)
                               THEN Signalled(proc[p], sig) ELSE proc[p]]
    /\ chld' = (chld \/ (sig = "CONT" /\
                         \E p \in Members(pgid) : proc[p].st = "stop"))
    /\ UNCHANGED next_pid

\* waitpid(-1, WNOHANG | WUNTRACED | WCONTINUED)
Waitable == {p \in Pids : proc[p].st = "zombie" \/ proc[p].rep # "none"}

Report(p) == IF proc[p].st = "zombie" THEN "dead" ELSE proc[p].rep

Collected(p) ==
    IF proc[p].st = "zombie" THEN [BlankProc EXCEPT !.st = "reaped"]
    ELSE [proc[p] EXCEPT !.rep = "none"]

(* Steps of a child *)

Exec(p) ==
    /\ proc[p].st = "live" /\ proc[p].img = "fork"
    /\ proc' = [proc EXCEPT ![p].img = "prog"]
    /\ UNCHANGED <<chld, next_pid>>

\* Execvp prints the error and returns: the child goes on as a second shell.
ExecFails(p) ==
    /\ "exec" \in Faults
    /\ proc[p].st = "live" /\ proc[p].img = "fork"
    /\ proc' = [proc EXCEPT ![p].img = "clone"]
    /\ UNCHANGED <<chld, next_pid>>

Die(p) ==
    /\ proc' = [proc EXCEPT ![p] = [BlankProc EXCEPT !.st = "zombie",
                                                     !.grp = proc[p].grp]]
    /\ chld' = TRUE
    /\ UNCHANGED next_pid

\* A program ends by itself.  So does the clone of a background command, at
\* its own prompt; the clone of a foreground command waits for itself.
Exits(p) ==
    /\ proc[p].st = "live"
    /\ proc[p].img = "prog" \/ (proc[p].img = "clone" /\ proc[p].bg)
    /\ Die(p)

\* SIGINT kills a program; SIGTERM kills the shell's image too, which does
\* not catch it; SIGKILL kills even a stopped process.
KilledBySignal(p) ==
    /\ \/ proc[p].st = "live" /\ proc[p].img = "prog" /\ "INT" \in proc[p].pend
       \/ proc[p].st = "live" /\ "TERM" \in proc[p].pend
       \/ proc[p].st \in {"live", "stop"} /\ "KILL" \in proc[p].pend
    /\ Die(p)

Stop(p) ==
    /\ proc' = [proc EXCEPT ![p].st = "stop", ![p].rep = "stopped",
                            ![p].pend = @ \ {"TSTP"}]
    /\ chld' = TRUE
    /\ UNCHANGED next_pid

StoppedByKey(p) ==
    /\ proc[p].st = "live" /\ proc[p].img = "prog" /\ "TSTP" \in proc[p].pend
    /\ Stop(p)

\* The shell's image still has the shell's SIGINT and SIGTSTP handlers, and a copy of
\* fg_pgid.  Before execvp that is 0, since no launch begins over a foreground job, and
\* the key is lost, as it is in the clone of a background command.  The clone of a
\* foreground command lists its job again: a key that comes after that is sent to its
\* own group over and over, so it need not ever be lost there.
SwallowKey(p) ==
    /\ proc[p].st = "live" /\ proc[p].img # "prog"
    /\ \E sig \in {"INT", "TSTP"} \intersect proc[p].pend :
          proc' = [proc EXCEPT ![p].pend = @ \ {sig}]
    /\ UNCHANGED <<chld, next_pid>>

\* SIGSTOP from elsewhere, or SIGTTIN: a child that reads the terminal is
\* outside the terminal's foreground group.
StoppedFromOutside(p) ==
    /\ "stop" \in Env
    /\ proc[p].st = "live" /\ proc[p].img # "fork"
    /\ Stop(p)

ContinuedFromOutside(p) ==
    /\ "cont" \in Env
    /\ proc[p].st = "stop"
    /\ proc' = [proc EXCEPT ![p] = Signalled(@, "CONT")]
    /\ chld' = TRUE
    /\ UNCHANGED next_pid

Compelled(p) ==
    \/ Exec(p)
    \/ KilledBySignal(p)
    \/ StoppedByKey(p)
    \/ proc[p].img = "fork" /\ SwallowKey(p)

Child(p) ==
    \/ Exec(p)
    \/ ExecFails(p)
    \/ Exits(p)
    \/ KilledBySignal(p)
    \/ StoppedByKey(p)
    \/ SwallowKey(p)
    \/ StoppedFromOutside(p)
    \/ ContinuedFromOutside(p)
=============================================================================
