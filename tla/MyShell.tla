------------------------------- MODULE MyShell -------------------------------
(***************************************************************************)
(* The phase-3 shell (sp_prj2/phase3/myshell.c): its main thread, its three *)
(* signal handlers and its children.  The handlers interrupt the main       *)
(* thread, and each other, between any two steps; block_sigchld only holds  *)
(* back the SIGCHLD handler.  Job control has no other synchronisation.     *)
(*                                                                          *)
(* A step of the main thread is what it does between two points at which a  *)
(* handler could see a difference: at most one change of what the handlers  *)
(* share (jobs, fg_pgid), one system call, or one test of fg_pgid.          *)
(***************************************************************************)
EXTENDS JobTable, Processes, Sequences

CONSTANTS
    MaxStages,  \* bound: stages of a command line (MAXCMDS in the code)
    Keys,       \* keys the user may press: subset of {"INT", "TSTP"}
    Commands    \* kinds of command lines the user may type

ASSUME MyShellAssumption ==
    /\ MaxStages \in Nat \ {0}
    /\ Keys \subseteq {"INT", "TSTP"}
    /\ Commands \subseteq {"run", "run&", "jobs", "bg", "fg", "kill", "exit"}
    \* a stage that cannot exec launches the stages after it itself: PipeLaunch has
    \* these processes, which are not children of the shell
    /\ "exec" \in Faults => MaxStages = 1

VARIABLES
    jobs, next_jid, fg_pgid,  \* the static variables of myshell.c
    pc,         \* where the main thread is
    loc,        \* the local variables of the builtin or launch it is in
    blocked,    \* SIGCHLD is in the signal mask
    keys,       \* SIGINT and SIGTSTP pending for the shell
    stack       \* the handlers now running, the innermost last

shellVars == <<jobs, next_jid, fg_pgid, pc, loc, blocked, keys, stack>>
vars == <<shellVars, procVars>>

(* pc says what the main thread does next.  With SIGCHLD blocked:
     launch      fork the next stage, or enter the job in the table
     launched, bg_set, fg_set, kill_found, leave
                 restore the signal mask after what the name says; leave has
                 nothing else to do
   With SIGCHLD unblocked:
     prompt      read a command line
     report      after a launch: clean up, acknowledge, or wait
     bg_kill, fg_kill, kill_send
                 the call of kill in builtin_bg, builtin_fg, builtin_kill
     wait        the test of the loop in wait_for_foreground
     presuspend  about to call sigsuspend
     suspended   in sigsuspend
   exited and killed are the ends of the shell. *)
AfterRestore ==
    [launched |-> "report", bg_set |-> "bg_kill", fg_set |-> "fg_kill",
     kill_found |-> "kill_send", leave |-> "prompt"]

PCs == {"launch", "launched", "bg_set", "fg_set", "kill_found", "leave",
        "prompt", "report", "bg_kill", "fg_kill", "kill_send",
        "wait", "presuspend", "suspended", "exited", "killed"}

Gone == pc \in {"exited", "killed"}

NoLocals == [nseg |-> 0, i |-> 0, bg |-> FALSE, pgid |-> 0, pids |-> {},
             slot |-> NoSlot]

PgidRange == -1..MaxPid

Locals == [nseg : 0..MaxStages, i : 0..MaxStages, bg : BOOLEAN,
           pgid : PgidRange, pids : SUBSET PgidRange, slot : 0..MAXJOBS]

JobRecord == [used : BOOLEAN, jid : Nat, pgid : PgidRange,
              pids : SUBSET PgidRange, live_count : 0..MaxStages,
              state : JobStates]

Frame == [sig : {"CHLD", "INT", "TSTP"}, pgid : PgidRange]

TypeOK ==
    /\ ProcTypeOK
    /\ jobs \in [Slots -> JobRecord]
    /\ next_jid \in Nat
    /\ fg_pgid \in PgidRange
    /\ pc \in PCs
    /\ loc \in Locals
    /\ blocked \in BOOLEAN
    /\ keys \subseteq Keys
    /\ stack \in Seq(Frame)

Init ==
    /\ ProcInit
    /\ jobs = EmptyTable
    /\ next_jid = 1
    /\ fg_pgid = 0
    /\ pc = "prompt"
    /\ loc = NoLocals
    /\ blocked = FALSE
    /\ keys = {}
    /\ stack = <<>>

-----------------------------------------------------------------------------
(* The main thread *)

\* The main thread runs when no handler does.
Main(label) == pc = label /\ stack = <<>>

\* Plausible bug: the signal mask is left as it is.
block_sigchld_Missing == UNCHANGED blocked

block_sigchld == blocked' = TRUE

\* A SIGCHLD that is pending when the mask is restored is handled before
\* sigprocmask returns.
restore_sigmask ==
    /\ blocked' = FALSE
    /\ IF chld THEN /\ stack' = Append(stack, [sig |-> "CHLD", pgid |-> 0])
                    /\ chld' = FALSE
       ELSE UNCHANGED <<stack, chld>>

ToPrompt == pc' = "prompt" /\ loc' = NoLocals

\* A command line that is no builtin: launch_pipeline starts.
ReadLaunch(nseg, bg) ==
    /\ Main("prompt")
    /\ (IF bg THEN "run&" ELSE "run") \in Commands
    /\ next_pid + nseg <= MaxPid + 1
    /\ block_sigchld
    /\ pc' = "launch"
    /\ loc' = [NoLocals EXCEPT !.nseg = nseg, !.bg = bg]
    /\ UNCHANGED <<jobs, next_jid, fg_pgid, keys, stack, procVars>>

\* One turn of the loop.  The first child's pid becomes the group's.
LaunchStage ==
    /\ Main("launch") /\ loc.i < loc.nseg
    /\ LET pgid == IF loc.pgid = 0 THEN next_pid ELSE loc.pgid
       IN  /\ ForkInto(IF pgid = -1 THEN ShellGroup ELSE pgid, loc.bg)
           /\ loc' = [loc EXCEPT !.i = @ + 1, !.pgid = pgid,
                                 !.pids = @ \union {next_pid}]
    /\ UNCHANGED <<jobs, next_jid, fg_pgid, pc, blocked, keys, stack>>

\* Fork returns -1, which launch_pipeline takes for a pid.
ForkFails ==
    /\ "fork" \in Faults
    /\ Main("launch") /\ loc.i < loc.nseg
    /\ loc' = [loc EXCEPT !.i = @ + 1, !.pgid = IF @ = 0 THEN -1 ELSE @,
                          !.pids = @ \union {-1}]
    /\ UNCHANGED <<jobs, next_jid, fg_pgid, pc, blocked, keys, stack, procVars>>

\* The launch is given up; the stages already forked stay.
PipeFails ==
    /\ "pipe" \in Faults
    /\ Main("launch") /\ loc.i < loc.nseg - 1
    /\ pc' = "leave"
    /\ UNCHANGED <<jobs, next_jid, fg_pgid, loc, blocked, keys, stack, procVars>>

\* Plausible bug: the cached group of the foreground job is not refreshed.
AddJob_KeepsFg ==
    /\ Main("launch") /\ loc.i = loc.nseg
    /\ jobs' = add_job(jobs, next_jid, loc.pgid, loc.pids, loc.nseg,
                       IF loc.bg THEN "BACKGROUND" ELSE "FOREGROUND")
    /\ loc' = [loc EXCEPT !.slot = FreeSlot(jobs)]
    /\ next_jid' = IF FreeSlot(jobs) = NoSlot THEN next_jid ELSE next_jid + 1
    /\ pc' = "launched"
    /\ UNCHANGED <<fg_pgid, blocked, keys, stack, procVars>>

AddJob ==
    /\ Main("launch") /\ loc.i = loc.nseg
    /\ jobs' = add_job(jobs, next_jid, loc.pgid, loc.pids, loc.nseg,
                       IF loc.bg THEN "BACKGROUND" ELSE "FOREGROUND")
    /\ LET s == FreeSlot(jobs)
       IN  /\ loc' = [loc EXCEPT !.slot = s]
           /\ IF s = NoSlot THEN UNCHANGED <<next_jid, fg_pgid>>
              ELSE next_jid' = next_jid + 1 /\ fg_pgid' = FgPgid(jobs')
    /\ pc' = "launched"
    /\ UNCHANGED <<blocked, keys, stack, procVars>>

Restore ==
    /\ stack = <<>>
    /\ pc \in DOMAIN AfterRestore
    /\ restore_sigmask
    /\ pc' = AfterRestore[pc]
    /\ loc' = IF pc = "leave" THEN NoLocals ELSE loc
    /\ UNCHANGED <<jobs, next_jid, fg_pgid, keys, proc, next_pid>>

\* Plausible bug: the processes that found no slot are left alone.
TableFull_NoKill ==
    /\ Main("report") /\ loc.slot = NoSlot
    /\ ToPrompt
    /\ UNCHANGED <<jobs, next_jid, fg_pgid, blocked, keys, stack, procVars>>

\* The rest of launch_pipeline.
TableFull ==
    /\ Main("report") /\ loc.slot = NoSlot
    /\ IF loc.pgid > 0 THEN kill(loc.pgid, "KILL") ELSE UNCHANGED procVars
    /\ ToPrompt
    /\ UNCHANGED <<jobs, next_jid, fg_pgid, blocked, keys, stack>>

Acknowledge ==
    /\ Main("report") /\ loc.slot # NoSlot
    /\ IF loc.bg THEN ToPrompt ELSE pc' = "wait" /\ UNCHANGED loc
    /\ UNCHANGED <<jobs, next_jid, fg_pgid, blocked, keys, stack, procVars>>

\* list_jobs; and a builtin that names no job.
ReadJobs ==
    /\ Main("prompt")
    /\ "jobs" \in Commands
    /\ block_sigchld
    /\ pc' = "leave"
    /\ UNCHANGED <<jobs, next_jid, fg_pgid, loc, keys, stack, procVars>>

ReadWrongJob(jid) ==
    /\ Main("prompt")
    /\ Commands \intersect {"bg", "fg", "kill"} # {}
    /\ find_job_by_jid(jobs, jid) = NoSlot
    /\ block_sigchld
    /\ pc' = "leave"
    /\ UNCHANGED <<jobs, next_jid, fg_pgid, loc, keys, stack, procVars>>

ReadBg(jid) ==
    /\ Main("prompt")
    /\ "bg" \in Commands
    /\ LET s == find_job_by_jid(jobs, jid)
       IN  /\ s # NoSlot
           /\ jobs' = SetState(jobs, s, "BACKGROUND")
           /\ loc' = [NoLocals EXCEPT !.slot = s]
    /\ fg_pgid' = FgPgid(jobs')
    /\ block_sigchld
    /\ pc' = "bg_set"
    /\ UNCHANGED <<next_jid, keys, stack, procVars>>

\* job->pgid is read again after the mask was restored.
BgKill ==
    /\ Main("bg_kill")
    /\ kill(jobs[loc.slot].pgid, "CONT")
    /\ ToPrompt
    /\ UNCHANGED <<jobs, next_jid, fg_pgid, blocked, keys, stack>>

ReadFg(jid) ==
    /\ Main("prompt")
    /\ "fg" \in Commands
    /\ LET s == find_job_by_jid(jobs, jid)
       IN  /\ s # NoSlot
           /\ jobs' = SetState(jobs, s, "FOREGROUND")
           /\ loc' = [NoLocals EXCEPT !.pgid = jobs[s].pgid]
    /\ fg_pgid' = FgPgid(jobs')
    /\ block_sigchld
    /\ pc' = "fg_set"
    /\ UNCHANGED <<next_jid, keys, stack, procVars>>

FgKill ==
    /\ Main("fg_kill")
    /\ kill(loc.pgid, "CONT")
    /\ IF KillFails(loc.pgid) THEN ToPrompt ELSE pc' = "wait" /\ UNCHANGED loc
    /\ UNCHANGED <<jobs, next_jid, fg_pgid, blocked, keys, stack>>

ReadKill(jid) ==
    /\ Main("prompt")
    /\ "kill" \in Commands
    /\ LET s == find_job_by_jid(jobs, jid)
       IN  s # NoSlot /\ loc' = [NoLocals EXCEPT !.slot = s]
    /\ block_sigchld
    /\ pc' = "kill_found"
    /\ UNCHANGED <<jobs, next_jid, fg_pgid, keys, stack, procVars>>

\* Group 0 is the shell's own, and the shell does not catch SIGTERM.
KillSend ==
    /\ Main("kill_send")
    /\ LET pgid == jobs[loc.slot].pgid
       IN  /\ kill(pgid, "TERM")
           /\ IF pgid = ShellGroup THEN pc' = "killed" /\ loc' = NoLocals
              ELSE ToPrompt
    /\ UNCHANGED <<jobs, next_jid, fg_pgid, blocked, keys, stack>>

ReadExit ==
    /\ Main("prompt")
    /\ "exit" \in Commands
    /\ pc' = "exited"
    /\ UNCHANGED <<jobs, next_jid, fg_pgid, loc, blocked, keys, stack, procVars>>

(* wait_for_foreground *)

WaitTest ==
    /\ Main("wait")
    /\ IF fg_pgid = loc.pgid THEN pc' = "presuspend" /\ UNCHANGED loc
       ELSE ToPrompt
    /\ UNCHANGED <<jobs, next_jid, fg_pgid, blocked, keys, stack, procVars>>

\* sigsuspend: it returns once a handler that ran meanwhile has returned.
Suspend ==
    /\ Main("presuspend")
    /\ pc' = "suspended"
    /\ UNCHANGED <<jobs, next_jid, fg_pgid, loc, blocked, keys, stack, procVars>>

\* Plausible bug: an if in place of the while around sigsuspend.
Woken_IfInsteadOfWhile == pc' = IF pc = "suspended" THEN "prompt" ELSE pc

Woken == pc' = IF pc = "suspended" THEN "wait" ELSE pc

-----------------------------------------------------------------------------
(* The signal handlers *)

Top == stack[Len(stack)]
Running(sig) == \E n \in DOMAIN stack : stack[n].sig = sig
Return == stack' = SubSeq(stack, 1, Len(stack) - 1)

\* A signal is blocked while its own handler runs, and only then (SIGCHLD
\* also between block_sigchld and restore_sigmask).
DeliverKey(sig) ==
    /\ ~Gone
    /\ sig \in keys
    /\ ~Running(sig)
    /\ keys' = keys \ {sig}
    /\ stack' = Append(stack, [sig |-> sig, pgid |-> fg_pgid])
    /\ Woken
    /\ UNCHANGED <<jobs, next_jid, fg_pgid, loc, blocked, procVars>>

\* sigint_handler and sigtstp_handler, after reading fg_pgid.
ForwardKey(sig) ==
    /\ stack # <<>> /\ Top.sig = sig
    /\ IF Top.pgid > 0 THEN kill(Top.pgid, sig) ELSE UNCHANGED procVars
    /\ Return
    /\ UNCHANGED <<jobs, next_jid, fg_pgid, pc, loc, blocked, keys>>

DeliverChld ==
    /\ ~Gone
    /\ chld /\ ~blocked
    /\ ~Running("CHLD")
    /\ chld' = FALSE
    /\ stack' = Append(stack, [sig |-> "CHLD", pgid |-> 0])
    /\ Woken
    /\ UNCHANGED <<jobs, next_jid, fg_pgid, loc, blocked, keys, proc, next_pid>>

\* One turn of the loop in sigchld_handler; delete_job refreshes fg_pgid.
Reap(p) ==
    /\ stack # <<>> /\ Top.sig = "CHLD"
    /\ p \in Waitable
    /\ jobs' = Record(jobs, p, Report(p))
    /\ proc' = [proc EXCEPT ![p] = Collected(p)]
    /\ fg_pgid' = IF Used(jobs') # Used(jobs) THEN FgPgid(jobs') ELSE fg_pgid
    /\ UNCHANGED <<next_jid, pc, loc, blocked, keys, stack, chld, next_pid>>

\* Plausible bugs: the handler may return while children are waitable, as with
\* an if in place of the while; or does not refresh fg_pgid at its end.
ReapDone_AfterOne ==
    /\ stack # <<>> /\ Top.sig = "CHLD"
    /\ fg_pgid' = FgPgid(jobs)
    /\ Return
    /\ UNCHANGED <<jobs, next_jid, pc, loc, blocked, keys, procVars>>

ReapDone_KeepsFg ==
    /\ stack # <<>> /\ Top.sig = "CHLD"
    /\ Waitable = {}
    /\ Return
    /\ UNCHANGED <<jobs, next_jid, fg_pgid, pc, loc, blocked, keys, procVars>>

ReapDone ==
    /\ stack # <<>> /\ Top.sig = "CHLD"
    /\ Waitable = {}
    /\ fg_pgid' = FgPgid(jobs)
    /\ Return
    /\ UNCHANGED <<jobs, next_jid, pc, loc, blocked, keys, procVars>>

-----------------------------------------------------------------------------
(* The user and the children *)

\* The terminal signals its foreground group: the shell and what is left in
\* the shell's own group.
PressKey(sig) ==
    /\ ~Gone
    /\ keys' = keys \union {sig}
    /\ kill(ShellGroup, sig)
    /\ UNCHANGED <<jobs, next_jid, fg_pgid, pc, loc, blocked, stack>>

\* What becomes of the children once the shell has gone is not modelled.
ChildStep(p) == ~Gone /\ Child(p) /\ UNCHANGED shellVars

Jids == 1..next_jid

Read ==
    \/ \E nseg \in 1..MaxStages, bg \in BOOLEAN : ReadLaunch(nseg, bg)
    \/ ReadJobs
    \/ \E jid \in Jids :
          ReadWrongJob(jid) \/ ReadBg(jid) \/ ReadFg(jid) \/ ReadKill(jid)
    \/ ReadExit

Go ==
    \/ LaunchStage \/ ForkFails \/ PipeFails \/ AddJob \/ Restore
    \/ TableFull \/ Acknowledge
    \/ BgKill \/ FgKill \/ KillSend
    \/ WaitTest \/ Suspend

Handler ==
    \/ \E sig \in Keys : ForwardKey(sig)
    \/ \E p \in Pids : Reap(p)
    \/ ReapDone

Next ==
    \/ Read
    \/ Go
    \/ \E sig \in Keys : DeliverKey(sig)
    \/ DeliverChld
    \/ Handler
    \/ \E sig \in Keys : PressKey(sig)
    \/ \E p \in Pids : ChildStep(p)

Spec == Init /\ [][Next]_vars
-----------------------------------------------------------------------------
(* Safety *)

Waiting == pc \in {"wait", "presuspend", "suspended"}

ForegroundJobs == {s \in Used(jobs) : jobs[s].state = "FOREGROUND"}

\* At most one job is in the foreground, and while it is, the main thread is
\* on its way to waiting for it: the shell never prompts (or runs a builtin
\* on another job) over a foreground job.
ForegroundIsAwaited ==
    \A s \in ForegroundJobs :
       /\ pc \in {"launched", "report", "fg_set", "fg_kill"} \/ Waiting
       /\ jobs[s].pgid = loc.pgid

\* Whenever sigchld_handler is not running, the cached fg_pgid that the key
\* handlers and wait_for_foreground trust is the group of the foreground job,
\* or 0 when there is none.
FgPgidExact == ~Running("CHLD") => fg_pgid = FgPgid(jobs)

\* live_count counts the children of the job that were not reaped yet, it is
\* never 0 in a job that is listed, and these children are exactly the process
\* group that the shell signals for the job.
LiveCountExact ==
    \A s \in Used(jobs) :
       /\ Members(jobs[s].pgid) = {p \in Pids : p \in jobs[s].pids /\ Unreaped(p)}
       /\ jobs[s].live_count = Cardinality(Members(jobs[s].pgid))
       /\ jobs[s].live_count > 0

\* Every child that the shell has not reaped belongs to a listed job or to the
\* launch in progress; the only others were sent SIGKILL, for want of a slot.
NoLostChild ==
    \A p \in Pids :
       Unreaped(p) => \/ find_job_by_pid(jobs, p) # NoSlot
                      \/ p \in loc.pids
                      \/ proc[p].st = "zombie"
                      \/ "KILL" \in proc[p].pend

\* Ctrl-C and Ctrl-Z are forwarded only to children of the command that the main
\* thread launched in the foreground or moved there, and has not turned away from,
\* whatever sigchld_handler did since the key's handler read fg_pgid.  The command may
\* have been stopped, or even run in the background, by then: between reading and
\* signalling nothing keeps it the "current" group of sp_prj2/phase3/README.md:32.
KeysReachOnlyTheAwaitedJob ==
    [][\A p \in Pids :
          (proc'[p].pend \ proc[p].pend) \intersect {"INT", "TSTP"} # {}
          => proc[p].grp = loc.pgid /\ ~loc.bg]_vars

\* When no signal is on its way and no builtin is half done, a job of one
\* process is listed as stopped exactly when its process is stopped, in
\* whatever order stops, continues, fg and bg met.
Settled == stack = <<>> /\ ~chld /\ pc \in {"prompt", "suspended"}

StateTellsTheTruth ==
    Settled =>
       \A s \in Used(jobs), p \in Pids :
          jobs[s].pids = {p}
          => (jobs[s].state = "STOPPED" <=> proc[p].st = "stop")

\* Even when forks and pipes fail, a job is dropped from the table only when none
\* of its children is left to be reaped.
JobOutlivesItsChildren ==
    [][\A s \in Used(jobs) \ Used(jobs') :
          \A p \in Pids : p \in jobs[s].pids => ~Unreaped(p)']_vars

-----------------------------------------------------------------------------
(* The shell implements job control: job ids are the abstract jobs. *)

JobWith(jid) == CHOOSE s \in Used(jobs) : jobs[s].jid = jid

JC == INSTANCE JobControl WITH
         state <- [jid \in {jobs[s].jid : s \in Used(jobs)} |->
                      jobs[JobWith(jid)].state],
         next <- next_jid,
         prompting <- pc \in {"prompt", "exited", "killed"}

\* Every step of the shell and of its children is a step of JobControl: the
\* prompt never returns over a foreground job, only fg and a launch put a job
\* in the foreground, job ids are never reused.
ImplementsJobControl == JC!Spec

-----------------------------------------------------------------------------
(* Liveness *)

\* The handlers return and the main thread runs between two key presses, since
\* keys come slowly; a child that has a deadly or stopping signal obeys.  No
\* program need end, and the user need not type.
Fairness ==
    /\ SF_vars(Go)
    /\ SF_vars(\E p \in Pids : Reap(p))
    /\ SF_vars(ReapDone)
    /\ WF_vars(DeliverChld)
    /\ \A sig \in Keys : WF_vars(DeliverKey(sig)) /\ SF_vars(ForwardKey(sig))
    /\ \A p \in Pids : WF_vars(~Gone /\ Compelled(p) /\ UNCHANGED shellVars)

FairSpec == Spec /\ Fairness

\* No zombie stays for ever, although signals of several children merge into
\* one and children go on changing state while the handler runs.
ZombiesAreReaped ==
    \A p \in Pids : proc[p].st = "zombie" ~> (proc[p].st = "reaped" \/ Gone)

\* A job of one process that stays stopped is eventually listed as stopped.
StopIsNoticed ==
    \A p \in Pids :
       proc[p].st = "stop" ~>
          \/ proc[p].st # "stop"
          \/ \E s \in Used(jobs) :
                p \in jobs[s].pids /\ (jobs[s].pids = {p} => jobs[s].state = "STOPPED")
          \/ Gone

NoForegroundJob == ForegroundJobs = {}

\* Asleep in wait_for_foreground after its job has finished or stopped, the shell
\* wakes up and prompts when a key is pressed.
KeyEndsTheWait ==
    (pc = "suspended" /\ NoForegroundJob /\ keys # {}) ~> ~Waiting

\* wait_for_foreground ends once the foreground job has finished or stopped.
WaitEnds == (Waiting /\ NoForegroundJob) ~> ~Waiting

-----------------------------------------------------------------------------
(* What the README says and the code does not do *)

\* "kill %jobid : terminate a job", a job and not the shell.
KillSparesTheShell == pc # "killed"

\* A job that is waited for in the foreground is waited for until it finishes
\* or stops: it is not running in the background when the wait ends.
WaitLastsUntilStopOrEnd ==
    [][pc = "wait" /\ pc' = "prompt" =>
          \A s \in Used(jobs) :
             jobs[s].pgid = loc.pgid => jobs[s].state = "STOPPED"]_vars
=============================================================================
