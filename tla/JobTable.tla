------------------------------ MODULE JobTable ------------------------------
(***************************************************************************)
(* The job table of the phase-3 shell: a fixed array of MAXJOBS slots, the  *)
(* linear searches over it, and the operations that fill and clear a slot.  *)
(* The table is a function from slots to records; an operation is an        *)
(* operator from tables to tables, and the module that owns the variable    *)
(* says when it is applied.                                                 *)
(*                                                                          *)
(* A job's command line is left out: it is only printed.  Its array of pids *)
(* is a set, because the code only searches it; npids is the bound of that  *)
(* search, so a cleared slot matches no pid.                                *)
(***************************************************************************)
EXTENDS Integers, FiniteSets

CONSTANT MAXJOBS      \* number of slots in the table

ASSUME MAXJOBSAssumption == MAXJOBS \in Nat \ {0}

Slots == 1..MAXJOBS
NoSlot == 0           \* the NULL that the searches return

JobStates == {"EMPTY", "FOREGROUND", "BACKGROUND", "STOPPED"}

\* A slot after memset(job, 0, sizeof(*job)).
EmptyJob == [used |-> FALSE, jid |-> 0, pgid |-> 0, pids |-> {},
             live_count |-> 0, state |-> "EMPTY"]

EmptyTable == [s \in Slots |-> EmptyJob]

\* The slot at which an ascending search stops, or NoSlot.
Least(S) == IF S = {} THEN NoSlot
            ELSE CHOOSE s \in S : \A t \in S : s <= t

Used(jobs) == {s \in Slots : jobs[s].used}

find_job_by_jid(jobs, jid) == Least({s \in Used(jobs) : jobs[s].jid = jid})

find_job_by_pid(jobs, pid) == Least({s \in Used(jobs) : pid \in jobs[s].pids})

\* Plausible bug: any job that is not stopped counts as the foreground one.
find_foreground_job_AnyRunning(jobs) ==
    Least({s \in Used(jobs) : jobs[s].state # "STOPPED"})

find_foreground_job(jobs) ==
    Least({s \in Used(jobs) : jobs[s].state = "FOREGROUND"})

\* What update_fg_pgid stores in fg_pgid.
FgPgid(jobs) ==
    LET s == find_foreground_job(jobs)
    IN  IF s = NoSlot THEN 0 ELSE jobs[s].pgid

FreeSlot(jobs) == Least(Slots \ Used(jobs))

\* Plausible bug: one child too many is counted.
add_job_OneTooMany(jobs, jid, pgid, pids, npids, state) ==
    LET s == FreeSlot(jobs)
    IN  IF s = NoSlot THEN jobs
        ELSE [jobs EXCEPT ![s] =
                [used |-> TRUE, jid |-> jid, pgid |-> pgid, pids |-> pids,
                 live_count |-> npids + 1, state |-> state]]

add_job(jobs, jid, pgid, pids, npids, state) ==
    LET s == FreeSlot(jobs)
    IN  IF s = NoSlot THEN jobs
        ELSE [jobs EXCEPT ![s] =
                [used |-> TRUE, jid |-> jid, pgid |-> pgid, pids |-> pids,
                 live_count |-> npids, state |-> state]]

delete_job(jobs, s) == [jobs EXCEPT ![s] = EmptyJob]

SetState(jobs, s, state) == [jobs EXCEPT ![s].state = state]

\* A child of the job in slot s has terminated: the job goes with its last
\* child.
CountDeath(jobs, s) ==
    LET n == IF jobs[s].live_count > 0 THEN jobs[s].live_count - 1 ELSE 0
    IN  IF n = 0 THEN delete_job(jobs, s)
        ELSE [jobs EXCEPT ![s].live_count = n]

\* Plausible bugs in the handler: a stop is taken for a death; it is noted for
\* a foreground job only; a continue is ignored; a continued job comes back to
\* the foreground.
Record_StopIsDeath(jobs, pid, report) ==
    LET s == find_job_by_pid(jobs, pid)
    IN  IF s = NoSlot \/ report = "continued" THEN jobs ELSE CountDeath(jobs, s)

Record_ForegroundStopsOnly(jobs, pid, report) ==
    LET s == find_job_by_pid(jobs, pid)
    IN  CASE s = NoSlot \/ report = "continued" -> jobs
          [] s # NoSlot /\ report = "stopped" ->
                IF jobs[s].state = "FOREGROUND" THEN SetState(jobs, s, "STOPPED")
                ELSE jobs
          [] s # NoSlot /\ report = "dead" -> CountDeath(jobs, s)

Record_ContinueIgnored(jobs, pid, report) ==
    LET s == find_job_by_pid(jobs, pid)
    IN  CASE s = NoSlot \/ report = "continued" -> jobs
          [] s # NoSlot /\ report = "stopped" -> SetState(jobs, s, "STOPPED")
          [] s # NoSlot /\ report = "dead" -> CountDeath(jobs, s)

Record_ContinueToForeground(jobs, pid, report) ==
    LET s == find_job_by_pid(jobs, pid)
    IN  CASE s = NoSlot -> jobs
          [] s # NoSlot /\ report = "stopped" -> SetState(jobs, s, "STOPPED")
          [] s # NoSlot /\ report = "continued" -> SetState(jobs, s, "FOREGROUND")
          [] s # NoSlot /\ report = "dead" -> CountDeath(jobs, s)

\* The effect on the table of one status that waitpid reports for a child.
Record(jobs, pid, report) ==
    LET s == find_job_by_pid(jobs, pid)
    IN  CASE s = NoSlot -> jobs
          [] s # NoSlot /\ report = "stopped" -> SetState(jobs, s, "STOPPED")
          [] s # NoSlot /\ report = "continued" ->
                IF jobs[s].state = "STOPPED"
                THEN SetState(jobs, s, "BACKGROUND") ELSE jobs
          [] s # NoSlot /\ report = "dead" -> CountDeath(jobs, s)
=============================================================================
