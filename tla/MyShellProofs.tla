---------------------------- MODULE MyShellProofs ----------------------------
(***************************************************************************)
(* Theorems about the phase-3 shell, for every size of the job table, every *)
(* number of children and pipeline stages, and every choice of faults, keys *)
(* and commands unless a theorem says otherwise: the foreground and the      *)
(* counts; the children and the signals they get and send; and that every    *)
(* step is a step of JobControl or none.                                     *)
(***************************************************************************)
EXTENDS MyShell, FiniteSetTheorems, SequenceTheorems, WellFoundedInduction, TLAPS

-----------------------------------------------------------------------------
(* The searches of the job table *)

\* An ascending search finds the least slot of a non-empty set.
LEMMA LeastIsMinimum ==
    ASSUME NEW S \in SUBSET Slots, S # {}
    PROVE  Least(S) \in S /\ \A t \in S : Least(S) <= t
<1>1. IsWellFoundedOn(OpToRel(<, Nat), Nat)
  BY NatLessThanWellFounded
<1>2. S \subseteq Nat
  BY MAXJOBSAssumption DEF Slots
<1>3. \E x \in S : \A y \in S : ~(<<y, x>> \in OpToRel(<, Nat))
  BY <1>1, <1>2, WFMin, Zenon
<1>4. ASSUME NEW x \in Nat, NEW y \in Nat
      PROVE  <<y, x>> \in OpToRel(<, Nat) <=> y < x
  BY DEF OpToRel
<1>5. PICK x \in S : \A y \in S : ~(<<y, x>> \in OpToRel(<, Nat))
  BY <1>3
<1>6. ASSUME NEW y \in S PROVE x <= y
  <2>1. x \in Nat /\ y \in Nat
    BY <1>2
  <2>2. ~(y < x)
    BY <1>4, <1>5, <2>1
  <2> QED
    BY <2>1, <2>2
<1> QED
  BY <1>6, S # {} DEF Least

LEMMA LeastType ==
    ASSUME NEW S \in SUBSET Slots
    PROVE  /\ Least(S) \in 0..MAXJOBS
           /\ Least(S) = NoSlot <=> S = {}
           /\ Least(S) # NoSlot => Least(S) \in S
<1>1. CASE S = {}
  BY <1>1, MAXJOBSAssumption DEF Least, NoSlot
<1>2. CASE S # {}
  <2>1. Least(S) \in S
    BY <1>2, LeastIsMinimum
  <2>2. Least(S) \in 1..MAXJOBS
    BY <2>1 DEF Slots
  <2>3. Least(S) \in 0..MAXJOBS /\ Least(S) # 0
    BY <2>2, MAXJOBSAssumption
  <2> QED
    BY <1>2, <2>1, <2>3 DEF NoSlot
<1> QED
  BY <1>1, <1>2

\* What the searches return is NULL or a slot that they were looking for.
LEMMA FindByJid ==
    ASSUME NEW J, NEW jid
    PROVE  LET s == find_job_by_jid(J, jid)
           IN  /\ s \in 0..MAXJOBS
               /\ s # NoSlot => s \in Used(J) /\ J[s].jid = jid
BY LeastType DEF find_job_by_jid, Used

LEMMA FindByPid ==
    ASSUME NEW J, NEW pid
    PROVE  LET s == find_job_by_pid(J, pid)
           IN  /\ s \in 0..MAXJOBS
               /\ s # NoSlot => s \in Used(J) /\ pid \in J[s].pids
               /\ s = NoSlot => \A t \in Used(J) : pid \notin J[t].pids
BY LeastType DEF find_job_by_pid, Used

LEMMA FindForeground ==
    ASSUME NEW J
    PROVE  LET s == find_foreground_job(J)
           IN  /\ s \in 0..MAXJOBS
               /\ s # NoSlot => s \in Used(J) /\ J[s].state = "FOREGROUND"
               /\ s = NoSlot => \A t \in Used(J) : J[t].state # "FOREGROUND"
BY LeastType DEF find_foreground_job, Used

LEMMA FindFree ==
    ASSUME NEW J
    PROVE  LET s == FreeSlot(J)
           IN  /\ s \in 0..MAXJOBS
               /\ s # NoSlot => s \in Slots /\ ~J[s].used
BY LeastType DEF FreeSlot, Used

-----------------------------------------------------------------------------
(* Types *)

Table == [Slots -> JobRecord]

LEMMA EmptyJobType == EmptyJob \in JobRecord
BY MyShellAssumption, ProcessesAssumption
   DEF EmptyJob, JobRecord, PgidRange, JobStates

LEMMA FgPgidType ==
    ASSUME NEW J \in Table
    PROVE  FgPgid(J) \in PgidRange
BY FindForeground, ProcessesAssumption
   DEF FgPgid, Table, JobRecord, PgidRange, Used, NoSlot

LEMMA SetStateType ==
    ASSUME NEW J \in Table, NEW s \in Slots, NEW state \in JobStates
    PROVE  SetState(J, s, state) \in Table
BY DEF SetState, Table, JobRecord

LEMMA DeleteType ==
    ASSUME NEW J \in Table, NEW s \in Slots
    PROVE  delete_job(J, s) \in Table
BY EmptyJobType DEF delete_job, Table

LEMMA CountDeathType ==
    ASSUME NEW J \in Table, NEW s \in Slots
    PROVE  CountDeath(J, s) \in Table
<1> DEFINE n == IF J[s].live_count > 0 THEN J[s].live_count - 1 ELSE 0
<1>1. n \in 0..MaxStages
  BY MyShellAssumption DEF Table, JobRecord
<1>2. [J EXCEPT ![s].live_count = n] \in Table
  BY <1>1 DEF Table, JobRecord
<1> QED
  BY <1>2, DeleteType DEF CountDeath

LEMMA RecordType ==
    ASSUME NEW J \in Table, NEW pid,
           NEW report \in {"stopped", "continued", "dead"}
    PROVE  Record(J, pid, report) \in Table
<1> DEFINE s == find_job_by_pid(J, pid)
<1>1. s = NoSlot \/ s \in Slots
  BY FindByPid DEF Used
<1>2. "STOPPED" \in JobStates /\ "BACKGROUND" \in JobStates
  BY DEF JobStates
<1> QED
  BY <1>1, <1>2, SetStateType, CountDeathType DEF Record

LEMMA AddJobType ==
    ASSUME NEW J \in Table, NEW jid \in Nat, NEW pgid \in PgidRange,
           NEW pids \in SUBSET PgidRange, NEW n \in 0..MaxStages,
           NEW state \in JobStates
    PROVE  add_job(J, jid, pgid, pids, n, state) \in Table
<1> DEFINE r == [used |-> TRUE, jid |-> jid, pgid |-> pgid, pids |-> pids,
                 live_count |-> n, state |-> state]
<1>1. r \in JobRecord
  BY DEF JobRecord
<1>2. FreeSlot(J) = NoSlot \/ FreeSlot(J) \in Slots
  BY FindFree
<1> QED
  BY <1>1, <1>2 DEF add_job, Table

Signals == {"INT", "TSTP", "TERM", "KILL", "CONT"}

LEMMA SignalledType ==
    ASSUME NEW r \in ProcRecord, NEW sig \in Signals
    PROVE  Signalled(r, sig) \in ProcRecord
BY DEF Signalled, ProcRecord, Signals

LEMMA KillType ==
    ASSUME ProcTypeOK, NEW pgid, NEW sig \in Signals, kill(pgid, sig)
    PROVE  ProcTypeOK'
<1>1. \A p \in Pids : Signalled(proc[p], sig) \in ProcRecord
  BY SignalledType DEF ProcTypeOK
<1>2. proc' \in [Pids -> ProcRecord]
  BY <1>1 DEF kill, ProcTypeOK
<1>3. chld' \in BOOLEAN /\ next_pid' \in 1..(MaxPid + 1)
  BY DEF kill, ProcTypeOK
<1> QED
  BY <1>2, <1>3 DEF ProcTypeOK

LEMMA BlankType == BlankProc \in ProcRecord
BY ProcessesAssumption DEF BlankProc, ProcRecord

LEMMA ForkType ==
    ASSUME ProcTypeOK, NEW grp \in 0..MaxPid, NEW bg \in BOOLEAN,
           ForkInto(grp, bg)
    PROVE  ProcTypeOK'
<1>1. [BlankProc EXCEPT !.st = "live", !.grp = grp, !.bg = bg] \in ProcRecord
  BY DEF BlankProc, ProcRecord
<1>2. proc' \in [Pids -> ProcRecord]
  BY <1>1 DEF ForkInto, ProcTypeOK
<1>3. next_pid' \in 1..(MaxPid + 1)
  BY ProcessesAssumption DEF ForkInto, Pids, ProcTypeOK
<1> QED
  BY <1>2, <1>3 DEF ForkInto, ProcTypeOK

LEMMA DieType ==
    ASSUME ProcTypeOK, NEW p \in Pids, Die(p)
    PROVE  ProcTypeOK'
<1>1. proc[p].grp \in 0..MaxPid
  BY DEF ProcTypeOK, ProcRecord
<1>2. [BlankProc EXCEPT !.st = "zombie", !.grp = proc[p].grp] \in ProcRecord
  BY <1>1 DEF BlankProc, ProcRecord
<1>3. proc' \in [Pids -> ProcRecord]
  BY <1>2 DEF Die, ProcTypeOK
<1> QED
  BY <1>3 DEF Die, ProcTypeOK

LEMMA StopType ==
    ASSUME ProcTypeOK, NEW p \in Pids, Stop(p)
    PROVE  ProcTypeOK'
<1>1. proc[p] \in ProcRecord
  BY DEF ProcTypeOK
<1>2. proc' \in [Pids -> ProcRecord]
  BY <1>1 DEF Stop, ProcTypeOK, ProcRecord
<1> QED
  BY <1>2 DEF Stop, ProcTypeOK

\* Whatever a child does, the kernel's record of it keeps its type.
LEMMA ChildType ==
    ASSUME ProcTypeOK, NEW p \in Pids, Child(p)
    PROVE  ProcTypeOK'
<1>1. proc[p] \in ProcRecord
  BY DEF ProcTypeOK
<1>2. CASE Exec(p)
  BY <1>1, <1>2 DEF Exec, ProcTypeOK, ProcRecord
<1>3. CASE ExecFails(p)
  BY <1>1, <1>3 DEF ExecFails, ProcTypeOK, ProcRecord
<1>4. CASE Exits(p)
  BY <1>4, DieType DEF Exits
<1>5. CASE KilledBySignal(p)
  BY <1>5, DieType DEF KilledBySignal
<1>6. CASE StoppedByKey(p)
  BY <1>6, StopType DEF StoppedByKey
<1>7. CASE SwallowKey(p)
  <2>1. PICK sig : proc' = [proc EXCEPT ![p].pend = @ \ {sig}]
    BY <1>7 DEF SwallowKey
  <2> QED
    BY <1>1, <1>7, <2>1 DEF SwallowKey, ProcTypeOK, ProcRecord
<1>8. CASE StoppedFromOutside(p)
  BY <1>8, StopType DEF StoppedFromOutside
<1>9. CASE ContinuedFromOutside(p)
  <2>1. Signalled(proc[p], "CONT") \in ProcRecord
    BY <1>1, SignalledType DEF Signals
  <2> QED
    BY <1>9, <2>1 DEF ContinuedFromOutside, ProcTypeOK
<1> QED
  BY <1>2, <1>3, <1>4, <1>5, <1>6, <1>7, <1>8, <1>9 DEF Child

LEMMA CollectedType ==
    ASSUME ProcTypeOK, NEW p \in Pids
    PROVE  Collected(p) \in ProcRecord
<1>1. [BlankProc EXCEPT !.st = "reaped"] \in ProcRecord
  BY BlankType DEF BlankProc, ProcRecord
<1>2. [proc[p] EXCEPT !.rep = "none"] \in ProcRecord
  BY DEF ProcTypeOK, ProcRecord
<1> QED
  BY <1>1, <1>2 DEF Collected

(* The stack of handlers *)

ChldFrame == [sig |-> "CHLD", pgid |-> 0]

LEMMA PushType ==
    ASSUME stack \in Seq(Frame), NEW f \in Frame
    PROVE  Append(stack, f) \in Seq(Frame)
BY AppendProperties

LEMMA ChldFrameType == ChldFrame \in Frame
BY ProcessesAssumption DEF ChldFrame, Frame, PgidRange

LEMMA ReturnType ==
    ASSUME stack \in Seq(Frame), stack # <<>>, Return
    PROVE  stack' \in Seq(Frame)
<1>1. Len(stack) \in Nat /\ \A i \in 1..(Len(stack) - 1) : stack[i] \in Frame
  OBVIOUS
<1> QED
  BY <1>1, SubSeqProperties DEF Return

LEMMA NoLocalsType == NoLocals \in Locals
BY MyShellAssumption, MAXJOBSAssumption, ProcessesAssumption
   DEF NoLocals, Locals, PgidRange, NoSlot

-----------------------------------------------------------------------------
(* Every variable keeps its type. *)

LEMMA TypeInit == Init => TypeOK
<1> SUFFICES ASSUME Init PROVE TypeOK
  OBVIOUS
<1>1. ProcTypeOK
  <2>1. proc \in [Pids -> ProcRecord]
    BY BlankType DEF Init, ProcInit
  <2>2. next_pid \in 1..(MaxPid + 1)
    BY ProcessesAssumption DEF Init, ProcInit
  <2> QED
    BY <2>1, <2>2 DEF Init, ProcInit, ProcTypeOK
<1>2. jobs \in [Slots -> JobRecord]
  BY EmptyJobType DEF Init, EmptyTable
<1>3. fg_pgid \in PgidRange
  BY ProcessesAssumption DEF Init, PgidRange
<1>4. stack \in Seq(Frame)
  BY DEF Init
<1>5. loc \in Locals /\ pc \in PCs /\ next_jid \in Nat
  BY NoLocalsType DEF Init, PCs
<1> QED
  BY <1>1, <1>2, <1>3, <1>4, <1>5 DEF Init, TypeOK

LEMMA TypeStep ==
    ASSUME TypeOK, [Next]_vars
    PROVE  TypeOK'
<1> USE DEF TypeOK
<1>1. jobs \in Table
  BY DEF Table
<1>2. jobs' \in Table => FgPgid(jobs') \in PgidRange
  BY FgPgidType
<1>3. FgPgid(jobs) \in PgidRange
  BY <1>1, FgPgidType
<1>4. ASSUME NEW nseg \in 1..MaxStages, NEW bg \in BOOLEAN, ReadLaunch(nseg, bg)
      PROVE  TypeOK'
  <2>1. nseg \in 0..MaxStages
    BY MyShellAssumption
  <2>2. loc' \in Locals
    BY <1>4, <2>1, NoLocalsType DEF ReadLaunch, NoLocals, Locals
  <2> QED
    BY <1>4, <2>2 DEF ReadLaunch, block_sigchld, PCs, procVars, ProcTypeOK
<1>5. CASE LaunchStage
  <2> DEFINE pgid == IF loc.pgid = 0 THEN next_pid ELSE loc.pgid
             grp == IF pgid = -1 THEN ShellGroup ELSE pgid
  <2>1. ForkInto(grp, loc.bg) /\ next_pid \in 1..MaxPid
    BY <1>5 DEF LaunchStage, ForkInto, Pids
  <2>2. pgid \in PgidRange /\ grp \in 0..MaxPid /\ next_pid \in PgidRange
    BY <2>1, ProcessesAssumption DEF Locals, PgidRange, ShellGroup
  <2>3. ProcTypeOK'
    BY <2>1, <2>2, ForkType DEF Locals
  <2>4. loc.i + 1 \in 0..MaxStages
    BY <1>5, MyShellAssumption DEF LaunchStage, Locals
  <2>5. loc' = [loc EXCEPT !.i = @ + 1, !.pgid = pgid,
                           !.pids = @ \union {next_pid}]
    BY <1>5 DEF LaunchStage
  <2>6. loc' \in Locals
    BY <2>2, <2>4, <2>5 DEF Locals
  <2> QED
    BY <1>5, <2>3, <2>6 DEF LaunchStage
<1>6. CASE ForkFails
  <2>1. loc.i + 1 \in 0..MaxStages
    BY <1>6, MyShellAssumption DEF ForkFails, Locals
  <2>2. -1 \in PgidRange
    BY ProcessesAssumption DEF PgidRange
  <2>3. loc' \in Locals
    BY <1>6, <2>1, <2>2 DEF ForkFails, Locals
  <2> QED
    BY <1>6, <2>3 DEF ForkFails, procVars, ProcTypeOK
<1>7. CASE PipeFails
  BY <1>7 DEF PipeFails, PCs, procVars, ProcTypeOK
<1>8. CASE AddJob
  <2> DEFINE state == IF loc.bg THEN "BACKGROUND" ELSE "FOREGROUND"
  <2>1. state \in JobStates
    BY DEF JobStates
  <2>2. jobs' \in Table
    BY <1>1, <1>8, <2>1, AddJobType DEF AddJob, Locals
  <2>3. FreeSlot(jobs) \in 0..MAXJOBS
    BY FindFree
  <2>4. loc' \in Locals
    BY <1>8, <2>3 DEF AddJob, Locals
  <2>5. next_jid' \in Nat /\ fg_pgid' \in PgidRange
    BY <1>2, <1>8, <2>2 DEF AddJob
  <2> QED
    BY <1>8, <2>2, <2>4, <2>5 DEF AddJob, Table, PCs, procVars, ProcTypeOK
<1>9. CASE Restore
  <2>1. stack' \in Seq(Frame) /\ chld' \in BOOLEAN
    BY <1>9, PushType, ChldFrameType
       DEF Restore, restore_sigmask, ChldFrame, ProcTypeOK
  <2>2. pc' \in PCs
    BY <1>9 DEF Restore, AfterRestore, PCs
  <2>3. loc' \in Locals
    BY <1>9, NoLocalsType DEF Restore
  <2> QED
    BY <1>9, <2>1, <2>2, <2>3 DEF Restore, restore_sigmask, ProcTypeOK
<1>10. CASE TableFull
  <2>1. ProcTypeOK'
    BY <1>10, KillType DEF TableFull, Signals, procVars, ProcTypeOK
  <2> QED
    BY <1>10, <2>1, NoLocalsType DEF TableFull, ToPrompt, PCs
<1>11. CASE Acknowledge
  BY <1>11, NoLocalsType
     DEF Acknowledge, ToPrompt, PCs, procVars, ProcTypeOK
<1>12. CASE ReadJobs
  BY <1>12 DEF ReadJobs, block_sigchld, PCs, procVars, ProcTypeOK
<1>13. ASSUME NEW jid \in Jids, ReadWrongJob(jid)
       PROVE  TypeOK'
  BY <1>13 DEF ReadWrongJob, block_sigchld, PCs, procVars, ProcTypeOK
<1>14. ASSUME NEW jid \in Jids, ReadBg(jid)
       PROVE  TypeOK'
  <2> DEFINE s == find_job_by_jid(jobs, jid)
  <2>1. s \in Slots /\ s \in 0..MAXJOBS
    BY <1>14, FindByJid DEF ReadBg, Used
  <2>2. jobs' \in Table
    BY <1>1, <1>14, <2>1, SetStateType DEF ReadBg, JobStates
  <2>3. loc' \in Locals
    BY <1>14, <2>1, NoLocalsType DEF ReadBg, NoLocals, Locals
  <2> QED
    BY <1>2, <1>14, <2>2, <2>3
       DEF ReadBg, Table, block_sigchld, PCs, procVars, ProcTypeOK
<1>15. CASE BgKill
  <2>1. ProcTypeOK'
    BY <1>15, KillType DEF BgKill, Signals
  <2> QED
    BY <1>15, <2>1, NoLocalsType DEF BgKill, ToPrompt, PCs
<1>16. ASSUME NEW jid \in Jids, ReadFg(jid)
       PROVE  TypeOK'
  <2> DEFINE s == find_job_by_jid(jobs, jid)
  <2>1. s \in Slots
    BY <1>16, FindByJid DEF ReadFg, Used
  <2>2. jobs' \in Table
    BY <1>1, <1>16, <2>1, SetStateType DEF ReadFg, JobStates
  <2>3. jobs[s].pgid \in PgidRange
    BY <2>1 DEF JobRecord
  <2>4. loc' \in Locals
    BY <1>16, <2>3, NoLocalsType DEF ReadFg, NoLocals, Locals
  <2> QED
    BY <1>2, <1>16, <2>2, <2>4
       DEF ReadFg, Table, block_sigchld, PCs, procVars, ProcTypeOK
<1>17. CASE FgKill
  <2>1. ProcTypeOK'
    BY <1>17, KillType DEF FgKill, Signals
  <2> QED
    BY <1>17, <2>1, NoLocalsType DEF FgKill, ToPrompt, PCs
<1>18. ASSUME NEW jid \in Jids, ReadKill(jid)
       PROVE  TypeOK'
  <2>1. find_job_by_jid(jobs, jid) \in 0..MAXJOBS
    BY FindByJid
  <2>2. loc' \in Locals
    BY <1>18, <2>1, NoLocalsType DEF ReadKill, NoLocals, Locals
  <2> QED
    BY <1>18, <2>2 DEF ReadKill, block_sigchld, PCs, procVars, ProcTypeOK
<1>19. CASE KillSend
  <2>1. ProcTypeOK'
    BY <1>19, KillType DEF KillSend, Signals
  <2> QED
    BY <1>19, <2>1, NoLocalsType DEF KillSend, ToPrompt, PCs
<1>20. CASE ReadExit
  BY <1>20 DEF ReadExit, PCs, procVars, ProcTypeOK
<1>21. CASE WaitTest
  BY <1>21, NoLocalsType DEF WaitTest, ToPrompt, PCs, procVars, ProcTypeOK
<1>22. CASE Suspend
  BY <1>22 DEF Suspend, PCs, procVars, ProcTypeOK
<1>23. ASSUME NEW sig \in Keys, DeliverKey(sig)
       PROVE  TypeOK'
  <2>1. [sig |-> sig, pgid |-> fg_pgid] \in Frame
    BY MyShellAssumption DEF Frame
  <2>2. stack' \in Seq(Frame)
    BY <1>23, <2>1, PushType DEF DeliverKey
  <2> QED
    BY <1>23, <2>2 DEF DeliverKey, Woken, PCs, procVars, ProcTypeOK
<1>24. CASE DeliverChld
  <2>1. stack' \in Seq(Frame)
    BY <1>24, PushType, ChldFrameType DEF DeliverChld, ChldFrame
  <2> QED
    BY <1>24, <2>1 DEF DeliverChld, Woken, PCs, ProcTypeOK
<1>25. ASSUME NEW sig \in Keys, ForwardKey(sig)
       PROVE  TypeOK'
  <2>1. sig \in Signals
    BY MyShellAssumption DEF Signals
  <2>2. ProcTypeOK'
    BY <1>25, <2>1, KillType DEF ForwardKey, procVars, ProcTypeOK
  <2>3. stack' \in Seq(Frame)
    BY <1>25, ReturnType DEF ForwardKey
  <2> QED
    BY <1>25, <2>2, <2>3 DEF ForwardKey
<1>26. ASSUME NEW p \in Pids, Reap(p)
       PROVE  TypeOK'
  <2>1. Report(p) \in {"stopped", "continued", "dead"}
    BY <1>26 DEF Reap, Report, Waitable, ProcTypeOK, ProcRecord
  <2>2. jobs' \in Table
    BY <1>1, <1>26, <2>1, RecordType DEF Reap
  <2>3. proc' \in [Pids -> ProcRecord]
    BY <1>26, CollectedType DEF Reap, ProcTypeOK
  <2>4. fg_pgid' \in PgidRange
    BY <1>2, <1>26, <2>2 DEF Reap
  <2> QED
    BY <1>26, <2>2, <2>3, <2>4 DEF Reap, Table, ProcTypeOK
<1>27. CASE ReapDone
  <2>1. stack' \in Seq(Frame)
    BY <1>27, ReturnType DEF ReapDone
  <2> QED
    BY <1>3, <1>27, <2>1 DEF ReapDone, procVars, ProcTypeOK
<1>28. ASSUME NEW sig \in Keys, PressKey(sig)
       PROVE  TypeOK'
  <2>1. sig \in Signals
    BY MyShellAssumption DEF Signals
  <2>2. ProcTypeOK'
    BY <1>28, <2>1, KillType DEF PressKey
  <2> QED
    BY <1>28, <2>2 DEF PressKey
<1>29. ASSUME NEW p \in Pids, ChildStep(p)
       PROVE  TypeOK'
  BY <1>29, ChildType DEF ChildStep, shellVars
<1>30. CASE UNCHANGED vars
  BY <1>30 DEF vars, shellVars, procVars, ProcTypeOK
<1> QED
  BY <1>4, <1>5, <1>6, <1>7, <1>8, <1>9, <1>10, <1>11, <1>12, <1>13, <1>14,
     <1>15, <1>16, <1>17, <1>18, <1>19, <1>20, <1>21, <1>22, <1>23, <1>24,
     <1>25, <1>26, <1>27, <1>28, <1>29, <1>30
     DEF Next, Read, Go, Handler

\* In every reachable state of the shell and its children each variable is in
\* the set that TypeOK names: live_count stays within the number of stages, no
\* search leaves the table, and the stack holds handlers only.
THEOREM TypeCorrect == Spec => []TypeOK
BY TypeInit, TypeStep, PTL DEF Spec

-----------------------------------------------------------------------------
(* The table, the processes and the foreground *)

NoForkFault == "fork" \notin Faults

\* Every child that is not reaped was forked, and is in the group of a child.
ChildrenInGroups ==
    \A p \in Pids :
       Unreaped(p) => p < next_pid /\ proc[p].grp \in 1..(next_pid - 1)

\* The jobs' groups and pids are those of earlier children, and no two jobs
\* share a group.
GroupsOfJobs ==
    /\ \A s \in Used(jobs) : /\ jobs[s].pgid \in 1..(next_pid - 1)
                             /\ jobs[s].pids \subseteq 1..(next_pid - 1)
    /\ \A s, t \in Used(jobs) : jobs[s].pgid = jobs[t].pgid => s = t

\* While a pipeline is launched none of its stages is reaped, its group is no
\* job's, and the members of the group are the stages forked so far.
LaunchInProgress ==
    pc = "launch" =>
       /\ blocked
       /\ loc.nseg > 0
       /\ loc.i <= loc.nseg
       /\ loc.i = 0 <=> loc.pgid = 0
       /\ loc.pgid \in 0..(next_pid - 1)
       /\ Members(loc.pgid) = loc.pids
       /\ Cardinality(loc.pids) = loc.i
       /\ \A s \in Used(jobs) : jobs[s].pgid # loc.pgid

MaskHolds == blocked => ~Running("CHLD")

\* What the last steps of a launch need to know of a foreground job.
ForegroundLaunch ==
    ForegroundJobs # {} =>
       /\ ~loc.bg
       /\ pc \in {"launched", "report"} => loc.slot # NoSlot

Inv ==
    /\ TypeOK
    /\ ChildrenInGroups
    /\ GroupsOfJobs
    /\ LiveCountExact
    /\ LaunchInProgress
    /\ MaskHolds
    /\ ForegroundIsAwaited
    /\ ForegroundLaunch
    /\ FgPgidExact

-----------------------------------------------------------------------------
(* Steps that leave groups alone *)

\* No child is forked or reaped and none changes its group.
QuietProc ==
    /\ next_pid' = next_pid
    /\ \A p \in Pids : /\ Unreaped(p)' <=> Unreaped(p)
                       /\ proc'[p].grp = proc[p].grp

\* No job is added or deleted, and none loses a child.
QuietTable ==
    /\ Used(jobs') = Used(jobs)
    /\ \A s \in Used(jobs) : /\ jobs'[s].pgid = jobs[s].pgid
                             /\ jobs'[s].pids = jobs[s].pids
                             /\ jobs'[s].live_count = jobs[s].live_count

LEMMA QuietSame == (UNCHANGED procVars) => QuietProc
BY DEF procVars, QuietProc, Unreaped

LEMMA QuietKill ==
    ASSUME TypeOK, NEW pgid, NEW sig, kill(pgid, sig)
    PROVE  QuietProc
<1>1. ASSUME NEW p \in Pids
      PROVE  /\ Unreaped(p)' <=> Unreaped(p)
             /\ proc'[p].grp = proc[p].grp
  <2>1. proc[p] \in ProcRecord
    BY DEF TypeOK, ProcTypeOK
  <2>2. proc'[p] = IF p \in Members(pgid) THEN Signalled(proc[p], sig) ELSE proc[p]
    BY DEF kill
  <2>3. LET r == Signalled(proc[p], sig)
        IN  /\ r.grp = proc[p].grp
            /\ r.st = proc[p].st \/ (r.st = "live" /\ proc[p].st = "stop")
    BY <2>1 DEF Signalled, ProcRecord
  <2> QED
    BY <2>2, <2>3 DEF Unreaped
<1> QED
  BY <1>1 DEF QuietProc, kill

LEMMA QuietChild ==
    ASSUME TypeOK, NEW p \in Pids, Child(p)
    PROVE  QuietProc
<1>1. proc \in [Pids -> ProcRecord] /\ proc[p] \in ProcRecord
  BY DEF TypeOK, ProcTypeOK
<1>2. next_pid' = next_pid
  BY DEF Child, Exec, ExecFails, Exits, Die, KilledBySignal, StoppedByKey,
         Stop, SwallowKey, StoppedFromOutside, ContinuedFromOutside
<1>3. ASSUME NEW r, proc' = [proc EXCEPT ![p] = r], r.grp = proc[p].grp,
             r.st \in {"live", "stop", "zombie"}, Unreaped(p)
      PROVE  QuietProc
  BY <1>1, <1>2, <1>3 DEF QuietProc, Unreaped
<1>4. ASSUME Die(p), Unreaped(p)
      PROVE  QuietProc
  <2> DEFINE r == [BlankProc EXCEPT !.st = "zombie", !.grp = proc[p].grp]
  <2>1. r.grp = proc[p].grp /\ r.st = "zombie"
    BY DEF BlankProc
  <2>2. proc' = [proc EXCEPT ![p] = r]
    BY <1>4 DEF Die
  <2> HIDE DEF r
  <2> QED
    BY <1>3, <1>4, <2>1, <2>2
<1>5. ASSUME Stop(p), proc[p].st = "live"
      PROVE  QuietProc
  BY <1>1, <1>2, <1>5 DEF Stop, QuietProc, Unreaped, ProcRecord
<1>6. CASE Exec(p)
  BY <1>1, <1>2, <1>6 DEF Exec, QuietProc, Unreaped, ProcRecord
<1>7. CASE ExecFails(p)
  BY <1>1, <1>2, <1>7 DEF ExecFails, QuietProc, Unreaped, ProcRecord
<1>8. CASE Exits(p)
  BY <1>4, <1>8 DEF Exits, Unreaped
<1>9. CASE KilledBySignal(p)
  BY <1>4, <1>9 DEF KilledBySignal, Unreaped
<1>10. CASE StoppedByKey(p)
  BY <1>5, <1>10 DEF StoppedByKey
<1>11. CASE SwallowKey(p)
  <2>1. PICK sig : proc' = [proc EXCEPT ![p].pend = @ \ {sig}]
    BY <1>11 DEF SwallowKey
  <2> QED
    BY <1>1, <1>2, <2>1 DEF QuietProc, Unreaped, ProcRecord
<1>12. CASE StoppedFromOutside(p)
  BY <1>5, <1>12 DEF StoppedFromOutside
<1>13. CASE ContinuedFromOutside(p)
  <2> DEFINE r == Signalled(proc[p], "CONT")
  <2>1. r.grp = proc[p].grp /\ r.st = "live"
    BY <1>1, <1>13 DEF Signalled, ProcRecord, ContinuedFromOutside
  <2>2. proc' = [proc EXCEPT ![p] = r] /\ Unreaped(p)
    BY <1>13 DEF ContinuedFromOutside, Unreaped
  <2> HIDE DEF r
  <2> QED
    BY <1>3, <2>1, <2>2
<1> QED
  BY <1>6, <1>7, <1>8, <1>9, <1>10, <1>11, <1>12, <1>13 DEF Child

LEMMA QuietSetState ==
    ASSUME NEW J \in Table, NEW s \in Slots, NEW state, jobs = J,
           jobs' = SetState(J, s, state)
    PROVE  QuietTable
BY DEF QuietTable, SetState, Used, Table, JobRecord

LEMMA QuietMembers ==
    ASSUME QuietProc, NEW g
    PROVE  {p \in Pids : Unreaped(p)' /\ proc'[p].grp = g} = Members(g)
BY DEF QuietProc, Members

\* What such steps leave alone.
LEMMA QuietStep ==
    ASSUME ChildrenInGroups, GroupsOfJobs, LiveCountExact, QuietProc, QuietTable
    PROVE  (ChildrenInGroups /\ GroupsOfJobs /\ LiveCountExact)'
<1>1. ChildrenInGroups'
  BY DEF ChildrenInGroups, QuietProc
<1>2. GroupsOfJobs'
  BY DEF GroupsOfJobs, QuietProc, QuietTable
<1>3. ASSUME NEW s \in Used(jobs')
      PROVE  /\ Members(jobs[s].pgid)'
                   = {p \in Pids : p \in jobs'[s].pids /\ Unreaped(p)'}
             /\ jobs'[s].live_count = Cardinality(Members(jobs[s].pgid)')
             /\ jobs'[s].live_count > 0
  <2>1. s \in Used(jobs) /\ jobs'[s].pgid = jobs[s].pgid
        /\ jobs'[s].pids = jobs[s].pids /\ jobs'[s].live_count = jobs[s].live_count
    BY <1>3 DEF QuietTable
  <2>2. Members(jobs[s].pgid)' = Members(jobs[s].pgid)
    BY <2>1 DEF Members, QuietProc
  <2>3. {p \in Pids : p \in jobs'[s].pids /\ Unreaped(p)'}
          = {p \in Pids : p \in jobs[s].pids /\ Unreaped(p)}
    BY <2>1 DEF QuietProc
  <2> QED
    BY <2>1, <2>2, <2>3 DEF LiveCountExact
<1>4. LiveCountExact'
  BY <1>3 DEF LiveCountExact
<1> QED
  BY <1>1, <1>2, <1>4

-----------------------------------------------------------------------------
(* Steps that fork, list or reap a child *)

LEMMA MembersFinite ==
    ASSUME NEW g
    PROVE  IsFiniteSet(Members(g))
<1>1. IsFiniteSet(Pids)
  BY FS_Interval, ProcessesAssumption DEF Pids
<1> QED
  BY <1>1, FS_Subset DEF Members

LEMMA LaunchStageStep ==
    ASSUME Inv, LaunchStage
    PROVE  (ChildrenInGroups /\ GroupsOfJobs /\ LiveCountExact
              /\ LaunchInProgress)'
<1> PICK n : n = next_pid
  OBVIOUS
<1> PICK g : g = IF loc.pgid = 0 THEN n ELSE loc.pgid
  OBVIOUS
<1> USE DEF Inv
<1>1. /\ pc = "launch" /\ loc.i < loc.nseg
      /\ pc' = "launch" /\ jobs' = jobs /\ blocked' = blocked
      /\ loc' = [loc EXCEPT !.i = @ + 1, !.pgid = g, !.pids = @ \union {n}]
  BY DEF LaunchStage, Main
<1>2. /\ n \in 1..MaxPid /\ n \in Nat /\ n \in Pids
      /\ next_pid' = n + 1
  BY ProcessesAssumption DEF LaunchStage, ForkInto, Pids
<1>3. /\ loc.nseg > 0 /\ loc.i \in Nat /\ loc.nseg \in Nat
      /\ (loc.i = 0 <=> loc.pgid = 0)
      /\ loc.pgid \in 0..(n - 1)
      /\ Members(loc.pgid) = loc.pids /\ Cardinality(loc.pids) = loc.i
      /\ \A s \in Used(jobs) : jobs[s].pgid # loc.pgid
      /\ blocked
  BY <1>1 DEF LaunchInProgress, TypeOK, Locals
<1>4. g \in 1..n
  BY <1>2, <1>3
<1>5. proc' = [proc EXCEPT ![n] =
                  [BlankProc EXCEPT !.st = "live", !.grp = g, !.bg = loc.bg]]
  <2>1. PICK k : /\ k = IF loc.pgid = 0 THEN next_pid ELSE loc.pgid
                 /\ ForkInto(IF k = -1 THEN ShellGroup ELSE k, loc.bg)
    BY DEF LaunchStage
  <2>2. k = g /\ k # -1
    BY <1>4, <2>1, <1>2
  <2> QED
    BY <2>1, <2>2 DEF ForkInto
<1>6. /\ Unreaped(n)' /\ proc'[n].grp = g
      /\ \A p \in Pids \ {n} : /\ Unreaped(p)' <=> Unreaped(p)
                               /\ proc'[p].grp = proc[p].grp
  BY <1>2, <1>5 DEF TypeOK, ProcTypeOK, Unreaped, BlankProc
<1>7. ~Unreaped(n)
  BY <1>2 DEF ChildrenInGroups
<1>8. ChildrenInGroups'
  BY <1>2, <1>4, <1>6 DEF ChildrenInGroups, Pids
<1>9. GroupsOfJobs'
  <2>1. /\ \A s \in Used(jobs) : /\ jobs[s].pgid \in 1..(n - 1)
                                /\ jobs[s].pids \subseteq 1..(n - 1)
        /\ \A s, t \in Used(jobs) : jobs[s].pgid = jobs[t].pgid => s = t
    BY DEF GroupsOfJobs
  <2>2. 1..(n - 1) \subseteq 1..(next_pid' - 1)
    BY <1>2
  <2> QED
    BY <1>1, <2>1, <2>2 DEF GroupsOfJobs
<1>10. ASSUME NEW s \in Used(jobs)
       PROVE  /\ Members(jobs[s].pgid)' = Members(jobs[s].pgid)
              /\ {p \in Pids : p \in jobs[s].pids /\ Unreaped(p)}'
                    = {p \in Pids : p \in jobs[s].pids /\ Unreaped(p)}
  <2>1. jobs[s].pgid # g /\ n \notin jobs[s].pids
    BY <1>2, <1>3 DEF GroupsOfJobs
  <2>2. Members(jobs[s].pgid)' = Members(jobs[s].pgid)
    BY <1>1, <1>6, <1>7, <2>1 DEF Members
  <2>3. {p \in Pids : p \in jobs[s].pids /\ Unreaped(p)}'
           = {p \in Pids : p \in jobs[s].pids /\ Unreaped(p)}
    BY <1>1, <1>6, <2>1
  <2> QED
    BY <2>2, <2>3
<1>11. LiveCountExact'
  BY <1>1, <1>10 DEF LiveCountExact
<1>12. LaunchInProgress'
  <2>1. /\ loc'.i = loc.i + 1 /\ loc'.nseg = loc.nseg
        /\ loc'.pgid = g /\ loc'.pids = loc.pids \union {n}
    BY <1>1 DEF TypeOK, Locals
  <2>2. Members(g) = loc.pids
    <3>1. CASE loc.pgid = 0
      <4>1. \A p \in Pids : Unreaped(p) => proc[p].grp \in 1..(n - 1)
        BY DEF ChildrenInGroups
      <4>2. \A p \in Pids : Unreaped(p) => proc[p].grp # 0 /\ proc[p].grp # n
        BY <1>2, <4>1
      <4>3. Members(0) = {} /\ Members(n) = {}
        BY <4>2 DEF Members
      <4> QED
        BY <1>3, <3>1, <4>3
    <3>2. CASE loc.pgid # 0
      BY <1>3, <3>2
    <3> QED
      BY <3>1, <3>2
  <2>3. Members(loc.pgid)' = loc'.pids
    <3>1. \A p \in Pids : p \in Members(g) <=> Unreaped(p) /\ proc[p].grp = g
      BY DEF Members
    <3>2. Members(loc.pgid)' = {p \in Pids : Unreaped(p)' /\ proc'[p].grp = g}
      BY <2>1 DEF Members
    <3>3. \A p \in Pids : Unreaped(p)' /\ proc'[p].grp = g
                            <=> p \in Members(g) \union {n}
      BY <1>6, <3>1
    <3>4. Members(g) \subseteq Pids
      BY DEF Members
    <3> QED
      BY <1>2, <2>1, <2>2, <3>2, <3>3, <3>4
  <2>4. n \notin loc.pids
    BY <1>7, <2>2 DEF Members
  <2>5. Cardinality(loc'.pids) = loc'.i
    <3>1. IsFiniteSet(loc.pids)
      BY <2>2, MembersFinite
    <3>2. Cardinality(loc.pids \union {n}) = Cardinality(loc.pids) + 1
      BY <2>4, <3>1, FS_AddElement
    <3> QED
      BY <1>3, <2>1, <3>2
  <2>6. \A s \in Used(jobs) : jobs[s].pgid # g
    BY <1>2, <1>3 DEF GroupsOfJobs
  <2> QED
    BY <1>1, <1>2, <1>3, <1>4, <2>1, <2>3, <2>5, <2>6 DEF LaunchInProgress
<1> QED
  BY <1>8, <1>9, <1>11, <1>12

LEMMA AddJobStep ==
    ASSUME Inv, AddJob
    PROVE  (ChildrenInGroups /\ GroupsOfJobs /\ LiveCountExact
              /\ LaunchInProgress)'
<1> PICK f : f = FreeSlot(jobs)
  OBVIOUS
<1> PICK r : r = [used |-> TRUE, jid |-> next_jid, pgid |-> loc.pgid,
                  pids |-> loc.pids, live_count |-> loc.nseg,
                  state |-> IF loc.bg THEN "BACKGROUND" ELSE "FOREGROUND"]
  OBVIOUS
<1> USE DEF Inv
<1>1. /\ pc = "launch" /\ loc.i = loc.nseg /\ pc' = "launched"
      /\ proc' = proc /\ next_pid' = next_pid
      /\ jobs' = IF f = NoSlot THEN jobs ELSE [jobs EXCEPT ![f] = r]
  BY DEF AddJob, Main, add_job, procVars
<1>2. QuietProc
  BY <1>1 DEF QuietProc, Unreaped
<1>3. LaunchInProgress'
  BY <1>1 DEF LaunchInProgress
<1>4. CASE f = NoSlot
  <2>1. QuietTable
    BY <1>1, <1>4 DEF QuietTable
  <2> QED
    BY <1>2, <1>3, <2>1, QuietStep
<1>5. CASE f # NoSlot
  <2>1. f \in Slots /\ ~jobs[f].used
    BY <1>5, FindFree
  <2>2. /\ Used(jobs') = Used(jobs) \union {f}
        /\ f \notin Used(jobs)
        /\ jobs'[f] = r
        /\ \A s \in Used(jobs) : jobs'[s] = jobs[s]
    BY <1>1, <1>5, <2>1 DEF TypeOK, Used
  <2>3. /\ loc.nseg > 0 /\ loc.pgid \in 1..(next_pid - 1)
        /\ Members(loc.pgid) = loc.pids /\ Cardinality(loc.pids) = loc.nseg
        /\ \A s \in Used(jobs) : jobs[s].pgid # loc.pgid
    BY <1>1 DEF LaunchInProgress, TypeOK, ProcTypeOK, Locals
  <2>4. loc.pids \subseteq 1..(next_pid - 1)
    <3>1. next_pid \in Nat
      BY ProcessesAssumption DEF TypeOK, ProcTypeOK
    <3>2. \A p \in Pids : Unreaped(p) => p < next_pid
      BY DEF ChildrenInGroups
    <3> QED
      BY <2>3, <3>1, <3>2, ProcessesAssumption DEF Members, Pids
  <2>5. ChildrenInGroups'
    BY <1>2 DEF QuietProc, ChildrenInGroups
  <2>6. GroupsOfJobs'
    <3>1. /\ \A s \in Used(jobs) : /\ jobs[s].pgid \in 1..(next_pid - 1)
                                  /\ jobs[s].pids \subseteq 1..(next_pid - 1)
          /\ \A s, t \in Used(jobs) : jobs[s].pgid = jobs[t].pgid => s = t
      BY DEF GroupsOfJobs
    <3>2. jobs'[f].pgid = loc.pgid /\ jobs'[f].pids = loc.pids
      BY <2>2
    <3>3. \A s \in Used(jobs') : /\ jobs'[s].pgid \in 1..(next_pid' - 1)
                                 /\ jobs'[s].pids \subseteq 1..(next_pid' - 1)
      BY <1>1, <2>2, <2>3, <2>4, <3>1, <3>2
    <3>4. ASSUME NEW s \in Used(jobs'), NEW t \in Used(jobs'),
                 jobs'[s].pgid = jobs'[t].pgid
          PROVE  s = t
      BY <2>2, <2>3, <3>1, <3>2, <3>4
    <3> QED
      BY <3>3, <3>4 DEF GroupsOfJobs
  <2>7. ASSUME NEW s \in Used(jobs)
        PROVE  /\ Members(jobs[s].pgid)' = Members(jobs[s].pgid)
               /\ {p \in Pids : p \in jobs[s].pids /\ Unreaped(p)}'
                     = {p \in Pids : p \in jobs[s].pids /\ Unreaped(p)}
    BY <1>1, <2>2 DEF Members, Unreaped
  <2>8. /\ Members(jobs[f].pgid)' = loc.pids
        /\ {p \in Pids : p \in jobs[f].pids /\ Unreaped(p)}' = loc.pids
    <3>1. jobs'[f].pgid = loc.pgid /\ jobs'[f].pids = loc.pids
      BY <2>2
    <3>2. Members(jobs[f].pgid)' = Members(loc.pgid)
      BY <1>1, <3>1 DEF Members, Unreaped
    <3>3. {p \in Pids : p \in jobs[f].pids /\ Unreaped(p)}'
             = {p \in Pids : p \in loc.pids /\ Unreaped(p)}
      BY <1>1, <3>1 DEF Unreaped
    <3>4. {p \in Pids : p \in loc.pids /\ Unreaped(p)} = loc.pids
      BY <2>3 DEF Members
    <3> QED
      BY <2>3, <3>2, <3>3, <3>4
  <2>9. LiveCountExact'
    <3>1. jobs'[f].live_count = loc.nseg
      BY <2>2
    <3>2. ASSUME NEW s \in Used(jobs')
          PROVE  (/\ Members(jobs[s].pgid)
                       = {p \in Pids : p \in jobs[s].pids /\ Unreaped(p)}
                  /\ jobs[s].live_count = Cardinality(Members(jobs[s].pgid))
                  /\ jobs[s].live_count > 0)'
      <4>1. CASE s = f
        BY <2>3, <2>8, <3>1, <4>1
      <4>2. CASE s \in Used(jobs)
        BY <2>2, <2>7, <4>2 DEF LiveCountExact
      <4> QED
        BY <2>2, <4>1, <4>2
    <3> QED
      BY <3>2 DEF LiveCountExact
  <2> QED
    BY <1>3, <2>5, <2>6, <2>9
<1> QED
  BY <1>4, <1>5

\* A status other than a death changes the state of one job at most.
LEMMA RecordQuiet ==
    ASSUME jobs \in Table, NEW p, NEW report \in {"stopped", "continued"},
           jobs' = Record(jobs, p, report)
    PROVE  QuietTable
<1> PICK s : s = find_job_by_pid(jobs, p)
  OBVIOUS
<1>1. s = NoSlot \/ s \in Slots
  BY FindByPid DEF Used
<1>2. jobs' = jobs \/ (s \in Slots /\ \E state : jobs' = SetState(jobs, s, state))
  BY <1>1 DEF Record
<1>3. CASE jobs' = jobs
  BY <1>3 DEF QuietTable
<1>4. CASE s \in Slots /\ \E state : jobs' = SetState(jobs, s, state)
  BY <1>4, QuietSetState
<1> QED
  BY <1>2, <1>3, <1>4

SetCount(J, s, n) == [J EXCEPT ![s].live_count = n]

LEMMA CountDeathCases ==
    ASSUME NEW J, NEW s, NEW c \in Nat, c = J[s].live_count, c > 0
    PROVE  CountDeath(J, s) = IF c = 1 THEN delete_job(J, s)
                              ELSE SetCount(J, s, c - 1)
<1> DEFINE n == IF J[s].live_count > 0 THEN J[s].live_count - 1 ELSE 0
<1>1. n = c - 1 /\ (n = 0 <=> c = 1)
  OBVIOUS
<1>2. CountDeath(J, s) = IF n = 0 THEN delete_job(J, s)
                         ELSE SetCount(J, s, n)
  BY DEF CountDeath, SetCount
<1> HIDE DEF n
<1> QED
  BY <1>1, <1>2

\* The forked child runs and has nothing to report.
LEMMA ForkAdds ==
    ASSUME LaunchStage
    PROVE  /\ \E r : /\ r.st = "live" /\ r.rep = "none"
                    /\ proc' = [proc EXCEPT ![next_pid] = r]
           /\ chld' = chld /\ next_pid \in Pids /\ next_pid' = next_pid + 1
<1>1. PICK g, b : ForkInto(g, b)
  BY DEF LaunchStage
<1>2. PICK r : r = [BlankProc EXCEPT !.st = "live", !.grp = g, !.bg = b]
  OBVIOUS
<1>3. r.st = "live" /\ r.rep = "none"
  BY <1>2 DEF BlankProc
<1> QED
  BY <1>1, <1>2, <1>3 DEF ForkInto

\* A report changes at most the state of the one job that its process is listed in.
LEMMA RecordOthers ==
    ASSUME NEW J \in Table, NEW pid, NEW report \in {"stopped", "continued", "dead"},
           NEW K, K = Record(J, pid, report), NEW t, t = find_job_by_pid(J, pid),
           NEW s \in Slots
    PROVE  /\ s # t => K[s] = J[s]
           /\ K[s].used => J[s].used /\ K[s].pids = J[s].pids /\ K[s].pgid = J[s].pgid
           /\ s = t /\ K[s].used =>
                 /\ report = "stopped" => K[s].state = "STOPPED"
                 /\ report = "continued" => K[s].state # "STOPPED"
                 /\ report = "dead" => K[s].state = J[s].state
<1>1. t = NoSlot \/ t \in Slots
  BY FindByPid DEF Used
<1>2. NoSlot \notin Slots
  BY DEF NoSlot, Slots
<1>3. CASE t = NoSlot
  BY <1>2, <1>3 DEF Record
<1>4. CASE t # NoSlot /\ report = "stopped"
  <2>1. K = SetState(J, t, "STOPPED")
    BY <1>4 DEF Record
  <2> QED
    BY <1>1, <1>4, <2>1 DEF SetState, Table, JobRecord
<1>5. CASE t # NoSlot /\ report = "continued"
  <2>1. \/ K = J /\ J[t].state # "STOPPED"
        \/ K = SetState(J, t, "BACKGROUND")
    BY <1>5 DEF Record
  <2> QED
    BY <1>1, <1>5, <2>1 DEF SetState, Table, JobRecord
<1>6. CASE t # NoSlot /\ report = "dead"
  <2>1. K = CountDeath(J, t)
    BY <1>6 DEF Record
  <2>2. t \in Slots
    BY <1>1, <1>6
  <2>3. \/ K = [J EXCEPT ![t] = EmptyJob]
        \/ \E n : K = [J EXCEPT ![t].live_count = n]
    BY <2>1 DEF CountDeath, delete_job
  <2> QED
    BY <1>6, <2>2, <2>3 DEF EmptyJob, Table, JobRecord
<1> QED
  BY <1>3, <1>4, <1>5, <1>6

LEMMA ReapStep ==
    ASSUME Inv, NEW p \in Pids, Reap(p)
    PROVE  (ChildrenInGroups /\ GroupsOfJobs /\ LiveCountExact)'
<1> USE DEF Inv
<1>1. /\ jobs \in Table /\ p \in Waitable /\ next_pid' = next_pid
      /\ proc \in [Pids -> ProcRecord]
      /\ jobs' = Record(jobs, p, Report(p))
      /\ proc' = [proc EXCEPT ![p] = Collected(p)]
  BY DEF Reap, TypeOK, Table, ProcTypeOK
<1>2. CASE proc[p].st # "zombie"
  <2>1. Report(p) \in {"stopped", "continued"}
    BY <1>1, <1>2 DEF Report, Waitable, ProcRecord
  <2>2. QuietTable
    BY <1>1, <2>1, RecordQuiet
  <2>3. QuietProc
    BY <1>1, <1>2 DEF QuietProc, Collected, Unreaped, ProcRecord
  <2> QED
    BY <2>2, <2>3, QuietStep
<1>3. CASE proc[p].st = "zombie"
  <2>1. /\ Unreaped(p) /\ ~Unreaped(p)'
        /\ \A q \in Pids \ {p} : /\ Unreaped(q)' <=> Unreaped(q)
                                 /\ proc'[q].grp = proc[q].grp
    BY <1>1, <1>3 DEF Collected, Unreaped, BlankProc
  <2>2. ChildrenInGroups'
    BY <1>1, <2>1 DEF ChildrenInGroups
  <2>3. \A g : {q \in Pids : Unreaped(q)' /\ proc'[q].grp = g} = Members(g) \ {p}
    BY <2>1 DEF Members
  <2>4. \A P : {q \in Pids : q \in P /\ Unreaped(q)'}
                  = {q \in Pids : q \in P /\ Unreaped(q)} \ {p}
    BY <2>1
  <2> PICK s : s = find_job_by_pid(jobs, p)
    OBVIOUS
  <2>5. /\ s = NoSlot \/ s \in Used(jobs)
        /\ s # NoSlot => p \in jobs[s].pids
        /\ s = NoSlot => \A t \in Used(jobs) : p \notin jobs[t].pids
    BY FindByPid
  \* p is a member of the group of the job that is found, and of no other
  <2>6. \A t \in Used(jobs) : p \in Members(jobs[t].pgid) <=> t = s
    <3>1. ASSUME NEW t \in Used(jobs), p \in Members(jobs[t].pgid)
          PROVE  t = s
      <4>1. p \in jobs[t].pids
        BY <3>1 DEF LiveCountExact
      <4>2. s \in Used(jobs) /\ p \in jobs[s].pids
        BY <2>5, <4>1
      <4>3. p \in Members(jobs[s].pgid)
        BY <2>1, <4>2 DEF LiveCountExact
      <4>4. jobs[s].pgid = jobs[t].pgid
        BY <3>1, <4>3 DEF Members
      <4> QED
        BY <4>2, <4>4 DEF GroupsOfJobs
    <3>2. ASSUME s \in Used(jobs)
          PROVE  p \in Members(jobs[s].pgid)
      <4>1. s # NoSlot
        BY <3>2, MAXJOBSAssumption DEF Used, Slots, NoSlot
      <4> QED
        BY <2>1, <2>5, <3>2, <4>1 DEF LiveCountExact
    <3> QED
      BY <3>1, <3>2
  <2>7. CASE s = NoSlot
    <3>1. jobs' = jobs
      BY <1>1, <2>7 DEF Record
    <3>2. NoSlot \notin Used(jobs)
      BY MAXJOBSAssumption DEF Used, Slots, NoSlot
    <3>3. ASSUME NEW t \in Used(jobs)
          PROVE  /\ Members(jobs[t].pgid)' = Members(jobs[t].pgid)
                 /\ {q \in Pids : q \in jobs[t].pids /\ Unreaped(q)}'
                       = {q \in Pids : q \in jobs[t].pids /\ Unreaped(q)}
      <4>1. p \notin Members(jobs[t].pgid) /\ p \notin jobs[t].pids
        BY <2>5, <2>6, <2>7, <3>2
      <4> QED
        BY <3>1, <2>3, <2>4, <4>1 DEF Members
    <3>4. LiveCountExact'
      BY <3>1, <3>3 DEF LiveCountExact
    <3>5. GroupsOfJobs'
      BY <1>1, <3>1 DEF GroupsOfJobs
    <3> QED
      BY <2>2, <3>4, <3>5
  <2>8. CASE s # NoSlot
    <3>1. s \in Used(jobs) /\ s \in Slots
      BY <2>5, <2>8 DEF Used
    <3> PICK c : c = jobs[s].live_count
      OBVIOUS
    <3>2. /\ c = Cardinality(Members(jobs[s].pgid)) /\ c > 0 /\ c \in Nat
      BY <1>1, <3>1 DEF LiveCountExact, Table, JobRecord
    <3>3. Cardinality(Members(jobs[s].pgid) \ {p}) = c - 1
      BY <2>6, <3>1, <3>2, MembersFinite, FS_RemoveElement
    <3>4. jobs' = CountDeath(jobs, s)
      BY <1>1, <1>3, <2>8 DEF Record, Report
    <3>5. ASSUME NEW t \in Used(jobs), t # s
          PROVE  /\ Members(jobs[t].pgid) \ {p} = Members(jobs[t].pgid)
                 /\ {q \in Pids : q \in jobs[t].pids /\ Unreaped(q)} \ {p}
                       = {q \in Pids : q \in jobs[t].pids /\ Unreaped(q)}
      <4>1. p \notin Members(jobs[t].pgid)
        BY <2>6, <3>5
      <4>2. Members(jobs[t].pgid)
              = {q \in Pids : q \in jobs[t].pids /\ Unreaped(q)}
        BY <3>5 DEF LiveCountExact
      <4> QED
        BY <4>1, <4>2
    <3>6. ASSUME NEW t \in Used(jobs), jobs'[t].pgid = jobs[t].pgid,
                 jobs'[t].pids = jobs[t].pids
          PROVE  /\ Members(jobs[t].pgid)' = Members(jobs[t].pgid) \ {p}
                 /\ {q \in Pids : q \in jobs[t].pids /\ Unreaped(q)}'
                       = {q \in Pids : q \in jobs[t].pids /\ Unreaped(q)} \ {p}
      BY <2>3, <2>4, <3>6 DEF Members
    <3>7. CASE c = 1
      <4>1. jobs' = [jobs EXCEPT ![s] = EmptyJob]
        BY <3>2, <3>4, <3>7, CountDeathCases DEF delete_job
      <4>2. /\ Used(jobs') = Used(jobs) \ {s}
            /\ \A t \in Used(jobs') : jobs'[t] = jobs[t]
        BY <1>1, <3>1, <4>1 DEF Used, EmptyJob, Table
      <4>3. GroupsOfJobs'
        BY <1>1, <4>2 DEF GroupsOfJobs
      <4>4. ASSUME NEW t \in Used(jobs')
            PROVE  (/\ Members(jobs[t].pgid)
                         = {q \in Pids : q \in jobs[t].pids /\ Unreaped(q)}
                    /\ jobs[t].live_count = Cardinality(Members(jobs[t].pgid))
                    /\ jobs[t].live_count > 0)'
        <5>1. t \in Used(jobs) /\ t # s /\ jobs'[t] = jobs[t]
          BY <4>2, <4>4
        <5> QED
          BY <3>5, <3>6, <5>1 DEF LiveCountExact
      <4>5. LiveCountExact'
        BY <4>4 DEF LiveCountExact
      <4> QED
        BY <2>2, <4>3, <4>5
    <3>8. CASE c # 1
      <4>1. jobs' = SetCount(jobs, s, c - 1)
        BY <3>2, <3>4, <3>8, CountDeathCases
      <4>2. /\ Used(jobs') = Used(jobs)
            /\ \A t \in Used(jobs) : /\ jobs'[t].pgid = jobs[t].pgid
                                     /\ jobs'[t].pids = jobs[t].pids
            /\ \A t \in Used(jobs) \ {s} : jobs'[t] = jobs[t]
            /\ jobs'[s].live_count = c - 1
        BY <1>1, <3>1, <4>1 DEF SetCount, Used, Table, JobRecord
      <4>3. GroupsOfJobs'
        BY <1>1, <4>2 DEF GroupsOfJobs
      <4>4. ASSUME NEW t \in Used(jobs')
            PROVE  (/\ Members(jobs[t].pgid)
                         = {q \in Pids : q \in jobs[t].pids /\ Unreaped(q)}
                    /\ jobs[t].live_count = Cardinality(Members(jobs[t].pgid))
                    /\ jobs[t].live_count > 0)'
        <5>1. t \in Used(jobs) /\ jobs'[t].pgid = jobs[t].pgid
              /\ jobs'[t].pids = jobs[t].pids
          BY <4>2, <4>4
        <5>2. /\ Members(jobs[t].pgid)' = Members(jobs[t].pgid) \ {p}
              /\ Members(jobs[t].pgid)'
                    = {q \in Pids : q \in jobs[t].pids /\ Unreaped(q)}'
          BY <3>6, <5>1 DEF LiveCountExact
        <5>3. CASE t = s
          <6>1. c - 1 > 0
            BY <3>2, <3>8
          <6> QED
            BY <3>3, <4>2, <5>2, <5>3, <6>1
        <5>4. CASE t # s
          <6>1. jobs'[t] = jobs[t]
            BY <4>2, <5>1, <5>4
          <6>2. /\ Members(jobs[t].pgid)
                     = {q \in Pids : q \in jobs[t].pids /\ Unreaped(q)}
                /\ jobs[t].live_count = Cardinality(Members(jobs[t].pgid))
                /\ jobs[t].live_count > 0
            BY <5>1 DEF LiveCountExact
          <6> QED
            BY <3>5, <5>1, <5>2, <5>4, <6>1, <6>2
        <5> QED
          BY <5>3, <5>4
      <4>5. LiveCountExact'
        BY <4>4 DEF LiveCountExact
      <4> QED
        BY <2>2, <4>3, <4>5
    <3> QED
      BY <3>7, <3>8
  <2> QED
    BY <2>7, <2>8
<1> QED
  BY <1>2, <1>3

-----------------------------------------------------------------------------
(* The stack of handlers *)

LEMMA RunningPush ==
    ASSUME stack \in Seq(Frame), NEW f, stack' = Append(stack, f), NEW sig
    PROVE  Running(sig)' <=> (Running(sig) \/ f.sig = sig)
<1>1. /\ Len(stack) \in Nat /\ Len(stack') = Len(stack) + 1
      /\ DOMAIN stack = 1..Len(stack) /\ DOMAIN stack' = 1..(Len(stack) + 1)
      /\ stack'[Len(stack) + 1] = f
      /\ \A k \in 1..Len(stack) : stack'[k] = stack[k]
  OBVIOUS
<1> QED
  BY <1>1 DEF Running

LEMMA FrontProperties ==
    ASSUME NEW s \in Seq(Frame), s # <<>>, NEW t, t = SubSeq(s, 1, Len(s) - 1),
           NEW n, n = Len(s)
    PROVE  /\ n \in Nat \ {0}
           /\ DOMAIN s = 1..n /\ DOMAIN t = 1..(n - 1)
           /\ \A k \in 1..(n - 1) : t[k] = s[k]
<1>1. n \in Nat \ {0} /\ DOMAIN s = 1..n /\ \A k \in 1..(n - 1) : s[k] \in Frame
  OBVIOUS
<1>2. /\ t \in Seq(Frame)
      /\ Len(t) = IF 1 <= n - 1 THEN n - 1 - 1 + 1 ELSE 0
      /\ \A k \in 1..(n - 1 - 1 + 1) : t[k] = s[1 + k - 1]
  BY <1>1, SubSeqProperties
<1>3. Len(t) = n - 1
  BY <1>1, <1>2
<1>4. DOMAIN t = 1..(n - 1)
  BY <1>2, <1>3
<1> QED
  BY <1>1, <1>2, <1>4

LEMMA RunningReturn ==
    ASSUME stack \in Seq(Frame), stack # <<>>, Return, NEW sig
    PROVE  /\ Running(sig) => (Running(sig)' \/ Top.sig = sig)
           /\ Running(sig)' => Running(sig)
<1> PICK n : n = Len(stack)
  OBVIOUS
<1>1. /\ n \in Nat \ {0}
      /\ DOMAIN stack = 1..n /\ DOMAIN stack' = 1..(n - 1)
      /\ \A k \in 1..(n - 1) : stack'[k] = stack[k]
  BY FrontProperties DEF Return
<1>2. ASSUME NEW k, k \in 1..n, k # n, stack[k].sig = sig
      PROVE  Running(sig)'
  <2>1. k \in 1..(n - 1)
    BY <1>1, <1>2
  <2> QED
    BY <1>1, <1>2, <2>1 DEF Running
<1>3. ASSUME NEW k, k \in 1..(n - 1), stack'[k].sig = sig
      PROVE  Running(sig)
  <2>1. k \in 1..n /\ stack'[k] = stack[k]
    BY <1>1, <1>3
  <2> QED
    BY <1>1, <1>3, <2>1 DEF Running
<1> QED
  BY <1>1, <1>2, <1>3 DEF Running, Top

LEMMA TopIsRunning ==
    ASSUME stack \in Seq(Frame), stack # <<>>
    PROVE  Running(Top.sig)
<1>1. Len(stack) \in DOMAIN stack
  OBVIOUS
<1> QED
  BY <1>1 DEF Running, Top

LEMMA EmptyStack ==
    ASSUME stack = <<>>, NEW sig
    PROVE  ~Running(sig)
BY DEF Running

\* No SIGCHLD handler is running when SIGCHLD gets blocked, and none starts
\* while it is.
LEMMA MaskStep ==
    ASSUME Inv, [Next]_vars
    PROVE  MaskHolds'
<1> USE DEF Inv
<1>1. stack \in Seq(Frame) /\ MaskHolds
  BY DEF TypeOK
<1>2. CASE UNCHANGED <<blocked, stack>>
  BY <1>1, <1>2 DEF MaskHolds, Running
<1>3. CASE stack = <<>> /\ UNCHANGED stack
  BY <1>3, EmptyStack DEF MaskHolds, Running
<1>4. CASE ~blocked'
  BY <1>4 DEF MaskHolds
<1>5. ASSUME NEW sig \in Keys, DeliverKey(sig)
      PROVE  MaskHolds'
  <2>1. sig # "CHLD"
    BY MyShellAssumption
  <2>2. PICK f : stack' = Append(stack, f) /\ f.sig = sig /\ blocked' = blocked
    BY <1>5 DEF DeliverKey
  <2> QED
    BY <1>1, <2>1, <2>2, RunningPush DEF MaskHolds
<1>6. CASE Return /\ stack # <<>> /\ blocked' = blocked
  BY <1>1, <1>6, RunningReturn DEF MaskHolds
<1>7. CASE UNCHANGED vars
  BY <1>2, <1>7 DEF vars, shellVars
<1>8. CASE Read
  BY <1>2, <1>3, <1>8 DEF Read, ReadLaunch, ReadJobs, ReadWrongJob, ReadBg,
     ReadFg, ReadKill, ReadExit, Main
<1>9. CASE Go
  <2>1. CASE Restore
    BY <1>4, <2>1 DEF Restore, restore_sigmask
  <2> QED
    BY <1>2, <1>9, <2>1 DEF Go, LaunchStage, ForkFails, PipeFails, AddJob,
       TableFull, Acknowledge, BgKill, FgKill, KillSend, WaitTest, Suspend
<1>10. CASE DeliverChld
  BY <1>4, <1>10 DEF DeliverChld, TypeOK
<1>11. CASE Handler
  BY <1>2, <1>6, <1>11 DEF Handler, ForwardKey, Reap, ReapDone
<1>12. ASSUME NEW sig \in Keys, PressKey(sig)
       PROVE  MaskHolds'
  BY <1>2, <1>12 DEF PressKey
<1>13. ASSUME NEW p \in Pids, ChildStep(p)
       PROVE  MaskHolds'
  BY <1>2, <1>13 DEF ChildStep, shellVars
<1> QED
  BY <1>5, <1>7, <1>8, <1>9, <1>10, <1>11, <1>12, <1>13 DEF Next

-----------------------------------------------------------------------------
(* Preservation: children and table *)

\* All steps but these two and the reaping of a child are quiet.
LEMMA OtherSteps ==
    ASSUME TypeOK, [Next]_vars, ~LaunchStage, ~AddJob, ~\E p \in Pids : Reap(p)
    PROVE  QuietProc /\ QuietTable
<1> USE DEF Inv
<1>1. jobs \in Table
  BY DEF TypeOK, Table
<1>2. jobs' = jobs => QuietTable
  BY DEF QuietTable
<1>3. CASE UNCHANGED vars
  BY <1>2, <1>3, QuietSame DEF vars, shellVars
<1>4. CASE Read
  <2>1. ASSUME NEW jid \in Jids, ReadBg(jid) \/ ReadFg(jid)
        PROVE  QuietTable
    <3> PICK s : s = find_job_by_jid(jobs, jid)
      OBVIOUS
    <3>1. s # NoSlot /\ \E state : jobs' = SetState(jobs, s, state)
      BY <2>1 DEF ReadBg, ReadFg
    <3>2. s \in Slots
      BY <3>1, FindByJid DEF Used
    <3> QED
      BY <1>1, <3>1, <3>2, QuietSetState
  <2>2. QuietProc
    BY <1>4, QuietSame DEF Read, ReadLaunch, ReadJobs, ReadWrongJob, ReadBg,
       ReadFg, ReadKill, ReadExit
  <2> QED
    BY <1>2, <1>4, <2>1, <2>2 DEF Read, ReadLaunch, ReadJobs, ReadWrongJob,
       ReadKill, ReadExit
<1>5. CASE Go
  <2>1. jobs' = jobs
    BY <1>5 DEF Go, ForkFails, PipeFails, Restore, TableFull, Acknowledge,
       BgKill, FgKill, KillSend, WaitTest, Suspend
  <2>2. CASE TableFull \/ BgKill \/ FgKill \/ KillSend
    BY <1>2, <2>1, <2>2, QuietKill, QuietSame
       DEF TableFull, BgKill, FgKill, KillSend
  <2>3. CASE Restore
    BY <1>2, <2>1, <2>3 DEF Restore, QuietProc, Unreaped
  <2>4. CASE ForkFails \/ PipeFails \/ Acknowledge \/ WaitTest \/ Suspend
    BY <1>2, <2>1, <2>4, QuietSame
       DEF ForkFails, PipeFails, Acknowledge, WaitTest, Suspend
  <2> QED
    BY <1>5, <2>2, <2>3, <2>4 DEF Go
<1>6. ASSUME NEW sig \in Keys, DeliverKey(sig)
      PROVE  QuietProc /\ QuietTable
  BY <1>2, <1>6, QuietSame DEF DeliverKey
<1>7. CASE DeliverChld
  BY <1>2, <1>7 DEF DeliverChld, QuietProc, Unreaped
<1>8. ASSUME NEW sig \in Keys, ForwardKey(sig)
      PROVE  QuietProc /\ QuietTable
  BY <1>2, <1>8, QuietKill, QuietSame DEF ForwardKey
<1>9. CASE ReapDone
  BY <1>2, <1>9, QuietSame DEF ReapDone
<1>10. ASSUME NEW sig \in Keys, PressKey(sig)
       PROVE  QuietProc /\ QuietTable
  BY <1>2, <1>10, QuietKill DEF PressKey
<1>11. ASSUME NEW p \in Pids, ChildStep(p)
       PROVE  QuietProc /\ QuietTable
  BY <1>2, <1>11, QuietChild DEF ChildStep, shellVars
<1> QED
  BY <1>3, <1>4, <1>5, <1>6, <1>7, <1>8, <1>9, <1>10, <1>11 DEF Next, Handler

LEMMA TableStep ==
    ASSUME Inv, [Next]_vars
    PROVE  (ChildrenInGroups /\ GroupsOfJobs /\ LiveCountExact)'
<1>1. CASE LaunchStage
  BY <1>1, LaunchStageStep
<1>2. CASE AddJob
  BY <1>2, AddJobStep
<1>3. ASSUME NEW p \in Pids, Reap(p)
      PROVE  (ChildrenInGroups /\ GroupsOfJobs /\ LiveCountExact)'
  BY <1>3, ReapStep
<1>4. CASE ~LaunchStage /\ ~AddJob /\ ~\E p \in Pids : Reap(p)
  <2>1. QuietProc /\ QuietTable
    BY <1>4, OtherSteps DEF Inv
  <2> QED
    BY <2>1, QuietStep DEF Inv
<1> QED
  BY <1>1, <1>2, <1>3, <1>4

LEMMA LaunchKept ==
    ASSUME Inv, QuietProc, QuietTable, pc' = pc, loc' = loc, blocked' = blocked
    PROVE  LaunchInProgress'
<1> SUFFICES ASSUME pc = "launch"
             PROVE  LaunchInProgress'
  BY DEF LaunchInProgress
<1>1. LaunchInProgress
  BY DEF Inv
<1>2. Members(loc.pgid)' = Members(loc.pgid)
  BY DEF Members, QuietProc
<1>3. \A s \in Used(jobs') : jobs'[s].pgid # loc.pgid
  BY <1>1 DEF LaunchInProgress, QuietTable
<1> QED
  BY <1>1, <1>2, <1>3 DEF LaunchInProgress, QuietProc

LEMMA LaunchStep ==
    ASSUME NoForkFault, Inv, [Next]_vars
    PROVE  LaunchInProgress'
<1>1. CASE LaunchStage
  BY <1>1, LaunchStageStep
<1>2. CASE AddJob
  BY <1>2, AddJobStep
<1>3. ASSUME NEW p \in Pids, Reap(p)
      PROVE  LaunchInProgress'
  <2>1. Running("CHLD")
    BY <1>3, TopIsRunning DEF Reap, Inv, TypeOK
  <2>2. pc # "launch"
    BY <2>1 DEF Inv, MaskHolds, LaunchInProgress
  <2> QED
    BY <1>3, <2>2 DEF Reap, LaunchInProgress
<1>4. CASE ~LaunchStage /\ ~AddJob /\ ~\E p \in Pids : Reap(p)
  <2>1. QuietProc /\ QuietTable
    BY <1>4, OtherSteps DEF Inv
  <2>2. CASE pc' # "launch"
    BY <2>2 DEF LaunchInProgress
  <2>3. ASSUME NEW nseg \in 1..MaxStages, NEW bg \in BOOLEAN,
               ReadLaunch(nseg, bg)
        PROVE  LaunchInProgress'
    <3>1. /\ blocked' /\ jobs' = jobs /\ next_pid' = next_pid
          /\ loc'.nseg = nseg /\ loc'.i = 0 /\ loc'.pgid = 0 /\ loc'.pids = {}
      BY <2>3 DEF ReadLaunch, block_sigchld, NoLocals, procVars
    <3>2. nseg > 0 /\ 0 <= nseg /\ next_pid \in Nat \ {0}
      BY MyShellAssumption, ProcessesAssumption DEF Inv, TypeOK, ProcTypeOK
    <3>3. \A p \in Pids : Unreaped(p) => proc[p].grp # 0
      BY <3>2 DEF Inv, ChildrenInGroups
    <3>4. Members(loc.pgid)' = {}
      BY <2>1, <3>1, <3>3 DEF Members, QuietProc
    <3>5. \A s \in Used(jobs) : jobs[s].pgid # 0
      BY <3>2 DEF Inv, GroupsOfJobs
    <3> QED
      BY <3>1, <3>2, <3>4, <3>5, FS_EmptySet DEF LaunchInProgress
  <2>4. CASE pc' = pc /\ loc' = loc /\ blocked' = blocked
    BY <2>1, <2>4, LaunchKept
  <2>5. CASE UNCHANGED vars
    BY <2>4, <2>5 DEF vars, shellVars
  <2>6. CASE Read
    BY <2>2, <2>3, <2>6 DEF Read, ReadJobs, ReadWrongJob, ReadBg, ReadFg,
       ReadKill, ReadExit
  <2>7. CASE Go
    <3>1. CASE Restore
      BY <2>2, <3>1 DEF Restore, AfterRestore
    <3> QED
      BY <1>4, <2>2, <2>7, <3>1 DEF Go, NoForkFault, ForkFails, PipeFails,
         TableFull, Acknowledge, BgKill, FgKill, KillSend, WaitTest, Suspend,
         ToPrompt
  <2>8. ASSUME NEW sig \in Keys, DeliverKey(sig)
        PROVE  LaunchInProgress'
    BY <2>2, <2>4, <2>8 DEF DeliverKey, Woken
  <2>9. CASE DeliverChld
    BY <2>2, <2>4, <2>9 DEF DeliverChld, Woken
  <2>10. CASE Handler
    BY <1>4, <2>4, <2>10 DEF Handler, ForwardKey, ReapDone
  <2>11. ASSUME NEW sig \in Keys, PressKey(sig)
         PROVE  LaunchInProgress'
    BY <2>4, <2>11 DEF PressKey
  <2>12. ASSUME NEW p \in Pids, ChildStep(p)
         PROVE  LaunchInProgress'
    BY <2>4, <2>12 DEF ChildStep, shellVars
  <2> QED
    BY <2>5, <2>6, <2>7, <2>8, <2>9, <2>10, <2>11, <2>12 DEF Next
<1> QED
  BY <1>1, <1>2, <1>3, <1>4

-----------------------------------------------------------------------------
(* Preservation: the foreground *)

Awaiting == pc \in {"launched", "report", "fg_set", "fg_kill"} \/ Waiting

\* fg_pgid is to be 0 exactly when no job is in the foreground.
LEMMA FgPgidOfTable ==
    ASSUME Inv
    PROVE  \A s \in ForegroundJobs : FgPgid(jobs) = jobs[s].pgid
<1> TAKE s \in ForegroundJobs
<1> PICK f : f = find_foreground_job(jobs)
  OBVIOUS
<1>1. f \in ForegroundJobs /\ f # NoSlot
  BY FindForeground DEF ForegroundJobs
<1>2. jobs[f].pgid = loc.pgid /\ jobs[s].pgid = loc.pgid
  BY <1>1 DEF Inv, ForegroundIsAwaited
<1> QED
  BY <1>1, <1>2 DEF FgPgid

LEMMA NoneUnlessAwaiting ==
    ASSUME Inv, ~Awaiting
    PROVE  ForegroundJobs = {}
BY DEF Inv, ForegroundIsAwaited, Awaiting

\* No job comes to the foreground, and if one is there the main thread keeps
\* waiting for it.
LEMMA AwaitedKept ==
    ASSUME Inv,
           \A s \in ForegroundJobs' :
              s \in ForegroundJobs /\ jobs'[s].pgid = jobs[s].pgid,
           \/ ForegroundJobs = {}
           \/ /\ loc' = loc
              /\ Awaiting'
              /\ pc' \in {"launched", "report"} => pc \in {"launched", "report"}
    PROVE  (ForegroundIsAwaited /\ ForegroundLaunch)'
<1>1. CASE ForegroundJobs = {}
  BY <1>1 DEF ForegroundIsAwaited, ForegroundLaunch
<1>2. CASE ForegroundJobs # {}
  <2>1. ForegroundIsAwaited'
    BY <1>2 DEF Inv, ForegroundIsAwaited, Awaiting
  <2>2. ForegroundLaunch'
    BY <1>2 DEF Inv, ForegroundLaunch
  <2> QED
    BY <2>1, <2>2
<1> QED
  BY <1>1, <1>2

\* What waitpid reports of a child takes jobs from the foreground only.
LEMMA RecordForeground ==
    ASSUME NEW J \in Table, NEW pid, NEW report \in {"stopped", "continued", "dead"},
           NEW K, K = Record(J, pid, report), NEW t \in Slots,
           K[t].used, K[t].state = "FOREGROUND"
    PROVE  J[t].used /\ J[t].state = "FOREGROUND" /\ K[t].pgid = J[t].pgid
<1> PICK s : s = find_job_by_pid(J, pid)
  OBVIOUS
<1>1. s = NoSlot \/ s \in Slots
  BY FindByPid DEF Used
<1>2. CASE s = NoSlot
  BY <1>2 DEF Record
<1>3. CASE s # NoSlot /\ report = "stopped"
  <2>1. K = SetState(J, s, "STOPPED")
    BY <1>3 DEF Record
  <2> QED
    BY <1>1, <1>3, <2>1 DEF SetState, Table, JobRecord
<1>4. CASE s # NoSlot /\ report = "continued"
  <2>1. K = J \/ K = SetState(J, s, "BACKGROUND")
    BY <1>4 DEF Record
  <2> QED
    BY <1>1, <1>4, <2>1 DEF SetState, Table, JobRecord
<1>5. CASE s # NoSlot /\ report = "dead"
  <2>1. K = CountDeath(J, s)
    BY <1>5 DEF Record
  <2>2. s \in Slots
    BY <1>1, <1>5
  <2>3. \/ K = [J EXCEPT ![s] = EmptyJob]
        \/ \E n : K = [J EXCEPT ![s].live_count = n]
    BY <2>1 DEF CountDeath, delete_job
  <2> QED
    BY <2>2, <2>3 DEF EmptyJob, Table, JobRecord
<1> QED
  BY <1>2, <1>3, <1>4, <1>5

LEMMA ReadAtPrompt == Read => pc = "prompt"
<1>1. ASSUME NEW nseg, NEW bg, ReadLaunch(nseg, bg) PROVE pc = "prompt"
  BY <1>1 DEF ReadLaunch, Main
<1>2. ASSUME NEW jid, ReadWrongJob(jid) \/ ReadBg(jid) \/ ReadFg(jid) \/ ReadKill(jid)
      PROVE  pc = "prompt"
  BY <1>2 DEF ReadWrongJob, ReadBg, ReadFg, ReadKill, Main
<1>3. ReadJobs \/ ReadExit => pc = "prompt"
  BY DEF ReadJobs, ReadExit, Main
<1> QED
  BY <1>1, <1>2, <1>3 DEF Read

\* Only bg and fg change the table when a command is read.
LEMMA ReadChangesTable ==
    Read => jobs' = jobs \/ \E jid \in Jids : ReadBg(jid) \/ ReadFg(jid)
<1>1. ASSUME NEW nseg, NEW bg, ReadLaunch(nseg, bg) PROVE jobs' = jobs
  BY <1>1 DEF ReadLaunch
<1>2. ASSUME NEW jid, ReadWrongJob(jid) \/ ReadKill(jid) PROVE jobs' = jobs
  BY <1>2 DEF ReadWrongJob, ReadKill
<1>3. ReadJobs \/ ReadExit => jobs' = jobs
  BY DEF ReadJobs, ReadExit
<1> QED
  BY <1>1, <1>2, <1>3 DEF Read

\* What a step of the main thread at each of its labels keeps.
LEMMA AwaitedStep ==
    ASSUME Inv, [Next]_vars
    PROVE  (ForegroundIsAwaited /\ ForegroundLaunch)'
<1>1. jobs \in Table
  BY DEF Inv, TypeOK, Table
<1>2. jobs' = jobs =>
         \A s \in ForegroundJobs' :
            s \in ForegroundJobs /\ jobs'[s].pgid = jobs[s].pgid
  BY DEF ForegroundJobs, Used
<1>3. CASE jobs' = jobs /\ ForegroundJobs = {}
  BY <1>2, <1>3, AwaitedKept
<1>4. CASE jobs' = jobs /\ loc' = loc /\ pc' = pc
  BY <1>2, <1>4, AwaitedKept, NoneUnlessAwaiting DEF Awaiting, Waiting
<1>5. CASE jobs' = jobs /\ loc' = loc /\ Woken
  BY <1>2, <1>5, AwaitedKept, NoneUnlessAwaiting DEF Awaiting, Waiting, Woken
<1>6. CASE jobs' = jobs /\ loc' = loc /\ pc' \in {"fg_kill", "wait", "presuspend", "suspended"}
  BY <1>2, <1>6, AwaitedKept DEF Awaiting, Waiting
<1>7. CASE UNCHANGED vars
  BY <1>4, <1>7 DEF vars, shellVars
<1>8. CASE Read
  <2>1. ForegroundJobs = {}
    <3>1. pc = "prompt"
      BY <1>8, ReadAtPrompt
    <3> QED
      BY <3>1, NoneUnlessAwaiting DEF Awaiting, Waiting
  <2>2. ASSUME NEW jid \in Jids, ReadBg(jid)
        PROVE  (ForegroundIsAwaited /\ ForegroundLaunch)'
    <3> PICK s : s = find_job_by_jid(jobs, jid)
      OBVIOUS
    <3>1. s \in Slots /\ s # NoSlot /\ jobs' = SetState(jobs, s, "BACKGROUND")
      BY <2>2, FindByJid DEF ReadBg, Used
    <3>2. \A t \in Slots : jobs'[t].used /\ jobs'[t].state = "FOREGROUND"
                           => jobs[t].used /\ jobs[t].state = "FOREGROUND"
      BY <1>1, <3>1 DEF SetState, Table, JobRecord
    <3>3. ForegroundJobs' = {}
      BY <2>1, <3>2 DEF ForegroundJobs, Used
    <3> QED
      BY <3>3 DEF ForegroundIsAwaited, ForegroundLaunch
  <2>3. ASSUME NEW jid \in Jids, ReadFg(jid)
        PROVE  (ForegroundIsAwaited /\ ForegroundLaunch)'
    <3> PICK s : s = find_job_by_jid(jobs, jid)
      OBVIOUS
    <3>1. /\ s \in Slots /\ s # NoSlot /\ jobs' = SetState(jobs, s, "FOREGROUND")
          /\ loc' = [NoLocals EXCEPT !.pgid = jobs[s].pgid]
          /\ pc' = "fg_set"
      BY <2>3, FindByJid DEF ReadFg, Used
    <3>2. /\ \A t \in Slots \ {s} : jobs'[t] = jobs[t]
          /\ jobs'[s].pgid = jobs[s].pgid
      BY <1>1, <3>1 DEF SetState, Table, JobRecord
    <3>3. loc'.pgid = jobs[s].pgid /\ ~loc'.bg
      BY <3>1 DEF NoLocals
    <3>4. ForegroundJobs' \subseteq {s}
      BY <2>1, <3>2 DEF ForegroundJobs, Used
    <3> QED
      BY <3>1, <3>2, <3>3, <3>4 DEF ForegroundIsAwaited, ForegroundLaunch
  <2>4. CASE jobs' = jobs
    BY <1>3, <2>1, <2>4
  <2> QED
    BY <1>8, <2>2, <2>3, <2>4, ReadChangesTable
<1>9. CASE AddJob
  <2>1. ForegroundJobs = {}
    BY <1>9, NoneUnlessAwaiting DEF AddJob, Main, Awaiting, Waiting
  <2> PICK s : s = FreeSlot(jobs)
    OBVIOUS
  <2>2. s = NoSlot \/ s \in Slots
    BY FindFree
  <2>3. CASE s = NoSlot
    BY <1>3, <1>9, <2>1, <2>3 DEF AddJob, add_job
  <2>4. CASE s # NoSlot
    <3> PICK r : r = [used |-> TRUE, jid |-> next_jid, pgid |-> loc.pgid,
                      pids |-> loc.pids, live_count |-> loc.nseg,
                      state |-> IF loc.bg THEN "BACKGROUND" ELSE "FOREGROUND"]
      OBVIOUS
    <3>1. r.pgid = loc.pgid /\ r.state = IF loc.bg THEN "BACKGROUND" ELSE "FOREGROUND"
      OBVIOUS
    <3>2. jobs' = [jobs EXCEPT ![s] = r]
      BY <1>9, <2>4 DEF AddJob, add_job
    <3>3. jobs'[s] = r /\ \A t \in Slots \ {s} : jobs'[t] = jobs[t]
      BY <1>1, <2>2, <2>4, <3>2 DEF Table
    <3>4. ForegroundJobs' \subseteq {s}
      BY <2>1, <3>3 DEF ForegroundJobs, Used
    <3>5. s \in ForegroundJobs' => ~loc.bg
      BY <3>1, <3>3 DEF ForegroundJobs
    <3>6. /\ loc'.pgid = loc.pgid /\ loc'.bg = loc.bg /\ loc'.slot = s
          /\ pc' = "launched"
      BY <1>9 DEF AddJob, Inv, TypeOK, Locals
    <3> QED
      BY <2>4, <3>1, <3>3, <3>4, <3>5, <3>6
         DEF ForegroundIsAwaited, ForegroundLaunch
  <2> QED
    BY <2>3, <2>4
<1>10. CASE Restore
  <2>1. jobs' = jobs
    BY <1>10 DEF Restore
  <2>2. CASE pc = "launched"
    <3>1. loc' = loc /\ pc' = "report"
      BY <1>10, <2>2 DEF Restore, AfterRestore
    <3> QED
      BY <1>2, <2>1, <2>2, <3>1, AwaitedKept DEF Awaiting
  <2>3. CASE pc = "fg_set"
    <3>1. loc' = loc /\ pc' = "fg_kill"
      BY <1>10, <2>3 DEF Restore, AfterRestore
    <3> QED
      BY <1>6, <2>1, <3>1
  <2>4. CASE pc \in {"bg_set", "kill_found", "leave"}
    BY <1>3, <2>1, <2>4, NoneUnlessAwaiting DEF Awaiting, Waiting
  <2> QED
    BY <1>10, <2>2, <2>3, <2>4 DEF Restore, AfterRestore
<1>11. CASE TableFull \/ Acknowledge
  <2>1. CASE loc.slot = NoSlot \/ loc.bg
    <3>1. ForegroundJobs = {}
      BY <1>11, <2>1 DEF Inv, ForegroundLaunch, TableFull, Acknowledge, Main
    <3> QED
      BY <1>3, <1>11, <3>1 DEF TableFull, Acknowledge
  <2>2. CASE loc.slot # NoSlot /\ ~loc.bg
    BY <1>6, <1>11, <2>2 DEF TableFull, Acknowledge
  <2> QED
    BY <2>1, <2>2
<1>12. CASE FgKill
  <2>1. CASE KillFails(loc.pgid)
    <3>1. ASSUME NEW s \in ForegroundJobs
          PROVE  FALSE
      <4>1. jobs[s].pgid = loc.pgid /\ s \in Used(jobs)
        BY <3>1 DEF Inv, ForegroundIsAwaited, ForegroundJobs
      <4>2. loc.pgid \in 1..(next_pid - 1) /\ next_pid \in Nat
        BY <4>1, ProcessesAssumption DEF Inv, GroupsOfJobs, TypeOK, ProcTypeOK
      <4>3. Members(loc.pgid) = {}
        BY <2>1, <4>2 DEF KillFails
      <4>4. Cardinality(Members(loc.pgid)) > 0
        BY <4>1 DEF Inv, LiveCountExact
      <4> QED
        BY <4>3, <4>4, FS_EmptySet
    <3> QED
      BY <1>3, <1>12, <3>1 DEF FgKill
  <2>2. CASE ~KillFails(loc.pgid)
    BY <1>6, <1>12, <2>2 DEF FgKill
  <2> QED
    BY <2>1, <2>2
<1>13. CASE WaitTest
  <2>1. CASE fg_pgid # loc.pgid
    <3>1. fg_pgid = FgPgid(jobs)
      BY <1>13, EmptyStack DEF WaitTest, Main, Inv, FgPgidExact
    <3>2. ForegroundJobs = {}
      BY <2>1, <3>1, FgPgidOfTable DEF Inv, ForegroundIsAwaited
    <3> QED
      BY <1>3, <1>13, <3>2 DEF WaitTest
  <2>2. CASE fg_pgid = loc.pgid
    BY <1>6, <1>13, <2>2 DEF WaitTest
  <2> QED
    BY <2>1, <2>2
<1>14. CASE Suspend
  BY <1>6, <1>14 DEF Suspend
<1>15. CASE LaunchStage \/ ForkFails \/ PipeFails \/ BgKill \/ KillSend
  BY <1>3, <1>15, NoneUnlessAwaiting DEF LaunchStage, ForkFails, PipeFails,
     BgKill, KillSend, Main, Awaiting, Waiting
<1>16. ASSUME NEW p \in Pids, Reap(p)
       PROVE  (ForegroundIsAwaited /\ ForegroundLaunch)'
  <2> PICK report : report = Report(p)
    OBVIOUS
  <2>1. report \in {"stopped", "continued", "dead"}
    BY <1>16 DEF Reap, Waitable, Report, Inv, TypeOK, ProcTypeOK, ProcRecord
  <2>2. jobs' = Record(jobs, p, report)
    BY <1>16 DEF Reap
  <2>3. \A s \in ForegroundJobs' :
           s \in ForegroundJobs /\ jobs'[s].pgid = jobs[s].pgid
    BY <1>1, <2>1, <2>2, RecordForeground DEF ForegroundJobs, Used
  <2> QED
    BY <1>16, <2>3, AwaitedKept, NoneUnlessAwaiting DEF Reap, Awaiting, Waiting
<1>17. CASE \E sig \in Keys : DeliverKey(sig) \/ PressKey(sig)
  BY <1>4, <1>5, <1>17 DEF DeliverKey, PressKey
<1>18. CASE DeliverChld
  BY <1>5, <1>18 DEF DeliverChld
<1>19. CASE (\E sig \in Keys : ForwardKey(sig)) \/ ReapDone
  BY <1>4, <1>19 DEF ForwardKey, ReapDone
<1>20. CASE \E p \in Pids : ChildStep(p)
  BY <1>4, <1>20 DEF ChildStep, shellVars
<1> QED
  BY <1>7, <1>8, <1>9, <1>10, <1>11, <1>12, <1>13, <1>14, <1>15, <1>16, <1>17,
     <1>18, <1>19, <1>20 DEF Next, Go, Handler

\* fg_pgid is brought up to date whenever the table changes outside the SIGCHLD
\* handler, and at the end of that handler.
LEMMA ExactStep ==
    ASSUME TypeOK, FgPgidExact, [Next]_vars
    PROVE  FgPgidExact'
<1>1. stack \in Seq(Frame) /\ FgPgidExact
  BY DEF TypeOK
<1>2. CASE fg_pgid' = FgPgid(jobs')
  BY <1>2 DEF FgPgidExact
<1>3. CASE jobs' = jobs /\ fg_pgid' = fg_pgid /\ stack' = stack
  BY <1>1, <1>3 DEF FgPgidExact, Running
<1>4. ASSUME NEW f, stack' = Append(stack, f), jobs' = jobs, fg_pgid' = fg_pgid
      PROVE  FgPgidExact'
  <2>1. Running("CHLD") => Running("CHLD")'
    BY <1>1, <1>4, RunningPush
  <2> QED
    BY <1>1, <1>4, <2>1 DEF FgPgidExact
<1>5. ASSUME NEW sig \in Keys, ForwardKey(sig)
      PROVE  FgPgidExact'
  <2>1. stack # <<>> /\ Top.sig # "CHLD" /\ Return
    BY <1>5, MyShellAssumption DEF ForwardKey
  <2>2. Running("CHLD") => Running("CHLD")'
    BY <1>1, <2>1, RunningReturn
  <2> QED
    BY <1>1, <1>5, <2>2 DEF FgPgidExact, ForwardKey
<1>6. ASSUME NEW p \in Pids, Reap(p)
      PROVE  FgPgidExact'
  <2>1. Running("CHLD") /\ stack' = stack
    BY <1>1, <1>6, TopIsRunning DEF Reap
  <2> QED
    BY <2>1 DEF FgPgidExact, Running
<1>7. CASE UNCHANGED vars
  BY <1>3, <1>7 DEF vars, shellVars
<1>8. CASE Read
  <2>1. ASSUME NEW nseg, NEW bg, ReadLaunch(nseg, bg) PROVE FgPgidExact'
    BY <1>3, <2>1 DEF ReadLaunch
  <2>2. ASSUME NEW jid, ReadWrongJob(jid) \/ ReadKill(jid) PROVE FgPgidExact'
    BY <1>3, <2>2 DEF ReadWrongJob, ReadKill
  <2>3. ASSUME NEW jid, ReadBg(jid) \/ ReadFg(jid) PROVE FgPgidExact'
    BY <1>2, <2>3 DEF ReadBg, ReadFg
  <2>4. ASSUME ReadJobs \/ ReadExit PROVE FgPgidExact'
    BY <1>3, <2>4 DEF ReadJobs, ReadExit
  <2> QED
    BY <1>8, <2>1, <2>2, <2>3, <2>4 DEF Read
<1>9. CASE AddJob
  BY <1>2, <1>3, <1>9 DEF AddJob, add_job
<1>10. CASE Restore \/ DeliverChld
  BY <1>3, <1>4, <1>10 DEF Restore, restore_sigmask, DeliverChld
<1>11. CASE LaunchStage \/ ForkFails \/ PipeFails \/ TableFull \/ Acknowledge
            \/ BgKill \/ FgKill \/ KillSend \/ WaitTest \/ Suspend
  BY <1>3, <1>11 DEF LaunchStage, ForkFails, PipeFails, TableFull, Acknowledge,
     BgKill, FgKill, KillSend, WaitTest, Suspend
<1>12. ASSUME NEW sig \in Keys, DeliverKey(sig) PROVE FgPgidExact'
  BY <1>4, <1>12 DEF DeliverKey
<1>13. CASE ReapDone
  BY <1>2, <1>13 DEF ReapDone
<1>14. CASE \E sig \in Keys : PressKey(sig)
  BY <1>3, <1>14 DEF PressKey
<1>15. CASE \E p \in Pids : ChildStep(p)
  BY <1>3, <1>15 DEF ChildStep, shellVars
<1> QED
  BY <1>5, <1>6, <1>7, <1>8, <1>9, <1>10, <1>11, <1>12, <1>13, <1>14, <1>15
     DEF Next, Go, Handler

-----------------------------------------------------------------------------
(* The theorems *)

LEMMA ExactInit == Init => FgPgidExact
<1> SUFFICES ASSUME Init PROVE FgPgidExact
  OBVIOUS
<1>1. Used(jobs) = {}
  BY DEF Init, EmptyTable, EmptyJob, Used
<1>2. FgPgid(jobs) = 0
  BY <1>1, FindForeground DEF FgPgid
<1> QED
  BY <1>2 DEF FgPgidExact, Init

LEMMA InvInit == Init => Inv
<1> SUFFICES ASSUME Init PROVE Inv
  OBVIOUS
<1>1. TypeOK
  BY TypeInit
<1>2. Used(jobs) = {} /\ ForegroundJobs = {}
  BY DEF Init, EmptyTable, EmptyJob, Used, ForegroundJobs
<1>3. \A p \in Pids : ~Unreaped(p)
  BY DEF Init, ProcInit, BlankProc, Unreaped
<1>4. ChildrenInGroups /\ GroupsOfJobs /\ LiveCountExact
  BY <1>2, <1>3 DEF ChildrenInGroups, GroupsOfJobs, LiveCountExact
<1>5. LaunchInProgress /\ MaskHolds
  BY DEF Init, LaunchInProgress, MaskHolds
<1>6. ForegroundIsAwaited /\ ForegroundLaunch
  BY <1>2 DEF ForegroundIsAwaited, ForegroundLaunch
<1>7. FgPgidExact
  BY ExactInit
<1> QED
  BY <1>1, <1>4, <1>5, <1>6, <1>7 DEF Inv

\* Inv is inductive: as long as fork does not fail, every step of the main
\* thread, of a handler, of the user and of a child keeps it.
LEMMA InvStep ==
    ASSUME NoForkFault, Inv, [Next]_vars
    PROVE  Inv'
<1>1. TypeOK'
  BY TypeStep DEF Inv
<1> QED
  BY <1>1, TableStep, LaunchStep, MaskStep, AwaitedStep, ExactStep DEF Inv

\* launch_pipeline, sigchld_handler and the builtins keep the table, the groups of the
\* children and the foreground in step with each other.
THEOREM InvCorrect ==
    ASSUME NoForkFault
    PROVE  Spec => []Inv
<1>1. Init => Inv
  BY InvInit
<1>2. Inv /\ [Next]_vars => Inv'
  BY InvStep
<1> QED
  BY <1>1, <1>2, PTL DEF Spec

\* launch_pipeline, builtin_fg and wait_for_foreground against the handlers:
\* the shell never prompts over a foreground job, nor waits for another one.
THEOREM ForegroundAwaited ==
    ASSUME NoForkFault
    PROVE  Spec => []ForegroundIsAwaited
<1>1. Inv => ForegroundIsAwaited
  BY DEF Inv
<1> QED
  BY <1>1, InvCorrect, PTL

\* add_job, delete_job, builtin_bg, builtin_fg and sigchld_handler between
\* them keep the cached group that the key handlers forward to right, whatever
\* fails.
THEOREM CachedGroupExact == Spec => []FgPgidExact
<1>1. Init => TypeOK /\ FgPgidExact
  BY TypeInit, ExactInit
<1>2. TypeOK /\ FgPgidExact /\ [Next]_vars => (TypeOK /\ FgPgidExact)'
  BY TypeStep, ExactStep
<1> QED
  BY <1>1, <1>2, PTL DEF Spec

\* The count that sigchld_handler takes down to 0 before it deletes a job is
\* the number of children of the job that are still to be reaped.
THEOREM CountsExact ==
    ASSUME NoForkFault
    PROVE  Spec => []LiveCountExact
<1>1. Inv => LiveCountExact
  BY DEF Inv
<1> QED
  BY <1>1, InvCorrect, PTL


-----------------------------------------------------------------------------
(* Whatever fails *)

\* The pids that the shell has noted are those of earlier forks, or the -1 of forks that
\* failed.
PidsForked ==
    /\ \A p \in Pids : Unreaped(p) => p < next_pid
    /\ \A s \in Used(jobs) : jobs[s].pids \subseteq -1..(next_pid - 1)

\* A launch notes no more pids than it has made turns.
LaunchCounts ==
    pc = "launch" =>
       /\ loc.i <= loc.nseg
       /\ loc.pids \subseteq -1..(next_pid - 1)
       /\ Cardinality(loc.pids) <= loc.i

\* The children of a job that are not reaped are no more than its live_count.
CountsCover ==
    \A s \in Used(jobs) :
       Cardinality({p \in Pids : p \in jobs[s].pids /\ Unreaped(p)})
          <= jobs[s].live_count

\* live_count is an upper bound only: a fork that failed was counted.
CountsBound ==
    /\ TypeOK
    /\ PidsForked
    /\ LaunchCounts
    /\ CountsCover

\* The children of a job, or of a launch, that were not reaped can be counted.
LEMMA SubsetFinite ==
    ASSUME NEW P
    PROVE  IsFiniteSet({p \in Pids : p \in P /\ Unreaped(p)})
<1>1. IsFiniteSet(Pids)
  BY FS_Interval, ProcessesAssumption DEF Pids
<1> QED
  BY <1>1, FS_Subset

\* The counts are right in the shell that has just started.
LEMMA BoundInit == Init => CountsBound
<1> SUFFICES ASSUME Init PROVE CountsBound
  OBVIOUS
<1>1. Used(jobs) = {} /\ pc # "launch"
  BY DEF Init, EmptyTable, EmptyJob, Used
<1>2. \A p \in Pids : ~Unreaped(p)
  BY DEF Init, ProcInit, BlankProc, Unreaped
<1> QED
  BY <1>1, <1>2, TypeInit DEF CountsBound, PidsForked, LaunchCounts, CountsCover

\* Forking: the new child is in no job yet.
LEMMA BoundLaunch ==
    ASSUME CountsBound, LaunchStage
    PROVE  (PidsForked /\ LaunchCounts /\ CountsCover)'
<1> PICK n : n = next_pid
  OBVIOUS
<1>1. PICK r : proc' = [proc EXCEPT ![n] = r]
  BY ForkAdds
<1>2. /\ n \in Pids /\ next_pid' = n + 1 /\ n \in Nat
      /\ \A p \in Pids : p # n => (Unreaped(p)' <=> Unreaped(p))
      /\ jobs' = jobs /\ pc = "launch" /\ pc' = "launch"
      /\ loc'.pids = loc.pids \union {n} /\ loc'.i = loc.i + 1 /\ loc'.nseg = loc.nseg
      /\ loc.i < loc.nseg /\ loc.i \in Nat /\ loc.nseg \in Nat
  BY <1>1, ForkAdds, ProcessesAssumption, MyShellAssumption
     DEF CountsBound, TypeOK, ProcTypeOK, Locals, LaunchStage, Main, Unreaped, Pids
<1>3. PidsForked'
  <2>1. ASSUME NEW p \in Pids, Unreaped(p)'
        PROVE  p < n + 1
    <3>1. p = n \/ p < n
      BY <1>2, <2>1 DEF CountsBound, PidsForked
    <3> QED
      BY <1>2, <3>1 DEF Pids
  <2>2. -1..(n - 1) \subseteq -1..(n + 1 - 1)
    BY <1>2
  <2>3. \A s \in Used(jobs) : jobs[s].pids \subseteq -1..(n - 1)
    BY DEF CountsBound, PidsForked
  <2>4. \A s \in Used(jobs) : jobs[s].pids \subseteq -1..(n + 1 - 1)
    BY <2>2, <2>3
  <2>5. jobs' = jobs /\ next_pid' = n + 1
    BY <1>2
  <2>6. ASSUME NEW s \in Used(jobs') PROVE jobs'[s].pids \subseteq -1..(next_pid' - 1)
    <3>1. s \in Used(jobs) /\ jobs'[s].pids = jobs[s].pids
      BY <2>5, <2>6
    <3>2. next_pid' - 1 = n + 1 - 1
      <4>1. n \in Nat /\ next_pid' \in Nat
        BY <1>2
      <4> QED
        BY <2>5, <4>1
    <3> QED
      BY <2>4, <3>1, <3>2
  <2>7. \A p \in Pids : Unreaped(p)' => p < next_pid'
    BY <2>1, <2>5
  <2> QED
    BY <2>6, <2>7 DEF PidsForked
<1>4. LaunchCounts'
  <2>1. loc.pids \subseteq -1..(n - 1) /\ Cardinality(loc.pids) <= loc.i
    BY <1>2 DEF CountsBound, LaunchCounts
  <2>2. IsFiniteSet(loc.pids)
    <3>1. IsFiniteSet(-1..(n - 1))
      BY <1>2, FS_Interval
    <3> QED
      BY <2>1, <3>1, FS_Subset
  <2>3. Cardinality(loc.pids) \in Nat /\ n \notin loc.pids
    BY <1>2, <2>1, <2>2, FS_CardinalityType
  <2>4. Cardinality(loc.pids \union {n}) = Cardinality(loc.pids) + 1
    BY <2>2, <2>3, FS_AddElement
  <2>5. Cardinality(loc'.pids) <= loc'.i
    BY <1>2, <2>1, <2>3, <2>4
  <2>6. loc'.pids \subseteq -1..n
    BY <1>2, <2>1
  <2> QED
    BY <1>2, <2>5, <2>6 DEF LaunchCounts
<1>5. CountsCover'
  <2>1. ASSUME NEW s \in Used(jobs)
        PROVE  {p \in Pids : p \in jobs'[s].pids /\ Unreaped(p)'}
                  = {p \in Pids : p \in jobs[s].pids /\ Unreaped(p)}
    <3>1. n \notin jobs[s].pids
      BY <1>2 DEF CountsBound, PidsForked
    <3> QED
      BY <1>2, <3>1
  <2> QED
    BY <1>2, <2>1 DEF CountsBound, CountsCover
<1> QED
  BY <1>3, <1>4, <1>5

\* add_job counts every turn of the launch.
LEMMA BoundAdd ==
    ASSUME CountsBound, AddJob
    PROVE  (PidsForked /\ LaunchCounts /\ CountsCover)'
<1> PICK f : f = FreeSlot(jobs)
  OBVIOUS
<1>1. /\ jobs \in Table /\ pc = "launch" /\ pc' = "launched" /\ proc' = proc
      /\ next_pid' = next_pid /\ f \in {NoSlot} \union Slots
      /\ loc.i = loc.nseg /\ loc.nseg \in Nat
  BY FindFree, MyShellAssumption
     DEF AddJob, Main, CountsBound, TypeOK, Table, procVars, Locals
<1>2. /\ loc.pids \subseteq -1..(next_pid - 1) /\ Cardinality(loc.pids) <= loc.nseg
  BY <1>1 DEF CountsBound, LaunchCounts
<1>3. LaunchCounts'
  BY <1>1 DEF LaunchCounts
<1>4. CASE f = NoSlot
  <2>1. jobs' = jobs
    BY <1>4 DEF AddJob, add_job
  <2> QED
    BY <1>1, <1>3, <2>1 DEF CountsBound, PidsForked, CountsCover, Unreaped
<1>5. CASE f # NoSlot
  <2> PICK r : r = [used |-> TRUE, jid |-> next_jid, pgid |-> loc.pgid,
                    pids |-> loc.pids, live_count |-> loc.nseg,
                    state |-> IF loc.bg THEN "BACKGROUND" ELSE "FOREGROUND"]
    OBVIOUS
  <2>1. r.pids = loc.pids /\ r.live_count = loc.nseg
    OBVIOUS
  <2>2. jobs' = [jobs EXCEPT ![f] = r]
    BY <1>5 DEF AddJob, add_job
  <2>3. /\ f \in Slots /\ jobs'[f] = r
        /\ \A s \in Used(jobs') : s # f => s \in Used(jobs) /\ jobs'[s] = jobs[s]
    BY <1>1, <1>5, <2>2 DEF Table, Used
  <2>4. Cardinality({p \in Pids : p \in loc.pids /\ Unreaped(p)}) <= loc.nseg
    <3>1. IsFiniteSet(loc.pids) /\ Cardinality(loc.pids) \in Nat
      <4>1. IsFiniteSet(-1..(next_pid - 1))
        BY FS_Interval, ProcessesAssumption DEF CountsBound, TypeOK, ProcTypeOK
      <4> QED
        BY <1>2, <4>1, FS_Subset, FS_CardinalityType
    <3>2. PICK S : S = {p \in Pids : p \in loc.pids /\ Unreaped(p)}
      OBVIOUS
    <3>3. Cardinality(S) <= Cardinality(loc.pids) /\ Cardinality(S) \in Nat
      BY <3>1, <3>2, FS_Subset, FS_CardinalityType
    <3> QED
      BY <1>1, <1>2, <3>1, <3>2, <3>3
  <2>5. PidsForked'
    BY <1>1, <1>2, <2>1, <2>3 DEF CountsBound, PidsForked, Unreaped
  <2>6. CountsCover'
    BY <1>1, <2>1, <2>3, <2>4 DEF CountsBound, CountsCover, Unreaped
  <2> QED
    BY <1>3, <2>5, <2>6
<1> QED
  BY <1>4, <1>5

\* sigchld_handler deletes a job only when the count says that its last child is reaped.
LEMMA BoundReap ==
    ASSUME CountsBound, NEW q \in Pids, Reap(q)
    PROVE  (PidsForked /\ CountsCover)'
<1>1. /\ jobs \in Table /\ q \in Waitable /\ next_pid' = next_pid
      /\ proc \in [Pids -> ProcRecord]
      /\ proc' = [proc EXCEPT ![q] = Collected(q)]
  BY DEF CountsBound, TypeOK, ProcTypeOK, Table, Reap
<1> PICK report : report = Report(q)
  OBVIOUS
<1>2. /\ report \in {"stopped", "continued", "dead"}
      /\ jobs' = Record(jobs, q, report)
      /\ report = "dead" <=> proc[q].st = "zombie"
  BY <1>1 DEF Reap, Report, Waitable, ProcRecord
<1>3. \A s \in Used(jobs') : s \in Used(jobs) /\ jobs'[s].pids = jobs[s].pids
  BY <1>1, <1>2, RecordOthers DEF Used
<1>4. \A p \in Pids : Unreaped(p)' => Unreaped(p)
  BY <1>1 DEF Unreaped, Collected, BlankProc, ProcRecord
<1>5. PidsForked'
  BY <1>1, <1>3, <1>4 DEF CountsBound, PidsForked
<1>6. ASSUME NEW s \in Used(jobs')
      PROVE  Cardinality({p \in Pids : p \in jobs'[s].pids /\ Unreaped(p)'})
                <= jobs'[s].live_count
  <2> PICK S, T : /\ S = {p \in Pids : p \in jobs[s].pids /\ Unreaped(p)}
                  /\ T = {p \in Pids : p \in jobs'[s].pids /\ Unreaped(p)'}
    OBVIOUS
  <2> PICK c : c = jobs[s].live_count
    OBVIOUS
  <2>1. /\ IsFiniteSet(S) /\ T \subseteq S /\ Cardinality(S) <= c /\ c \in Nat
    <3>1. s \in Used(jobs) /\ jobs'[s].pids = jobs[s].pids
      BY <1>3
    <3>2. c \in Nat
      BY <1>1, <3>1, MyShellAssumption DEF Table, JobRecord, Used
    <3>3. Cardinality(S) <= c
      BY <3>1 DEF CountsBound, CountsCover
    <3>4. IsFiniteSet(S)
      BY SubsetFinite
    <3>5. T \subseteq S
      BY <1>4, <3>1
    <3> QED
      BY <3>2, <3>3, <3>4, <3>5
  <2>2. /\ IsFiniteSet(T) /\ Cardinality(T) <= Cardinality(S)
        /\ Cardinality(S) \in Nat /\ Cardinality(T) \in Nat
    BY <2>1, FS_Subset, FS_CardinalityType
  <2>3. CASE jobs'[s].live_count = c
    BY <2>1, <2>2, <2>3
  <2>4. CASE report # "dead"
    <3>1. QuietTable
      BY <1>1, <1>2, <2>4, RecordQuiet
    <3> QED
      BY <1>3, <2>3, <3>1 DEF QuietTable
  <2>5. CASE report = "dead"
    <3> PICK t : t = find_job_by_pid(jobs, q)
      OBVIOUS
    <3>1. CASE s # t
      BY <1>1, <1>2, <2>3, <3>1, RecordOthers DEF Used
    <3>2. CASE s = t
      <4>1. t # NoSlot /\ t \in Slots
        BY <3>2 DEF Used, Slots, NoSlot
      <4>2. q \in S /\ q \notin T
        <5>1. q \in jobs[s].pids
          BY <3>2, <4>1, FindByPid
        <5>2. Unreaped(q) /\ ~Unreaped(q)'
          BY <1>1, <1>2, <2>5 DEF Unreaped, Collected, BlankProc
        <5> QED
          BY <5>1, <5>2
      <4>3. T \subseteq S \ {q}
        BY <2>1, <4>2
      <4>4. Cardinality(S \ {q}) = Cardinality(S) - 1 /\ IsFiniteSet(S \ {q})
        BY <2>1, <4>2, FS_RemoveElement
      <4>5. Cardinality(T) <= Cardinality(S) - 1
        BY <4>3, <4>4, FS_Subset
      <4>6. c > 0
        BY <2>1, <2>2, <4>5
      <4>7. CountDeath(jobs, t) = IF c = 1 THEN delete_job(jobs, t)
                                  ELSE SetCount(jobs, t, c - 1)
        BY <2>1, <3>2, <4>6, CountDeathCases
      <4>8. jobs' = CountDeath(jobs, t)
        BY <1>2, <2>5, <4>1 DEF Record
      <4>9. c # 1
        BY <1>1, <3>2, <4>1, <4>7, <4>8 DEF delete_job, EmptyJob, Used, Table
      <4>10. jobs'[s].live_count = c - 1
        BY <1>1, <3>2, <4>1, <4>7, <4>8, <4>9 DEF SetCount, Table, JobRecord
      <4> QED
        BY <2>1, <2>2, <4>5, <4>10
    <3> QED
      BY <3>1, <3>2
  <2> QED
    BY <2>4, <2>5
<1> QED
  BY <1>5, <1>6 DEF CountsCover

\* No step of the shell, a handler or a child makes a count too low, whatever fork does.
LEMMA BoundStep ==
    ASSUME CountsBound, [Next]_vars
    PROVE  CountsBound'
<1>1. TypeOK /\ TypeOK'
  BY TypeStep DEF CountsBound
<1>2. CASE LaunchStage
  BY <1>1, <1>2, BoundLaunch DEF CountsBound
<1>3. CASE AddJob
  BY <1>1, <1>3, BoundAdd DEF CountsBound
<1>4. ASSUME NEW q \in Pids, Reap(q)
      PROVE  CountsBound'
  <2>1. LaunchCounts'
    BY <1>4 DEF CountsBound, LaunchCounts, Reap
  <2> QED
    BY <1>1, <1>4, <2>1, BoundReap DEF CountsBound
<1>5. CASE ~LaunchStage /\ ~AddJob /\ ~\E p \in Pids : Reap(p)
  <2>1. QuietProc /\ QuietTable
    BY <1>1, <1>5, OtherSteps
  <2>2. PidsForked'
    BY <2>1 DEF CountsBound, PidsForked, QuietProc, QuietTable
  <2>3. CountsCover'
    <3>1. ASSUME NEW s \in Used(jobs)
          PROVE  {p \in Pids : p \in jobs'[s].pids /\ Unreaped(p)'}
                    = {p \in Pids : p \in jobs[s].pids /\ Unreaped(p)}
      BY <2>1 DEF QuietProc, QuietTable
    <3> QED
      BY <2>1, <3>1 DEF CountsBound, CountsCover, QuietTable
  <2>4. LaunchCounts'
    <3>1. CASE pc' # "launch"
      BY <3>1 DEF LaunchCounts
    <3>2. CASE pc' = pc /\ loc' = loc
      BY <2>1, <3>2 DEF CountsBound, LaunchCounts, QuietProc
    <3>3. ASSUME NEW nseg \in 1..MaxStages, NEW bg, ReadLaunch(nseg, bg)
          PROVE  LaunchCounts'
      <4>1. loc'.pids = {} /\ loc'.i = 0 /\ loc'.nseg = nseg
        BY <3>3 DEF ReadLaunch, NoLocals
      <4> QED
        BY <4>1, FS_EmptySet, MyShellAssumption DEF LaunchCounts
    <3>4. CASE ForkFails
      <4>1. /\ loc'.pids = loc.pids \union {-1} /\ loc'.i = loc.i + 1 /\ loc'.nseg = loc.nseg
            /\ loc.i < loc.nseg /\ loc.i \in Nat /\ loc.nseg \in Nat /\ pc = "launch"
            /\ next_pid' = next_pid /\ next_pid \in Nat \ {0}
        BY <1>1, <3>4, ProcessesAssumption, MyShellAssumption
           DEF ForkFails, Main, TypeOK, ProcTypeOK, Locals, procVars
      <4>2. loc.pids \subseteq -1..(next_pid - 1) /\ Cardinality(loc.pids) <= loc.i
        BY <4>1 DEF CountsBound, LaunchCounts
      <4>3. IsFiniteSet(loc.pids)
        <5>1. IsFiniteSet(-1..(next_pid - 1))
          BY <4>1, FS_Interval
        <5> QED
          BY <4>2, <5>1, FS_Subset
      <4>4. PICK c : c = Cardinality(loc.pids)
        OBVIOUS
      <4>5. c \in Nat /\ Cardinality(loc.pids \union {-1}) \in {c, c + 1}
        BY <4>3, <4>4, FS_CardinalityType, FS_AddElement
      <4>6. loc'.pids \subseteq -1..(next_pid - 1)
        BY <4>1, <4>2
      <4> QED
        BY <4>1, <4>2, <4>4, <4>5, <4>6 DEF LaunchCounts
    <3>5. CASE Read
      BY <3>1, <3>3, <3>5 DEF Read, ReadJobs, ReadWrongJob, ReadBg, ReadFg, ReadKill,
         ReadExit
    <3>6. CASE Restore
      BY <3>1, <3>6 DEF Restore, AfterRestore
    <3>7. CASE PipeFails \/ TableFull \/ Acknowledge \/ BgKill \/ FgKill \/ KillSend
                \/ WaitTest \/ Suspend
      BY <3>1, <3>7 DEF PipeFails, TableFull, Acknowledge, BgKill, FgKill, KillSend,
         WaitTest, Suspend, ToPrompt
    <3>8. UNCHANGED vars \/ ReapDone => pc' = pc /\ loc' = loc
      BY DEF vars, shellVars, ReapDone
    <3>9. CASE DeliverChld
      BY <3>1, <3>2, <3>9 DEF DeliverChld, Woken
    <3>10. CASE \E sig \in Keys : DeliverKey(sig) \/ ForwardKey(sig) \/ PressKey(sig)
      BY <3>1, <3>2, <3>10 DEF DeliverKey, ForwardKey, PressKey, Woken
    <3>11. CASE \E p \in Pids : ChildStep(p)
      BY <3>2, <3>11 DEF ChildStep, shellVars
    <3>12. CASE Go
      BY <1>5, <3>4, <3>6, <3>7, <3>12 DEF Go
    <3>13. CASE Handler
      BY <1>5, <3>2, <3>8, <3>10, <3>13 DEF Handler
    <3> QED
      BY <3>2, <3>5, <3>8, <3>9, <3>10, <3>11, <3>12, <3>13 DEF Next
  <2> QED
    BY <1>1, <2>2, <2>3, <2>4 DEF CountsBound
<1> QED
  BY <1>2, <1>3, <1>4, <1>5

\* sigchld_handler deletes a job when it reaps the last of the children that the count
\* may stand for.
LEMMA DeletedWhenReaped ==
    ASSUME CountsBound, NEW q \in Pids, Reap(q),
           NEW s \in Used(jobs) \ Used(jobs'), NEW p \in Pids, p \in jobs[s].pids
    PROVE  ~Unreaped(p)'
<1>1. /\ jobs \in Table /\ q \in Waitable /\ s \in Slots
      /\ proc \in [Pids -> ProcRecord]
      /\ proc' = [proc EXCEPT ![q] = Collected(q)]
  BY DEF CountsBound, TypeOK, ProcTypeOK, Table, Reap, Used
<1> PICK report : report = Report(q)
  OBVIOUS
<1>2. /\ report \in {"stopped", "continued", "dead"}
      /\ jobs' = Record(jobs, q, report)
      /\ report = "dead" <=> proc[q].st = "zombie"
  BY <1>1 DEF Reap, Report, Waitable, ProcRecord
<1> PICK t : t = find_job_by_pid(jobs, q)
  OBVIOUS
<1>3. report = "dead"
  <2>1. SUFFICES ASSUME report # "dead" PROVE QuietTable
    BY <2>1 DEF QuietTable
  <2> QED
    BY <1>1, <1>2, <2>1, RecordQuiet
<1>4. s = t
  <2>1. SUFFICES ASSUME s # t PROVE jobs'[s] = jobs[s]
    BY <2>1 DEF Used
  <2> QED
    BY <1>1, <1>2, <2>1, RecordOthers
<1>5. t # NoSlot /\ q \in jobs[s].pids
  <2>1. t # NoSlot
    BY <1>1, <1>4 DEF Slots, NoSlot
  <2> QED
    BY <1>4, <2>1, FindByPid
<1>6. jobs' = CountDeath(jobs, s)
  BY <1>2, <1>3, <1>4, <1>5 DEF Record
<1> PICK S : S = {r \in Pids : r \in jobs[s].pids /\ Unreaped(r)}
  OBVIOUS
<1> PICK c : c = jobs[s].live_count
  OBVIOUS
<1>7. Unreaped(q) /\ ~Unreaped(q)'
  BY <1>1, <1>2, <1>3 DEF Unreaped, Collected, BlankProc
<1>8. /\ IsFiniteSet(S) /\ Cardinality(S) \in Nat /\ Cardinality(S) <= c /\ c \in Nat
  <2>1. c \in Nat
    BY <1>1, MyShellAssumption DEF Table, JobRecord
  <2>2. Cardinality(S) <= c
    BY DEF CountsBound, CountsCover
  <2>3. IsFiniteSet(S)
    BY SubsetFinite
  <2> QED
    BY <2>1, <2>2, <2>3, FS_CardinalityType
<1>9. q \in S
  BY <1>5, <1>7
<1>10. IsFiniteSet(S \ {q}) /\ Cardinality(S \ {q}) = Cardinality(S) - 1
  BY <1>8, <1>9, FS_RemoveElement
<1>11. Cardinality(S \ {q}) \in Nat
  BY <1>10, FS_CardinalityType
<1>12. c > 0
  BY <1>8, <1>10, <1>11
<1>13. CountDeath(jobs, s) = IF c = 1 THEN delete_job(jobs, s)
                             ELSE SetCount(jobs, s, c - 1)
  BY <1>8, <1>12, CountDeathCases
<1>14. c = 1
  <2>1. SUFFICES ASSUME c # 1 PROVE s \in Used(jobs')
    BY <2>1
  <2>2. jobs' = SetCount(jobs, s, c - 1)
    BY <1>6, <1>13, <2>1
  <2> QED
    BY <1>1, <2>2 DEF SetCount, Used, Table, JobRecord
<1>15. Cardinality(S \ {q}) = 0
  BY <1>8, <1>10, <1>11, <1>14
<1>16. S \ {q} = {}
  BY <1>10, <1>15, FS_EmptySet
<1>17. CASE p = q
  BY <1>7, <1>17
<1>18. CASE p # q
  <2>1. ~Unreaped(p)
    BY <1>16, <1>18
  <2>2. proc'[p] = proc[p]
    BY <1>1, <1>18
  <2> QED
    BY <2>1, <2>2 DEF Unreaped
<1> QED
  BY <1>17, <1>18

\* launch_pipeline takes the -1 of a fork that failed for a pid and counts it; so the
\* count that sigchld_handler takes down may be too high, but it is never too low: a job
\* is deleted only when none of its children is left to be reaped.
THEOREM ListedLongEnough == Spec => JobOutlivesItsChildren
<1>1. Init => CountsBound
  BY BoundInit
<1>2. CountsBound /\ [Next]_vars => CountsBound'
  BY BoundStep
<1>3. CountsBound /\ [Next]_vars
      => [\A s \in Used(jobs) \ Used(jobs') :
             \A p \in Pids : p \in jobs[s].pids => ~Unreaped(p)']_vars
  <2> SUFFICES ASSUME CountsBound, [Next]_vars, NEW s \in Used(jobs) \ Used(jobs'),
                      NEW p \in Pids, p \in jobs[s].pids
               PROVE  ~Unreaped(p)'
    OBVIOUS
  <2>1. ASSUME NEW q \in Pids, Reap(q)
        PROVE  ~Unreaped(p)'
    BY <2>1, DeletedWhenReaped
  <2>2. CASE LaunchStage
    BY <2>2 DEF LaunchStage
  <2>3. CASE AddJob
    <3>1. FreeSlot(jobs) = NoSlot \/ FreeSlot(jobs) \in Slots
      BY FindFree DEF CountsBound, TypeOK, Table
    <3>2. Used(jobs) \subseteq Used(jobs')
      BY <2>3, <3>1 DEF AddJob, add_job, CountsBound, TypeOK, Used
    <3> QED
      BY <3>2
  <2>4. CASE ~LaunchStage /\ ~AddJob /\ ~\E q \in Pids : Reap(q)
    <3>1. QuietTable
      BY <2>4, OtherSteps DEF CountsBound
    <3> QED
      BY <3>1 DEF QuietTable
  <2> QED
    BY <2>1, <2>2, <2>3, <2>4
<1> QED
  BY <1>1, <1>2, <1>3, PTL DEF Spec, JobOutlivesItsChildren

-----------------------------------------------------------------------------
(* As long as fork and pipe do not fail *)

NoLaunchFault == {"fork", "pipe"} \intersect Faults = {}

\* A child that is dead, or as good as.
Doomed(p) == proc[p].st = "zombie" \/ "KILL" \in proc[p].pend

\* The launch that forked the child is about to enter it in the table, or has found no
\* slot for it.
InLaunch(p) ==
    \/ pc = "launch" /\ p \in loc.pids
    \/ /\ pc \in {"launched", "report"} /\ loc.slot = NoSlot
       /\ p \in loc.pids /\ proc[p].grp = loc.pgid

\* Whose business a child is that was not reaped: a job's, the launch's that forked it,
\* or nobody's any more.
Owned(p) ==
    \/ \E s \in Used(jobs) : p \in jobs[s].pids
    \/ InLaunch(p)
    \/ Doomed(p)

AllOwned == \A p \in Pids : Unreaped(p) => Owned(p)

\* A SIGKILL stays pending until it kills, whatever other signals come.
LEMMA DoomKill ==
    ASSUME TypeOK, NEW g, NEW sig, kill(g, sig), NEW p \in Pids, Doomed(p)
    PROVE  Doomed(p)'
<1>1. proc[p] \in ProcRecord
  BY DEF TypeOK, ProcTypeOK
<1>2. LET r == Signalled(proc[p], sig)
      IN  /\ proc[p].st = "zombie" => r.st = "zombie"
          /\ "KILL" \in proc[p].pend => "KILL" \in r.pend
  BY <1>1 DEF Signalled, ProcRecord
<1>3. proc'[p] = IF p \in Members(g) THEN Signalled(proc[p], sig) ELSE proc[p]
  BY DEF kill
<1> QED
  BY <1>2, <1>3 DEF Doomed

\* Nothing a child does takes a SIGKILL off it, or brings it back from the dead.
LEMMA DoomChild ==
    ASSUME TypeOK, NEW q \in Pids, Child(q), NEW p \in Pids, Doomed(p)
    PROVE  Doomed(p)'
<1>1. /\ proc \in [Pids -> ProcRecord] /\ proc[q] \in ProcRecord
  BY DEF TypeOK, ProcTypeOK
<1>2. CASE Exec(q) \/ ExecFails(q)
  BY <1>1, <1>2 DEF Exec, ExecFails, ProcRecord, Doomed
<1>3. CASE Exits(q) \/ KilledBySignal(q)
  <2>1. PICK r : r.st = "zombie" /\ proc' = [proc EXCEPT ![q] = r]
    BY <1>3 DEF Exits, KilledBySignal, Die, BlankProc
  <2> QED
    BY <1>1, <2>1 DEF Doomed
<1>4. CASE StoppedByKey(q) \/ StoppedFromOutside(q)
  BY <1>1, <1>4 DEF StoppedByKey, StoppedFromOutside, Stop, ProcRecord, Doomed
<1>5. CASE SwallowKey(q)
  <2>1. PICK sig \in {"INT", "TSTP"} : proc' = [proc EXCEPT ![q].pend = @ \ {sig}]
    BY <1>5 DEF SwallowKey
  <2> QED
    BY <1>1, <2>1 DEF ProcRecord, Doomed
<1>6. CASE ContinuedFromOutside(q)
  <2>1. PICK r : r = Signalled(proc[q], "CONT")
    OBVIOUS
  <2>2. "KILL" \in proc[q].pend => "KILL" \in r.pend
    BY <1>1, <2>1 DEF Signalled, ProcRecord
  <2>3. proc' = [proc EXCEPT ![q] = r] /\ proc[q].st = "stop"
    BY <1>6, <2>1 DEF ContinuedFromOutside
  <2> QED
    BY <1>1, <2>2, <2>3 DEF Doomed
<1> QED
  BY <1>2, <1>3, <1>4, <1>5, <1>6 DEF Child

\* Only a fork and a waitpid could undo it, and they do not.
LEMMA DoomStep ==
    ASSUME TypeOK, [Next]_vars, ~LaunchStage, ~\E q \in Pids : Reap(q),
           NEW p \in Pids, Doomed(p)
    PROVE  Doomed(p)'
<1>1. UNCHANGED proc => Doomed(p)'
  BY DEF Doomed
<1>2. CASE Read
  BY <1>1, <1>2 DEF Read, ReadLaunch, ReadJobs, ReadWrongJob, ReadBg, ReadFg,
     ReadKill, ReadExit, procVars
<1>3. CASE BgKill \/ FgKill \/ KillSend \/ TableFull
  BY <1>1, <1>3, DoomKill DEF BgKill, FgKill, KillSend, TableFull, procVars
<1>4. CASE ForkFails \/ PipeFails \/ AddJob \/ Restore \/ Acknowledge \/ WaitTest \/ Suspend
  BY <1>1, <1>4 DEF ForkFails, PipeFails, AddJob, Restore, Acknowledge, WaitTest,
     Suspend, procVars
<1>5. CASE DeliverChld \/ ReapDone \/ (\E sig \in Keys : DeliverKey(sig)) \/ UNCHANGED vars
  BY <1>1, <1>5 DEF DeliverChld, ReapDone, DeliverKey, vars, procVars
<1>6. ASSUME NEW sig \in Keys, ForwardKey(sig) \/ PressKey(sig)
      PROVE  Doomed(p)'
  BY <1>1, <1>6, DoomKill DEF ForwardKey, PressKey, procVars
<1>7. ASSUME NEW q \in Pids, ChildStep(q)
      PROVE  Doomed(p)'
  BY <1>7, DoomChild DEF ChildStep
<1> QED
  BY <1>2, <1>3, <1>4, <1>5, <1>6, <1>7 DEF Next, Go, Handler

\* The new child is the launch's.
LEMMA OwnLaunch ==
    ASSUME Inv, AllOwned, LaunchStage
    PROVE  AllOwned'
<1> PICK n : n = next_pid
  OBVIOUS
<1>1. PICK r : proc' = [proc EXCEPT ![n] = r]
  BY ForkAdds
<1>2. /\ n \in Pids /\ jobs' = jobs /\ pc = "launch" /\ pc' = "launch"
      /\ loc'.pids = loc.pids \union {n}
      /\ \A p \in Pids : p # n => proc'[p] = proc[p]
  BY <1>1, ForkAdds DEF Inv, TypeOK, ProcTypeOK, Locals, LaunchStage, Main
<1> SUFFICES ASSUME NEW p \in Pids, Unreaped(p)', p # n
             PROVE  Owned(p)'
  BY <1>2 DEF AllOwned, Owned, InLaunch
<1>3. Unreaped(p) /\ Owned(p)
  BY <1>2 DEF Unreaped, AllOwned
<1> QED
  BY <1>2, <1>3 DEF Owned, InLaunch, Doomed

\* add_job takes over what the launch has forked, or leaves it to the launch to kill.
LEMMA OwnAdd ==
    ASSUME Inv, AllOwned, AddJob
    PROVE  AllOwned'
<1> PICK f : f = FreeSlot(jobs)
  OBVIOUS
<1>1. /\ jobs \in Table /\ pc = "launch" /\ pc' = "launched" /\ proc' = proc
      /\ loc'.slot = f /\ loc'.pids = loc.pids /\ loc'.pgid = loc.pgid
      /\ f = NoSlot \/ (f \in Slots /\ ~jobs[f].used)
      /\ Members(loc.pgid) = loc.pids
  BY FindFree DEF AddJob, Main, Inv, TypeOK, Table, procVars, Locals, LaunchInProgress
<1> SUFFICES ASSUME NEW p \in Pids, Unreaped(p)
             PROVE  Owned(p)'
  BY <1>1 DEF AllOwned, Unreaped
<1>2. Owned(p)
  BY DEF AllOwned
<1>3. CASE f = NoSlot
  <2>1. jobs' = jobs
    BY <1>3 DEF AddJob, add_job
  <2>2. p \in loc.pids => proc[p].grp = loc.pgid
    BY <1>1 DEF Members
  <2> QED
    BY <1>1, <1>2, <1>3, <2>1, <2>2 DEF Owned, InLaunch, Doomed
<1>4. CASE f # NoSlot
  <2> PICK r : r = [used |-> TRUE, jid |-> next_jid, pgid |-> loc.pgid,
                    pids |-> loc.pids, live_count |-> loc.nseg,
                    state |-> IF loc.bg THEN "BACKGROUND" ELSE "FOREGROUND"]
    OBVIOUS
  <2>1. r.used /\ r.pids = loc.pids
    OBVIOUS
  <2>2. jobs' = [jobs EXCEPT ![f] = r]
    BY <1>4 DEF AddJob, add_job
  <2>3. /\ f \in Used(jobs') /\ jobs'[f] = r
        /\ \A s \in Used(jobs) : s \in Used(jobs') /\ jobs'[s] = jobs[s]
    BY <1>1, <1>4, <2>1, <2>2 DEF Table, Used
  <2> QED
    BY <1>1, <1>2, <2>1, <2>3 DEF Owned, InLaunch, Doomed
<1> QED
  BY <1>3, <1>4

\* sigchld_handler deletes a job only with its last child.
LEMMA OwnReap ==
    ASSUME Inv, AllOwned, NEW q \in Pids, Reap(q)
    PROVE  AllOwned'
<1>1. /\ jobs \in Table /\ q \in Waitable /\ pc' = pc /\ loc' = loc
      /\ proc \in [Pids -> ProcRecord] /\ proc[q] \in ProcRecord
      /\ proc' = [proc EXCEPT ![q] = Collected(q)]
  BY DEF Inv, TypeOK, ProcTypeOK, Table, Reap
<1> PICK report : report = Report(q)
  OBVIOUS
<1>2. /\ report \in {"stopped", "continued", "dead"}
      /\ jobs' = Record(jobs, q, report)
      /\ report = "dead" <=> proc[q].st = "zombie"
  BY <1>1 DEF Reap, Report, Waitable, ProcRecord
<1> SUFFICES ASSUME NEW p \in Pids, Unreaped(p)'
             PROVE  Owned(p)'
  BY DEF AllOwned
<1>3. /\ Unreaped(p) /\ proc'[p].st = proc[p].st /\ proc'[p].grp = proc[p].grp
      /\ proc'[p].pend = proc[p].pend
      /\ p = q => report # "dead"
  BY <1>1, <1>2 DEF Unreaped, Collected, BlankProc, ProcRecord
<1>4. InLaunch(p) \/ Doomed(p) => Owned(p)'
  BY <1>1, <1>3 DEF Owned, InLaunch, Doomed
<1>5. ASSUME NEW s \in Used(jobs), p \in jobs[s].pids
      PROVE  s \in Used(jobs') /\ p \in jobs'[s].pids
  <2> PICK t : t = find_job_by_pid(jobs, q)
    OBVIOUS
  <2>1. s \in Slots
    BY DEF Used
  <2>2. CASE s # t
    <3>1. jobs'[s] = jobs[s]
      BY <1>1, <1>2, <2>1, <2>2, RecordOthers
    <3> QED
      BY <1>5, <3>1 DEF Used
  <2>3. CASE report # "dead"
    <3>1. QuietTable
      BY <1>1, <1>2, <2>3, RecordQuiet
    <3> QED
      BY <1>5, <3>1 DEF QuietTable
  <2>4. CASE s = t /\ report = "dead"
    <3>1. t # NoSlot
      BY <2>1, <2>4 DEF Slots, NoSlot
    <3>2. q \in jobs[s].pids /\ Unreaped(q) /\ p # q
      BY <1>2, <1>3, <2>4, <3>1, FindByPid DEF Unreaped
    <3> PICK M, c : M = Members(jobs[s].pgid) /\ c = jobs[s].live_count
      OBVIOUS
    <3>3. p \in M /\ q \in M /\ c = Cardinality(M) /\ c > 0
      BY <1>3, <1>5, <3>2 DEF Inv, LiveCountExact
    <3>4. c \in Nat /\ c # 1
      <4>1. IsFiniteSet(M)
        BY <3>3, MembersFinite
      <4>2. q \in M
        BY <3>3
      <4>3. Cardinality(M \ {q}) = Cardinality(M) - 1 /\ IsFiniteSet(M \ {q})
        BY <4>1, <4>2, FS_RemoveElement
      <4>4. p \in M \ {q}
        BY <3>2, <3>3
      <4>5. Cardinality(M \ {q}) # 0
        BY <4>3, <4>4, FS_EmptySet
      <4> QED
        BY <3>3, <4>1, <4>3, <4>5, FS_CardinalityType
    <3>5. CountDeath(jobs, s) = SetCount(jobs, s, c - 1)
      BY <3>3, <3>4, CountDeathCases
    <3>6. jobs' = CountDeath(jobs, s)
      BY <1>2, <2>4, <3>1 DEF Record
    <3> QED
      BY <1>1, <1>5, <2>1, <3>5, <3>6 DEF SetCount, Used, Table, JobRecord
  <2> QED
    BY <2>2, <2>3, <2>4
<1> QED
  BY <1>3, <1>4, <1>5 DEF AllOwned, Owned

\* Without fork or pipe failing, a launch ends with its job listed or its group killed.
LEMMA OwnOther ==
    ASSUME NoLaunchFault, Inv, AllOwned, [Next]_vars,
           ~LaunchStage, ~AddJob, ~\E q \in Pids : Reap(q)
    PROVE  AllOwned'
<1> SUFFICES ASSUME NEW p \in Pids, Unreaped(p)'
             PROVE  Owned(p)'
  BY DEF AllOwned
<1>1. TypeOK /\ QuietProc /\ QuietTable
  BY OtherSteps DEF Inv
<1>2. Unreaped(p) /\ Owned(p) /\ proc'[p].grp = proc[p].grp
  BY <1>1 DEF QuietProc, AllOwned
<1>3. CASE Doomed(p)
  BY <1>1, <1>3, DoomStep DEF Owned
<1>4. ASSUME NEW s \in Used(jobs), p \in jobs[s].pids
      PROVE  Owned(p)'
  BY <1>1, <1>4 DEF QuietTable, Owned
<1>5. CASE InLaunch(p)
  <2>1. CASE pc' = pc /\ loc' = loc
    BY <1>2, <1>5, <2>1 DEF InLaunch, Owned
  <2>2. CASE Restore
    BY <1>2, <1>5, <2>2 DEF Restore, AfterRestore, InLaunch, Owned
  <2>3. CASE TableFull
    <3>1. loc.pgid > 0 /\ p \in Members(loc.pgid)
      <4>1. proc[p].grp = loc.pgid
        BY <1>5, <2>3 DEF TableFull, Main, InLaunch
      <4>2. proc[p].grp \in 1..(next_pid - 1)
        BY <1>2 DEF Inv, ChildrenInGroups
      <4> QED
        BY <1>2, <4>1, <4>2 DEF Members
    <3>2. proc'[p] = Signalled(proc[p], "KILL")
      BY <2>3, <3>1 DEF TableFull, kill
    <3>3. proc[p] \in ProcRecord
      BY <1>1 DEF TypeOK, ProcTypeOK
    <3> QED
      BY <3>2, <3>3 DEF Signalled, ProcRecord, Doomed, Owned
  <2>4. ~ForkFails /\ ~PipeFails
    BY DEF NoLaunchFault, ForkFails, PipeFails
  <2>5. ~Acknowledge /\ ~BgKill /\ ~FgKill /\ ~KillSend /\ ~WaitTest /\ ~Suspend
    BY <1>5 DEF InLaunch, Acknowledge, BgKill, FgKill, KillSend, WaitTest, Suspend, Main
  <2>6. ~Read
    BY <1>5, ReadAtPrompt DEF InLaunch
  <2>7. pc \notin {"suspended", "presuspend"}
    BY <1>5 DEF InLaunch
  <2>8. UNCHANGED vars \/ ReapDone => pc' = pc /\ loc' = loc
    BY DEF vars, shellVars, ReapDone
  <2>9. DeliverChld => pc' = pc /\ loc' = loc
    BY <2>7 DEF DeliverChld, Woken
  <2>10. (\E sig \in Keys : DeliverKey(sig) \/ ForwardKey(sig) \/ PressKey(sig))
         => pc' = pc /\ loc' = loc
    BY <2>7 DEF DeliverKey, ForwardKey, PressKey, Woken
  <2>11. (\E q \in Pids : ChildStep(q)) => pc' = pc /\ loc' = loc
    BY DEF ChildStep, shellVars
  <2>12. ~Go \/ Restore \/ TableFull
    BY <2>4, <2>5 DEF Go
  <2>13. ~Handler \/ ReapDone \/ \E sig \in Keys : ForwardKey(sig)
    BY DEF Handler
  <2> QED
    BY <2>1, <2>2, <2>3, <2>6, <2>8, <2>9, <2>10, <2>11, <2>12, <2>13 DEF Next
<1> QED
  BY <1>2, <1>3, <1>4, <1>5 DEF Owned

\* There are no children yet.
LEMMA OwnInit == Init => AllOwned
BY DEF Init, ProcInit, BlankProc, Unreaped, AllOwned

\* launch_pipeline, when the table is full, kills the whole group that it has launched,
\* and sigchld_handler deletes a job only with the last child: there is no other way for
\* a child to fall out of the table, unless fork or pipe fails.
THEOREM NoChildIsLost ==
    ASSUME NoLaunchFault
    PROVE  Spec => []NoLostChild
<1> NoForkFault
  BY DEF NoLaunchFault, NoForkFault
<1>1. Init => Inv /\ AllOwned
  BY InvInit, OwnInit
<1>2. Inv /\ AllOwned /\ [Next]_vars => (Inv /\ AllOwned)'
  BY InvStep, OwnLaunch, OwnAdd, OwnReap, OwnOther
<1>3. AllOwned => NoLostChild
  BY FindByPid DEF AllOwned, Owned, InLaunch, Doomed, NoLostChild
<1> QED
  BY <1>1, <1>2, <1>3, PTL DEF Spec


-----------------------------------------------------------------------------
(* The key handlers *)

\* If a group is the target of a key, it is that of the command that the main
\* thread awaits, or nobody is left in it.
KeyTarget(g) == g > 0 /\ Members(g) # {} => g = loc.pgid /\ ~loc.bg

\* So are the group that the next handler will read and the groups that the
\* handlers now running have read.
KeysAimed ==
    /\ KeyTarget(fg_pgid)
    /\ \A n \in DOMAIN stack : KeyTarget(stack[n].pgid)

\* No child appears or changes its group.
NoNewcomer ==
    \A p \in Pids : Unreaped(p)' => Unreaped(p) /\ proc'[p].grp = proc[p].grp

\* A step makes, or leaves, g a target.
TargetNext(g) ==
    g > 0 /\ {p \in Pids : Unreaped(p)' /\ proc'[p].grp = g} # {}
    => g = loc'.pgid /\ ~loc'.bg

\* What was a target stays one while the main thread stands still.
LEMMA TargetKept ==
    ASSUME NoNewcomer, loc' = loc, NEW g, KeyTarget(g)
    PROVE  TargetNext(g)
BY DEF NoNewcomer, Members, KeyTarget, TargetNext

\* The step that sends the signal of a key still sees the group the key was aimed at.
LEMMA AimedNext ==
    ASSUME TargetNext(fg_pgid'), \A n \in DOMAIN stack' : TargetNext(stack'[n].pgid)
    PROVE  KeysAimed'
BY DEF KeysAimed, KeyTarget, Members, TargetNext

\* The group that update_fg_pgid caches is that of the awaited command.
LEMMA TableTarget == Inv => KeyTarget(FgPgid(jobs))
<1> SUFFICES ASSUME Inv, FgPgid(jobs) > 0 PROVE FgPgid(jobs) = loc.pgid /\ ~loc.bg
  BY DEF KeyTarget
<1> PICK s : s = find_foreground_job(jobs)
  OBVIOUS
<1>1. s # NoSlot
  BY DEF FgPgid
<1>2. s \in ForegroundJobs
  BY <1>1, FindForeground DEF ForegroundJobs
<1> QED
  BY <1>1, <1>2 DEF FgPgid, Inv, ForegroundIsAwaited, ForegroundLaunch

\* waitpid and what follows it may end the foreground job or take it from there, and
\* never put one there.
LEMMA ReapTakesAway ==
    ASSUME TypeOK, NEW p \in Pids, Reap(p)
    PROVE  NoNewcomer
<1>1. /\ proc \in [Pids -> ProcRecord] /\ proc[p] \in ProcRecord
      /\ proc' = [proc EXCEPT ![p] = Collected(p)]
  BY DEF TypeOK, ProcTypeOK, Reap
<1>2. \/ Collected(p).st = "reaped"
      \/ Collected(p).st = proc[p].st /\ Collected(p).grp = proc[p].grp
  BY <1>1 DEF Collected, BlankProc, ProcRecord
<1> QED
  BY <1>1, <1>2 DEF NoNewcomer, Unreaped

\* The main thread steps when no handler runs, and leaves at most the handler of
\* SIGCHLD behind.
LEMMA MainStep ==
    ASSUME Read \/ Go
    PROVE  /\ stack = <<>>
           /\ stack' = <<>> \/ (Restore /\ stack' = Append(<<>>, ChldFrame))
<1>1. ASSUME NEW nseg, NEW bg, ReadLaunch(nseg, bg) PROVE stack = <<>> /\ stack' = <<>>
  BY <1>1 DEF ReadLaunch, Main
<1>2. ASSUME NEW jid, ReadWrongJob(jid) \/ ReadBg(jid) \/ ReadFg(jid) \/ ReadKill(jid)
      PROVE  stack = <<>> /\ stack' = <<>>
  BY <1>2 DEF ReadWrongJob, ReadBg, ReadFg, ReadKill, Main
<1>3. ReadJobs \/ ReadExit => stack = <<>> /\ stack' = <<>>
  BY DEF ReadJobs, ReadExit, Main
<1>4. Restore => stack = <<>> /\ (stack' = <<>> \/ stack' = Append(<<>>, ChldFrame))
  BY DEF Restore, restore_sigmask, ChldFrame
<1>5. LaunchStage \/ ForkFails \/ PipeFails \/ AddJob \/ TableFull \/ Acknowledge
          \/ BgKill \/ FgKill \/ KillSend \/ WaitTest \/ Suspend
      => stack = <<>> /\ stack' = <<>>
  BY DEF LaunchStage, ForkFails, PipeFails, AddJob, TableFull, Acknowledge, BgKill,
     FgKill, KillSend, WaitTest, Suspend, Main
<1> QED
  BY <1>1, <1>2, <1>3, <1>4, <1>5 DEF Read, Go

\* Handlers, keys and children: the main thread stands still and nobody appears.
LEMMA OtherStep ==
    ASSUME TypeOK, [Next]_vars, ~Read, ~Go
    PROVE  NoNewcomer /\ loc' = loc
<1>1. QuietProc => NoNewcomer
  BY DEF QuietProc, NoNewcomer
<1>2. ASSUME NEW p \in Pids, Reap(p)
      PROVE  NoNewcomer /\ loc' = loc
  BY <1>2, ReapTakesAway DEF Reap
<1>3. CASE UNCHANGED vars
  BY <1>1, <1>3, QuietSame DEF vars, shellVars
<1>4. ASSUME NEW sig \in Keys, DeliverKey(sig) \/ ForwardKey(sig) \/ PressKey(sig)
      PROVE  NoNewcomer /\ loc' = loc
  <2>1. QuietProc
    BY <1>4, QuietKill, QuietSame DEF DeliverKey, ForwardKey, PressKey
  <2> QED
    BY <1>1, <1>4, <2>1 DEF DeliverKey, ForwardKey, PressKey
<1>5. CASE DeliverChld
  BY <1>5 DEF DeliverChld, NoNewcomer, Unreaped
<1>6. CASE ReapDone
  BY <1>1, <1>6, QuietSame DEF ReapDone
<1>7. ASSUME NEW p \in Pids, ChildStep(p)
      PROVE  NoNewcomer /\ loc' = loc
  BY <1>1, <1>7, QuietChild DEF ChildStep, shellVars
<1> QED
  BY <1>2, <1>3, <1>4, <1>5, <1>6, <1>7 DEF Next, Handler

\* No key has been pressed.
LEMMA AimedInit == Init => KeysAimed
BY DEF Init, KeysAimed, KeyTarget

\* Whatever interrupts a key handler between its two lines leaves the group that it read
\* that of the awaited job, or of nobody.
LEMMA AimedStep ==
    ASSUME Inv, Inv', KeysAimed, [Next]_vars
    PROVE  KeysAimed'
<1>1. stack \in Seq(Frame) /\ TypeOK
  BY DEF Inv, TypeOK
<1>2. TargetNext(FgPgid(jobs'))
  <2>1. KeyTarget(FgPgid(jobs))'
    BY TableTarget, PTL
  <2> QED
    BY <2>1 DEF KeyTarget, Members, TargetNext
<1>3. CASE Read \/ Go
  <2>1. stack' = <<>> \/ (stack' = Append(<<>>, ChldFrame) /\ Restore)
    BY <1>3, MainStep
  <2>2. fg_pgid' = FgPgid(jobs')
    <3>1. CASE ~Running("CHLD")'
      BY <3>1 DEF Inv, FgPgidExact
    <3>2. CASE Restore
      BY <3>2, EmptyStack DEF Restore, Inv, FgPgidExact
    <3> QED
      BY <2>1, <3>1, <3>2 DEF Running
  <2>3. \A n \in DOMAIN stack' : stack'[n].pgid = 0
    BY <2>1 DEF ChldFrame
  <2> QED
    BY <1>2, <2>2, <2>3, AimedNext DEF TargetNext
<1>4. CASE ~Read /\ ~Go
  <2>1. \A g : KeyTarget(g) => TargetNext(g)
    BY <1>1, <1>4, OtherStep, TargetKept
  <2>2. fg_pgid' \in {fg_pgid, FgPgid(jobs')}
    BY <1>4 DEF Next, Handler, vars, shellVars, DeliverKey, DeliverChld, ForwardKey,
       Reap, ReapDone, PressKey, ChildStep
  <2>3. TargetNext(fg_pgid')
    BY <1>2, <2>1, <2>2 DEF KeysAimed
  <2>4. \/ stack' = stack
        \/ stack # <<>> /\ Return
        \/ \E f : f.pgid \in {0, fg_pgid} /\ stack' = Append(stack, f)
    <3>1. ASSUME NEW sig \in Keys, DeliverKey(sig)
          PROVE  \E f : f.pgid \in {0, fg_pgid} /\ stack' = Append(stack, f)
      <4> PICK f : f = [sig |-> sig, pgid |-> fg_pgid]
        OBVIOUS
      <4> QED
        BY <3>1 DEF DeliverKey
    <3>2. CASE DeliverChld
      <4> PICK f : f = [sig |-> "CHLD", pgid |-> 0]
        OBVIOUS
      <4> QED
        BY <3>2 DEF DeliverChld
    <3>3. CASE (\E sig \in Keys : ForwardKey(sig)) \/ ReapDone
      BY <3>3 DEF ForwardKey, ReapDone
    <3>4. CASE \/ UNCHANGED vars
               \/ \E p \in Pids : Reap(p) \/ ChildStep(p)
               \/ \E sig \in Keys : PressKey(sig)
      BY <3>4 DEF vars, shellVars, Reap, PressKey, ChildStep
    <3> QED
      BY <1>4, <3>1, <3>2, <3>3, <3>4 DEF Next, Handler
  <2>5. ASSUME NEW n \in DOMAIN stack'
        PROVE  TargetNext(stack'[n].pgid)
    <3>1. CASE stack' = stack
      BY <2>1, <3>1 DEF KeysAimed
    <3>2. CASE stack # <<>> /\ Return
      <4>1. n \in DOMAIN stack /\ stack'[n] = stack[n]
        BY <1>1, <3>2, FrontProperties DEF Return
      <4> QED
        BY <2>1, <4>1 DEF KeysAimed
    <3>3. ASSUME NEW f, f.pgid \in {0, fg_pgid}, stack' = Append(stack, f)
          PROVE  TargetNext(stack'[n].pgid)
      <4>1. (n \in DOMAIN stack /\ stack'[n] = stack[n]) \/ stack'[n] = f
        BY <1>1, <3>3
      <4>2. KeyTarget(0)
        BY DEF KeyTarget
      <4> QED
        BY <2>1, <3>3, <4>1, <4>2 DEF KeysAimed
    <3> QED
      BY <2>4, <3>1, <3>2, <3>3
  <2> QED
    BY <2>3, <2>5, AimedNext
<1> QED
  BY <1>3, <1>4

KeySignals == {"INT", "TSTP"}

\* Only kill of such a signal adds it to what a child has pending, and to no others
\* than the members of the group.
LEMMA KillPends ==
    ASSUME TypeOK, NEW g, NEW sig, kill(g, sig), NEW p \in Pids
    PROVE  /\ proc'[p].pend \ proc[p].pend \subseteq {sig}
           /\ p \notin Members(g) => proc'[p] = proc[p]
<1>1. proc[p] \in ProcRecord
  BY DEF TypeOK, ProcTypeOK
<1>2. Signalled(proc[p], sig).pend \subseteq proc[p].pend \union {sig}
  BY <1>1 DEF Signalled, ProcRecord
<1> QED
  BY <1>2 DEF kill

\* A child never sends itself one of the two signals.
LEMMA ChildPends ==
    ASSUME TypeOK, NEW q \in Pids, Child(q), NEW p \in Pids
    PROVE  proc'[p].pend \subseteq proc[p].pend
<1>1. /\ proc \in [Pids -> ProcRecord] /\ proc[q] \in ProcRecord
      /\ proc[q].pend \subseteq Signals
  BY DEF TypeOK, ProcTypeOK, ProcRecord, Signals
<1>2. CASE Exec(q) \/ ExecFails(q)
  BY <1>1, <1>2 DEF Exec, ExecFails, ProcRecord
<1>3. CASE Exits(q) \/ KilledBySignal(q)
  <2>1. PICK r : r.pend = {} /\ proc' = [proc EXCEPT ![q] = r]
    BY <1>3 DEF Exits, KilledBySignal, Die, BlankProc
  <2> QED
    BY <1>1, <2>1
<1>4. CASE StoppedByKey(q) \/ StoppedFromOutside(q)
  BY <1>1, <1>4 DEF StoppedByKey, StoppedFromOutside, Stop, ProcRecord
<1>5. CASE SwallowKey(q)
  <2>1. PICK sig : proc' = [proc EXCEPT ![q].pend = @ \ {sig}]
    BY <1>5 DEF SwallowKey
  <2> QED
    BY <1>1, <2>1 DEF ProcRecord
<1>6. CASE ContinuedFromOutside(q)
  <2>1. PICK r : r = Signalled(proc[q], "CONT")
    OBVIOUS
  <2>2. r.pend \subseteq proc[q].pend
    BY <1>1, <2>1 DEF Signalled, ProcRecord
  <2>3. proc' = [proc EXCEPT ![q] = r]
    BY <1>6, <2>1 DEF ContinuedFromOutside
  <2> QED
    BY <1>1, <2>2, <2>3
<1> QED
  BY <1>2, <1>3, <1>4, <1>5, <1>6 DEF Child

\* A signal sent by a key reaches the group it was aimed at.
LEMMA AimStep ==
    ASSUME Inv, KeysAimed, [Next]_vars, NEW p \in Pids,
           (proc'[p].pend \ proc[p].pend) \intersect KeySignals # {}
    PROVE  proc[p].grp = loc.pgid /\ ~loc.bg
<1>1. /\ TypeOK /\ stack \in Seq(Frame)
      /\ proc \in [Pids -> ProcRecord] /\ proc[p] \in ProcRecord
      /\ ~(proc'[p].pend \subseteq proc[p].pend)
  BY DEF Inv, TypeOK, ProcTypeOK
<1>2. CASE UNCHANGED proc
  BY <1>1, <1>2
<1>3. ASSUME NEW g, NEW sig, kill(g, sig), sig \notin KeySignals
      PROVE  FALSE
  BY <1>1, <1>3, KillPends
<1>4. CASE LaunchStage
  <2>1. PICK r, n : r.pend = {} /\ proc' = [proc EXCEPT ![n] = r]
    BY <1>4 DEF LaunchStage, ForkInto, BlankProc
  <2> QED
    BY <1>1, <2>1
<1>5. CASE BgKill \/ FgKill \/ KillSend \/ TableFull
  BY <1>2, <1>3, <1>5 DEF BgKill, FgKill, KillSend, TableFull, KeySignals, procVars
<1>6. CASE Read
  BY <1>2, <1>6 DEF Read, ReadLaunch, ReadJobs, ReadWrongJob, ReadBg, ReadFg,
     ReadKill, ReadExit, procVars
<1>7. CASE ForkFails \/ PipeFails \/ AddJob \/ Restore \/ Acknowledge \/ WaitTest \/ Suspend
  BY <1>2, <1>7 DEF ForkFails, PipeFails, AddJob, Restore, Acknowledge, WaitTest,
     Suspend, procVars
<1>8. CASE DeliverChld \/ ReapDone \/ (\E sig \in Keys : DeliverKey(sig)) \/ UNCHANGED vars
  BY <1>2, <1>8 DEF DeliverChld, ReapDone, DeliverKey, vars, procVars
<1>9. ASSUME NEW sig \in Keys, ForwardKey(sig)
      PROVE  proc[p].grp = loc.pgid /\ ~loc.bg
  <2>1. Top.pgid > 0 /\ kill(Top.pgid, sig)
    BY <1>2, <1>9 DEF ForwardKey, procVars
  <2>2. p \in Members(Top.pgid)
    BY <1>1, <2>1, KillPends
  <2>3. KeyTarget(Top.pgid)
    <3>1. Len(stack) \in DOMAIN stack
      BY <1>1, <1>9 DEF ForwardKey
    <3> QED
      BY <3>1 DEF KeysAimed, Top
  <2> QED
    BY <2>1, <2>2, <2>3 DEF KeyTarget, Members
<1>10. ASSUME NEW sig \in Keys, PressKey(sig)
       PROVE  FALSE
  <2>1. Members(ShellGroup) = {}
    BY <1>1 DEF Inv, ChildrenInGroups, Members, ShellGroup, ProcTypeOK, TypeOK
  <2> QED
    BY <1>1, <1>10, <2>1, KillPends DEF PressKey
<1>11. ASSUME NEW q \in Pids, Reap(q)
       PROVE  FALSE
  <2>1. proc' = [proc EXCEPT ![q] = Collected(q)]
    BY <1>11 DEF Reap
  <2>2. Collected(q).pend \subseteq proc[q].pend
    BY <1>1 DEF Collected, BlankProc, TypeOK, ProcTypeOK, ProcRecord
  <2> QED
    BY <1>1, <2>1, <2>2
<1>12. ASSUME NEW q \in Pids, ChildStep(q)
       PROVE  FALSE
  BY <1>1, <1>12, ChildPends DEF ChildStep
<1> QED
  BY <1>4, <1>5, <1>6, <1>7, <1>8, <1>9, <1>10, <1>11, <1>12 DEF Next, Go, Handler

\* sigint_handler and sigtstp_handler read fg_pgid and call kill later; whatever the main
\* thread and sigchld_handler do in between, the keys reach only the command that the
\* main thread launched in the foreground or moved there.
THEOREM KeysAreAimed ==
    ASSUME NoForkFault
    PROVE  Spec => KeysReachOnlyTheAwaitedJob
<1>1. Init => Inv /\ KeysAimed
  BY InvInit, AimedInit
<1>2. Inv /\ KeysAimed /\ [Next]_vars => (Inv /\ KeysAimed)'
  BY InvStep, AimedStep
<1>3. Inv /\ KeysAimed /\ [Next]_vars
      => [\A p \in Pids :
            (proc'[p].pend \ proc[p].pend) \intersect {"INT", "TSTP"} # {}
            => proc[p].grp = loc.pgid /\ ~loc.bg]_vars
  BY AimStep DEF KeySignals
<1> QED
  BY <1>1, <1>2, <1>3, PTL DEF Spec, KeysReachOnlyTheAwaitedJob
-----------------------------------------------------------------------------
(* What the job table says of stopped children *)

\* What waitpid has to report is on its way to the shell.
ReportsPending == Waitable # {} => chld \/ Running("CHLD")

\* The report of a stop or a continue is about what the child does now.
ReportsTrue ==
    \A p \in Pids : /\ proc[p].rep = "stopped" => proc[p].st = "stop"
                    /\ proc[p].rep = "continued" => proc[p].st = "live"

\* A stop while the pipeline is launched is not reported before it is listed.
LaunchReports ==
    pc = "launch" =>
       \A p \in Pids : p \in loc.pids /\ proc[p].st = "stop" => proc[p].rep = "stopped"

\* bg or fg has entered the job's new state and is about to send SIGCONT.
ContDue(s) ==
    \/ pc \in {"bg_set", "bg_kill"} /\ loc.slot = s
    \/ pc \in {"fg_set", "fg_kill"} /\ loc.pgid = jobs[s].pgid

\* With nothing to report, the state of a job of one process is the process's, but for
\* a SIGCONT that is due.
ListedAsIs ==
    \A s \in Used(jobs), p \in Pids :
       jobs[s].pids = {p} /\ proc[p].rep = "none" /\ proc[p].st \in {"live", "stop"}
       => \/ jobs[s].state = "STOPPED" <=> proc[p].st = "stop"
          \/ proc[p].st = "stop" /\ ContDue(s)

Told == ReportsPending /\ ReportsTrue /\ LaunchReports /\ ListedAsIs

\* What a step other than a fork and a waitpid does to a child: nothing that waitpid
\* would report, or SIGCHLD is raised.
ChildMove(p) ==
    \/ proc'[p].st = proc[p].st /\ proc'[p].rep = proc[p].rep
    \/ proc'[p].st = "zombie" /\ proc'[p].rep = "none" /\ chld'
    \/ proc'[p].st = "stop" /\ proc'[p].rep = "stopped" /\ chld'
    \/ proc[p].st = "stop" /\ proc'[p].st = "live" /\ proc'[p].rep = "continued" /\ chld'

\* kill moves no child: it leaves signals pending, or continues those that were stopped.
LEMMA KillMoves ==
    ASSUME TypeOK, NEW g, NEW sig, kill(g, sig)
    PROVE  (\A p \in Pids : ChildMove(p)) /\ (chld => chld')
<1>1. ASSUME NEW p \in Pids
      PROVE  ChildMove(p)
  <2>1. proc[p] \in ProcRecord
    BY DEF TypeOK, ProcTypeOK
  <2>2. proc'[p] = IF p \in Members(g) THEN Signalled(proc[p], sig) ELSE proc[p]
    BY DEF kill
  <2>3. LET r == Signalled(proc[p], sig)
        IN  \/ r.st = proc[p].st /\ r.rep = proc[p].rep
            \/ sig = "CONT" /\ proc[p].st = "stop" /\ r.st = "live" /\ r.rep = "continued"
    BY <2>1 DEF Signalled, ProcRecord
  <2>4. sig = "CONT" /\ proc[p].st = "stop" /\ p \in Members(g) => chld'
    BY DEF kill
  <2> QED
    BY <2>2, <2>3, <2>4 DEF ChildMove
<1> QED
  BY <1>1 DEF kill, TypeOK, ProcTypeOK

\* What a child does raises SIGCHLD if it is something that waitpid reports.
LEMMA ChildMoves ==
    ASSUME TypeOK, NEW q \in Pids, Child(q)
    PROVE  (\A p \in Pids : ChildMove(p)) /\ (chld => chld')
<1>1. /\ proc \in [Pids -> ProcRecord] /\ proc[q] \in ProcRecord
      /\ chld \in BOOLEAN
  BY DEF TypeOK, ProcTypeOK
<1>2. CASE Exec(q) \/ ExecFails(q)
  BY <1>1, <1>2 DEF Exec, ExecFails, ProcRecord, ChildMove
<1>3. CASE Exits(q) \/ KilledBySignal(q)
  <2>1. PICK r : /\ r.st = "zombie" /\ r.rep = "none"
                 /\ proc' = [proc EXCEPT ![q] = r] /\ chld' = TRUE
    BY <1>3 DEF Exits, KilledBySignal, Die, BlankProc
  <2> QED
    BY <1>1, <2>1 DEF ChildMove
<1>4. CASE StoppedByKey(q) \/ StoppedFromOutside(q)
  BY <1>1, <1>4 DEF StoppedByKey, StoppedFromOutside, Stop, ProcRecord, ChildMove
<1>5. CASE SwallowKey(q)
  <2>1. PICK sig : proc' = [proc EXCEPT ![q].pend = @ \ {sig}] /\ chld' = chld
    BY <1>5 DEF SwallowKey
  <2> QED
    BY <1>1, <2>1 DEF ProcRecord, ChildMove
<1>6. CASE ContinuedFromOutside(q)
  <2>1. PICK r : r = Signalled(proc[q], "CONT")
    OBVIOUS
  <2>2. r.st = "live" /\ r.rep = "continued"
    BY <1>1, <1>6, <2>1 DEF Signalled, ProcRecord, ContinuedFromOutside
  <2>3. proc' = [proc EXCEPT ![q] = r] /\ chld' = TRUE /\ proc[q].st = "stop"
    BY <1>6, <2>1 DEF ContinuedFromOutside
  <2> QED
    BY <1>1, <2>2, <2>3 DEF ChildMove
<1> QED
  BY <1>2, <1>3, <1>4, <1>5, <1>6 DEF Child

\* So children are moved by their own steps and by kill, and nothing else in the shell.
LEMMA Moves ==
    ASSUME TypeOK, [Next]_vars, ~LaunchStage, ~\E p \in Pids : Reap(p)
    PROVE  /\ \A p \in Pids : ChildMove(p)
           /\ chld => chld' \/ Running("CHLD")'
<1>1. chld' = chld /\ proc' = proc
      => (\A p \in Pids : ChildMove(p)) /\ (chld => chld')
  BY DEF ChildMove
<1>2. stack \in Seq(Frame)
  BY DEF TypeOK
<1>3. CASE UNCHANGED vars
  BY <1>1, <1>3 DEF vars, procVars
<1>4. CASE Read
  BY <1>1, <1>4 DEF Read, ReadLaunch, ReadJobs, ReadWrongJob, ReadBg, ReadFg,
     ReadKill, ReadExit, procVars
<1>5. ASSUME stack' = Append(stack, [sig |-> "CHLD", pgid |-> 0]), proc' = proc
      PROVE  (\A p \in Pids : ChildMove(p)) /\ Running("CHLD")'
  <2>1. PICK f : f = [sig |-> "CHLD", pgid |-> 0]
    OBVIOUS
  <2>2. stack' = Append(stack, f) /\ f.sig = "CHLD"
    BY <1>5, <2>1
  <2>3. Running("CHLD")'
    BY <1>2, <2>2, RunningPush
  <2> QED
    BY <1>5, <2>3 DEF ChildMove
<1>6. CASE Restore
  BY <1>1, <1>5, <1>6 DEF Restore, restore_sigmask
<1>7. CASE ForkFails \/ PipeFails \/ AddJob \/ Acknowledge \/ WaitTest \/ Suspend
  BY <1>1, <1>7 DEF ForkFails, PipeFails, AddJob, Acknowledge, WaitTest, Suspend,
     procVars
<1>8. CASE TableFull \/ BgKill \/ FgKill \/ KillSend
  BY <1>1, <1>8, KillMoves DEF TableFull, BgKill, FgKill, KillSend, procVars
<1>9. CASE DeliverChld
  BY <1>5, <1>9 DEF DeliverChld
<1>10. ASSUME NEW sig \in Keys, DeliverKey(sig) \/ ForwardKey(sig) \/ PressKey(sig)
       PROVE  (\A p \in Pids : ChildMove(p)) /\ (chld => chld')
  BY <1>1, <1>10, KillMoves DEF DeliverKey, ForwardKey, PressKey, procVars
<1>11. CASE ReapDone
  BY <1>1, <1>11 DEF ReapDone, procVars
<1>12. ASSUME NEW p \in Pids, ChildStep(p)
       PROVE  (\A q \in Pids : ChildMove(q)) /\ (chld => chld')
  BY <1>12, ChildMoves DEF ChildStep
<1> QED
  BY <1>3, <1>4, <1>6, <1>7, <1>8, <1>9, <1>10, <1>11, <1>12 DEF Next, Go, Handler

\* Only the end of the SIGCHLD handler takes it off the stack.
LEMMA HandlerStays ==
    ASSUME TypeOK, [Next]_vars, ~ReapDone, Running("CHLD")
    PROVE  Running("CHLD")'
<1>1. stack \in Seq(Frame)
  BY DEF TypeOK
<1>2. stack # <<>>
  BY EmptyStack
<1>3. ~Read /\ ~Go
  BY <1>2, MainStep
<1>4. stack' = stack => Running("CHLD")'
  BY DEF Running
<1>5. ASSUME NEW f, stack' = Append(stack, f)
      PROVE  Running("CHLD")'
  BY <1>1, <1>5, RunningPush
<1>6. ASSUME NEW sig \in Keys, ForwardKey(sig)
      PROVE  Running("CHLD")'
  <2>1. Return /\ Top.sig # "CHLD"
    BY <1>6, MyShellAssumption DEF ForwardKey
  <2> QED
    BY <1>1, <1>2, <2>1, RunningReturn
<1>7. CASE DeliverChld \/ \E sig \in Keys : DeliverKey(sig)
  BY <1>5, <1>7 DEF DeliverChld, DeliverKey
<1>8. CASE \/ UNCHANGED vars
           \/ \E p \in Pids : Reap(p) \/ ChildStep(p)
           \/ \E sig \in Keys : PressKey(sig)
  BY <1>4, <1>8 DEF vars, shellVars, Reap, PressKey, ChildStep
<1> QED
  BY <1>3, <1>6, <1>7, <1>8 DEF Next, Handler

\* What there is to report is true and on its way to the shell, after every step.
LEMMA ReportsStep ==
    ASSUME TypeOK, ReportsPending, ReportsTrue, [Next]_vars
    PROVE  (ReportsPending /\ ReportsTrue)'
<1>1. /\ stack \in Seq(Frame) /\ proc \in [Pids -> ProcRecord]
      /\ chld \in BOOLEAN
  BY DEF TypeOK, ProcTypeOK
<1>2. CASE LaunchStage
  <2> PICK n : n = next_pid
    OBVIOUS
  <2>1. PICK r : /\ r.st = "live" /\ r.rep = "none"
                 /\ proc' = [proc EXCEPT ![n] = r] /\ chld' = chld /\ stack' = stack
    BY <1>2, ForkAdds DEF LaunchStage
  <2>2. Waitable' \subseteq Waitable
    BY <1>1, <2>1 DEF Waitable
  <2> QED
    BY <1>1, <2>1, <2>2 DEF ReportsPending, ReportsTrue, Running
<1>3. ASSUME NEW p \in Pids, Reap(p)
      PROVE  (ReportsPending /\ ReportsTrue)'
  <2>1. Running("CHLD")'
    <3>1. Running("CHLD") /\ stack' = stack
      BY <1>1, <1>3, TopIsRunning DEF Reap
    <3> QED
      BY <3>1 DEF Running
  <2>2. /\ proc' = [proc EXCEPT ![p] = Collected(p)]
        /\ Collected(p).rep = "none"
    BY <1>1, <1>3 DEF Reap, Collected, BlankProc, ProcRecord
  <2> QED
    BY <1>1, <2>1, <2>2 DEF ReportsPending, ReportsTrue
<1>4. CASE ~LaunchStage /\ ~\E p \in Pids : Reap(p)
  <2>1. /\ \A p \in Pids : ChildMove(p)
        /\ chld => chld' \/ Running("CHLD")'
    BY <1>4, Moves
  <2>2. ReportsTrue'
    BY <2>1 DEF ReportsTrue, ChildMove
  <2>3. ReportsPending'
    <3>1. ASSUME NEW p \in Pids, proc'[p].st = "zombie" \/ proc'[p].rep # "none"
          PROVE  chld' \/ Running("CHLD")'
      <4>1. chld' \/ p \in Waitable
        BY <2>1, <3>1 DEF ChildMove, Waitable
      <4>2. ASSUME p \in Waitable
            PROVE  chld' \/ Running("CHLD")'
        <5>1. ~ReapDone
          BY <4>2 DEF ReapDone
        <5> QED
          BY <2>1, <4>2, <5>1, HandlerStays DEF ReportsPending
      <4> QED
        BY <4>1, <4>2
    <3> QED
      BY <3>1 DEF ReportsPending, Waitable
  <2> QED
    BY <2>2, <2>3
<1> QED
  BY <1>2, <1>3, <1>4

\* While SIGCHLD is blocked for a launch, a stop of one of its stages stays unreported.
LEMMA LaunchReportsStep ==
    ASSUME Inv, LaunchReports, [Next]_vars
    PROVE  LaunchReports'
<1>1. /\ TypeOK /\ proc \in [Pids -> ProcRecord]
  BY DEF Inv, TypeOK, ProcTypeOK
<1>2. CASE pc' # "launch"
  BY <1>2 DEF LaunchReports
<1>3. CASE LaunchStage
  <2> PICK n : n = next_pid
    OBVIOUS
  <2>1. PICK r : r.st = "live" /\ proc' = [proc EXCEPT ![n] = r]
    BY <1>3, ForkAdds
  <2>2. loc'.pids = loc.pids \union {n} /\ pc = "launch"
    BY <1>3 DEF LaunchStage, Main, Inv, TypeOK, Locals
  <2> QED
    BY <1>1, <2>1, <2>2 DEF LaunchReports
<1>4. ASSUME NEW p \in Pids, Reap(p)
      PROVE  pc' # "launch"
  <2>1. Running("CHLD")
    BY <1>4, TopIsRunning DEF Reap, Inv, TypeOK
  <2> QED
    BY <1>4, <2>1 DEF Reap, Inv, MaskHolds, LaunchInProgress
<1>5. CASE ~LaunchStage /\ ~\E p \in Pids : Reap(p)
  <2>1. \A p \in Pids : ChildMove(p)
    BY <1>1, <1>5, Moves
  <2>2. CASE pc' = pc /\ loc'.pids \subseteq loc.pids \union {-1}
    <3>1. -1 \notin Pids
      BY ProcessesAssumption DEF Pids
    <3> QED
      BY <2>1, <2>2, <3>1 DEF LaunchReports, ChildMove
  <2>3. CASE Read
    <3>1. ASSUME NEW nseg, NEW bg, ReadLaunch(nseg, bg) PROVE LaunchReports'
      <4>1. loc'.pids = {}
        BY <3>1 DEF ReadLaunch, NoLocals
      <4> QED
        BY <4>1 DEF LaunchReports
    <3> QED
      BY <1>2, <2>3, <3>1 DEF Read, ReadJobs, ReadWrongJob, ReadBg, ReadFg, ReadKill,
         ReadExit
  <2>4. CASE ForkFails
    BY <2>2, <2>4 DEF ForkFails, Inv, TypeOK, Locals
  <2>5. CASE Restore
    BY <1>2, <2>5 DEF Restore, AfterRestore
  <2>6. CASE PipeFails \/ AddJob \/ TableFull \/ Acknowledge \/ BgKill \/ FgKill
             \/ KillSend \/ WaitTest \/ Suspend
    BY <1>2, <2>6 DEF PipeFails, AddJob, TableFull, Acknowledge, BgKill, FgKill,
       KillSend, WaitTest, Suspend, ToPrompt
  <2>7. CASE \/ UNCHANGED vars \/ DeliverChld \/ ReapDone
             \/ \E sig \in Keys : DeliverKey(sig) \/ ForwardKey(sig) \/ PressKey(sig)
             \/ \E p \in Pids : ChildStep(p)
    BY <1>2, <2>2, <2>7 DEF vars, shellVars, DeliverChld, ReapDone, DeliverKey,
       ForwardKey, PressKey, ChildStep, Woken
  <2> QED
    BY <1>5, <2>3, <2>4, <2>5, <2>6, <2>7 DEF Next, Go, Handler
<1> QED
  BY <1>2, <1>3, <1>4, <1>5
\* A child that is not reaped is listed in one job.
LEMMA OneJobOf ==
    ASSUME Inv, NEW p \in Pids, Unreaped(p), NEW s \in Used(jobs), p \in jobs[s].pids
    PROVE  find_job_by_pid(jobs, p) = s
<1> PICK t : t = find_job_by_pid(jobs, p)
  OBVIOUS
<1>1. t \in Used(jobs) /\ p \in jobs[t].pids
  BY FindByPid
<1>2. p \in Members(jobs[s].pgid) /\ p \in Members(jobs[t].pgid)
  BY <1>1 DEF Inv, LiveCountExact
<1>3. jobs[s].pgid = jobs[t].pgid
  BY <1>2 DEF Members
<1> QED
  BY <1>1, <1>3 DEF Inv, GroupsOfJobs

\* Steps that leave the states of the jobs alone.
LEMMA ListedKept ==
    ASSUME ListedAsIs, QuietTable,
           \A s \in Used(jobs) : jobs'[s].state = jobs[s].state,
           \A p \in Pids : ChildMove(p),
           \A s \in Used(jobs), p \in Pids :
              /\ jobs[s].pids = {p} /\ ContDue(s)
              /\ proc[p].st = "stop" /\ proc'[p].st = "stop"
              => ContDue(s)'
    PROVE  ListedAsIs'
<1>1. ASSUME NEW s \in Used(jobs'), NEW p \in Pids, jobs'[s].pids = {p},
             proc'[p].rep = "none", proc'[p].st \in {"live", "stop"}
      PROVE  \/ jobs'[s].state = "STOPPED" <=> proc'[p].st = "stop"
             \/ proc'[p].st = "stop" /\ ContDue(s)'
  <2>1. s \in Used(jobs) /\ jobs[s].pids = {p} /\ jobs'[s].state = jobs[s].state
    BY <1>1 DEF QuietTable
  <2>2. proc[p].rep = "none" /\ proc'[p].st = proc[p].st
    BY <1>1 DEF ChildMove
  <2> QED
    BY <1>1, <2>1, <2>2 DEF ListedAsIs
<1> QED
  BY <1>1 DEF ListedAsIs

\* A report that waitpid delivers brings the listed state of its job up to date.
LEMMA ListedReap ==
    ASSUME Inv, ReportsTrue, ListedAsIs, NEW q \in Pids, Reap(q)
    PROVE  ListedAsIs'
<1>1. /\ jobs \in Table /\ proc \in [Pids -> ProcRecord]
      /\ proc' = [proc EXCEPT ![q] = Collected(q)]
      /\ pc' = pc /\ loc' = loc /\ q \in Waitable
  BY DEF Inv, TypeOK, ProcTypeOK, Reap, Table
<1> PICK report : report = Report(q)
  OBVIOUS
<1> PICK t : t = find_job_by_pid(jobs, q)
  OBVIOUS
<1>2. /\ report \in {"stopped", "continued", "dead"}
      /\ jobs' = Record(jobs, q, report)
      /\ Unreaped(q)
      /\ report = "dead" => Collected(q).st = "reaped"
      /\ report = "stopped" => Collected(q).st = "stop"
      /\ report = "continued" => Collected(q).st = "live"
  BY <1>1 DEF Reap, Report, Waitable, Unreaped, ReportsTrue, Collected, ProcRecord, BlankProc
<1>3. ASSUME NEW s \in Used(jobs'), NEW p \in Pids, jobs'[s].pids = {p},
             proc'[p].rep = "none", proc'[p].st \in {"live", "stop"}
      PROVE  \/ jobs'[s].state = "STOPPED" <=> proc'[p].st = "stop"
             \/ proc'[p].st = "stop" /\ ContDue(s)'
  <2>1. /\ s \in Used(jobs) /\ jobs[s].pids = {p} /\ jobs'[s].pgid = jobs[s].pgid
        /\ s # t => jobs'[s] = jobs[s]
        /\ s = t => /\ report = "stopped" => jobs'[s].state = "STOPPED"
                    /\ report = "continued" => jobs'[s].state # "STOPPED"
    BY <1>1, <1>2, <1>3, RecordOthers DEF Used
  <2>2. CASE s = t
    <3>1. p = q
      <4>1. s # NoSlot
        BY DEF Used, NoSlot, Slots
      <4> QED
        BY <2>1, <2>2, <4>1, FindByPid
    <3> QED
      BY <1>1, <1>2, <1>3, <2>1, <2>2, <3>1
  <2>3. CASE s # t
    <3>1. p # q
      BY <1>2, <2>1, <2>3, OneJobOf
    <3>2. proc'[p] = proc[p] /\ jobs'[s] = jobs[s]
      BY <1>1, <2>1, <2>3, <3>1
    <3> QED
      BY <1>1, <1>3, <2>1, <3>2 DEF ListedAsIs, ContDue
  <2> QED
    BY <2>2, <2>3
<1> QED
  BY <1>3 DEF ListedAsIs

\* A launch does not disturb what is listed of the other jobs.
LEMMA ListedLaunch ==
    ASSUME Inv, ListedAsIs, LaunchStage
    PROVE  ListedAsIs'
<1>1. /\ jobs' = jobs /\ pc = "launch" /\ proc \in [Pids -> ProcRecord]
  BY DEF LaunchStage, Main, Inv, TypeOK, ProcTypeOK
<1>2. PICK n, r : n = next_pid /\ proc' = [proc EXCEPT ![n] = r]
  BY ForkAdds
<1>3. ASSUME NEW s \in Used(jobs), NEW p \in Pids, jobs[s].pids = {p}
      PROVE  proc'[p] = proc[p] /\ ~ContDue(s)
  <2>1. p \in 1..(next_pid - 1) /\ next_pid \in Nat
    BY <1>3, ProcessesAssumption DEF Inv, GroupsOfJobs, TypeOK, ProcTypeOK
  <2>2. p # n
    BY <1>2, <2>1
  <2> QED
    BY <1>1, <1>2, <2>2 DEF ContDue
<1> QED
  BY <1>1, <1>3 DEF ListedAsIs

\* A new job is listed as what it is.
LEMMA ListedAdd ==
    ASSUME Inv, ListedAsIs, LaunchReports, AddJob
    PROVE  ListedAsIs'
<1>1. /\ jobs \in Table /\ pc = "launch" /\ proc' = proc
  BY DEF AddJob, Main, Inv, TypeOK, Table, procVars
<1> PICK f : f = FreeSlot(jobs)
  OBVIOUS
<1>2. f = NoSlot \/ f \in Slots
  BY FindFree
<1>3. \A s \in Used(jobs), p \in Pids :
         jobs[s].pids = {p} /\ proc[p].rep = "none" /\ proc[p].st \in {"live", "stop"}
         => (jobs[s].state = "STOPPED" <=> proc[p].st = "stop")
  BY <1>1 DEF ListedAsIs, ContDue
<1>4. CASE f = NoSlot
  <2>1. jobs' = jobs
    BY <1>4 DEF AddJob, add_job
  <2> QED
    BY <1>1, <1>3, <2>1 DEF ListedAsIs
<1>5. CASE f # NoSlot
  <2> PICK r : r = [used |-> TRUE, jid |-> next_jid, pgid |-> loc.pgid,
                    pids |-> loc.pids, live_count |-> loc.nseg,
                    state |-> IF loc.bg THEN "BACKGROUND" ELSE "FOREGROUND"]
    OBVIOUS
  <2>1. r.pids = loc.pids /\ r.state # "STOPPED"
    OBVIOUS
  <2>2. jobs' = [jobs EXCEPT ![f] = r]
    BY <1>5 DEF AddJob, add_job
  <2>3. jobs'[f] = r /\ \A s \in Slots \ {f} : jobs'[s] = jobs[s]
    BY <1>1, <1>2, <1>5, <2>2 DEF Table
  <2>4. ASSUME NEW s \in Used(jobs'), NEW p \in Pids, jobs'[s].pids = {p},
               proc[p].rep = "none", proc[p].st \in {"live", "stop"}
        PROVE  jobs'[s].state = "STOPPED" <=> proc[p].st = "stop"
    <3>1. CASE s = f
      BY <1>1, <2>1, <2>3, <2>4, <3>1 DEF LaunchReports
    <3>2. CASE s # f
      BY <1>3, <2>3, <2>4, <3>2 DEF Used
    <3> QED
      BY <3>1, <3>2
  <2> QED
    BY <1>1, <2>4 DEF ListedAsIs
<1> QED
  BY <1>4, <1>5
\* SIGCONT wakes the process of a job that is stopped.
LEMMA ContWakes ==
    ASSUME Inv, NEW s \in Used(jobs), NEW p \in Pids, jobs[s].pids = {p},
           proc[p].st = "stop", kill(jobs[s].pgid, "CONT")
    PROVE  proc'[p].st = "live"
<1>1. proc[p] \in ProcRecord /\ Unreaped(p)
  BY DEF Inv, TypeOK, ProcTypeOK, Unreaped
<1>2. p \in Members(jobs[s].pgid)
  BY <1>1 DEF Inv, LiveCountExact
<1>3. Signalled(proc[p], "CONT").st = "live"
  BY <1>1 DEF Signalled, ProcRecord
<1> QED
  BY <1>2, <1>3 DEF kill

\* A job whose child stops or continues has a report to come.
LEMMA ListedMove ==
    ASSUME Inv, ListedAsIs, NEW jid, ReadBg(jid) \/ ReadFg(jid)
    PROVE  ListedAsIs'
<1>1. jobs \in Table /\ proc' = proc /\ pc = "prompt"
  BY DEF ReadBg, ReadFg, Main, Inv, TypeOK, Table, procVars
<1> PICK t : t = find_job_by_jid(jobs, jid)
  OBVIOUS
<1>2. t \in Slots
  BY FindByJid DEF ReadBg, ReadFg, Used
<1>3. PICK state \in {"BACKGROUND", "FOREGROUND"} : jobs' = SetState(jobs, t, state)
  BY DEF ReadBg, ReadFg
<1>4. /\ \A s \in Slots \ {t} : jobs'[s] = jobs[s]
      /\ jobs'[t].state # "STOPPED" /\ jobs'[t].pgid = jobs[t].pgid
      /\ jobs'[t].pids = jobs[t].pids
  BY <1>1, <1>2, <1>3 DEF SetState, Table, JobRecord
<1>5. ContDue(t)'
  <2>1. CASE ReadBg(jid)
    <3>1. loc'.slot = t /\ pc' = "bg_set"
      BY <2>1 DEF ReadBg, NoLocals
    <3> QED
      BY <3>1 DEF ContDue
  <2>2. CASE ReadFg(jid)
    <3>1. loc'.pgid = jobs[t].pgid /\ pc' = "fg_set"
      BY <2>2 DEF ReadFg, NoLocals
    <3> QED
      BY <1>4, <3>1 DEF ContDue
  <2> QED
    BY <2>1, <2>2
<1>6. ASSUME NEW s \in Used(jobs'), NEW p \in Pids, jobs'[s].pids = {p},
             proc[p].rep = "none", proc[p].st \in {"live", "stop"}
      PROVE  \/ jobs'[s].state = "STOPPED" <=> proc[p].st = "stop"
             \/ proc[p].st = "stop" /\ ContDue(s)'
  <2>1. CASE s = t
    BY <1>4, <1>5, <1>6, <2>1
  <2>2. CASE s # t
    <3>1. s \in Used(jobs) /\ jobs'[s] = jobs[s] /\ ~ContDue(s)
      BY <1>1, <1>4, <1>6, <2>2 DEF Used, ContDue
    <3> QED
      BY <1>6, <3>1 DEF ListedAsIs
  <2> QED
    BY <2>1, <2>2
<1> QED
  BY <1>1, <1>6 DEF ListedAsIs

\* Every step leaves each listed state true, or to be corrected by a report that is on
\* its way.
LEMMA ListedStep ==
    ASSUME Inv, Told, [Next]_vars
    PROVE  ListedAsIs'
<1> USE DEF Told
<1>1. CASE LaunchStage
  BY <1>1, ListedLaunch
<1>2. CASE AddJob
  BY <1>2, ListedAdd
<1>3. ASSUME NEW q \in Pids, Reap(q)
      PROVE  ListedAsIs'
  BY <1>3, ListedReap
<1>4. ASSUME NEW jid, ReadBg(jid) \/ ReadFg(jid)
      PROVE  ListedAsIs'
  BY <1>4, ListedMove
<1>5. CASE ~LaunchStage /\ ~AddJob /\ ~\E p \in Pids : Reap(p)
  <2>1. QuietTable /\ \A p \in Pids : ChildMove(p)
    BY <1>5, OtherSteps, Moves DEF Inv
  <2>2. ASSUME jobs' = jobs,
               \A s \in Used(jobs), p \in Pids :
                  /\ jobs[s].pids = {p} /\ ContDue(s)
                  /\ proc[p].st = "stop" /\ proc'[p].st = "stop"
                  => ContDue(s)'
        PROVE  ListedAsIs'
    BY <2>1, <2>2, ListedKept
  <2>3. CASE jobs' = jobs /\ pc \notin {"bg_set", "bg_kill", "fg_set", "fg_kill"}
    BY <2>2, <2>3 DEF ContDue
  <2>4. CASE jobs' = jobs /\ loc' = loc /\ pc' = pc
    BY <2>2, <2>4 DEF ContDue
  <2>5. CASE Read
    BY <1>4, <2>3, <2>5, ReadAtPrompt, ReadChangesTable
  <2>6. CASE Restore
    <3>1. CASE pc \in {"bg_set", "fg_set"}
      <4>1. /\ jobs' = jobs /\ loc' = loc
            /\ pc = "bg_set" => pc' = "bg_kill"
            /\ pc = "fg_set" => pc' = "fg_kill"
        BY <2>6, <3>1 DEF Restore, AfterRestore
      <4> QED
        BY <2>2, <3>1, <4>1 DEF ContDue
    <3>2. CASE pc \notin {"bg_set", "fg_set"}
      BY <2>3, <2>6, <3>2 DEF Restore, AfterRestore
    <3> QED
      BY <3>1, <3>2
  <2>7. CASE BgKill
    <3>1. pc = "bg_kill" /\ jobs' = jobs /\ kill(jobs[loc.slot].pgid, "CONT")
      BY <2>7 DEF BgKill, Main
    <3>2. \A s \in Used(jobs), p \in Pids :
             jobs[s].pids = {p} /\ ContDue(s) /\ proc[p].st = "stop"
             => proc'[p].st = "live"
      BY <3>1, ContWakes DEF ContDue
    <3> QED
      BY <2>2, <3>1, <3>2
  <2>8. CASE FgKill
    <3>1. pc = "fg_kill" /\ jobs' = jobs /\ kill(loc.pgid, "CONT")
      BY <2>8 DEF FgKill, Main
    <3>2. \A s \in Used(jobs), p \in Pids :
             jobs[s].pids = {p} /\ ContDue(s) /\ proc[p].st = "stop"
             => proc'[p].st = "live"
      BY <3>1, ContWakes DEF ContDue
    <3> QED
      BY <2>2, <3>1, <3>2
  <2>9. CASE ForkFails \/ PipeFails \/ TableFull \/ Acknowledge \/ KillSend \/ WaitTest
             \/ Suspend
    BY <2>3, <2>9 DEF ForkFails, PipeFails, TableFull, Acknowledge, KillSend, WaitTest,
       Suspend, Main
  <2>10. CASE \/ UNCHANGED vars \/ DeliverChld \/ ReapDone
              \/ \E sig \in Keys : DeliverKey(sig) \/ ForwardKey(sig) \/ PressKey(sig)
              \/ \E p \in Pids : ChildStep(p)
    BY <2>3, <2>4, <2>10 DEF vars, shellVars, DeliverChld, ReapDone, DeliverKey,
       ForwardKey, PressKey, ChildStep, Woken
  <2> QED
    BY <1>5, <2>5, <2>6, <2>7, <2>8, <2>9, <2>10 DEF Next, Go, Handler
<1> QED
  BY <1>1, <1>2, <1>3, <1>5

\* Nothing is listed yet.
LEMMA ToldInit == Init => Told
<1> SUFFICES ASSUME Init PROVE Told
  OBVIOUS
<1>1. \A p \in Pids : proc[p].st = "free" /\ proc[p].rep = "none"
  BY DEF Init, ProcInit, BlankProc
<1>2. pc # "launch" /\ Used(jobs) = {}
  BY DEF Init, EmptyTable, EmptyJob, Used
<1> QED
  BY <1>1, <1>2 DEF Told, ReportsPending, Waitable, ReportsTrue, LaunchReports, ListedAsIs

\* The invariant behind StateTellsTheTruth is kept by every step.
LEMMA ToldStep ==
    ASSUME Inv, Told, [Next]_vars
    PROVE  Told'
BY ReportsStep, LaunchReportsStep, ListedStep DEF Told, Inv

\* When no SIGCHLD is on its way, everything that happened is in the table.
LEMMA ToldSettled == Inv /\ Told => StateTellsTheTruth
<1> SUFFICES ASSUME Inv, Told, Settled, NEW s \in Used(jobs), NEW p \in Pids,
                    jobs[s].pids = {p}
             PROVE  jobs[s].state = "STOPPED" <=> proc[p].st = "stop"
  BY DEF StateTellsTheTruth
<1>1. Waitable = {}
  BY EmptyStack DEF Settled, Told, ReportsPending
<1>2. Unreaped(p)
  <2>1. Members(jobs[s].pgid) = {q \in Pids : q \in {p} /\ Unreaped(q)}
    BY DEF Inv, LiveCountExact
  <2>2. Cardinality(Members(jobs[s].pgid)) > 0
    BY DEF Inv, LiveCountExact
  <2>3. Members(jobs[s].pgid) # {}
    BY <2>2, FS_EmptySet
  <2> QED
    BY <2>1, <2>3
<1>3. proc[p].rep = "none" /\ proc[p].st \in {"live", "stop"}
  BY <1>1, <1>2 DEF Waitable, Unreaped
<1>4. ~ContDue(s)
  BY DEF Settled, ContDue
<1> QED
  BY <1>3, <1>4 DEF Told, ListedAsIs

\* sigchld_handler, builtin_bg, builtin_fg and launch_pipeline write the state of a job
\* from what was reported or asked at different times; once nothing is on its way, a job
\* of one process is listed as stopped exactly when the process is.
THEOREM StatesAreTrue ==
    ASSUME NoForkFault
    PROVE  Spec => []StateTellsTheTruth
<1>1. Init => Inv /\ Told
  BY InvInit, ToldInit
<1>2. Inv /\ Told /\ [Next]_vars => (Inv /\ Told)'
  BY InvStep, ToldStep
<1>3. Inv /\ Told => StateTellsTheTruth
  BY ToldSettled
<1> QED
  BY <1>1, <1>2, <1>3, PTL DEF Spec


-----------------------------------------------------------------------------
(* What the job table stands for *)

\* The state of every job id in the table J.
StateOf(J) == [jid \in {J[s].jid : s \in Used(J)} |->
                  J[CHOOSE s \in Used(J) : J[s].jid = jid].state]

UniqueIds(J) == \A s, t \in Used(J) : J[s].jid = J[t].jid => s = t

\* Job ids are not reused, so no two jobs have the same.
JobIdsUnique ==
    /\ UniqueIds(jobs)
    /\ \A s \in Used(jobs) : jobs[s].jid < next_jid

\* The state of a job id is that of the slot that it is in.
LEMMA StateAt ==
    ASSUME NEW J, UniqueIds(J), NEW s \in Used(J)
    PROVE  J[s].jid \in DOMAIN StateOf(J) /\ StateOf(J)[J[s].jid] = J[s].state
<1>1. (CHOOSE t \in Used(J) : J[t].jid = J[s].jid) = s
  BY DEF UniqueIds
<1> QED
  BY <1>1 DEF StateOf

\* A function with these ids and these states is what the table stands for.
LEMMA StateIs ==
    ASSUME NEW J, UniqueIds(J), NEW f, f = [k \in DOMAIN f |-> f[k]],
           DOMAIN f = {J[s].jid : s \in Used(J)},
           \A s \in Used(J) : f[J[s].jid] = J[s].state
    PROVE  StateOf(J) = f
<1>1. ASSUME NEW k \in DOMAIN f
      PROVE  f[k] = StateOf(J)[k]
  <2>1. PICK s \in Used(J) : k = J[s].jid
    BY <1>1
  <2> QED
    BY <2>1, StateAt
<1> QED
  BY <1>1 DEF StateOf

\* The slot in which only the state changes.
LEMMA StateChanges ==
    ASSUME NEW J, NEW K, UniqueIds(J), Used(K) = Used(J), NEW s \in Used(J),
           \A t \in Used(J) : K[t].jid = J[t].jid /\ (t # s => K[t].state = J[t].state)
    PROVE  UniqueIds(K) /\ StateOf(K) = [StateOf(J) EXCEPT ![J[s].jid] = K[s].state]
<1> DEFINE f == [StateOf(J) EXCEPT ![J[s].jid] = K[s].state]
<1>1. UniqueIds(K)
  BY DEF UniqueIds
<1>2. DOMAIN StateOf(J) = {J[t].jid : t \in Used(J)}
  BY DEF StateOf
<1>3. DOMAIN f = {K[t].jid : t \in Used(K)} /\ f = [k \in DOMAIN f |-> f[k]]
  <2>1. DOMAIN f = DOMAIN StateOf(J)
    OBVIOUS
  <2>2. {J[t].jid : t \in Used(J)} = {K[t].jid : t \in Used(K)}
    OBVIOUS
  <2>3. f = [k \in DOMAIN f |-> f[k]]
    BY Zenon
  <2> QED
    BY <1>2, <2>1, <2>2, <2>3, Zenon
<1>4. ASSUME NEW t \in Used(K)
      PROVE  f[K[t].jid] = K[t].state
  <2>1. t \in Used(J) /\ J[t].jid \in DOMAIN StateOf(J)
    BY <1>2, <1>4
  <2>2. StateOf(J)[J[t].jid] = J[t].state
    BY <2>1, StateAt
  <2>3. t # s => J[t].jid # J[s].jid
    BY <2>1 DEF UniqueIds
  <2> QED
    BY <2>1, <2>2, <2>3
<1> HIDE DEF f
<1>5. StateOf(K) = f
  BY <1>1, <1>3, <1>4, StateIs
<1> QED
  BY <1>1, <1>5 DEF f

\* Nothing that job control sees changes.
LEMMA StateStays ==
    ASSUME NEW J, NEW K, UniqueIds(J), Used(K) = Used(J),
           \A t \in Used(J) : K[t].jid = J[t].jid /\ K[t].state = J[t].state
    PROVE  UniqueIds(K) /\ StateOf(K) = StateOf(J)
<1>1. UniqueIds(K)
  BY DEF UniqueIds
<1>2. /\ DOMAIN StateOf(J) = {K[t].jid : t \in Used(K)}
      /\ StateOf(J) = [k \in DOMAIN StateOf(J) |-> StateOf(J)[k]]
  BY DEF StateOf
<1>3. \A t \in Used(K) : StateOf(J)[K[t].jid] = K[t].state
  BY StateAt
<1> QED
  BY <1>1, <1>2, <1>3, StateIs

Without(f, j) == [k \in DOMAIN f \ {j} |-> f[k]]

\* A job goes.
LEMMA StateGoes ==
    ASSUME NEW J, NEW K, UniqueIds(J), NEW s \in Used(J), Used(K) = Used(J) \ {s},
           \A t \in Used(K) : K[t] = J[t]
    PROVE  /\ UniqueIds(K)
           /\ StateOf(K) = Without(StateOf(J), J[s].jid)
<1> DEFINE f == [k \in DOMAIN StateOf(J) \ {J[s].jid} |-> StateOf(J)[k]]
<1>1. UniqueIds(K)
  BY DEF UniqueIds
<1>2. DOMAIN StateOf(J) = {J[t].jid : t \in Used(J)}
  BY DEF StateOf
<1>3. DOMAIN f = {K[t].jid : t \in Used(K)}
  BY <1>2 DEF UniqueIds
<1>4. ASSUME NEW t \in Used(K)
      PROVE  f[K[t].jid] = K[t].state
  <2>1. StateOf(J)[J[t].jid] = J[t].state
    BY <1>4, StateAt
  <2>2. K[t] = J[t] /\ J[t].jid \in DOMAIN StateOf(J) /\ J[t].jid # J[s].jid
    BY <1>2, <1>4 DEF UniqueIds
  <2> QED
    BY <2>1, <2>2
<1>5. f = [k \in DOMAIN f |-> f[k]]
  OBVIOUS
<1> HIDE DEF f
<1>6. StateOf(K) = f
  BY <1>1, <1>3, <1>4, <1>5, StateIs
<1> QED
  BY <1>1, <1>6 DEF f, Without

\* A job comes, with a new id.
LEMMA StateComes ==
    ASSUME NEW J, NEW K, UniqueIds(J), NEW s, s \notin Used(J),
           Used(K) = Used(J) \union {s}, \A t \in Used(J) : K[t] = J[t],
           \A t \in Used(J) : J[t].jid # K[s].jid
    PROVE  /\ UniqueIds(K)
           /\ StateOf(K) = [k \in DOMAIN StateOf(J) \union {K[s].jid} |->
                               IF k = K[s].jid THEN K[s].state ELSE StateOf(J)[k]]
<1> DEFINE f == [k \in DOMAIN StateOf(J) \union {K[s].jid} |->
                        IF k = K[s].jid THEN K[s].state ELSE StateOf(J)[k]]
<1>1. UniqueIds(K)
  BY DEF UniqueIds
<1>2. DOMAIN StateOf(J) = {J[t].jid : t \in Used(J)}
  BY DEF StateOf
<1>3. DOMAIN f = {K[t].jid : t \in Used(K)}
  <2>1. {K[t].jid : t \in Used(J)} = {J[t].jid : t \in Used(J)}
    OBVIOUS
  <2> QED
    BY <1>2, <2>1
<1>4. ASSUME NEW t \in Used(K)
      PROVE  f[K[t].jid] = K[t].state
  <2>1. CASE t = s
    BY <2>1
  <2>2. CASE t \in Used(J)
    <3>1. StateOf(J)[J[t].jid] = J[t].state
      BY <2>2, StateAt
    <3>2. K[t] = J[t] /\ J[t].jid \in DOMAIN StateOf(J) /\ J[t].jid # K[s].jid
      BY <1>2, <2>2
    <3> QED
      BY <3>1, <3>2
  <2> QED
    BY <1>4, <2>1, <2>2
<1>5. f = [k \in DOMAIN f |-> f[k]]
  OBVIOUS
<1> HIDE DEF f
<1>6. StateOf(K) = f
  BY <1>1, <1>3, <1>4, <1>5, StateIs
<1> QED
  BY <1>1, <1>6 DEF f

-----------------------------------------------------------------------------
(* Each step and the step of job control that it is *)

Prompts == {"prompt", "exited", "killed"}

\* What MyShell calls the state of its jobs, before a step and after.
TableState == [jid \in {jobs[s].jid : s \in Used(jobs)} |-> jobs[JobWith(jid)].state]

\* The states that JobControl sees are StateOf the table, before and after a step.
LEMMA TableStateIs == TableState = StateOf(jobs) /\ TableState' = StateOf(jobs')
BY DEF TableState, StateOf, JobWith

\* Nothing that job control sees.
LEMMA IsStutter ==
    ASSUME StateOf(jobs') = StateOf(jobs), next_jid' = next_jid,
           pc' \in Prompts <=> pc \in Prompts
    PROVE  UNCHANGED JC!jcVars
<1>1. UNCHANGED TableState
  BY TableStateIs
<1>2. (pc' \in Prompts) = (pc \in Prompts)
  OBVIOUS
<1> QED
  BY <1>1, <1>2 DEF JC!jcVars, TableState, Prompts

\* Where a step of the code begins one command of JobControl ...
LEMMA IsBegin ==
    ASSUME pc \in Prompts, pc' \notin Prompts, jobs' = jobs, next_jid' = next_jid
    PROVE  JC!Next
<1>1. JC!Begin
  BY DEF JC!Begin, JobWith, Prompts
<1> QED
  BY <1>1 DEF JC!Next

\* No job of the table is in the foreground.
LEMMA IsNoForeground ==
    ASSUME JobIdsUnique, ForegroundJobs = {}
    PROVE  JC!NoForeground
<1>1. ASSUME NEW k \in DOMAIN StateOf(jobs)
      PROVE  StateOf(jobs)[k] # "FOREGROUND"
  <2>1. PICK s \in Used(jobs) : k = jobs[s].jid
    BY <1>1 DEF StateOf
  <2>2. StateOf(jobs)[k] = jobs[s].state
    BY <2>1, StateAt DEF JobIdsUnique
  <2> QED
    BY <2>1, <2>2 DEF ForegroundJobs
<1> QED
  BY <1>1 DEF JC!NoForeground, JC!JobIds, StateOf, JobWith

\* ... returns to the prompt ...
LEMMA IsEnd ==
    ASSUME JobIdsUnique, ForegroundJobs = {},
           pc \notin Prompts, pc' \in Prompts, jobs' = jobs, next_jid' = next_jid
    PROVE  JC!Next
<1>1. JC!NoForeground
  BY IsNoForeground
<1>2. JC!End
  BY <1>1 DEF JC!End, JobWith, Prompts
<1> QED
  BY <1>2 DEF JC!Next

\* ... lists a new job ...
LEMMA IsLaunch ==
    ASSUME JobIdsUnique, ForegroundJobs = {}, NEW s \in {"FOREGROUND", "BACKGROUND"},
           pc \notin Prompts, pc' \notin Prompts, next_jid' = next_jid + 1,
           StateOf(jobs') = [k \in DOMAIN StateOf(jobs) \union {next_jid} |->
                                IF k = next_jid THEN s ELSE StateOf(jobs)[k]]
    PROVE  JC!Next
<1>1. JC!NoForeground
  BY IsNoForeground
<1>2. JC!Launch(s)
  <2>1. JC!JobIds = DOMAIN StateOf(jobs)
    BY TableStateIs DEF JC!JobIds, TableState
  <2>2. TableState' = [k \in JC!JobIds \union {next_jid} |->
                          IF k = next_jid THEN s ELSE TableState[k]]
    BY <2>1, TableStateIs
  <2>3. (pc' \in Prompts) = (pc \in Prompts)
    OBVIOUS
  <2>4. ~(pc \in {"prompt", "exited", "killed"})
    BY DEF Prompts
  <2> QED
    BY <1>1, <2>2, <2>3, <2>4 DEF JC!Launch, TableState, Prompts
<1> QED
  BY <1>2 DEF JC!Next

\* ... changes the state of a job or removes it while a handler runs ...
LEMMA IsMove ==
    ASSUME NEW j \in DOMAIN StateOf(jobs), NEW s \in {"FOREGROUND", "BACKGROUND"},
           pc \in Prompts, pc' \notin Prompts, next_jid' = next_jid,
           StateOf(jobs') = [StateOf(jobs) EXCEPT ![j] = s]
    PROVE  JC!Next
<1>1. JC!Move(j, s)
  BY DEF JC!Move, StateOf, JobWith, Prompts
<1>2. j \in JC!JobIds
  BY DEF JC!JobIds, StateOf
<1> QED
  BY <1>1, <1>2 DEF JC!Next

\* ... or continues, in a builtin, a job that was stopped.
LEMMA IsProgress ==
    ASSUME NEW j \in DOMAIN StateOf(jobs), pc' = pc, next_jid' = next_jid,
           \/ StateOf(jobs') = [StateOf(jobs) EXCEPT ![j] = "STOPPED"]
           \/ /\ StateOf(jobs)[j] = "STOPPED"
              /\ StateOf(jobs') = [StateOf(jobs) EXCEPT ![j] = "BACKGROUND"]
           \/ StateOf(jobs') = Without(StateOf(jobs), j)
    PROVE  JC!Next
<1>1. JC!Stop(j) \/ JC!Continue(j) \/ JC!Finish(j)
  BY DEF JC!Stop, JC!Continue, JC!Finish, JC!JobIds, StateOf, JobWith, Without
<1>2. j \in JC!JobIds
  BY DEF JC!JobIds, StateOf
<1> QED
  BY <1>1, <1>2 DEF JC!Next

\* waitpid's report of a child: its job stops, goes on in the background, loses a child
\* or its last one.
LEMMA ReapRefines ==
    ASSUME TypeOK, JobIdsUnique, NEW q \in Pids, Reap(q)
    PROVE  JobIdsUnique' /\ (JC!Next \/ UNCHANGED JC!jcVars)
<1>1. /\ jobs \in Table /\ q \in Waitable /\ proc[q] \in ProcRecord
      /\ pc' = pc /\ next_jid' = next_jid
  BY DEF TypeOK, ProcTypeOK, Table, Reap
<1> PICK report : report = Report(q)
  OBVIOUS
<1>2. /\ report \in {"stopped", "continued", "dead"}
      /\ jobs' = Record(jobs, q, report)
  BY <1>1 DEF Reap, Report, Waitable, ProcRecord
<1> PICK t : t = find_job_by_pid(jobs, q)
  OBVIOUS
<1> PICK j : j = jobs[t].jid
  OBVIOUS
<1>3. UniqueIds(jobs)
  BY DEF JobIdsUnique
<1>4. CASE jobs' = jobs
  BY <1>1, <1>4, IsStutter DEF JobIdsUnique
<1>5. ASSUME t \in Used(jobs), NEW state \in {"STOPPED", "BACKGROUND"},
             jobs' = SetState(jobs, t, state)
      PROVE  /\ JobIdsUnique' /\ j \in DOMAIN StateOf(jobs)
             /\ StateOf(jobs') = [StateOf(jobs) EXCEPT ![j] = state]
  <2>1. /\ Used(jobs') = Used(jobs) /\ jobs'[t].state = state
        /\ \A s \in Used(jobs) : /\ jobs'[s].jid = jobs[s].jid
                                 /\ s # t => jobs'[s].state = jobs[s].state
    BY <1>1, <1>5 DEF SetState, Used, Table, JobRecord
  <2>2. UniqueIds(jobs') /\ StateOf(jobs') = [StateOf(jobs) EXCEPT ![j] = state]
    BY <1>3, <1>5, <2>1, StateChanges
  <2> QED
    BY <1>1, <1>3, <1>5, <2>1, <2>2, StateAt DEF JobIdsUnique
<1>6. CASE t # NoSlot /\ report = "stopped"
  <2>1. jobs' = SetState(jobs, t, "STOPPED") /\ t \in Used(jobs)
    BY <1>2, <1>6, FindByPid DEF Record
  <2> QED
    BY <1>1, <1>5, <2>1, IsProgress
<1>7. CASE t # NoSlot /\ report = "continued" /\ jobs[t].state = "STOPPED"
  <2>1. jobs' = SetState(jobs, t, "BACKGROUND") /\ t \in Used(jobs)
    BY <1>2, <1>7, FindByPid DEF Record
  <2>2. StateOf(jobs)[j] = "STOPPED"
    BY <1>3, <1>7, <2>1, StateAt
  <2> QED
    BY <1>1, <1>5, <2>1, <2>2, IsProgress
<1>8. CASE t # NoSlot /\ report = "dead"
  <2>1. jobs' = CountDeath(jobs, t) /\ t \in Used(jobs) /\ t \in Slots
    BY <1>2, <1>8, FindByPid DEF Record, Used
  <2>2. jobs' = delete_job(jobs, t) \/ \E c : jobs' = SetCount(jobs, t, c)
    BY <2>1 DEF CountDeath, SetCount
  <2>3. CASE jobs' = delete_job(jobs, t)
    <3>1. /\ Used(jobs') = Used(jobs) \ {t}
          /\ \A s \in Used(jobs') : jobs'[s] = jobs[s]
      BY <1>1, <2>1, <2>3 DEF delete_job, EmptyJob, Used, Table
    <3>2. /\ UniqueIds(jobs')
          /\ StateOf(jobs') = Without(StateOf(jobs), j)
      BY <1>3, <2>1, <3>1, StateGoes
    <3>3. j \in DOMAIN StateOf(jobs)
      BY <1>3, <2>1, StateAt
    <3> QED
      <4>1. JobIdsUnique'
        BY <1>1, <3>1, <3>2 DEF JobIdsUnique
      <4>2. JC!Next
        BY <1>1, <3>2, <3>3, IsProgress
      <4> QED
        BY <4>1, <4>2
  <2>4. ASSUME NEW c, jobs' = SetCount(jobs, t, c)
        PROVE  JobIdsUnique' /\ (JC!Next \/ UNCHANGED JC!jcVars)
    <3>1. /\ Used(jobs') = Used(jobs)
          /\ \A s \in Used(jobs) : /\ jobs'[s].jid = jobs[s].jid
                                   /\ jobs'[s].state = jobs[s].state
      BY <1>1, <2>1, <2>4 DEF SetCount, Used, Table, JobRecord
    <3>2. UniqueIds(jobs') /\ StateOf(jobs') = StateOf(jobs)
      BY <1>3, <3>1, StateStays
    <3> QED
      BY <1>1, <3>1, <3>2, IsStutter DEF JobIdsUnique
  <2> QED
    BY <2>2, <2>3, <2>4
<1> QED
  BY <1>2, <1>4, <1>6, <1>7, <1>8 DEF Record

\* add_job lists a job with a new id, in the state that the command line asks for.
LEMMA AddRefines ==
    ASSUME Inv, JobIdsUnique, AddJob
    PROVE  JobIdsUnique' /\ (JC!Next \/ UNCHANGED JC!jcVars)
<1> PICK f : f = FreeSlot(jobs)
  OBVIOUS
<1>1. /\ jobs \in Table /\ pc = "launch" /\ pc' = "launched" /\ next_jid \in Nat
      /\ f = NoSlot \/ (f \in Slots /\ ~jobs[f].used)
      /\ UniqueIds(jobs)
  BY FindFree DEF AddJob, Main, Inv, TypeOK, Table, JobIdsUnique
<1>2. CASE f = NoSlot
  <2>1. jobs' = jobs /\ next_jid' = next_jid
    BY <1>2 DEF AddJob, add_job
  <2>2. pc' \in Prompts <=> pc \in Prompts
    BY <1>1 DEF Prompts
  <2> QED
    BY <2>1, <2>2, IsStutter DEF JobIdsUnique
<1>3. CASE f # NoSlot
  <2> PICK state : state = IF loc.bg THEN "BACKGROUND" ELSE "FOREGROUND"
    OBVIOUS
  <2> PICK r : r = [used |-> TRUE, jid |-> next_jid, pgid |-> loc.pgid,
                    pids |-> loc.pids, live_count |-> loc.nseg, state |-> state]
    OBVIOUS
  <2>1. r.used /\ r.jid = next_jid /\ r.state = state
    OBVIOUS
  <2>2. jobs' = [jobs EXCEPT ![f] = r] /\ next_jid' = next_jid + 1
    BY <1>3 DEF AddJob, add_job
  <2>3. /\ f \notin Used(jobs) /\ Used(jobs') = Used(jobs) \union {f} /\ jobs'[f] = r
        /\ \A s \in Used(jobs) : jobs'[s] = jobs[s]
    BY <1>1, <1>3, <2>1, <2>2 DEF Table, Used
  <2>4. \A s \in Used(jobs) : jobs[s].jid \in Nat /\ jobs[s].jid < next_jid
    BY <1>1 DEF JobIdsUnique, Table, JobRecord, Used
  <2>5. \A s \in Used(jobs) : jobs[s].jid # jobs'[f].jid
    BY <1>1, <2>1, <2>3, <2>4
  <2>6. /\ UniqueIds(jobs')
        /\ StateOf(jobs') = [k \in DOMAIN StateOf(jobs) \union {jobs'[f].jid} |->
                                IF k = jobs'[f].jid THEN jobs'[f].state
                                ELSE StateOf(jobs)[k]]
    BY <1>1, <2>3, <2>5, StateComes
  <2>7. \A s \in Used(jobs') : jobs'[s].jid < next_jid'
    BY <1>1, <2>1, <2>2, <2>3, <2>4
  <2>8. ForegroundJobs = {}
    BY <1>1, NoneUnlessAwaiting DEF Awaiting, Waiting
  <2>9. pc \notin Prompts /\ pc' \notin Prompts /\ state \in {"FOREGROUND", "BACKGROUND"}
    BY <1>1 DEF Prompts
  <2>10. StateOf(jobs') = [k \in DOMAIN StateOf(jobs) \union {next_jid} |->
                              IF k = next_jid THEN state ELSE StateOf(jobs)[k]]
    BY <2>1, <2>3, <2>6
  <2>11. JC!Next
    BY <2>2, <2>8, <2>9, <2>10, IsLaunch
  <2> QED
    BY <2>6, <2>7, <2>11 DEF JobIdsUnique
<1> QED
  BY <1>2, <1>3

\* bg and fg move the job that they name.
LEMMA MoveRefines ==
    ASSUME TypeOK, JobIdsUnique, NEW jid, ReadBg(jid) \/ ReadFg(jid)
    PROVE  JobIdsUnique' /\ JC!Next
<1> PICK s : s = find_job_by_jid(jobs, jid)
  OBVIOUS
<1>1. PICK state \in {"FOREGROUND", "BACKGROUND"} : jobs' = SetState(jobs, s, state)
  BY DEF ReadBg, ReadFg
<1>2. /\ s \in Used(jobs) /\ jobs \in Table /\ next_jid' = next_jid
      /\ pc = "prompt" /\ pc' \in {"bg_set", "fg_set"}
  BY FindByJid DEF ReadBg, ReadFg, Main, TypeOK, Table
<1>3. /\ Used(jobs') = Used(jobs) /\ jobs'[s].state = state
      /\ \A t \in Used(jobs) : /\ jobs'[t].jid = jobs[t].jid
                               /\ t # s => jobs'[t].state = jobs[t].state
  BY <1>1, <1>2 DEF SetState, Used, Table, JobRecord
<1>4. /\ UniqueIds(jobs')
      /\ StateOf(jobs') = [StateOf(jobs) EXCEPT ![jobs[s].jid] = state]
  BY <1>2, <1>3, StateChanges DEF JobIdsUnique
<1>5. jobs[s].jid \in DOMAIN StateOf(jobs)
  BY <1>2, StateAt DEF JobIdsUnique
<1>6. pc \in Prompts /\ pc' \notin Prompts
  BY <1>2 DEF Prompts
<1>7. JC!Next
  BY <1>1, <1>2, <1>4, <1>5, <1>6, IsMove
<1> QED
  BY <1>2, <1>3, <1>4, <1>7 DEF JobIdsUnique

\* The other commands change no job.
LEMMA ReadRefines ==
    ASSUME TypeOK, JobIdsUnique, Read
    PROVE  JobIdsUnique' /\ (JC!Next \/ UNCHANGED JC!jcVars)
<1>1. ASSUME NEW jid, ReadBg(jid) \/ ReadFg(jid)
      PROVE  JobIdsUnique' /\ (JC!Next \/ UNCHANGED JC!jcVars)
  BY <1>1, MoveRefines
<1>2. ASSUME jobs' = jobs, next_jid' = next_jid,
             pc' \in {"launch", "leave", "kill_found", "exited"}
      PROVE  JobIdsUnique' /\ (JC!Next \/ UNCHANGED JC!jcVars)
  <2>1. pc = "prompt"
    BY ReadAtPrompt
  <2>2. CASE pc' = "exited"
    <3>1. pc' \in Prompts <=> pc \in Prompts
      BY <2>1, <2>2 DEF Prompts
    <3> QED
      BY <1>2, <3>1, IsStutter DEF JobIdsUnique
  <2>3. CASE pc' # "exited"
    <3>1. pc \in Prompts /\ pc' \notin Prompts
      BY <1>2, <2>1, <2>3 DEF Prompts
    <3> QED
      BY <1>2, <3>1, IsBegin DEF JobIdsUnique
  <2> QED
    BY <2>2, <2>3
<1>3. ASSUME NEW nseg, NEW bg, ReadLaunch(nseg, bg)
      PROVE  JobIdsUnique' /\ (JC!Next \/ UNCHANGED JC!jcVars)
  BY <1>2, <1>3 DEF ReadLaunch
<1>4. ASSUME NEW jid, ReadWrongJob(jid) \/ ReadKill(jid)
      PROVE  JobIdsUnique' /\ (JC!Next \/ UNCHANGED JC!jcVars)
  BY <1>2, <1>4 DEF ReadWrongJob, ReadKill
<1>5. CASE ReadJobs \/ ReadExit
  BY <1>2, <1>5 DEF ReadJobs, ReadExit
<1> QED
  BY <1>1, <1>3, <1>4, <1>5 DEF Read

\* The main thread comes back to its prompt only when no job is in the foreground.
LEMMA NoForegroundBehind ==
    ASSUME Inv,
           \/ Acknowledge /\ pc' = "prompt"
           \/ TableFull \/ BgKill \/ KillSend
           \/ FgKill /\ pc' = "prompt"
           \/ WaitTest /\ pc' = "prompt"
           \/ Restore /\ pc' = "prompt"
    PROVE  ForegroundJobs = {}
<1> SUFFICES ASSUME NEW s \in ForegroundJobs
             PROVE  FALSE
  OBVIOUS
<1>1. /\ Awaiting /\ jobs[s].pgid = loc.pgid
      /\ pc \in {"launched", "report"} => loc.slot # NoSlot /\ ~loc.bg
      /\ s \in Used(jobs)
  BY DEF Inv, ForegroundIsAwaited, ForegroundLaunch, Awaiting, ForegroundJobs
<1>2. CASE TableFull \/ BgKill \/ KillSend
  BY <1>1, <1>2 DEF TableFull, BgKill, KillSend, Main, Awaiting, Waiting
<1>3. CASE Acknowledge /\ pc' = "prompt"
  BY <1>1, <1>3 DEF Acknowledge, Main
<1>4. CASE Restore /\ pc' = "prompt"
  <2>1. \A x \in DOMAIN AfterRestore : AfterRestore[x] = "prompt" => x = "leave"
    BY DEF AfterRestore
  <2>2. pc = "leave"
    BY <1>4, <2>1 DEF Restore
  <2> QED
    BY <1>1, <2>2 DEF Awaiting, Waiting
<1>5. CASE FgKill /\ pc' = "prompt"
  <2>1. KillFails(loc.pgid)
    BY <1>5 DEF FgKill
  <2>2. jobs[s].pgid \in 1..(next_pid - 1)
    BY <1>1 DEF Inv, GroupsOfJobs
  <2>3. Members(loc.pgid) = {}
    BY <1>1, <2>1, <2>2 DEF KillFails
  <2>4. Cardinality(Members(loc.pgid)) = 0
    BY <2>3, FS_EmptySet
  <2> QED
    BY <1>1, <2>4 DEF Inv, LiveCountExact
<1>6. CASE WaitTest /\ pc' = "prompt"
  <2>1. stack = <<>> /\ fg_pgid # loc.pgid
    BY <1>6 DEF WaitTest, Main
  <2>2. fg_pgid = FgPgid(jobs)
    BY <2>1, EmptyStack DEF Inv, FgPgidExact
  <2> QED
    BY <1>1, <2>1, <2>2, FgPgidOfTable
<1> QED
  BY <1>2, <1>3, <1>4, <1>5, <1>6

\* The main thread, at every point of its code, does what JobControl allows.
LEMMA GoRefines ==
    ASSUME Inv, JobIdsUnique, Go
    PROVE  JobIdsUnique' /\ (JC!Next \/ UNCHANGED JC!jcVars)
<1>1. CASE AddJob
  BY <1>1, AddRefines
<1>2. CASE ~AddJob
  <2>1. jobs' = jobs /\ next_jid' = next_jid
    BY <1>2 DEF Go, LaunchStage, ForkFails, PipeFails, Restore, TableFull, Acknowledge,
       BgKill, FgKill, KillSend, WaitTest, Suspend
  <2>2. pc \notin Prompts
    BY <1>2 DEF Go, LaunchStage, ForkFails, PipeFails, Restore, AfterRestore, TableFull,
       Acknowledge, BgKill, FgKill, KillSend, WaitTest, Suspend, Main, Prompts
  <2>3. CASE pc' \notin Prompts
    BY <2>1, <2>2, <2>3, IsStutter DEF JobIdsUnique
  <2>4. CASE pc' \in Prompts
    <3>1. \/ Acknowledge /\ pc' = "prompt"
          \/ TableFull \/ BgKill \/ KillSend
          \/ FgKill /\ pc' = "prompt"
          \/ WaitTest /\ pc' = "prompt"
          \/ Restore /\ pc' = "prompt"
      <4>1. ~LaunchStage /\ ~ForkFails /\ ~PipeFails /\ ~Suspend
        BY <2>4 DEF LaunchStage, ForkFails, PipeFails, Suspend, Main, Prompts
      <4>2. Acknowledge \/ FgKill \/ WaitTest => pc' = "prompt"
        BY <2>4 DEF Acknowledge, FgKill, WaitTest, Main, ToPrompt, Prompts
      <4>3. Restore => pc' = "prompt"
        BY <2>4 DEF Restore, AfterRestore, Prompts
      <4> QED
        BY <1>2, <4>1, <4>2, <4>3 DEF Go
    <3>2. ForegroundJobs = {}
      BY <3>1, NoForegroundBehind
    <3> QED
      BY <2>1, <2>2, <2>4, <3>2, IsEnd DEF JobIdsUnique
  <2> QED
    BY <2>3, <2>4
<1> QED
  BY <1>1, <1>2

\* So does everybody: handlers move jobs, and children and keys do not touch the table.
LEMMA NextRefines ==
    ASSUME Inv, JobIdsUnique, [Next]_vars
    PROVE  JobIdsUnique' /\ (JC!Next \/ UNCHANGED JC!jcVars)
<1>1. TypeOK
  BY DEF Inv
<1>2. CASE Read
  BY <1>1, <1>2, ReadRefines
<1>3. CASE Go
  BY <1>3, GoRefines
<1>4. ASSUME NEW q \in Pids, Reap(q)
      PROVE  JobIdsUnique' /\ (JC!Next \/ UNCHANGED JC!jcVars)
  BY <1>1, <1>4, ReapRefines
<1>5. ASSUME jobs' = jobs, next_jid' = next_jid,
             pc' = pc \/ (pc = "suspended" /\ pc' = "wait")
      PROVE  JobIdsUnique' /\ (JC!Next \/ UNCHANGED JC!jcVars)
  <2>1. pc' \in Prompts <=> pc \in Prompts
    BY <1>5 DEF Prompts
  <2> QED
    BY <1>5, <2>1, IsStutter DEF JobIdsUnique
<1>6. CASE UNCHANGED vars
  BY <1>5, <1>6 DEF vars, shellVars
<1>7. CASE DeliverChld
  BY <1>5, <1>7 DEF DeliverChld, Woken
<1>8. CASE ReapDone
  BY <1>5, <1>8 DEF ReapDone
<1>9. ASSUME NEW sig \in Keys, DeliverKey(sig) \/ ForwardKey(sig) \/ PressKey(sig)
      PROVE  JobIdsUnique' /\ (JC!Next \/ UNCHANGED JC!jcVars)
  BY <1>5, <1>9 DEF DeliverKey, ForwardKey, PressKey, Woken
<1>10. ASSUME NEW q \in Pids, ChildStep(q)
       PROVE  JobIdsUnique' /\ (JC!Next \/ UNCHANGED JC!jcVars)
  BY <1>5, <1>10 DEF ChildStep, shellVars
<1> QED
  BY <1>2, <1>3, <1>4, <1>6, <1>7, <1>8, <1>9, <1>10 DEF Next, Handler

\* The empty table is that of JobControl.
LEMMA InitRefines == Init => JobIdsUnique /\ JC!Init
<1> SUFFICES ASSUME Init PROVE JobIdsUnique /\ JC!Init
  OBVIOUS
<1>1. Used(jobs) = {} /\ next_jid = 1 /\ pc = "prompt"
  BY DEF Init, EmptyTable, EmptyJob, Used
<1>2. JobIdsUnique
  BY <1>1 DEF JobIdsUnique, UniqueIds
<1>3. TableState = [j \in {} |-> "BACKGROUND"]
  BY <1>1 DEF TableState
<1> QED
  BY <1>1, <1>2, <1>3 DEF JC!Init, TableState

\* The whole shell implements job control: whatever the handlers, the children and the
\* main thread do between each other's steps, the prompt never comes back over a
\* foreground job, only fg and a launch put a job in the foreground, one at a time, a job
\* leaves the table once, and its job id is never used again.
THEOREM JobControlImplemented ==
    ASSUME NoForkFault
    PROVE  Spec => ImplementsJobControl
<1>1. Init => Inv /\ JobIdsUnique /\ JC!Init
  BY InvInit, InitRefines
<1>2. Inv /\ JobIdsUnique /\ [Next]_vars
      => (Inv /\ JobIdsUnique)' /\ [JC!Next]_(JC!jcVars)
  BY InvStep, NextRefines
<1> QED
  BY <1>1, <1>2, PTL DEF Spec, ImplementsJobControl, JC!Spec
=============================================================================
