--------------------------- MODULE PipeLaunchProofs ---------------------------
(***************************************************************************)
(* Theorems about the pipes of launch_pipeline, for any number of stages,   *)
(* processes, command lines and descriptors, any size of a pipe, and with   *)
(* any of the faults.                                                       *)
(***************************************************************************)
EXTENDS PipeLaunch, TLAPS

-----------------------------------------------------------------------------
(* The inductive invariant *)

\* The numbers under which a shell may still hand a reading end on: prev_read until
\* the fork of the stage that is to read it, and fd[0].
Ready(q, n) ==
    /\ st[q] = "shell"
    /\ \/ loop[q].pc \in {"pipe", "fork"} /\ n \in {loop[q].prev_read, loop[q].rd}
       \/ loop[q].pc = "close" /\ n = loop[q].rd /\ n # loop[q].prev_read

\* A pipe that no stage was given to read, nor will be: a launch was given up.
Lost(k) ==
    /\ to[k] = NoProc
    /\ \A q \in Procs, n \in Fds : Ready(q, n) => fd[q][n] # ReadEnd(k)

\* There is a pipe for every stage but the last, from its making to the closes.
LocalsFit == \A p \in Procs :
    /\ loop[p].rd # Closed => loop[p].stage < loop[p].last
    /\ loop[p].pc = "pipe" => loop[p].rd = Closed /\ loop[p].wr = Closed

\* Nobody has an end of a pipe that was not made.
MadeFirst == \A k \in PipeIds : maker[k] = NoProc =>
    /\ from[k] = NoProc /\ to[k] = NoProc
    /\ \A p \in Procs, n \in Fds : fd[p][n] # ReadEnd(k) /\ fd[p][n] # WriteEnd(k)

\* Before the fork, fd[0] and fd[1] are the two ends of a new pipe.
JustMade == \A q \in Procs : st[q] = "shell" /\ loop[q].pc = "fork" =>
    \E k \in PipeIds :
       /\ loop[q].rd # Closed /\ loop[q].wr # Closed
       /\ fd[q][loop[q].rd] = ReadEnd(k) /\ fd[q][loop[q].wr] = WriteEnd(k)
       /\ from[k] = NoProc

\* What a shell may still hand on it made itself, was given to nobody, and has under
\* one number only.
Handable == \A q \in Procs, n \in Fds, k \in PipeIds :
    Ready(q, n) /\ fd[q][n] = ReadEnd(k) =>
       /\ maker[k] = q /\ to[k] = NoProc
       /\ \A m \in Fds : Ready(q, m) /\ fd[q][m] = ReadEnd(k) => m = n

\* The reading end that a stage finds under prev_read was handed to its family, and
\* what it finds under fd[1] is a writing end.
Forked == \A p \in Procs : st[p] = "forked" =>
    /\ loop[p].pc # "prompt"
    /\ loop[p].prev_read # Closed => \A k \in PipeIds :
          fd[p][loop[p].prev_read] = ReadEnd(k) => to[k] \in kin[p]
    /\ loop[p].wr # Closed => \E k \in PipeIds : fd[p][loop[p].wr] = WriteEnd(k)

\* Who has a writing end.
WritesOnly(p, n, k) ==
    \/ from[k] \in kin[p]
    \/ /\ p = maker[k] /\ st[p] = "shell"
       /\ loop[p].pc \in {"fork", "close"} /\ loop[p].wr = n

WhoWrites == \A p \in Procs, n \in Fds, k \in PipeIds :
    fd[p][n] = WriteEnd(k) => WritesOnly(p, n, k)

\* Who has a reading end.
ReadsOnly(p, n, k) ==
    \/ to[k] \in kin[p]
    \/ p = from[k] /\ st[p] = "forked" /\ n = loop[p].rd
    \/ Ready(p, n)
    \/ /\ p = maker[k] /\ st[p] = "shell"
       /\ loop[p].pc = "close" /\ n = loop[p].prev_read
    \/ Lost(k)

WhoReads == \A p \in Procs, n \in Fds, k \in PipeIds :
    fd[p][n] = ReadEnd(k) => ReadsOnly(p, n, k)

IInv ==
    /\ TypeOK /\ LocalsFit
    /\ MadeFirst /\ JustMade /\ Handable /\ Forked
    /\ WhoWrites /\ WhoReads

-----------------------------------------------------------------------------
(* Numbers and tables *)

\* The two ends of a pipe are different, from those of other pipes and from none.
LEMMA EndsDiffer ==
    /\ \A j, k \in PipeIds :
          /\ ReadEnd(j) # WriteEnd(k) /\ ReadEnd(j) # None /\ WriteEnd(j) # None
          /\ ReadEnd(j) = ReadEnd(k) <=> j = k
          /\ WriteEnd(j) = WriteEnd(k) <=> j = k
    /\ \A k \in PipeIds : ReadEnd(k) \in Ends /\ WriteEnd(k) \in Ends
    /\ None \in Ends
BY DescriptorsAssumption DEF ReadEnd, WriteEnd, None, Ends, PipeIds

\* No descriptor and no process is -1, and the locals of the loop never name standard
\* input or output.
LEMMA Numbers ==
    /\ Closed \notin Fds /\ NoProc \notin Procs
    /\ STDIN \in Fds /\ STDOUT \in Fds /\ STDIN # STDOUT
    /\ \A n \in Handles : n # Closed => n \in Fds /\ n # STDIN /\ n # STDOUT
    /\ Children \subseteq Procs /\ Shell \in Procs /\ Closed \in Handles
BY DescriptorsAssumption, PipeLaunchAssumption
   DEF Closed, Fds, NoProc, Procs, Children, Shell, STDIN, STDOUT, Handles

\* The types of the variables.
LEMMA Types ==
    IInv => /\ fd \in [Procs -> [Fds -> Ends]] /\ items \in [PipeIds -> 0..PipeSize]
            /\ st \in [Procs -> {"none", "forked", "shell", "program", "ended"}]
            /\ loop \in [Procs -> Locals]
            /\ lines \in 0..MaxLines
            /\ kin \in [Procs -> SUBSET Procs]
            /\ maker \in [PipeIds -> Procs \union {NoProc}]
            /\ from \in [PipeIds -> Children \union {NoProc}]
            /\ to \in [PipeIds -> Children \union {NoProc}]
BY DEF IInv, TypeOK, DescriptorsTypeOK

\* The fields of the locals.
LEMMA LocalsTypes ==
    ASSUME NEW l \in Locals
    PROVE  /\ l.pc \in {"prompt", "pipe", "fork", "close"}
           /\ l.stage \in 1..MaxCmds /\ l.last \in 0..MaxCmds
           /\ l.prev_read \in Handles /\ l.rd \in Handles /\ l.wr \in Handles
BY DEF Locals

\* A shell at its prompt has no locals of the loop.
LEMMA PromptTypes ==
    /\ AtPrompt \in Locals
    /\ AtPrompt.pc = "prompt" /\ AtPrompt.stage = 1 /\ AtPrompt.last = 0
    /\ AtPrompt.prev_read = Closed /\ AtPrompt.rd = Closed /\ AtPrompt.wr = Closed
BY Numbers, PipeLaunchAssumption DEF AtPrompt, Locals

\* What the loop does to its locals.
SetPc(l, pc) == [l EXCEPT !.pc = pc]
SetPipe(l, r, w) == [l EXCEPT !.pc = "fork", !.rd = r, !.wr = w]
SetNext(l, s, pr) == [l EXCEPT !.pc = "pipe", !.stage = s, !.prev_read = pr,
                               !.rd = Closed, !.wr = Closed]
SetLaunch(l, n) == [l EXCEPT !.pc = "pipe", !.last = n]

\* The locals after the label has changed.
LEMMA PcTypes ==
    ASSUME NEW l \in Locals, NEW pc \in {"prompt", "pipe", "fork", "close"}
    PROVE  LET t == SetPc(l, pc)
           IN  /\ t \in Locals /\ t.pc = pc /\ t.stage = l.stage /\ t.last = l.last
               /\ t.prev_read = l.prev_read /\ t.rd = l.rd /\ t.wr = l.wr
BY DEF SetPc, Locals

\* The locals after a pipe was made.
LEMMA PipeTypes ==
    ASSUME NEW l \in Locals, NEW r \in Handles, NEW w \in Handles
    PROVE  LET t == SetPipe(l, r, w)
           IN  /\ t \in Locals /\ t.pc = "fork" /\ t.stage = l.stage /\ t.last = l.last
               /\ t.prev_read = l.prev_read /\ t.rd = r /\ t.wr = w
BY DEF SetPipe, Locals

\* The locals when a command line is launched.
LEMMA LaunchTypes ==
    ASSUME NEW n \in 1..MaxCmds
    PROVE  LET t == SetLaunch(AtPrompt, n)
           IN  /\ t \in Locals /\ t.prev_read = Closed /\ t.rd = Closed /\ t.wr = Closed
               /\ t.pc = "pipe" /\ t.stage <= t.last
<1>1. AtPrompt \in Locals /\ n \in 0..MaxCmds /\ 1 <= n
  BY PromptTypes, PipeLaunchAssumption
<1>2. \A l \in Locals :
         /\ SetLaunch(l, n) \in Locals
         /\ SetLaunch(l, n).pc = "pipe" /\ SetLaunch(l, n).stage = l.stage
         /\ SetLaunch(l, n).last = n /\ SetLaunch(l, n).prev_read = l.prev_read
         /\ SetLaunch(l, n).rd = l.rd /\ SetLaunch(l, n).wr = l.wr
  BY <1>1 DEF SetLaunch, Locals
<1> QED
  BY <1>1, <1>2, PromptTypes

\* The locals at the end of the loop's body.
LEMMA NextStageTypes ==
    ASSUME NEW l \in Locals
    PROVE  LET t == NextStage(l)
           IN  /\ t \in Locals
               /\ t.rd = Closed /\ t.wr = Closed
               /\ t.pc \in {"pipe", "prompt"}
               /\ t.pc = "pipe" => l.stage < l.last
               /\ t.prev_read = (IF l.stage < l.last THEN l.rd ELSE Closed)
               /\ t.pc # "prompt" => t.stage <= t.last
<1>1. CASE l.stage < l.last
  <2>1. PICK s, pr : s = l.stage + 1 /\ pr = l.rd
    OBVIOUS
  <2>2. NextStage(l) = SetNext(l, s, pr)
    BY <1>1, <2>1 DEF NextStage, SetNext
  <2>3. s \in 1..MaxCmds /\ pr \in Handles /\ s <= l.last
    BY <1>1, <2>1, LocalsTypes, PipeLaunchAssumption
  <2>4. /\ SetNext(l, s, pr) \in Locals
        /\ SetNext(l, s, pr).pc = "pipe" /\ SetNext(l, s, pr).stage = s
        /\ SetNext(l, s, pr).last = l.last /\ SetNext(l, s, pr).prev_read = pr
        /\ SetNext(l, s, pr).rd = Closed /\ SetNext(l, s, pr).wr = Closed
    BY <2>3, Numbers DEF SetNext, Locals
  <2> QED
    BY <1>1, <2>1, <2>2, <2>3, <2>4
<1>2. CASE ~(l.stage < l.last)
  BY <1>2, PromptTypes DEF NextStage
<1> QED
  BY <1>1, <1>2

\* dup2 and close, number by number.
LEMMA StageFdsAt ==
    ASSUME NEW f \in [Fds -> Ends], NEW l \in Locals
    PROVE  LET g == StageFds(f, l)
           IN  /\ g \in [Fds -> Ends]
               /\ \A n \in Fds : n \in {l.prev_read, l.rd, l.wr} => g[n] = None
               /\ \A n \in Fds \ {l.prev_read, l.rd, l.wr} :
                     \/ g[n] = f[n]
                     \/ n = STDIN /\ l.prev_read # Closed /\ g[n] = f[l.prev_read]
                     \/ n = STDOUT /\ l.wr # Closed /\ g[n] = f[l.wr]
<1> USE Numbers, LocalsTypes, EndsDiffer
<1> DEFINE a == dup2(f, l.prev_read, STDIN)
<1> DEFINE b == dup2(a, l.wr, STDOUT)
<1>1. /\ a \in [Fds -> Ends]
      /\ \A n \in Fds : a[n] = f[n] \/ (n = STDIN /\ l.prev_read # Closed
                                         /\ a[n] = f[l.prev_read])
  BY DEF dup2
<1>2. l.wr # Closed => l.wr \in Fds /\ a[l.wr] = f[l.wr]
  BY <1>1
<1> HIDE DEF a
<1>3. /\ b \in [Fds -> Ends]
      /\ \A n \in Fds : b[n] = a[n] \/ (n = STDOUT /\ l.wr # Closed /\ b[n] = a[l.wr])
  BY <1>1 DEF dup2
<1> HIDE DEF b
<1>4. StageFds(f, l) = [n \in Fds |-> IF n \in {l.prev_read, l.rd, l.wr} THEN None ELSE b[n]]
  BY DEF StageFds, close, a, b
<1> QED
  BY <1>1, <1>2, <1>3, <1>4

-----------------------------------------------------------------------------
(* The steps *)


\* A shell before its fork, and a stage before its program, are not disturbed by others.
LEMMA OthersKept ==
    ASSUME JustMade, Forked, from' = from, to' = to, kin' = kin,
           \A p \in Procs : loop'[p].pc = "fork" /\ st'[p] = "shell" =>
              st[p] = "shell" /\ loop'[p] = loop[p] /\ fd'[p] = fd[p],
           \A p \in Procs : st'[p] = "forked" =>
              st[p] = "forked" /\ loop'[p] = loop[p] /\ fd'[p] = fd[p]
    PROVE  JustMade' /\ Forked'
<1>1. JustMade'
  <2> SUFFICES ASSUME NEW p \in Procs, st'[p] = "shell", loop'[p].pc = "fork"
               PROVE  \E k \in PipeIds :
                         /\ loop'[p].rd # Closed /\ loop'[p].wr # Closed
                         /\ fd'[p][loop'[p].rd] = ReadEnd(k)
                         /\ fd'[p][loop'[p].wr] = WriteEnd(k)
                         /\ from'[k] = NoProc
    BY DEF JustMade
  <2>1. st[p] = "shell" /\ loop'[p] = loop[p] /\ fd'[p] = fd[p]
    OBVIOUS
  <2> QED
    BY <2>1 DEF JustMade
<1>2. Forked'
  BY DEF Forked
<1> QED
  BY <1>1, <1>2

\* The shell is alone, at its prompt, without pipes.
LEMMA InitIInv == Init => IInv
<1> SUFFICES ASSUME Init PROVE IInv
  OBVIOUS
<1> USE Numbers, PromptTypes, EndsDiffer DEF Init, DescriptorsInit, NoPipes
<1>1. TypeOK
  BY DescriptorsAssumption, PipeLaunchAssumption DEF TypeOK, DescriptorsTypeOK
<1>2. LocalsFit /\ MadeFirst /\ JustMade /\ Forked
  BY DEF LocalsFit, MadeFirst, JustMade, Forked
<1>3. Handable /\ WhoWrites /\ WhoReads
  BY DEF Handable, Ready, WhoWrites, WhoReads
<1> QED
  BY <1>1, <1>2, <1>3 DEF IInv

\* Who has what depends on the processes, their locals, the history and the tables only.
LEMMA QuietStep ==
    ASSUME IInv, UNCHANGED <<st, loop, lines, history, fd>>,
           items' \in [PipeIds -> 0..PipeSize]
    PROVE  IInv'
<1> USE DEF history
<1>1. TypeOK'
  BY DEF IInv, TypeOK, DescriptorsTypeOK
<1>2. \A q, n : Ready(q, n)' <=> Ready(q, n)
  BY DEF Ready
<1>3. \A k : Lost(k)' <=> Lost(k)
  BY <1>2 DEF Lost
<1>4. LocalsFit' /\ MadeFirst' /\ JustMade' /\ Forked'
  BY DEF IInv, LocalsFit, MadeFirst, JustMade, Forked
<1>5. Handable' /\ WhoWrites'
  BY <1>2 DEF IInv, Handable, WhoWrites, WritesOnly
<1>6. WhoReads'
  BY <1>2, <1>3 DEF IInv, WhoReads, ReadsOnly
<1> QED
  BY <1>1, <1>4, <1>5, <1>6 DEF IInv

\* A process that lets go of what it might hand on, starting a launch, giving one up or
\* ending, leaves everybody else's ends alone.
LetsGo(p) ==
    /\ UNCHANGED <<history, items>> /\ lines' \in 0..MaxLines
    /\ \/ fd' = fd /\ st' = st /\ st[p] = "shell" /\ loop[p].pc \in {"prompt", "pipe"}
       \/ fd' = [fd EXCEPT ![p] = NoPipes] /\ st' = [st EXCEPT ![p] = "ended"]
    /\ \E l \in Locals :
          /\ loop' = [loop EXCEPT ![p] = l]
          /\ l.prev_read = Closed /\ l.rd = Closed /\ l.wr = Closed
          /\ l.pc \in {"prompt", "pipe"}
          /\ l.pc # "prompt" => l.stage <= l.last

\* Pipes that only it could hand on are lost.
LEMMA LetsGoStep ==
    ASSUME IInv, NEW p \in Procs, LetsGo(p)
    PROVE  IInv'
<1> USE Types, Numbers, EndsDiffer
<1>1. /\ kin' = kin /\ maker' = maker /\ from' = from /\ to' = to
      /\ items' = items /\ lines' \in 0..MaxLines
  BY DEF LetsGo, history
<1>2. PICK l \in Locals : /\ loop' = [loop EXCEPT ![p] = l]
                          /\ l.prev_read = Closed /\ l.rd = Closed /\ l.wr = Closed
                          /\ l.pc \in {"prompt", "pipe"}
                          /\ l.pc # "prompt" => l.stage <= l.last
  BY DEF LetsGo
<1>3. /\ loop' \in [Procs -> Locals] /\ loop'[p] = l
      /\ \A q \in Procs \ {p} : loop'[q] = loop[q]
  BY <1>2
<1>4. /\ fd' \in [Procs -> [Fds -> Ends]]
      /\ st' \in [Procs -> {"none", "forked", "shell", "program", "ended"}]
      /\ \A q \in Procs \ {p} : fd'[q] = fd[q] /\ st'[q] = st[q]
      /\ \/ /\ fd'[p] = fd[p] /\ st'[p] = st[p]
            /\ st[p] = "shell" /\ loop[p].pc \in {"prompt", "pipe"}
         \/ st'[p] = "ended" /\ \A n \in Fds : fd'[p][n] = None
  <2>1. CASE fd' = fd /\ st' = st /\ st[p] = "shell" /\ loop[p].pc \in {"prompt", "pipe"}
    BY <2>1
  <2>2. CASE fd' = [fd EXCEPT ![p] = NoPipes] /\ st' = [st EXCEPT ![p] = "ended"]
    <3>1. NoPipes \in [Fds -> Ends] /\ \A n \in Fds : NoPipes[n] = None
      BY DEF NoPipes
    <3> QED
      BY <2>2, <3>1
  <2> QED
    BY <2>1, <2>2 DEF LetsGo
<1>5. TypeOK'
  BY <1>1, <1>2, <1>3, <1>4 DEF IInv, TypeOK, DescriptorsTypeOK
<1>6. LocalsFit'
  BY <1>2, <1>3 DEF IInv, LocalsFit
<1>x. \A q \in Procs, n \in Fds, k \in PipeIds :
         /\ fd'[q][n] = ReadEnd(k) => fd[q][n] = ReadEnd(k)
         /\ fd'[q][n] = WriteEnd(k) => fd[q][n] = WriteEnd(k)
  BY <1>4
<1>y. \A q \in Procs : loop'[q].pc = "fork" \/ st'[q] = "forked"
                          => /\ q # p /\ loop'[q] = loop[q]
                             /\ fd'[q] = fd[q] /\ st'[q] = st[q]
  BY <1>2, <1>3, <1>4
<1>7. MadeFirst'
  BY <1>1, <1>x DEF IInv, MadeFirst
<1>8. JustMade' /\ Forked'
  <2>1. JustMade /\ Forked
    BY DEF IInv
  <2> QED
    BY ONLY <1>1, <1>y, <2>1, OthersKept
<1>9. \A n \in Fds : ~Ready(p, n)'
  BY <1>2, <1>3 DEF Ready
<1>10. \A q \in Procs \ {p}, n \in Fds : Ready(q, n)' <=> Ready(q, n)
  BY <1>3, <1>4 DEF Ready
<1>11. Handable'
  <2>1. \A q \in Procs, n \in Fds : Ready(q, n)' => Ready(q, n)
    BY <1>9, <1>10
  <2> QED
    BY <1>1, <1>x, <2>1 DEF IInv, Handable
<1>13. ASSUME NEW q \in Procs, NEW n \in Fds, NEW k \in PipeIds, fd'[q][n] = WriteEnd(k)
       PROVE  WritesOnly(q, n, k)'
  <2>1. /\ fd[q][n] = WriteEnd(k)
        /\ q = p => st[p] = "shell" /\ loop[p].pc \in {"prompt", "pipe"}
    BY <1>4, <1>13
  <2>2. WritesOnly(q, n, k)
    BY <2>1 DEF IInv, WhoWrites
  <2> QED
    BY <1>1, <1>3, <1>4, <2>1, <2>2 DEF WritesOnly
<1>14. ASSUME NEW k \in PipeIds, Lost(k) PROVE Lost(k)'
  <2>1. \A q \in Procs, n \in Fds : Ready(q, n)' => Ready(q, n) /\ fd'[q] = fd[q]
    BY <1>4, <1>9, <1>10
  <2> QED
    BY <1>1, <1>14, <2>1 DEF Lost
<1>15. ASSUME NEW q \in Procs, NEW n \in Fds, NEW k \in PipeIds, fd'[q][n] = ReadEnd(k)
       PROVE  ReadsOnly(q, n, k)'
  <2>1. /\ fd[q][n] = ReadEnd(k)
        /\ q = p => st[p] = "shell" /\ loop[p].pc \in {"prompt", "pipe"}
    BY <1>4, <1>15
  <2>2. ReadsOnly(q, n, k)
    BY <2>1 DEF IInv, WhoReads
  <2>3. CASE q # p
    BY <1>1, <1>3, <1>4, <1>10, <1>14, <2>2, <2>3 DEF ReadsOnly
  <2>4. CASE q = p /\ Ready(p, n)
    <3>1. maker[k] = p /\ to[k] = NoProc
      BY <2>1, <2>4 DEF IInv, Handable
    <3>2. ASSUME NEW r \in Procs, NEW m \in Fds, Ready(r, m)', fd'[r][m] = ReadEnd(k)
          PROVE  FALSE
      <4>1. r # p /\ Ready(r, m) /\ fd[r][m] = ReadEnd(k)
        BY <1>4, <1>9, <1>10, <3>2
      <4> QED
        BY <3>1, <4>1 DEF IInv, Handable
    <3>3. Lost(k)'
      BY <1>1, <3>1, <3>2 DEF Lost
    <3> QED
      BY <3>3 DEF ReadsOnly
  <2>5. CASE q = p /\ ~Ready(p, n)
    BY <1>1, <1>14, <2>1, <2>2, <2>5 DEF ReadsOnly
  <2> QED
    BY <2>3, <2>4, <2>5
<1> QED
  BY <1>5, <1>6, <1>7, <1>8, <1>11, <1>13, <1>15 DEF IInv, WhoWrites, WhoReads

\* The three steps that let go.
LEMMA LettingGo ==
    ASSUME IInv, NEW p \in Procs,
           (\E n \in 1..MaxCmds : Launch(p, n)) \/ PipeFails(p) \/ Quits(p)
    PROVE  IInv'
<1> USE Types, PromptTypes
<1>1. CASE \E n \in 1..MaxCmds : Launch(p, n)
  <2>1. PICK n \in 1..MaxCmds : Launch(p, n)
    BY <1>1
  <2>2. PICK l : l = SetLaunch(AtPrompt, n)
    OBVIOUS
  <2>3. /\ l \in Locals /\ l.prev_read = Closed /\ l.rd = Closed /\ l.wr = Closed
        /\ l.pc = "pipe" /\ l.stage <= l.last
    BY <2>2, LaunchTypes
  <2>4. lines < MaxLines /\ lines' = lines + 1 /\ lines \in 0..MaxLines /\ MaxLines \in Nat
    BY <2>1, PipeLaunchAssumption DEF Launch
  <2>5. lines' \in 0..MaxLines
    BY ONLY <2>4
  <2>6. /\ loop' = [loop EXCEPT ![p] = l] /\ UNCHANGED <<history, items>>
        /\ fd' = fd /\ st' = st /\ st[p] = "shell" /\ loop[p].pc \in {"prompt", "pipe"}
    BY <2>1, <2>2 DEF Launch, At, SetLaunch, pipeVars
  <2>7. LetsGo(p)
    BY <2>3, <2>5, <2>6 DEF LetsGo
  <2> QED
    BY <2>7, LetsGoStep
<1>2. CASE PipeFails(p)
  BY <1>2, LetsGoStep DEF PipeFails, At, LetsGo, pipeVars
<1>3. CASE Quits(p)
  BY <1>3, LetsGoStep DEF Quits, Exits, LetsGo
<1> QED
  BY <1>1, <1>2, <1>3

\* A new pipe is one that nobody has an end of.
LEMMA MakePipeStep ==
    ASSUME IInv, NEW q \in Procs, MakePipe(q)
    PROVE  IInv'
<1> USE Types, Numbers, EndsDiffer
<1>1. PICK j \in Unmade, r, w \in Fds :
          /\ \A k \in Unmade : j <= k
          /\ pipe(q, j, r, w)
          /\ maker' = [maker EXCEPT ![j] = q]
          /\ loop' = [loop EXCEPT ![q].pc = "fork", ![q].rd = r, ![q].wr = w]
  BY Zenon DEF MakePipe
<1>2. /\ st[q] = "shell" /\ loop[q].pc = "pipe" /\ loop[q].stage < loop[q].last
      /\ st' = st /\ kin' = kin /\ from' = from /\ to' = to /\ lines' = lines
  BY DEF MakePipe, At
<1>3. /\ j \in PipeIds /\ from[j] = NoProc /\ to[j] = NoProc
      /\ \A p \in Procs, n \in Fds : fd[p][n] # ReadEnd(j) /\ fd[p][n] # WriteEnd(j)
      /\ r # w /\ r \in Handles /\ w \in Handles
      /\ fd[q][r] = None /\ fd[q][w] = None
  BY <1>1 DEF IInv, MadeFirst, Unmade, pipe, LowestTwo, Free, Handles, Fds
<1>4. /\ maker' \in [PipeIds -> Procs \union {NoProc}] /\ maker'[j] = q
      /\ \A k \in PipeIds \ {j} : maker'[k] = maker[k]
  BY <1>1, <1>3
<1>5. /\ loop' \in [Procs -> Locals]
      /\ \A p \in Procs \ {q} : loop'[p] = loop[p]
      /\ loop'[q].pc = "fork" /\ loop'[q].rd = r /\ loop'[q].wr = w
      /\ loop'[q].prev_read = loop[q].prev_read
      /\ loop'[q].stage = loop[q].stage /\ loop'[q].last = loop[q].last
  <2>1. PICK t : t = SetPipe(loop[q], r, w)
    OBVIOUS
  <2>2. loop' = [loop EXCEPT ![q] = t]
    BY <1>1, <2>1 DEF SetPipe
  <2>3. /\ t \in Locals /\ t.pc = "fork" /\ t.stage = loop[q].stage
        /\ t.last = loop[q].last /\ t.prev_read = loop[q].prev_read
        /\ t.rd = r /\ t.wr = w
    <3>1. loop[q] \in Locals
      OBVIOUS
    <3> QED
      BY ONLY <1>3, <2>1, <3>1, PipeTypes
  <2> QED
    BY <2>2, <2>3
<1>6. /\ fd' \in [Procs -> [Fds -> Ends]] /\ items' \in [PipeIds -> 0..PipeSize]
      /\ \A p \in Procs \ {q} : fd'[p] = fd[p]
      /\ \A n \in Fds \ {r, w} : fd'[q][n] = fd[q][n]
      /\ fd'[q][r] = ReadEnd(j) /\ fd'[q][w] = WriteEnd(j)
  <2>1. PICK f : f = [fd[q] EXCEPT ![r] = ReadEnd(j), ![w] = WriteEnd(j)]
    OBVIOUS
  <2>2. /\ f \in [Fds -> Ends] /\ f[r] = ReadEnd(j) /\ f[w] = WriteEnd(j)
        /\ \A n \in Fds \ {r, w} : f[n] = fd[q][n]
    BY <1>3, <2>1
  <2>3. fd' = [fd EXCEPT ![q] = f] /\ items' = [items EXCEPT ![j] = 0]
    BY <1>1, <2>1 DEF pipe
  <2>4. 0 \in 0..PipeSize
    BY DescriptorsAssumption
  <2> QED
    BY <1>3, <2>2, <2>3, <2>4
<1>x. \A p \in Procs, n \in Fds, k \in PipeIds : k # j =>
         /\ fd'[p][n] = ReadEnd(k) <=> fd[p][n] = ReadEnd(k)
         /\ fd'[p][n] = WriteEnd(k) <=> fd[p][n] = WriteEnd(k)
  <2>1. ASSUME NEW p \in Procs, NEW n \in Fds, NEW k \in PipeIds, k # j
        PROVE  /\ fd'[p][n] = ReadEnd(k) <=> fd[p][n] = ReadEnd(k)
               /\ fd'[p][n] = WriteEnd(k) <=> fd[p][n] = WriteEnd(k)
    <3>1. CASE p # q \/ n \notin {r, w}
      BY <1>6, <3>1
    <3>2. CASE p = q /\ n \in {r, w}
      BY <1>3, <1>6, <2>1, <3>2
    <3> QED
      BY <3>1, <3>2
  <2> QED
    BY <2>1
<1>y. \A p \in Procs, n \in Fds :
         /\ fd'[p][n] = ReadEnd(j) <=> p = q /\ n = r
         /\ fd'[p][n] = WriteEnd(j) <=> p = q /\ n = w
  BY <1>3, <1>6
<1>7. TypeOK'
  <2>1. \A p \in Procs : loop'[p].pc # "prompt" => loop'[p].stage <= loop'[p].last
    BY <1>2, <1>5 DEF IInv, TypeOK
  <2> QED
    BY <1>2, <1>4, <1>5, <1>6, <2>1 DEF IInv, TypeOK, DescriptorsTypeOK
<1>8. LocalsFit'
  BY <1>2, <1>5 DEF IInv, LocalsFit
<1>9. MadeFirst'
  <2>1. ASSUME NEW k \in PipeIds, maker'[k] = NoProc
        PROVE  /\ k # j /\ maker[k] = NoProc
    BY <1>4, <2>1
  <2> QED
    BY <1>2, <1>x, <2>1 DEF IInv, MadeFirst
<1>10. JustMade'
  <2> SUFFICES ASSUME NEW p \in Procs, st'[p] = "shell", loop'[p].pc = "fork"
               PROVE  \E k \in PipeIds :
                         /\ loop'[p].rd # Closed /\ loop'[p].wr # Closed
                         /\ fd'[p][loop'[p].rd] = ReadEnd(k)
                         /\ fd'[p][loop'[p].wr] = WriteEnd(k)
                         /\ from'[k] = NoProc
    BY DEF JustMade
  <2>1. CASE p = q
    BY <1>2, <1>3, <1>5, <1>6, <2>1
  <2>2. CASE p # q
    <3>1. st[p] = "shell" /\ loop'[p] = loop[p] /\ fd'[p] = fd[p]
      BY <1>2, <1>5, <1>6, <2>2
    <3> QED
      BY <1>2, <3>1 DEF IInv, JustMade
  <2> QED
    BY <2>1, <2>2
<1>11. /\ \A p \in Procs \ {q}, n \in Fds : Ready(p, n)' <=> Ready(p, n)
       /\ \A n \in Fds : Ready(q, n)' => n = r \/ Ready(q, n)
       /\ Ready(q, r)'
       /\ \A n \in Fds : Ready(q, n) => Ready(q, n)'
  BY <1>2, <1>5 DEF Ready, IInv, LocalsFit
<1>12. Handable'
  <2> SUFFICES ASSUME NEW p \in Procs, NEW n \in Fds, NEW k \in PipeIds,
                      Ready(p, n)', fd'[p][n] = ReadEnd(k)
               PROVE  /\ maker'[k] = p /\ to'[k] = NoProc
                      /\ \A m \in Fds : Ready(p, m)' /\ fd'[p][m] = ReadEnd(k) => m = n
    BY DEF Handable
  <2>1. CASE k = j
    BY <1>2, <1>3, <1>4, <1>y, <2>1
  <2>2. CASE k # j
    <3>1. ASSUME NEW m \in Fds, Ready(p, m)', fd'[p][m] = ReadEnd(k)
          PROVE  Ready(p, m) /\ fd[p][m] = ReadEnd(k)
      <4>1. fd[p][m] = ReadEnd(k)
        BY <1>x, <2>2, <3>1
      <4>2. fd[q][r] # ReadEnd(k)
        BY <1>3
      <4> QED
        BY <1>11, <3>1, <4>1, <4>2
    <3> QED
      BY <1>2, <1>4, <2>2, <3>1 DEF IInv, Handable
  <2> QED
    BY <2>1, <2>2
<1>13. Forked'
  <2>1. \A p \in Procs : st'[p] = "forked" =>
           st[p] = "forked" /\ fd'[p] = fd[p] /\ loop'[p] = loop[p]
    BY <1>2, <1>5, <1>6
  <2> QED
    BY <1>2, <2>1 DEF IInv, Forked
<1>14. ASSUME NEW p \in Procs, NEW n \in Fds, NEW k \in PipeIds, fd'[p][n] = WriteEnd(k)
       PROVE  WritesOnly(p, n, k)'
  <2>1. CASE k = j
    BY <1>2, <1>4, <1>5, <1>y, <1>14, <2>1 DEF WritesOnly
  <2>2. CASE k # j
    <3>1. WritesOnly(p, n, k)
      BY <1>x, <1>14, <2>2 DEF IInv, WhoWrites
    <3> QED
      BY <1>2, <1>4, <1>5, <2>2, <3>1 DEF WritesOnly
  <2> QED
    BY <2>1, <2>2
<1>15. ASSUME NEW k \in PipeIds, k # j, Lost(k) PROVE Lost(k)'
  <2>1. \A p \in Procs, n \in Fds : Ready(p, n)' => (p = q /\ n = r) \/ Ready(p, n)
    BY <1>11
  <2>2. \A p \in Procs, n \in Fds : fd'[p][n] = ReadEnd(k) => fd[p][n] = ReadEnd(k)
    BY <1>x, <1>15
  <2>3. fd[q][r] # ReadEnd(k)
    BY <1>3
  <2> QED
    BY <1>2, <1>15, <2>1, <2>2, <2>3 DEF Lost
<1>16. ASSUME NEW p \in Procs, NEW n \in Fds, NEW k \in PipeIds, fd'[p][n] = ReadEnd(k)
       PROVE  ReadsOnly(p, n, k)'
  <2>1. CASE k = j
    BY <1>y, <1>11, <1>16, <2>1 DEF ReadsOnly
  <2>2. CASE k # j
    <3>1. ReadsOnly(p, n, k)
      BY <1>x, <1>16, <2>2 DEF IInv, WhoReads
    <3> QED
      BY <1>2, <1>4, <1>5, <1>11, <1>15, <2>2, <3>1 DEF ReadsOnly
  <2> QED
    BY <2>1, <2>2
<1> QED
  BY <1>7, <1>8, <1>9, <1>10, <1>12, <1>13, <1>14, <1>16 DEF IInv, WhoWrites, WhoReads

\* What closes at the end of the loop's body takes away, and what it leaves to hand on.
LEMMA CloseEndsStep ==
    ASSUME IInv, NEW q \in Procs, CloseEnds(q)
    PROVE  IInv'
<1> USE Types, Numbers, EndsDiffer
<1>1. /\ st[q] = "shell" /\ loop[q].pc = "close" /\ lines' = lines /\ items' = items
      /\ st' = st /\ kin' = kin /\ from' = from /\ to' = to /\ maker' = maker
  BY DEF CloseEnds, At, history
<1>2. /\ loop' \in [Procs -> Locals]
      /\ \A p \in Procs \ {q} : loop'[p] = loop[p]
      /\ loop'[q] = NextStage(loop[q])
  BY NextStageTypes DEF CloseEnds
<1>3. /\ loop'[q].rd = Closed /\ loop'[q].wr = Closed
      /\ loop'[q].pc \in {"pipe", "prompt"}
      /\ loop'[q].prev_read = loop[q].rd
      /\ loop'[q].pc # "prompt" => loop'[q].stage <= loop'[q].last
  <2>1. loop[q].rd # Closed => loop[q].stage < loop[q].last
    BY DEF IInv, LocalsFit
  <2> QED
    BY <1>2, <2>1, NextStageTypes
<1>4. /\ fd' \in [Procs -> [Fds -> Ends]]
      /\ \A p \in Procs \ {q} : fd'[p] = fd[p]
      /\ \A n \in Fds : fd'[q][n] = (IF n \in {loop[q].prev_read, loop[q].wr}
                                     THEN None ELSE fd[q][n])
  <2>1. PICK f : f = close(fd[q], HandedOn(q))
    OBVIOUS
  <2>2. /\ f \in [Fds -> Ends]
        /\ \A n \in Fds : f[n] = (IF n \in {loop[q].prev_read, loop[q].wr}
                                  THEN None ELSE fd[q][n])
    BY <2>1 DEF close, HandedOn
  <2> QED
    BY <2>1, <2>2 DEF CloseEnds
<1>5. TypeOK'
  BY <1>1, <1>2, <1>3, <1>4 DEF IInv, TypeOK, DescriptorsTypeOK
<1>x. \A p \in Procs, n \in Fds, k \in PipeIds :
         /\ fd'[p][n] = ReadEnd(k) => fd[p][n] = ReadEnd(k)
         /\ fd'[p][n] = WriteEnd(k) => fd[p][n] = WriteEnd(k)
  BY <1>4
<1>6. LocalsFit' /\ MadeFirst'
  <2>1. LocalsFit'
    BY <1>2, <1>3 DEF IInv, LocalsFit
  <2>2. MadeFirst'
    BY <1>1, <1>x DEF IInv, MadeFirst
  <2> QED
    BY <2>1, <2>2
<1>7. JustMade' /\ Forked'
  <2>1. /\ loop'[q].pc # "fork" /\ st[q] # "forked"
        /\ \A p \in Procs \ {q} : fd'[p] = fd[p] /\ loop'[p] = loop[p]
    BY <1>1, <1>2, <1>3, <1>4
  <2>2. JustMade /\ Forked
    BY DEF IInv
  <2> QED
    BY ONLY <1>1, <2>1, <2>2, OthersKept
<1>8. /\ \A p \in Procs \ {q}, n \in Fds : Ready(p, n)' <=> Ready(p, n)
      /\ \A n \in Fds : Ready(q, n)' => n = loop[q].rd
      /\ \A n \in Fds : Ready(q, n) => n = loop[q].rd /\ n # loop[q].prev_read
      /\ \A n \in Fds : n = loop[q].rd /\ n # loop[q].prev_read => Ready(q, n)
  BY <1>1, <1>2, <1>3 DEF Ready
<1>9. \A n \in Fds, k \in PipeIds : Ready(q, n)' /\ fd'[q][n] = ReadEnd(k)
                                     => Ready(q, n) /\ fd[q][n] = ReadEnd(k)
  BY <1>4, <1>8
<1>z. ASSUME NEW p \in Procs, NEW n \in Fds, NEW k \in PipeIds,
             Ready(p, n)', fd'[p][n] = ReadEnd(k)
      PROVE  Ready(p, n) /\ fd[p][n] = ReadEnd(k)
  <2>1. CASE p = q
    BY <1>9, <1>z, <2>1
  <2>2. CASE p # q
    BY <1>8, <1>x, <1>z, <2>2
  <2> QED
    BY <2>1, <2>2
<1>10. Handable'
  BY <1>1, <1>z DEF IInv, Handable
<1>11. ASSUME NEW p \in Procs, NEW n \in Fds, NEW k \in PipeIds, fd'[p][n] = WriteEnd(k)
       PROVE  WritesOnly(p, n, k)'
  <2>1. fd[p][n] = WriteEnd(k) /\ (p = q => n # loop[q].wr)
    BY <1>4, <1>11
  <2>2. WritesOnly(p, n, k)
    BY <2>1 DEF IInv, WhoWrites
  <2> QED
    BY <1>1, <1>2, <2>1, <2>2 DEF WritesOnly
<1>12. ASSUME NEW k \in PipeIds, Lost(k) PROVE Lost(k)'
  BY <1>1, <1>z, <1>12 DEF Lost
<1>13. ASSUME NEW p \in Procs, NEW n \in Fds, NEW k \in PipeIds, fd'[p][n] = ReadEnd(k)
       PROVE  ReadsOnly(p, n, k)'
  <2>1. fd[p][n] = ReadEnd(k) /\ (p = q => n # loop[q].prev_read)
    BY <1>4, <1>13
  <2>2. ReadsOnly(p, n, k)
    BY <2>1 DEF IInv, WhoReads
  <2>3. CASE p # q
    BY <1>1, <1>2, <1>8, <1>12, <2>2, <2>3 DEF ReadsOnly
  <2>4. CASE p = q /\ Ready(q, n)
    <3>1. loop[q].rd # Closed /\ n = loop[q].rd
      BY <1>8, <2>4
    <3>2. loop'[q].pc = "pipe"
      BY <1>2, <3>1 DEF IInv, LocalsFit, NextStage
    <3>3. Ready(q, n)'
      BY <1>1, <1>3, <3>1, <3>2 DEF Ready
    <3> QED
      BY <2>4, <3>3 DEF ReadsOnly
  <2>5. CASE p = q /\ ~Ready(q, n)
    BY <1>1, <1>12, <2>1, <2>2, <2>5 DEF ReadsOnly
  <2> QED
    BY <2>3, <2>4, <2>5
<1> QED
  BY <1>5, <1>6, <1>7, <1>10, <1>11, <1>13 DEF IInv, WhoWrites, WhoReads

\* The child becomes the writer of the pipe just made and the reader of the one handed
\* on.
LEMMA ForkStageStep ==
    ASSUME IInv, NEW q \in Procs, ForkStage(q)
    PROVE  IInv'
<1> USE Types, Numbers, EndsDiffer
<1>1. PICK c \in Unborn :
          /\ \A d \in Unborn : c <= d
          /\ st' = [st EXCEPT ![c] = "forked"]
          /\ loop' = [loop EXCEPT ![q].pc = "close", ![c] = loop[q]]
          /\ fd' = [fd EXCEPT ![c] = fd[q]]
          /\ kin' = [kin EXCEPT ![c] = kin[q] \union {c}]
          /\ from' = [k \in PipeIds |-> IF k \in Output(q) THEN c ELSE from[k]]
          /\ to' = [k \in PipeIds |-> IF k \in Input(q) THEN c ELSE to[k]]
  BY Zenon DEF ForkStage
<1>2. /\ st[q] = "shell" /\ maker' = maker /\ items' = items /\ lines' = lines
      /\ loop[q].pc = "fork" \/ (loop[q].pc = "pipe" /\ loop[q].stage = loop[q].last)
  BY DEF ForkStage, AtFork, At
<1>3. c \in Children /\ c \in Procs /\ c # q /\ st[c] = "none"
  BY <1>1, <1>2 DEF Unborn
<1>4. /\ st' \in [Procs -> {"none", "forked", "shell", "program", "ended"}]
      /\ st'[c] = "forked" /\ \A p \in Procs \ {c} : st'[p] = st[p]
  BY <1>1, <1>3
<1>5. /\ fd' \in [Procs -> [Fds -> Ends]]
      /\ fd'[c] = fd[q] /\ \A p \in Procs \ {c} : fd'[p] = fd[p]
  BY <1>1, <1>3
<1>6. /\ kin' \in [Procs -> SUBSET Procs]
      /\ kin'[c] = kin[q] \union {c} /\ \A p \in Procs \ {c} : kin'[p] = kin[p]
  BY <1>1, <1>3
<1>7. /\ loop' \in [Procs -> Locals]
      /\ loop'[c] = loop[q] /\ \A p \in Procs \ {q, c} : loop'[p] = loop[p]
      /\ loop'[q].pc = "close" /\ loop'[q].stage = loop[q].stage
      /\ loop'[q].last = loop[q].last /\ loop'[q].prev_read = loop[q].prev_read
      /\ loop'[q].rd = loop[q].rd /\ loop'[q].wr = loop[q].wr
  <2>1. PICK t : t = SetPc(loop[q], "close")
    OBVIOUS
  <2>2. loop' = [loop EXCEPT ![q] = t, ![c] = loop[q]]
    BY <1>1, <2>1 DEF SetPc
  <2>3. loop[q] \in Locals
    OBVIOUS
  <2>4. /\ t \in Locals /\ t.pc = "close" /\ t.stage = loop[q].stage
        /\ t.last = loop[q].last /\ t.prev_read = loop[q].prev_read
        /\ t.rd = loop[q].rd /\ t.wr = loop[q].wr
    BY ONLY <2>1, <2>3, PcTypes
  <2> QED
    BY <1>3, <2>2, <2>3, <2>4
<1>8. /\ from' \in [PipeIds -> Children \union {NoProc}]
      /\ to' \in [PipeIds -> Children \union {NoProc}]
      /\ \A k \in PipeIds : from'[k] = (IF k \in Output(q) THEN c ELSE from[k])
      /\ \A k \in PipeIds : to'[k] = (IF k \in Input(q) THEN c ELSE to[k])
  BY <1>1, <1>3
<1>9. /\ loop[q].prev_read # Closed => loop[q].prev_read \in Fds
      /\ loop[q].rd # Closed => loop[q].rd \in Fds
      /\ loop[q].wr # Closed => loop[q].wr \in Fds
  BY LocalsTypes
<1>10. \A n \in Fds : Ready(q, n) <=> n \in {loop[q].prev_read, loop[q].rd}
  BY <1>2 DEF Ready
<1>11. \A k \in Input(q) : maker[k] = q /\ to[k] = NoProc
  BY <1>9, <1>10 DEF Input, IInv, Handable
<1>12. \A k \in Output(q) :
          /\ from[k] = NoProc /\ loop[q].wr # Closed
          /\ loop[q].pc = "fork" /\ fd[q][loop[q].rd] = ReadEnd(k)
  <2>1. loop[q].pc = "pipe" => loop[q].wr = Closed
    BY DEF IInv, LocalsFit
  <2>2. ASSUME loop[q].pc = "fork"
        PROVE  \A k \in Output(q) : from[k] = NoProc /\ fd[q][loop[q].rd] = ReadEnd(k)
    BY <1>2, <2>2 DEF IInv, JustMade, Output
  <2> QED
    BY <1>2, <2>1, <2>2 DEF Output
<1>13. TypeOK'
  <2>1. \A p \in Procs : loop'[p].pc # "prompt" => loop'[p].stage <= loop'[p].last
    BY <1>2, <1>7 DEF IInv, TypeOK
  <2> QED
    BY <1>2, <1>4, <1>5, <1>6, <1>7, <1>8, <2>1 DEF IInv, TypeOK, DescriptorsTypeOK
<1>14. LocalsFit'
  <2>1. \A p \in Procs : \/ loop'[p] \in {loop[p], loop[q]}
                          \/ /\ loop'[p].pc = "close" /\ loop'[p].rd = loop[q].rd
                             /\ loop'[p].stage = loop[q].stage
                             /\ loop'[p].last = loop[q].last
    BY <1>7
  <2> QED
    BY ONLY <2>1, IInv, q \in Procs DEF IInv, LocalsFit
<1>15. MadeFirst'
  <2> SUFFICES ASSUME NEW k \in PipeIds, maker'[k] = NoProc
               PROVE  /\ from'[k] = NoProc /\ to'[k] = NoProc
                      /\ \A p \in Procs, n \in Fds :
                            fd'[p][n] # ReadEnd(k) /\ fd'[p][n] # WriteEnd(k)
    BY DEF MadeFirst
  <2>1. /\ from[k] = NoProc /\ to[k] = NoProc
        /\ \A p \in Procs, n \in Fds : fd[p][n] # ReadEnd(k) /\ fd[p][n] # WriteEnd(k)
    BY <1>2 DEF IInv, MadeFirst
  <2>2. k \notin Output(q) /\ k \notin Input(q)
    BY <1>9, <2>1 DEF Output, Input
  <2>3. ASSUME NEW p \in Procs
        PROVE  \A n \in Fds : fd'[p][n] # ReadEnd(k) /\ fd'[p][n] # WriteEnd(k)
    <3>1. fd'[p] = fd[p] \/ fd'[p] = fd[q]
      BY <1>5
    <3> QED
      BY <2>1, <3>1
  <2>4. from'[k] = NoProc /\ to'[k] = NoProc
    BY <1>8, <2>1, <2>2
  <2> QED
    BY <2>3, <2>4
\* Nobody else's pipe changes its reader or its writer.
<1>16. ASSUME NEW p \in Procs, NEW n \in Fds, NEW k \in PipeIds,
              fd[p][n] = WriteEnd(k), from[k] \in kin[p]
       PROVE  from'[k] = from[k]
  BY <1>8, <1>12, <1>16
<1>17. ASSUME NEW p \in Procs, NEW k \in PipeIds, to[k] \in kin[p]
       PROVE  to'[k] = to[k]
  BY <1>8, <1>11, <1>17
<1>18. JustMade'
  <2> SUFFICES ASSUME NEW p \in Procs, st'[p] = "shell", loop'[p].pc = "fork"
               PROVE  \E k \in PipeIds :
                         /\ loop'[p].rd # Closed /\ loop'[p].wr # Closed
                         /\ fd'[p][loop'[p].rd] = ReadEnd(k)
                         /\ fd'[p][loop'[p].wr] = WriteEnd(k)
                         /\ from'[k] = NoProc
    BY DEF JustMade
  <2>1. /\ p # c /\ p # q /\ loop'[p] = loop[p] /\ fd'[p] = fd[p] /\ st[p] = "shell"
    BY <1>4, <1>5, <1>7
  <2>2. PICK k \in PipeIds :
           /\ loop[p].rd # Closed /\ loop[p].wr # Closed
           /\ fd[p][loop[p].rd] = ReadEnd(k) /\ fd[p][loop[p].wr] = WriteEnd(k)
           /\ from[k] = NoProc
    BY <2>1 DEF IInv, JustMade
  <2>3. k \notin Output(q)
    <3>1. loop[p].rd \in Fds /\ Ready(p, loop[p].rd)
      BY <2>1, <2>2, LocalsTypes DEF Ready
    <3>2. maker[k] = p
      BY <2>2, <3>1 DEF IInv, Handable
    <3>3. ASSUME k \in Output(q) PROVE maker[k] = q
      <4>1. loop[q].pc = "fork" /\ fd[q][loop[q].rd] = ReadEnd(k)
        BY <1>12, <3>3
      <4>2. loop[q].rd \in Fds
        BY <1>2, <1>9, <4>1 DEF IInv, JustMade
      <4>3. Ready(q, loop[q].rd)
        BY <1>10, <4>2
      <4> QED
        BY <4>1, <4>2, <4>3 DEF IInv, Handable
    <3> QED
      BY <2>1, <3>2, <3>3
  <2> QED
    BY <1>8, <2>1, <2>2, <2>3
<1>19. /\ \A p \in Procs \ {q, c}, n \in Fds : Ready(p, n)' <=> Ready(p, n)
       /\ \A n \in Fds : ~Ready(c, n)'
       /\ \A n \in Fds : Ready(q, n)' <=> n = loop[q].rd /\ n # loop[q].prev_read
  BY <1>2, <1>3, <1>4, <1>7 DEF Ready
<1>20. \A p \in Procs, n \in Fds : Ready(p, n)' => Ready(p, n) /\ fd'[p] = fd[p] /\ p # c
  BY <1>5, <1>10, <1>19
<1>21. Handable'
  <2> SUFFICES ASSUME NEW p \in Procs, NEW n \in Fds, NEW k \in PipeIds,
                      Ready(p, n)', fd'[p][n] = ReadEnd(k)
               PROVE  /\ maker'[k] = p /\ to'[k] = NoProc
                      /\ \A m \in Fds : Ready(p, m)' /\ fd'[p][m] = ReadEnd(k) => m = n
    BY DEF Handable
  <2>1. /\ Ready(p, n) /\ fd[p][n] = ReadEnd(k) /\ maker[k] = p /\ to[k] = NoProc
        /\ \A m \in Fds : Ready(p, m) /\ fd[p][m] = ReadEnd(k) => m = n
    BY <1>20 DEF IInv, Handable
  <2>2. k \notin Input(q)
    <3>1. CASE p # q
      BY <1>11, <2>1, <3>1
    <3>2. CASE p = q
      BY <1>9, <1>10, <1>19, <2>1, <3>2 DEF Input
    <3> QED
      BY <3>1, <3>2
  <2> QED
    BY <1>2, <1>8, <1>20, <2>1, <2>2
<1>22. Forked'
  <2> SUFFICES ASSUME NEW p \in Procs, st'[p] = "forked"
               PROVE  /\ loop'[p].pc # "prompt"
                      /\ loop'[p].prev_read # Closed => \A k \in PipeIds :
                            fd'[p][loop'[p].prev_read] = ReadEnd(k) => to'[k] \in kin'[p]
                      /\ loop'[p].wr # Closed =>
                            \E k \in PipeIds : fd'[p][loop'[p].wr] = WriteEnd(k)
    BY DEF Forked
  <2>1. CASE p = c
    <3>1. ASSUME NEW k \in PipeIds, loop[q].prev_read # Closed,
                 fd[q][loop[q].prev_read] = ReadEnd(k)
          PROVE  to'[k] = c
      BY <1>8, <3>1 DEF Input
    <3>2. loop[q].wr # Closed => \E k \in PipeIds : fd[q][loop[q].wr] = WriteEnd(k)
      BY <1>2 DEF IInv, LocalsFit, JustMade
    <3> QED
      BY <1>2, <1>5, <1>6, <1>7, <2>1, <3>1, <3>2
  <2>2. CASE p # c
    <3>1. st[p] = "forked" /\ p # q /\ loop'[p] = loop[p] /\ fd'[p] = fd[p] /\ kin'[p] = kin[p]
      BY <1>2, <1>4, <1>5, <1>6, <1>7, <2>2
    <3> QED
      BY <1>17, <3>1 DEF IInv, Forked
  <2> QED
    BY <2>1, <2>2
<1>23. ASSUME NEW p \in Procs, NEW n \in Fds, NEW k \in PipeIds, fd'[p][n] = WriteEnd(k)
       PROVE  WritesOnly(p, n, k)'
  <2>1. CASE p = c
    <3>1. fd[q][n] = WriteEnd(k)
      BY <1>5, <1>23, <2>1
    <3>2. WritesOnly(q, n, k)
      BY <3>1 DEF IInv, WhoWrites
    <3>3. CASE from[k] \in kin[q]
      BY <1>6, <1>16, <2>1, <3>1, <3>3 DEF WritesOnly
    <3>4. CASE from[k] \notin kin[q]
      <4>1. loop[q].wr = n /\ k \in Output(q)
        BY <1>9, <3>1, <3>2, <3>4, Numbers DEF WritesOnly, Output
      <4> QED
        BY <1>6, <1>8, <2>1, <4>1 DEF WritesOnly
    <3> QED
      BY <3>3, <3>4
  <2>2. CASE p # c
    <3>1. /\ fd[p][n] = WriteEnd(k) /\ kin'[p] = kin[p] /\ st'[p] = st[p]
          /\ loop'[p].wr = loop[p].wr
          /\ loop[p].pc \in {"fork", "close"} => loop'[p].pc \in {"fork", "close"}
      BY <1>2, <1>4, <1>5, <1>6, <1>7, <1>23, <2>2
    <3>2. WritesOnly(p, n, k)
      BY <3>1 DEF IInv, WhoWrites
    <3> QED
      BY <1>2, <1>16, <3>1, <3>2 DEF WritesOnly
  <2> QED
    BY <2>1, <2>2
<1>24. ASSUME NEW k \in PipeIds, Lost(k) PROVE Lost(k)'
  <2>1. k \notin Input(q)
    BY <1>9, <1>10, <1>24 DEF Lost, Input
  <2> QED
    BY <1>8, <1>20, <1>24, <2>1 DEF Lost
<1>25. ASSUME NEW p \in Procs, NEW n \in Fds, NEW k \in PipeIds, fd'[p][n] = ReadEnd(k)
       PROVE  ReadsOnly(p, n, k)'
  <2>1. CASE p = c
    <3>1. fd[q][n] = ReadEnd(k)
      BY <1>5, <1>25, <2>1
    <3>2. ReadsOnly(q, n, k)
      BY <3>1 DEF IInv, WhoReads
    <3>3. CASE to[k] \in kin[q]
      BY <1>6, <1>17, <2>1, <3>3 DEF ReadsOnly
    <3>4. CASE Ready(q, n) /\ n = loop[q].prev_read
      <4>1. k \in Input(q)
        BY <3>1, <3>4, Numbers DEF Input
      <4> QED
        BY <1>6, <1>8, <2>1, <4>1 DEF ReadsOnly
    <3>5. CASE Ready(q, n) /\ n # loop[q].prev_read
      <4>1. n = loop[q].rd /\ n # Closed
        BY <1>10, <3>5
      <4>2. loop[q].pc = "fork"
        BY <1>2, <4>1 DEF IInv, LocalsFit
      <4>3. k \in Output(q)
        BY <1>2, <3>1, <4>1, <4>2 DEF IInv, JustMade, Output
      <4> QED
        BY <1>4, <1>7, <1>8, <2>1, <4>1, <4>3 DEF ReadsOnly
    <3>6. CASE Lost(k)
      BY <1>24, <3>6 DEF ReadsOnly
    <3> QED
      BY <1>2, <3>2, <3>3, <3>4, <3>5, <3>6 DEF ReadsOnly
  <2>2. CASE p # c
    <3>1. fd[p][n] = ReadEnd(k) /\ kin'[p] = kin[p] /\ st'[p] = st[p]
      BY <1>4, <1>5, <1>6, <1>25, <2>2
    <3>2. ReadsOnly(p, n, k)
      BY <3>1 DEF IInv, WhoReads
    <3>3. CASE to[k] \in kin[p]
      BY <1>17, <3>1, <3>3 DEF ReadsOnly
    <3>4. CASE p = from[k] /\ st[p] = "forked" /\ n = loop[p].rd
      BY <1>2, <1>7, <1>8, <1>12, <2>2, <3>1, <3>4 DEF ReadsOnly
    <3>5. CASE Ready(p, n) /\ p # q
      BY <1>19, <2>2, <3>5 DEF ReadsOnly
    <3>6. CASE Ready(p, n) /\ p = q /\ n # loop[q].prev_read
      BY <1>10, <1>19, <3>6 DEF ReadsOnly
    <3>7. CASE Ready(p, n) /\ p = q /\ n = loop[q].prev_read
      <4>1. maker[k] = q
        BY <3>1, <3>7 DEF IInv, Handable
      <4> QED
        BY <1>2, <1>7, <3>1, <3>7, <4>1 DEF ReadsOnly
    <3>8. CASE /\ p = maker[k] /\ st[p] = "shell"
               /\ loop[p].pc = "close" /\ n = loop[p].prev_read
      BY <1>2, <1>7, <2>2, <3>1, <3>8 DEF ReadsOnly
    <3>9. CASE Lost(k)
      BY <1>24, <3>9 DEF ReadsOnly
    <3> QED
      BY <3>2, <3>3, <3>4, <3>5, <3>6, <3>7, <3>8, <3>9 DEF ReadsOnly
  <2> QED
    BY <2>1, <2>2
<1> QED
  BY <1>13, <1>14, <1>15, <1>18, <1>21, <1>22, <1>23, <1>25 DEF IInv, WhoWrites, WhoReads

\* The loop goes on without the stage.
LEMMA ForkFailsStep ==
    ASSUME IInv, NEW q \in Procs, ForkFails(q)
    PROVE  IInv'
<1> USE Types, Numbers, EndsDiffer
<1>1. /\ st[q] = "shell" /\ lines' = lines /\ items' = items /\ fd' = fd
      /\ st' = st /\ kin' = kin /\ from' = from /\ to' = to /\ maker' = maker
      /\ loop[q].pc = "fork" \/ (loop[q].pc = "pipe" /\ loop[q].stage = loop[q].last)
  BY DEF ForkFails, AtFork, At, history, pipeVars
<1>2. /\ loop' \in [Procs -> Locals]
      /\ \A p \in Procs \ {q} : loop'[p] = loop[p]
      /\ loop'[q].pc = "close" /\ loop'[q].stage = loop[q].stage
      /\ loop'[q].last = loop[q].last /\ loop'[q].prev_read = loop[q].prev_read
      /\ loop'[q].rd = loop[q].rd /\ loop'[q].wr = loop[q].wr
  <2>1. PICK t : t = SetPc(loop[q], "close")
    OBVIOUS
  <2>2. loop' = [loop EXCEPT ![q] = t]
    BY <2>1 DEF ForkFails, SetPc
  <2>3. loop[q] \in Locals
    OBVIOUS
  <2>4. /\ t \in Locals /\ t.pc = "close" /\ t.stage = loop[q].stage
        /\ t.last = loop[q].last /\ t.prev_read = loop[q].prev_read
        /\ t.rd = loop[q].rd /\ t.wr = loop[q].wr
    BY ONLY <2>1, <2>3, PcTypes
  <2> QED
    BY <2>2, <2>4
<1>3. TypeOK'
  <2>1. \A p \in Procs : loop'[p].pc # "prompt" => loop'[p].stage <= loop'[p].last
    BY <1>1, <1>2 DEF IInv, TypeOK
  <2> QED
    BY <1>1, <1>2, <2>1 DEF IInv, TypeOK, DescriptorsTypeOK
<1>4. LocalsFit' /\ MadeFirst'
  <2>1. LocalsFit'
    BY <1>2 DEF IInv, LocalsFit
  <2>2. MadeFirst'
    BY <1>1 DEF IInv, MadeFirst
  <2> QED
    BY <2>1, <2>2
<1>5. JustMade' /\ Forked'
  <2>1. \A p \in Procs : loop'[p].pc = "fork" \/ st'[p] = "forked" => loop'[p] = loop[p]
    BY <1>1, <1>2
  <2>2. JustMade /\ Forked
    BY DEF IInv
  <2> QED
    BY ONLY <1>1, <2>1, <2>2, OthersKept
<1>7. /\ \A p \in Procs \ {q}, n \in Fds : Ready(p, n)' <=> Ready(p, n)
      /\ \A n \in Fds : Ready(q, n)' <=> n = loop[q].rd /\ n # loop[q].prev_read
      /\ \A n \in Fds : Ready(q, n) <=> n \in {loop[q].prev_read, loop[q].rd}
  BY <1>1, <1>2 DEF Ready
<1>8. \A p \in Procs, n \in Fds : Ready(p, n)' => Ready(p, n)
  BY <1>7
<1>9. Handable'
  BY <1>1, <1>8 DEF IInv, Handable
<1>10. ASSUME NEW k \in PipeIds, Lost(k) PROVE Lost(k)'
  BY <1>1, <1>8, <1>10 DEF Lost
<1>11. ASSUME NEW p \in Procs, NEW n \in Fds, NEW k \in PipeIds, fd'[p][n] = WriteEnd(k)
       PROVE  WritesOnly(p, n, k)'
  <2>1. WritesOnly(p, n, k)
    BY <1>1, <1>11 DEF IInv, WhoWrites
  <2> QED
    BY <1>1, <1>2, <2>1 DEF WritesOnly
<1>12. ASSUME NEW p \in Procs, NEW n \in Fds, NEW k \in PipeIds, fd'[p][n] = ReadEnd(k)
       PROVE  ReadsOnly(p, n, k)'
  <2>1. fd[p][n] = ReadEnd(k) /\ ReadsOnly(p, n, k)
    BY <1>1, <1>12 DEF IInv, WhoReads
  <2>2. CASE p # q
    BY <1>1, <1>2, <1>7, <1>10, <2>1, <2>2 DEF ReadsOnly
  <2>3. CASE p = q /\ Ready(q, n) /\ n # loop[q].prev_read
    BY <1>7, <2>3 DEF ReadsOnly
  <2>4. CASE p = q /\ Ready(q, n) /\ n = loop[q].prev_read
    <3>1. maker[k] = q
      BY <2>1, <2>4 DEF IInv, Handable
    <3> QED
      BY <1>1, <1>2, <2>4, <3>1 DEF ReadsOnly
  <2>5. CASE p = q /\ ~Ready(q, n)
    BY <1>1, <1>10, <2>1, <2>5 DEF ReadsOnly
  <2> QED
    BY <2>2, <2>3, <2>4, <2>5
<1> QED
  BY <1>3, <1>4, <1>5, <1>9, <1>11, <1>12 DEF IInv, WhoWrites, WhoReads

\* A stage keeps under standard input what was handed to it, under standard output its
\* pipe, and nothing under the numbers its locals still name.
LEMMA StageStep ==
    ASSUME IInv, NEW p \in Children, Starts(p)
    PROVE  IInv'
<1> USE Types, Numbers, EndsDiffer
<1>1. /\ p \in Procs /\ st[p] = "forked" /\ lines' = lines /\ items' = items
      /\ kin' = kin /\ from' = from /\ to' = to /\ maker' = maker
  BY DEF Starts, StartProgram, ExecFails, history
<1>2. /\ st' \in [Procs -> {"none", "forked", "shell", "program", "ended"}]
      /\ st'[p] \in {"shell", "program"} /\ \A q \in Procs \ {p} : st'[q] = st[q]
  <2>1. CASE st' = [st EXCEPT ![p] = "program"]
    BY <1>1, <2>1
  <2>2. CASE st' = [st EXCEPT ![p] = "shell"]
    BY <1>1, <2>2
  <2> QED
    BY <2>1, <2>2 DEF Starts, StartProgram, ExecFails
<1>3. /\ fd' \in [Procs -> [Fds -> Ends]]
      /\ fd'[p] = StageFds(fd[p], loop[p]) /\ \A q \in Procs \ {p} : fd'[q] = fd[q]
  <2>1. fd' = [fd EXCEPT ![p] = StageFds(fd[p], loop[p])]
    BY DEF Starts, StartProgram, ExecFails
  <2>2. StageFds(fd[p], loop[p]) \in [Fds -> Ends]
    BY <1>1, StageFdsAt
  <2> QED
    BY <1>1, <2>1, <2>2
<1>4. /\ loop' \in [Procs -> Locals]
      /\ \A q \in Procs \ {p} : loop'[q] = loop[q]
      /\ loop'[p].pc \in {"prompt", "close"}
      /\ loop'[p].rd \in {loop[p].rd, Closed}
      /\ loop'[p].rd # Closed =>
            loop'[p].stage = loop[p].stage /\ loop'[p].last = loop[p].last
      /\ loop'[p].pc # "prompt" => loop'[p].stage <= loop'[p].last
  <2>1. CASE StartProgram(p)
    BY <1>1, <2>1, PromptTypes DEF StartProgram
  <2>2. CASE ExecFails(p)
    <3>1. PICK t : t = SetPc(loop[p], "close")
      OBVIOUS
    <3>2. loop' = [loop EXCEPT ![p] = t]
      BY <2>2, <3>1 DEF ExecFails, SetPc
    <3>3. loop[p] \in Locals
      BY <1>1
    <3>4. /\ t \in Locals /\ t.pc = "close" /\ t.stage = loop[p].stage
          /\ t.last = loop[p].last /\ t.rd = loop[p].rd
      BY ONLY <3>1, <3>3, PcTypes
    <3>5. loop[p].stage <= loop[p].last
      BY <1>1 DEF IInv, TypeOK, Forked
    <3> QED
      BY <1>1, <3>2, <3>4, <3>5
  <2> QED
    BY <2>1, <2>2 DEF Starts
<1>5. /\ \A n \in Fds : n \in {loop[p].prev_read, loop[p].rd, loop[p].wr} => fd'[p][n] = None
      /\ \A n \in Fds \ {loop[p].prev_read, loop[p].rd, loop[p].wr} :
            \/ fd'[p][n] = fd[p][n]
            \/ n = STDIN /\ loop[p].prev_read # Closed /\ fd'[p][n] = fd[p][loop[p].prev_read]
            \/ n = STDOUT /\ loop[p].wr # Closed /\ fd'[p][n] = fd[p][loop[p].wr]
  <2>1. fd[p] \in [Fds -> Ends] /\ loop[p] \in Locals
    BY <1>1
  <2> QED
    BY ONLY <1>3, <2>1, StageFdsAt
<1>6. /\ loop[p].prev_read # Closed => loop[p].prev_read \in Fds
      /\ loop[p].rd # Closed => loop[p].rd \in Fds
      /\ loop[p].wr # Closed => loop[p].wr \in Fds
  BY <1>1, LocalsTypes
<1>7. /\ loop[p].prev_read # Closed => \A k \in PipeIds :
            fd[p][loop[p].prev_read] = ReadEnd(k) => to[k] \in kin[p]
      /\ loop[p].wr # Closed => \E k \in PipeIds : fd[p][loop[p].wr] = WriteEnd(k)
  BY <1>1 DEF IInv, Forked
<1>8. ASSUME NEW n \in Fds, NEW k \in PipeIds
      PROVE  /\ fd'[p][n] = ReadEnd(k) =>
                   \/ fd[p][n] = ReadEnd(k) /\ n # loop[p].rd
                   \/ to[k] \in kin[p]
             /\ fd'[p][n] = WriteEnd(k) => \E m \in Fds : fd[p][m] = WriteEnd(k)
             /\ fd'[p][n] = ReadEnd(k) => \E m \in Fds : fd[p][m] = ReadEnd(k)
  BY <1>5, <1>6, <1>7
<1>9. TypeOK'
  <2>1. \A q \in Procs : loop'[q].pc # "prompt" => loop'[q].stage <= loop'[q].last
    BY <1>4 DEF IInv, TypeOK
  <2> QED
    BY <1>1, <1>2, <1>3, <1>4, <2>1 DEF IInv, TypeOK, DescriptorsTypeOK
<1>10. LocalsFit'
  <2>1. ASSUME NEW q \in Procs, q # p
        PROVE  /\ loop'[q].rd # Closed => loop'[q].stage < loop'[q].last
               /\ loop'[q].pc = "pipe" => loop'[q].rd = Closed /\ loop'[q].wr = Closed
    BY <1>4, <2>1 DEF IInv, LocalsFit
  <2>2. loop'[p].rd # Closed => loop'[p].stage < loop'[p].last
    BY <1>1, <1>4 DEF IInv, LocalsFit
  <2> QED
    BY <1>4, <2>1, <2>2 DEF LocalsFit
<1>11. MadeFirst'
  <2> SUFFICES ASSUME NEW k \in PipeIds, maker'[k] = NoProc
               PROVE  /\ from'[k] = NoProc /\ to'[k] = NoProc
                      /\ \A q \in Procs, n \in Fds :
                            fd'[q][n] # ReadEnd(k) /\ fd'[q][n] # WriteEnd(k)
    BY DEF MadeFirst
  <2>1. /\ from[k] = NoProc /\ to[k] = NoProc
        /\ \A q \in Procs, n \in Fds : fd[q][n] # ReadEnd(k) /\ fd[q][n] # WriteEnd(k)
    BY <1>1 DEF IInv, MadeFirst
  <2>2. ASSUME NEW q \in Procs, NEW n \in Fds
        PROVE  fd'[q][n] # ReadEnd(k) /\ fd'[q][n] # WriteEnd(k)
    <3>1. CASE q = p
      BY <1>1, <1>8, <2>1, <3>1
    <3>2. CASE q # p
      BY <1>3, <2>1, <3>2
    <3> QED
      BY <3>1, <3>2
  <2> QED
    BY <1>1, <2>1, <2>2
<1>12. JustMade' /\ Forked'
  <2>1. ASSUME NEW q \in Procs, st'[q] = "forked" \/ loop'[q].pc = "fork"
        PROVE  q # p /\ st'[q] = st[q] /\ loop'[q] = loop[q] /\ fd'[q] = fd[q]
    BY <1>2, <1>3, <1>4, <2>1
  <2>2. JustMade /\ Forked
    BY DEF IInv
  <2> QED
    BY ONLY <1>1, <2>1, <2>2, OthersKept
<1>13. /\ \A q \in Procs \ {p}, n \in Fds : Ready(q, n)' <=> Ready(q, n)
       /\ \A n \in Fds, k \in PipeIds : Ready(p, n)' => fd'[p][n] # ReadEnd(k)
  <2>1. \A q \in Procs \ {p}, n \in Fds : Ready(q, n)' <=> Ready(q, n)
    BY <1>2, <1>4 DEF Ready
  <2>2. ASSUME NEW n \in Fds, Ready(p, n)' PROVE n = loop[p].rd
    BY <1>4, <2>2 DEF Ready
  <2> QED
    BY <1>5, <2>1, <2>2
<1>14. ASSUME NEW q \in Procs, NEW n \in Fds, NEW k \in PipeIds,
              Ready(q, n)', fd'[q][n] = ReadEnd(k)
       PROVE  q # p /\ Ready(q, n) /\ fd[q][n] = ReadEnd(k)
  BY <1>3, <1>13, <1>14
<1>15. Handable'
  BY <1>1, <1>14 DEF IInv, Handable
<1>16. ASSUME NEW q \in Procs, NEW n \in Fds, NEW k \in PipeIds, fd'[q][n] = WriteEnd(k)
       PROVE  WritesOnly(q, n, k)'
  <2>1. CASE q = p
    <3>1. PICK m \in Fds : fd[p][m] = WriteEnd(k)
      BY <1>8, <1>16, <2>1
    <3>2. from[k] \in kin[p]
      BY <1>1, <3>1 DEF IInv, WhoWrites, WritesOnly
    <3> QED
      BY <1>1, <2>1, <3>2 DEF WritesOnly
  <2>2. CASE q # p
    <3>1. WritesOnly(q, n, k)
      BY <1>3, <1>16, <2>2 DEF IInv, WhoWrites
    <3> QED
      BY <1>1, <1>2, <1>4, <2>2, <3>1 DEF WritesOnly
  <2> QED
    BY <2>1, <2>2
<1>17. ASSUME NEW k \in PipeIds, Lost(k) PROVE Lost(k)'
  BY <1>1, <1>14, <1>17 DEF Lost
<1>18. ASSUME NEW q \in Procs, NEW n \in Fds, NEW k \in PipeIds, fd'[q][n] = ReadEnd(k)
       PROVE  ReadsOnly(q, n, k)'
  <2>1. CASE q = p /\ to[k] \in kin[p]
    BY <1>1, <2>1 DEF ReadsOnly
  <2>2. CASE q = p /\ to[k] \notin kin[p]
    <3>1. fd[p][n] = ReadEnd(k) /\ n # loop[p].rd
      BY <1>8, <1>18, <2>2
    <3>2. Lost(k)
      BY <1>1, <2>2, <3>1 DEF IInv, WhoReads, ReadsOnly, Ready
    <3> QED
      BY <1>17, <3>2 DEF ReadsOnly
  <2>3. CASE q # p
    <3>1. ReadsOnly(q, n, k)
      BY <1>3, <1>18, <2>3 DEF IInv, WhoReads
    <3> QED
      BY <1>1, <1>2, <1>4, <1>13, <1>17, <2>3, <3>1 DEF ReadsOnly
  <2> QED
    BY <2>1, <2>2, <2>3
<1> QED
  BY <1>9, <1>10, <1>11, <1>12, <1>15, <1>16, <1>18 DEF IInv, WhoWrites, WhoReads

\* IInv is inductive: every step of a loop, of a stage and of its program keeps it,
\* whichever calls fail.
LEMMA IInvStep ==
    ASSUME IInv, [Next]_vars
    PROVE  IInv'
<1>1. CASE UNCHANGED vars
  BY <1>1, Types, QuietStep DEF vars, pipeVars
<1>2. ASSUME NEW p \in Procs,
             (\E n \in 1..MaxCmds : Launch(p, n)) \/ PipeFails(p) \/ Quits(p)
      PROVE  IInv'
  BY <1>2, LettingGo
<1>3. ASSUME NEW p \in Procs, MakePipe(p) \/ ForkStage(p) \/ CloseEnds(p)
      PROVE  IInv'
  BY <1>3, MakePipeStep, ForkStageStep, CloseEndsStep
<1>4. ASSUME NEW p \in Procs, ForkFails(p)
      PROVE  IInv'
  BY <1>4, ForkFailsStep
<1>5. ASSUME NEW p \in Children, StartProgram(p) \/ ExecFails(p)
      PROVE  IInv'
  BY <1>5, StageStep DEF Starts
<1>6. ASSUME NEW p \in Procs, Reads(p) \/ Writes(p)
      PROVE  IInv'
  <2>1. UNCHANGED <<st, loop, lines, history, fd>>
    BY <1>6 DEF Reads, Writes, ReadItem, WriteItem, history
  <2>2. PICK k \in PipeIds : \/ items[k] > 0 /\ items' = [items EXCEPT ![k] = @ - 1]
                             \/ items[k] < PipeSize /\ items' = [items EXCEPT ![k] = @ + 1]
    BY <1>6 DEF Reads, Writes, ReadItem, WriteItem
  <2>3. items \in [PipeIds -> 0..PipeSize] /\ PipeSize \in Nat
    BY Types, DescriptorsAssumption
  <2>4. items' \in [PipeIds -> 0..PipeSize]
    BY ONLY <2>2, <2>3
  <2> QED
    BY <2>1, <2>4, QuietStep
<1> QED
  BY <1>1, <1>2, <1>3, <1>4, <1>5, <1>6, Numbers DEF Next

-----------------------------------------------------------------------------
(* The theorems *)

\* The descriptors of launch_pipeline and of its stages stay where the loop, the
\* dup2 and the closes put them.
THEOREM IInvCorrect == Spec => []IInv
BY InitIInv, IInvStep, PTL DEF Spec

\* No descriptor is used that a process cannot have, the locals of the loop name none of
\* the standard ones, and the loop ends with the last stage, in any of the shells.
THEOREM TypeCorrect == Spec => []TypeOK
<1>1. IInv => TypeOK
  BY DEF IInv
<1> QED
  BY <1>1, IInvCorrect, PTL

\* After its closes the maker of a pipe can not write to it, and no stage can write to
\* another one's: what a reader's end of file depends on, also after a pipe or a fork
\* failed and when stages that cannot be executed go on as shells.
THEOREM WritersOwn == Spec => []WritersAreOwners
<1>1. IInv => WritersAreOwners
  <2> SUFFICES ASSUME IInv, NEW k \in PipeIds, NEW p \in Writers(k)
               PROVE  \/ p \in Family(from[k])
                      \/ /\ p = maker[k] /\ loop[p].pc \in {"fork", "close"}
                         /\ fd[p][loop[p].wr] = WriteEnd(k)
    BY DEF WritersAreOwners
  <2>1. PICK n \in Fds : p \in Procs /\ fd[p][n] = WriteEnd(k)
    BY Types DEF Writers
  <2>2. WritesOnly(p, n, k)
    BY <2>1 DEF IInv, WhoWrites
  <2> QED
    BY <2>1, <2>2 DEF WritesOnly, Family
<1> QED
  BY <1>1, IInvCorrect, PTL

\* A pipe that was handed on can be read by nobody but the family of its reader, so that
\* a writer whose reader has ended gets SIGPIPE.
THEOREM ReadersNeighbour == Spec => []ReadersAreNeighbours
<1>1. IInv => ReadersAreNeighbours
  <2> SUFFICES ASSUME IInv, NEW k \in PipeIds, to[k] # NoProc, NEW p \in Readers(k)
               PROVE  \/ p \in Family(to[k])
                      \/ p = from[k] /\ st[p] = "forked"
                      \/ p = maker[k] /\ loop[p].pc = "close"
    BY DEF ReadersAreNeighbours
  <2>1. PICK n \in Fds : p \in Procs /\ fd[p][n] = ReadEnd(k)
    BY Types DEF Readers
  <2>2. ReadsOnly(p, n, k)
    BY <2>1 DEF IInv, WhoReads
  <2>3. ~Ready(p, n) /\ ~Lost(k)
    BY <2>1 DEF IInv, Handable, Lost
  <2> QED
    BY <2>1, <2>2, <2>3 DEF ReadsOnly, Family
<1> QED
  BY <1>1, IInvCorrect, PTL
=============================================================================
