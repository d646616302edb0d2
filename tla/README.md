# A verification development for the system-programming projects

The repository holds four C programs: an interpreter for lists, hash tables and
bitmaps (`sp_prj1/20241620`) and three stages of a Unix shell (`sp_prj2/phase1`,
`phase2`, `phase3`). The phase-3 shell, whose main thread shares a job table with
three signal handlers, is the most delicate of them and the core of this
development. Paths below are relative to `src/`.

## 1. Inventory

| Part | State | Operations | Meets | What is hard | What makes it correct |
| --- | --- | --- | --- | --- | --- |
| Job table (phase3 `myshell.c` 384-493, `myshell.h`) | `jobs[]`, `next_jid`, `fg_pgid` | add, delete, find by jid, pid, state; `update_fg_pgid` | main thread and `sigchld_handler` | a cache of the table, slots that are reused, a full table | the cache is exact, counts are exact, ids are unique |
| Phase-3 main thread and builtins | locals of `launch_pipeline`, `builtin_*`, signal mask | launch, `jobs`, `bg`, `fg`, `kill`, `exit`, `wait_for_foreground` | handlers, children, user | windows with SIGCHLD unblocked, slots read after the unlock, `sigsuspend` | never a prompt over a foreground job; the right group is signalled; waits end |
| Phase-3 handlers | frames on the stack | `sigchld_handler`, `sigint_handler`, `sigtstp_handler` | interrupt everything, one another too | merged SIGCHLDs, a group read and used later | zombies are reaped, stops noticed, keys reach no other job than the one last awaited |
| Children and signals (operating system) | process states, groups, pending signals | fork, exec, kill, waitpid, exit | shell | a child with the shell's handlers, stops and continues in any order | external |
| Pipes of phase 3 | descriptors, `prev_read` | the loop of `launch_pipeline` | stages | an end left open somewhere, a stage that cannot be executed and goes on in the loop, numbers of closed descriptors that are used again | end of file and SIGPIPE arrive |
| Phase-2 shell | a tree of processes | `eval`, `run_pipe` (recursive) | pipes, children | the recursion runs in children; who waits for whom | nothing outlives its line, pipelines end |
| Phase-1 shell | one child | `eval` | child | | as a plain line of phase 2 |
| Parsers of the three shells | character buffers | `parseline`, `parse_line`, `trim_ws`, `normalize_jobcmd` | `eval` | quotes, `&` and `\|` inside them, limits | the segments are those of the grammar |
| Linked list (`list.c`) and list commands (`main.c`) | next and prev pointers, values | 15 commands | registry | links, boundaries of ranges, stability | lists behave as sequences |
| Hash table (`hash.c`) | buckets, element count | insert, replace, find, delete, clear, apply, rehash | registry, lists | keys changed in place, rehash after every change, who frees an item | buckets behave as a set |
| Bitmap (`bitmap.c`) | elements (words), bit count | mark, reset, flip, set, scan, count, expand | registry | element boundaries, ranges of 0 bits, instructions narrower than an element, growth | elements behave as an array of booleans |
| Interpreter and registry (`main.c`) | ten slots per kind, names, allocated memory | create, delete, dumpdata, quit, the commands on objects | all objects | full tables, equal or cut names, memory that changes hands, failing malloc | a command reaches what it names and nothing else; no memory is lost or shared |
| Tester, skeleton, `debug.c`, `hex_dump.c` | | | | | not modelled: data, course material, printing |

Hazards, with the line where each bites and the properties that cover it, are
listed in `PROJECT.json`.

## 2. Modules

`Processes` (external) and `JobTable` are operators and state for `MyShell`, which
refines `JobControl`; `MyShellProofs` holds the theorems about `MyShell`. `Descriptors` (external), with the numbers of descriptors, serves
`PipeLaunch`, whose theorems are in `PipeLaunchProofs`; `Pipes` (external), without the numbers, serves `PipeShell`, whose theorems are in
`PipeShellProofs` and rest on the lemmas of `PipesProofs`. `ListHeap` has the
operators of `PintosList`, which refines `ListSpec`; `ListHeapProofs` says what the operators do to the lists that a
heap holds, and `PintosListProofs` has the theorems about the commands. `HashTable` and `Bitmap` have those of `Interpreter`,
which refines `HashSpec` and `BitmapSpec`; `InterpreterProofs` has the theorems about its bitmaps,
its hash tables, its types and what a command reaches. `ParseLine` stands apart: its operators are
pure functions of a line. Its theorems are in `ParseLineProofs`.

### The phase-3 shell

* **`JobTable`** is the table as a function from slots to records, and each
  operation of the source as an operator of the same name. Command lines are left
  out: no decision depends on them.
* **`Processes`** is what fork, setpgid, execvp, kill, waitpid and SIGCHLD do as far as
  the shell can tell. A child has a state, a group, an image (the shell's code until
  execvp, then the program, or the shell's for good if execvp fails), pending signals
  and an unreported stop or continue. SIGCHLD is one bit. `Env` lets others stop and
  continue children; `Faults` says which calls may fail.
* **`MyShell`** has a program counter for the main thread and a stack of handlers. A
  handler may be delivered between any two steps, on top of another one; blocking
  SIGCHLD only holds its own handler back, as in the source. A step ends wherever a
  handler could see a difference. `Reap` is one round of the `waitpid` loop with
  everything it does to the table; `ReapDone` the end of the loop.
* **`JobControl`** is the abstract specification: job ids with a state, and a shell that
  is busy or at its prompt. It has no processes or signals.
* **`PipeLaunch`** is the same loop of `launch_pipeline` for its descriptors. It stands
  apart because the descriptors and the job table do not depend on each other, and their
  product is beyond TLC. A stage whose execvp fails does not exit (132-136, 348): it
  is a *second shell* that goes on in the loop with a copy of the locals. So every process has locals of its own (`loop[p]`),
  and every action of the loop may be that of a second shell. `ExecFails` leaves the stage at the closes of
  line 355 with numbers that it has closed already. The history variables `kin`, `maker`, `from` and
  `to` are read by the properties only; `from[k]` and `to[k]` are the stages that were forked to write to pipe `k` and to read it.
  The wait for a foreground job is left out: a shell may stay at its prompt as long as it likes.
* **`Descriptors`** is what pipe, dup2 and close do to a table from numbers to ends of pipes: pipe takes
  the two lowest free numbers, and closing a number that is not open does nothing.

What the models abstract:

* fork and both calls of `setpgid` (parent's and child's) are one step: the shell
  acts on the group only after its own call.
* Pids are not recycled. A pid of an unreaped child cannot be, and the shell keeps none
  of a reaped one except in `job->pids`, whose job is in the table as long as any child is.
* Group 0 stands for the shell's own group, which is what `kill(0, ..)` and `kill(-0, ..)`
  reach.
* Programs have default dispositions.
* A stage whose execvp fails and that is not the last launches the stages after it itself. `PipeLaunch` has what this does to
  the pipes; the second job table is in no model, and `MyShellAssumption` allows failing execs only with `MaxStages = 1`.
* Until execvp, a child that gets a key runs the shell's handler on its own copy of the table. `SwallowKey` has the key lost; that
  the handler may send it on, to the group that the copy of `fg_pgid` names, is left out.
* Lines that are parse errors, empty, or `cd` change nothing that is modelled.

### The phase-2 (and phase-1) shell

* **`Pipes`** counts the items in a pipe and keeps, for every process, the ends it has open
  and what its standard input and output are. A read of an empty pipe with a writer waits,
  without a writer it is end of file; a write without a reader is SIGPIPE.
* **`PipeShell`** runs `run_pipe` in the shell (depth 0) and in right children (depth 1
  and up) by one set of actions, parameterised by depth. What a command is
  (a program, or something that makes its process exit at once) is a choice. Failing
  forks are modelled; a failing `Pipe`, whose result the code ignores, is not: the
  descriptors it then uses are uninitialised.

### The interpreter of project 1

* **`ListHeap`** has each function of `list.c` as an operator from heaps (two pointers per
  node) to heaps. A loop is `While(round, x)`: `round` maps the variables that the loop changes, as a tuple or record, to
  what they are a round later, and to themselves once the loop has ended. `While` makes `Rounds` rounds, as many as there are items;
  that every loop has ended by then is part of what is proved of it.
* **`PintosList`** has one action per command of `do_list_command` that changes a list, and
  creation and deletion. `cmd` is the command line read last.
* **`ListSpec`** says what each command does to a sequence of items. `cmd` is shared, so a step of
  the pointers has to be *the* step of the same command: a sort may not pass for a shuffle.
* **`HashTable`** has each function of `hash.c` as an operator on a record with the fields of `struct hash`.
  A bucket is a sequence of items, which is what `PintosList` shows the lists of `list.c` to be. The hash is the
  FNV hash of the source modulo 256, and the number of buckets is masked as there, so that
  collisions and moves are the ones the program has. `rehash` takes a Boolean: whether malloc
  found memory.
* **`Bitmap`** has each function of `bitmap.c` as an operator on a bit count and elements; an
  element is the set of its positions that are 1. `orl`, `andl` and `xorl` work on the lower
  `AsmBits` of the `ElemBits` of an element (32 of 64 in the source), and what malloc leaves in an element is a choice.
* **`Interpreter`** is `main.c`: the three arrays of slots (`table`), the memory for hash items
  (`val`) and bitmaps (`block`), and one action per command on the registry, on hash tables and on
  bitmaps, with what it prints. An action is the whole command: `hash_insert` makes the item, inserts it, rehashes,
  and frees the item if it was not needed. `script` is the input's choice of commands, made at the beginning.
* **`HashSpec`** and **`BitmapSpec`** say what the same commands do to sets of values and arrays of
  booleans. After `hash_apply` a table may be *stale*: a search may then miss a value, and a value may be
  there twice, but nothing else may go wrong. Nothing but `hash_apply` may make a table stale.

The commands on lists are in `PintosList` only; in `Interpreter` lists are created, deleted and take
part in the search for a name. What is left out:

* `list_splice` with a range of two lists, backwards, or with BEFORE in it, and `list_unique` with one list in two
  roles: `list.c` does not expect them, and the interpreter does not exclude them. Items that
  `list_unique` drops are leaked by the code; the model forgets them.
* Arguments out of range (negative ones are huge as `size_t`): an ASSERT of `bitmap.c` ends the program, or
  `bitmap_mark`, `bitmap_reset` and `bitmap_flip` write beyond the elements. List indexes out of range do nothing.
* A `bitmap_expand` to fewer bits; `hash_init` whose malloc fails (`create_hash_object` ignores it).
* `hash_string`, `hash_int_2` and `bitmap_create_in_buf`, which nothing calls, and `bitmap_dump`, which prints memory.
* Lines longer than `LINE_LEN`, which `fgets` returns in pieces.

A name of 32 characters or more is stored as its first 31 (`copy_name` of 106, `Kept` in the model): typed in full it is not found, and the 31
characters that are left find it. `bitmap_scan_and_flip` with a count of 0 returns START, in the code as in `BitmapSpec`; that the comment
at 333 says 0 is the finding `bitmap_scan_zero`.

### Command lines of the shells

* **`ParseLine`** has `parseline` of each phase, the splitting at `|` of phases 2 and 3,
  `trim_ws`, `normalize_jobcmd` and `parse_job_id` as operators on sequences of characters; a loop over
  the characters is a fold whose accumulator has the loop's variables. `strtok` and `strtol` are modelled by
  their contracts. States are lines as they are typed, so the invariants speak of every line
  up to a length. The reference definitions (`Pipeline`, `Balanced`, `Written`, `NumberTyped`) have no scanner: a quote
  is matched by looking for its partner. `''` stands for the double quote.

Phase 1 splits at `Separators` (space and tab, the delimiters of its `strtok`), the others at `Blanks`, what `isspace` accepts; `CR` stands
for `\r`, `\v` and `\f`. The `argv` of phases 1 and 2 has room for `MAXARGS` pointers and no check: a line with more words writes
behind it, which is undefined, and the model has `Overflow` for the result. `line` is without its newline. Phase 2 splits at `|` before it takes
the newline away (22, 85), so that a line that ends in `|` has one more, empty, command in `Commands2`.

## 3. What is checked

| Run | Bounds | Shows |
| --- | --- | --- |
| `shell_safety` | 2 slots, 2 children, 2 stages; Ctrl-Z; stops and continues from outside; run, run&, bg, fg, kill; pipe may fail | `ForegroundIsAwaited`, `FgPgidExact`, `LiveCountExact`, `StateTellsTheTruth`, `KeysReachOnlyTheAwaitedJob`, and that the shell implements `JobControl` |
| `shell_live` | 1 slot, 2 children; exec and fork may fail; Ctrl-Z, exit | `NoLostChild`; `FgPgidExact` even so; every zombie is reaped, every stop noticed, and a key ends a wait whose wake-up was lost; `JobOutlivesItsChildren`: no slot is freed while a child of its job is unreaped |
| `pipe_recursion` | lines of up to 3 commands, 2 items per pipe, forks fail | the prompt returns with nothing left running; pipe ends have their owners; pipelines end; writers are stopped |
| `pipe_launch` | 3 children, 2 lines of up to 3 stages, 2 pipes of 1 item, 6 descriptors; pipe and exec may fail, fork when there are no processes left | `WritersAreOwners`, `ReadersAreNeighbours`, also with second shells and launches that were given up; `EndOfFileArrives`, `WriterIsStopped` |
| `list_refines` | 2 lists sharing 3 items, 3 values | `Linked`, `ExtremesAreFirst`, and that the commands implement `ListSpec` |
| `objects` | 2 slots per kind, 3 names (one that is cut), 4 items, bitmaps of up to 3 bits in elements of 2 of which the instructions reach 1 | `ItemsHaveOwners`, `BitmapsHaveOwners`, `OnlyTheNamedChanges`, and that the commands implement `HashSpec` and `BitmapSpec` |
| `command_lines` | all lines of up to 7 characters, all job ids of up to 4; 3 commands, 3 arguments | `ParseLineReadsThePipeline`, `EverySegmentHasACommand`, `JobCommandReadsTheSame`, `ArgumentsSurvive`, `LaterPhasesExtendEarlier`, `JobIdsAreWhatWasTyped` |

Why the bounds are enough to be interesting: two children make one job of two stages
(whose reports interleave) or two jobs (of which one takes the other's place in the foreground
or a freed slot). One slot and two children fill the table. Three commands are the
least for which a right child is itself a shell to two more, and in `PipeLaunch` the least for which a middle stage has
a pipe on both sides and a first stage that cannot be executed launches a stage with an output. Three children are
a pipeline of three, a pipeline of two beside another command, or a pipeline with what a second shell launches; two lines let a later one inherit what
an earlier one left open. Six descriptors are the three standard ones and the three that the loop needs at a time (`prev_read`, `fd[0]`, `fd[1]`), so that every number is used again and a descriptor that was left open makes a later `Pipe` fail.
A fork that fails in the middle of a job of two stages is in no run of `MyShell`; the theorems `CachedGroupExact` and `ListedLongEnough` cover it. Three items with three values make the merge sort take two
passes (3 2 1), meet equal keys (2 1 2), and give ranges that are empty, inside, or whole.

`objects` scales the numbers of `hash.c` and `bitmap.c` down: with 2 buckets at least (4 in the source) and 1
element per bucket (2), four items make a table of 2 buckets grow to 4 and shrink again, with
collisions before and after. Integers of 3 bits wrap around in `square` and `triple`, which
send different values to the same one. An element of 2 bits of which 1 works has, in 3 bits, a bit that works and one that does not on
each side of an element boundary. `NumItems` is a malloc that fails. `Scripts` bounds which commands meet in one run: tables or bitmaps under all
of their commands, and the registry alone with any two kinds; the commands of one kind touch no
state of another (`OnlyTheNamedChanges` would say so). `VIEW Objects` identifies states that differ
in the numbers of their items, which the next command cannot tell, and in the last command, which the
properties see in every step before states are identified.

Seven characters of `command_lines` are enough for two quoted arguments, for a quote inside the
other kind with a `|` after it, for one command and one argument too many, and for an `&` in every place. A tab is to every
parser what a space is, so the lines of the run have only the space and, for the blanks that are none to phase 1, `CR`.

Each property is paired with a mutant in `PROJECT.json`: a plausible bug that is written out next
to the definition it would replace, and that breaks the property.

Deadlock is not checked where a run can really stop: the shell exits, the children of the
bounded model run out, the interpreter quits, or the line has its full length. `list_refines` checks for it.

### Findings: what the code does and its documentation does not say

* `shell_lost_wakeup`: `wait_for_foreground` tests `fg_pgid` with SIGCHLD unblocked and then calls
  `sigsuspend` (576). A SIGCHLD handled in between leaves the shell asleep until a key is pressed.
* `shell_own_kill`: `builtin_kill` reads the slot after it has restored the mask (568). If the job has gone the
  slot is zero and SIGTERM goes to the shell's own group.
* `shell_fg_race`: a stop report handled just after `fg` marked the job FOREGROUND (538) makes `fg` return while
  the job runs in the background.
* `bitmap_scan_zero` (project 1): `bitmap_scan_and_flip` (339) returns START for a count of 0; its comment (333) says 0.
* `bitmap_high_bits` (project 1): `bitmap_mark`, `bitmap_reset` and `bitmap_flip` use 32-bit instructions on 64-bit
  elements (168, 181, 196). Bits 32 to 63 of each element keep what malloc left there, although the comment
  says the bit is set.

The key handlers read `fg_pgid` (624) and signal it in a later step. If `sigchld_handler` runs in between, or is interrupted between its change of a
state (592) and of `fg_pgid` (609), the key goes to the awaited job when this is stopped or in the background already, where phase 3's README (32) speaks of the current foreground group.
`KeysReachOnlyTheAwaitedJob` allows that, and says that it goes nowhere else. In `nosuch | cat | cat` the first stage goes on in the loop with a closed number
in `prev_read`; `Pipe` gives that number out again, and the first `cat`, which this stage launches itself, reads the pipe that it writes to.

Behaviour that no document speaks of: SIGTERM to a stopped job stays pending until it is continued; a phase-2
line whose only `|` comes first replaces the shell itself; a quoted `&` is a parse error in phase 3. When the second `Pipe` of a
launch fails (324), the shell keeps the reading end of the first.

## 4. Fairness

* `MyShell`: strong fairness of the main thread (`Go`), of each round of `sigchld_handler` and of its
  end, and of the key handlers' `kill`. Strong, because a handler that starts disables the step that it
  interrupts; it is always enabled again, since handlers return, and user and children are
  slow against a few instructions. Pending signals that are not blocked are delivered (weak). A child that has a
  deadly or a stopping signal obeys (weak). Nothing makes a program end, a
  user type, or a stop arrive. A child whose exec failed, and which goes on
  as a second shell, is a program like any other here: it may run on for ever.
* `PipeShell`: weak fairness of the shell's and the children's own steps, of reads that can be done, and of the end
  of a program that read end of file or got SIGPIPE. No program need write or end.
* `PipeLaunch`: a launch that has begun goes on (`LoopStep` of every shell), a forked stage starts its program or finds that it cannot (`Starts`), a
  program reads what it can and ends when it must (`MustEnd`), all weakly fair: each is a process of its own that nothing disables. No program need write or end by
  itself, and no shell need prompt.

## 5. What is proved

The theorems hold for every value of the constants that the assumptions of the modules allow (`MAXJOBS`, `MaxPid`, `MaxStages`,
`Keys`, `Commands` and `Env` of the phase-3 shell; any number of stages or commands, of processes, command lines and descriptors, and any size of pipes; any number of slots,
items and elements to a bucket, a power of two up to 256 for the buckets to begin with, any size of bitmaps, width of
an element and reach of the instructions; any number of lists, of items and any natural numbers for their values; lines of any length, over any
characters, any `MAXARGS`, `MAXCMDS` and widths of int and long). Each states a property that a run checks on a small instance. `TypeOK` is proved of `MyShell`, `PipeLaunch`, `PipeShell`, `Interpreter`
and `PintosList`.

| Module | Theorem | Property | Calls that may fail |
| --- | --- | --- | --- |
| `MyShellProofs` | `ForegroundAwaited` | `ForegroundIsAwaited` | pipe, exec |
| | `CachedGroupExact` | `FgPgidExact` | all |
| | `CountsExact` | `LiveCountExact` | pipe, exec |
| | `ListedLongEnough` | `JobOutlivesItsChildren` | all |
| | `NoChildIsLost` | `NoLostChild` | exec |
| | `KeysAreAimed` | `KeysReachOnlyTheAwaitedJob` | pipe, exec |
| | `StatesAreTrue` | `StateTellsTheTruth` | pipe, exec |
| | `JobControlImplemented` | `ImplementsJobControl` | pipe, exec |
| `PipeLaunchProofs` | `WritersOwn`, `ReadersNeighbour` | `WritersAreOwners`, `ReadersAreNeighbours` | all |
| `PipeShellProofs` | `PromptsAlone`, `EndsOwned` | `NothingOutlivesTheLine`, `EndsHaveOwners` | all that are modelled |
| `InterpreterProofs` | `BitmapsOwned` | `BitmapsHaveOwners` | malloc |
| | `BitmapsImplemented` | `ImplementsBitmapSpec` | malloc |
| | `ItemsOwned` | `ItemsHaveOwners` | malloc |
| | `HashTablesImplemented` | `ImplementsHashSpec` | malloc |
| | `OnlyTheNamed` | `OnlyTheNamedChanges` | malloc |
| `PintosListProofs` | `ListsLinked` | `Linked` | |
| | `FirstExtremes` | `ExtremesAreFirst` | |
| | `ListsImplementSpec` | `ImplementsListSpec` | |
| `ParseLineProofs` | `PipelinesAreRead` | `ParseLineReadsThePipeline` | |
| | `SegmentsHaveCommands` | `EverySegmentHasACommand` | |
| | `JobCommandsReread` | `JobCommandReadsTheSame` | |
| | `ArgumentsAreKept` | `ArgumentsSurvive` | |
| | `PhasesExtend` | `LaterPhasesExtendEarlier` | |
| | `JobIdsAreRead` | `JobIdsAreWhatWasTyped` | |

None of these properties is inductive. What the proofs add:

**`MyShellProofs`.** `InvCorrect` is `Spec => []Inv`, on which most of the rest builds. `Inv` adds:

* `ChildrenInGroups`: an unreaped child was forked before and its group is that of a child. Without
  it a new child could appear to join an old job's group.
* `GroupsOfJobs`: listed jobs have different groups of earlier children. Without it a signal, a fork or
  a report for one job would change the count of another.
* `LaunchInProgress`: during a launch SIGCHLD is blocked and the group built so far consists of
  exactly the stages forked, none reaped. This is why `add_job` enters a correct count.
* `MaskHolds`: no `sigchld_handler` runs while SIGCHLD is blocked. This is why a builtin's
  look-up and change of state are not torn apart.
* `ForegroundLaunch`: what the steps between `add_job` and the wait know of a foreground job, so that a launch that
  found no slot, or runs in the background, never waits.

`NoForkFault` is needed: `Fork` returns -1, which `launch_pipeline` counts as a stage
(`LiveCountExact` is then false). Each lemma of a step (`LaunchStageStep`, `AddJobStep`, `ReapStep`, ...) treats one action;
`InvStep` puts them together, and the least-element argument for the searches of the table rests on the
library's well-foundedness of `<` on Nat.

*Children and signals.* With failing forks the counts are too high, and `Inv` does not hold. `CountsBound` keeps the half that does (`CountsCover`): a
job's count is at least the number of its pids that are unreaped. A slot is freed only in the step of `Reap` that takes the count to 0, so it had at most one
such child, which is the one reaped in this step (`ListedLongEnough`). For `NoChildIsLost`, `AllOwned` strengthens the property by
saying when the launch that is in `loc` is still in charge of its children. A fork or pipe that fails gives
up a launch and its children with it, hence the stronger assumption `NoLaunchFault`.

A key handler reads `fg_pgid` and signals it in a second step. `KeysAimed` says of the group in every
handler's frame, and of `fg_pgid`, that its children are those of the awaited job. It holds between the two steps because only the
main thread forks or changes what it waits for, and it stands still while a handler runs. `Told` is behind `StatesAreTrue`: whatever waitpid could report
is on its way (`ReportsPending`), a report is about what the child does now (`ReportsTrue`), a stop during a launch is still to be reported
when the job is listed (`LaunchReports`), and with nothing to report the table is right, but for a SIGCONT that `bg` or `fg` is
about to send (`ListedAsIs`).

*The refinement.* By `JobIdsUnique` the abstract function from job ids to states is well defined.
The lemmas `IsBegin`, `IsEnd`, `IsLaunch`, `IsMove` and `IsProgress` say when a step of the code is the step of `JobControl` of that
name; any other changes nothing that `JobControl` sees. `NoForegroundBehind` is the reason for which every way back to the prompt is an `End`.

**`PipeLaunchProofs`.** `IInv` follows the numbers: `WhoWrites` and `WhoReads` say of every descriptor of every process that is an end of a pipe
why the process has it. It belongs to the family of the stage the end was given to, or is the maker's `fd[1]` until the closes, or one
that the maker may still hand on (`Ready`: `prev_read` until the fork, and `fd[0]`), or the copy that a stage forked to write has of its own reading end, or
of a pipe whose launch was given up (`Lost`). This alone is not kept, because a number in a local may be closed and given out again. `JustMade` says that before the
fork `fd[0]` and `fd[1]` are the ends of a pipe that has no stage yet, `Handable` that a reading end that may be handed on was handed to nobody
and has one number only, `Forked` what a stage finds under the numbers it was forked with, `MadeFirst` that nobody has ends of a pipe before it is made, and
`LocalsFit` that there is a pipe only before the last stage. A second shell is a shell that begins at its closes, so its steps need no lemmas of
their own; `StageStep` has the one at which it parts from a program.

**`PipeShellProofs`** rests on `PipesProofs`, what `pipe`, `dup2` and `close` do to a descriptor table. `IInv` says of every process, by where it is in its
code, which ends it may have open (`LeftEnds` and `RightEnds` for each depth of `run_pipe`), that there are none between two
commands (`BetweenCommands`), and which processes exist at each depth (`Tree`): the children below a
process are there only while it is between its forks and its waits.

**`InterpreterProofs`.** *Bitmaps.* `MemoryInv` pairs objects and memory: every object in use has an allocated block of its own, every allocated
block has an object (`Owned`), and what is in a block is a bitmap (`BlocksAre`). It is inductive only together: `bitmap_expand`
puts the new bitmap into a block that is free because there is one block more than objects (`FreshIsFree`), and a deletion frees a block that
no other object names. The refinement rests on what one instruction does to the bits it does not name (`WriteElement`: the element
and the position of a bit determine it, `OnePlace`), and on the loops of `bitmap_set_multiple` and `bitmap_expand`. A loop is a function
on the numbers of its rounds, and what it does is proved by the least round that would break its invariant (`UpTo`, from
the well-foundedness of `<`), the invariants being `SetSoFar` and `CopiedSoFar`. That the recursive definition of such a
function has a value at all is `LoopExists`. `ScanFinds` compares the two ways to say which group is the first. Each command then has a lemma
that names its step of `BitmapSpec` (`MarkRefines`, ..., `QuitRefines`); the commands on lists and hash tables keep `Arrays` as it is.

*Hash tables.* A table is described by `Holds(h, X)`: its buckets have the items `X`, each in one place, and it counts
them; and `Placed`: each is in the bucket of its value. Only a placed table finds what it has, and `hash_apply` leaves tables that are not, so
`HashInv` asks for `Holds` of every table in use, for no item in two tables, and for every allocated item in one; what `Neat` adds
(placed, no value twice) is what `HashSpec` calls not stale. `rehash` is proved with its loop (`MovedHolds`): after each round, the
items visited so far are placed, and the others are in no bucket. Folds are functions on the parts of a finite set; `FoldExists`
says that they have a value, and `AllParts` replaces the induction over parts. `BucketsToBe` bounds what `rehash` chooses: a power of two,
not below `MinBuckets`. Each command then has a lemma that names its step of `HashSpec` (`InsertRefines`, ..., `TableQuitRefines`). Of a hash the proofs use only that it is
an integer (`HashType`), so it makes no difference that the model keeps its lowest byte. `Only` says of a step that every object but
one keeps its name and its meaning; each command has that of the object its name finds
(`HashCommandOnly`, `BitmapCommandOnly`, ...), which needs both invariants: no other object has the item or the block that it frees.

**`ListHeapProofs`.** `Holds(h, q)` says that the pointers of the heap `h` hold the lists `q`: for each list, next and prev link the head, the
items in their order and the tail, both ways (`ListAt`), and no item is on two lists or on one twice (`Contents`). Without the second half one
write could break another list (`NodeOnce`, `OthersKept`). Each operation has a lemma that says which lists the new heap holds: `InsertHolds`, `RemoveHolds`,
`ReverseHolds`, `SwapHolds`, and `SpliceForward`, `SpliceBackward` and `SpliceOver` for a range that moves towards the head, towards the tail, or to another
list. A loop is proved by `WhileGoes`: with an invariant of the state and its distance from the end, which every round makes smaller, the
loop has ended within `Rounds` rounds, at distance 0. `WalkIs`, `OrderedPlace`, `ExtremesFound` and `ShuffleHolds` are instances.

**`PintosListProofs`.** The invariant `IInv` is `Holds(heap, Seqs)` for the sequences `Seqs` that walks along the heap find, and that the items on them are
the allocated ones. (`Linked` and `ExtremesAreFirst` follow, but neither is inductive: from `Linked` alone one does not know that a walk meets an
item once.) For each command a lemma (`PushFrontStep`, ..., `SortStep`) gives the new lists, by `Becomes` the new value of `Seqs`, and shows that
they are those of the step of `ListSpec` with the same name.

* *The merge sort.* `Sorting` is kept by every step of it: the list holds its items in an order that is stable. In `inplace_merge`, `Merged` says how far the two
  runs are merged: of two places in the wrong order, the first is in what is left of the first run and the second in what is left of the second.
  `PassAt` follows a pass: what is behind place `p` is as it was, and what is before it are at most half as many runs as there were (`Labels` numbers the
  runs). So a pass at least halves the number of runs, one run is left in the end, and one run is a sorted list (`SortHolds`). `PlaceIs` shows that such an
  order is the one that `ListSpec` defines by counting smaller items.
* *list_unique.* `Dedup` says where the loop is after `c` items of the list: the repetitions among them are at the end of the other list, in their order, or, without another list,
  no pointer of a neighbour leads to them any more, which is how the model finds what to forget (`Off`).

**`ParseLineProofs`.** A scanner is a fold over the characters of a line. A fold is the run of a function on the numbers of the characters (`FoldExists`), the
run of a line with one character more is the run of the line and one step more (`SplitGrows`, `LoopGrows`, `ScanGrows`), and so what holds of every line is
proved by appending characters to a set of lines (`ByAppending`, whose induction is the well-foundedness of `<`).

* *Where the bars are.* Between the loop of `parse_line` and the grammar stands `Split(s)`: the pieces between the bars outside of quotes, and the quote
  that is open at the end, with no trimming, no limit and no error. `LoopAgrees` says that the loop has the trimmed pieces of `Split`, or has failed where a piece
  is `Bad` or one too many; `TrimKeeps` and its neighbours say why it makes no difference that the loop trims each piece and the grammar the whole line. `ParsedText` then says what
  `parse_line` returns in terms of pieces. On the other side, `QuotesAlong` follows the open quote along a line, `BalancedMeans` shows that the grammar,
  which looks for partners, calls a line balanced if and only if no quote is open at its end, and `CutIsSplit` that cutting the line at the bars with
  balanced text on both sides gives the pieces of `Split`.
* *Segments.* A segment that `parse_line` accepts is trimmed and not empty, so its first character begins an argument (`SegmentsHaveCommands`). `JobReads` shows
  that the pieces of a normalised line, joined by bars again, are the same pieces: `normalize_jobcmd` drops the `&` and the blanks around the line, and nothing in between.
* *Arguments.* `TypedScanned`: scanning what is typed for a list of arguments leaves the scanner between arguments, with the arguments, or as many
  of them as there may be; phase 2 has no bound while scanning, but its result counts only if `argv` holds it. A word, a quoted text and the blank behind it are followed by `WordScanned`, `QuotedScanned` and
  `ArgumentScanned`. The arguments of the property are pieces of a line, which is why they are texts at all (`CutType`).
* *The phases.* `strtok` is a fold, too (`TokensGrow`). On lines without quotes the scanner makes the same steps at blanks as long as there is room for the
  words (`PlainScan`), and the tokens between bars are the pieces (`BarTokens`), which are without quotes as the line is (`PlainSplit`). `PlainReads` is what
  phase 2 reads in a line whose words `argv` holds; `SeparatedWords` says that the delimiters of phase 1 and those of `isspace` give the same
  words where the line has no other blanks.
* *Job ids.* What the digits stand for is a sum over a set, in whatever order `CHOOSE` takes its elements (`InAnyOrder`), of digits times powers of ten, whose
  recursive definition has a solution (`TenToIs`); what `strtol` reads is a loop. `NumeralIs` compares them: after k digits, the value times the power of ten that is left,
  and the sum of the other digits, are together the whole sum. `AcceptedId` and `TakenId` say where blanks, sign and digits are, and `IntsAreKept` that neither
  the limits of a long nor the conversion to int change a number that is an int.

`ParseLineAssumption` asks that the names of the scanner's modes, and the word that marks an overflow, are no characters, that an int is not wider than a long, and that `argv` has
room for a word and its final NULL and a pipeline for a command.

Only model-checked: liveness and ENABLED, which are out of the prover's reach. Every safety and action property of a passing run has a theorem.
Induction with an operator for what is proved is also out of reach: the loops of `Bitmap`, `rehash` and `ListHeap` and the folds of `ParseLine` go without it, by sets of rounds or
lines and the least one that would break the invariant.

## 6. Plan

Widening: the job table of a second shell, beside that of the first, with pipelines whose stages cannot be executed; a phase-2 `Pipe` that fails, the
list commands inside `Interpreter`.

Not modelled, and not planned: the tester (data), `debug.c` and `hex_dump.c` (printing), the course's skeletons and
`csapp.c` and `csapp.h`, which no program of the repository includes.
