\* Two slots, two children in one job or two, every job builtin; pipe may fail.
SPECIFICATION Spec
CONSTANTS
  MAXJOBS = 2
  MaxPid = 2
  MaxStages = 2
  Faults = {"pipe"}
  Env = {"stop", "cont"}
  Keys = {"TSTP"}
  Commands = {"run", "run&", "bg", "fg", "kill"}
INVARIANTS
  TypeOK
  ForegroundIsAwaited
  FgPgidExact
  LiveCountExact
  StateTellsTheTruth
PROPERTIES
  KeysReachOnlyTheAwaitedJob
  ImplementsJobControl
\* The shell may exit, and the pids of the model run out.
CHECK_DEADLOCK FALSE
