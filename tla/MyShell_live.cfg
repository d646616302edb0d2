\* One slot, so that the table fills up; execvp and fork may fail.
SPECIFICATION FairSpec
CONSTANTS
  MAXJOBS = 1
  MaxPid = 2
  MaxStages = 1
  Faults = {"exec", "fork"}
  Env = {"stop"}
  Keys = {"TSTP"}
  Commands = {"run", "run&", "jobs", "fg", "exit"}
INVARIANTS
  NoLostChild
  FgPgidExact
PROPERTIES
  ZombiesAreReaped
  StopIsNoticed
  KeyEndsTheWait
  JobOutlivesItsChildren
\* The shell may exit, and the pids of the model run out.
CHECK_DEADLOCK FALSE
