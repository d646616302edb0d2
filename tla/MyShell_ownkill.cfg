\* One background command and kill.
SPECIFICATION Spec
CONSTANTS
  MAXJOBS = 1
  MaxPid = 1
  MaxStages = 1
  Faults = {}
  Env = {}
  Keys = {}
  Commands = {"run&", "kill"}
INVARIANTS
  KillSparesTheShell
\* The shell may exit, and the pids of the model run out.
CHECK_DEADLOCK FALSE
