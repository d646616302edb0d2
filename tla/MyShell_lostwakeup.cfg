\* One foreground command and no key.
SPECIFICATION FairSpec
CONSTANTS
  MAXJOBS = 1
  MaxPid = 1
  MaxStages = 1
  Faults = {}
  Env = {}
  Keys = {}
  Commands = {"run"}
PROPERTIES
  WaitEnds
\* The shell may exit, and the pids of the model run out.
CHECK_DEADLOCK FALSE
