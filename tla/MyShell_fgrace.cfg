\* One background command that stops, and fg.
SPECIFICATION Spec
CONSTANTS
  MAXJOBS = 1
  MaxPid = 1
  MaxStages = 1
  Faults = {}
  Env = {"stop"}
  Keys = {}
  Commands = {"run&", "fg"}
PROPERTIES
  WaitLastsUntilStopOrEnd
\* The shell may exit, and the pids of the model run out.
CHECK_DEADLOCK FALSE
