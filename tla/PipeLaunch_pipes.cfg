\* Three children: a pipeline of three, two lines, or a stage that cannot be
\* executed and what it launches.
SPECIFICATION FairSpec
CONSTANTS
  MaxCmds = 3
  MaxProcs = 3
  MaxLines = 2
  MaxPipes = 2
  MaxFds = 6
  PipeSize = 1
  Faults = {"exec", "pipe"}
INVARIANTS
  TypeOK
  WritersAreOwners
  ReadersAreNeighbours
PROPERTIES
  EndOfFileArrives
  WriterIsStopped
\* The processes and pipes of the model run out.
CHECK_DEADLOCK FALSE
