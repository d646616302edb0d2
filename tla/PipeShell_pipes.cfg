\* Three commands: the right child of the shell is itself a shell to two more.
SPECIFICATION FairSpec
CONSTANTS
  MaxCmds = 3
  MaxPipes = 2
  PipeSize = 2
  Lines = {"plain", "pipe", "lone", "exit"}
  ForkMayFail = TRUE
\* The shell may exit.
CHECK_DEADLOCK FALSE
INVARIANTS TypeOK NothingOutlivesTheLine EndsHaveOwners
PROPERTIES PipelineEnds WriterIsStopped
