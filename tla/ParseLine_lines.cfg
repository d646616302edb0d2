\* Every line of up to seven characters, one for each that the parsers treat in a way of its own;
\* up to three commands and three arguments; numbers that wrap around as an int (16) and
\* that are cut off as a long (255).
SPECIFICATION Spec
CONSTANTS
  MAXARGS = 4
  MAXCMDS = 3
  LineChars = {"w", " ", "CR", "'", "''", "|", "&"}
  IdChars = {"%", "0", "1", "3", "+", "-", " ", "x"}
  MaxLine = 7
  MaxId = 4
  INT_MAX = 15
  LONG_MAX = 255
CHECK_DEADLOCK FALSE
INVARIANTS ParseLineReadsThePipeline EverySegmentHasACommand JobCommandReadsTheSame ArgumentsSurvive LaterPhasesExtendEarlier JobIdsAreWhatWasTyped
