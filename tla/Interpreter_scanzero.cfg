\* One bitmap of a few bits.
SPECIFICATION Spec
VIEW Objects
CHECK_DEADLOCK FALSE
CONSTANTS
  MAX_DS = 1
  Names = {"a"}
  LongNames = {}
  Kept = "a"
  NumItems = 0
  Values = {}
  MaxBits = 2
  Scripts = {{"bitmap", "bitmap_"}}
  ElemBits = 4
  AsmBits = 2
  MinBuckets = 2
  BestElems = 1
  Width = 3
PROPERTY ScanAndFlipOfNothingIsZero
