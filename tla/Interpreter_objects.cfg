\* Two slots per kind and three names, one of them too long to be stored whole.  Elements of
\* two bits of which the instructions reach one.
SPECIFICATION Spec
VIEW Objects
CHECK_DEADLOCK FALSE
CONSTANTS
  MAX_DS = 2
  Names = {"a", "b", "c"}
  LongNames = {"c"}
  Kept = "a"
  NumItems = 4
  Values = {1, 2, 3, 4}
  MaxBits = 3
  Scripts = {{"hashtable", "hash_"}, {"bitmap", "bitmap_"}, {"list", "hashtable"}, {"list", "bitmap"}, {"hashtable", "bitmap"}}
  ElemBits = 2
  AsmBits = 1
  MinBuckets = 2
  BestElems = 1
  Width = 3
INVARIANTS TypeOK ItemsHaveOwners BitmapsHaveOwners
PROPERTIES OnlyTheNamedChanges ImplementsHashSpec ImplementsBitmapSpec
