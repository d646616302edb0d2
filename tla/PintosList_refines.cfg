\* Two lists, three items, three values: the sort makes two passes for 3 2 1 and meets
\* equal items for 2 1 2; a range is spliced within a list and between two.
\* The view leaves out cmd, on which no command depends.
SPECIFICATION Spec
VIEW Objects
CONSTANTS
  NumLists = 2
  MaxItems = 3
  Values = {1, 2, 3}
INVARIANTS TypeOK Linked ExtremesAreFirst
PROPERTIES ImplementsListSpec
