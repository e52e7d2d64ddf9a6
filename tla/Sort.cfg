SPECIFICATION Spec
CONSTANTS
  MaxLen = 4
  MaxData = 3
  Lists <- ShortLists
CHECK_DEADLOCK FALSE
INVARIANTS
  KeepsNumbers
  ListAndFileSorted
