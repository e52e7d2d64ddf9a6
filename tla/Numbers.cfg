SPECIFICATION FairSpec
CONSTANTS
  c0 = c0
  c1 = c1
  None = None
  Conn = {c0, c1}
  IdOf <- Counted
  Base = 2
  Half = 2
  MaxRequests <- FirstAsksMore
  MaxPending = 2
CHECK_DEADLOCK FALSE
INVARIANTS
  EachNumberOnce
  FileSorted
  WildOnlyBeforePush
PROPERTIES
  RequestAnswered
