SPECIFICATION Spec
CONSTANTS
  Conn = {c1, c2}
  Listeners = {l1, l2}
  Others = {o1, o2}
  Stdin = Stdin
  None = None
  MaxFd = 4
SYMMETRY FileSymmetry
CHECK_DEADLOCK FALSE
INVARIANTS
  NumbersKeepMeaning
  NoBadNumber
  CloseGivesBack
