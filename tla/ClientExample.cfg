SPECIFICATION FairSpec
CONSTANTS
  Main = Main
  Handler = Handler
  None = None
  Loops = 2
  MaxAsks <- FirstAsksTwice
CHECK_DEADLOCK FALSE
INVARIANTS
  LabelRight
  StuckOnlyInWrite
PROPERTIES
  SignalExits
