SPECIFICATION RSpec
CONSTANTS
  Alias <- MCAlias
  Kinds <- MCKinds
  None = None
  Started = {TRUE}
  MaxChanges = 3
  Faults = {}
  MaxFaults = 0
  MaxRoutes = 1
  SeenCapacity = 1
  Shapes = {TRUE}
  Quiet = {}
  Actors = {"stop"}
INVARIANTS RTypeOK OneSelectionPerTransfer
PROPERTIES CommitNotOvertaken NoRevival
CHECK_DEADLOCK FALSE
