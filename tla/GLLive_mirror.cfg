SPECIFICATION FairSpec
CONSTANTS
  Alias <- MCOneAlias
  Kinds <- MCMirror
  None = None
  Started = {FALSE}
  MaxChanges = 2
  Faults = {"dial", "socket", "poll", "restart"}
  MaxFaults = 1
  MaxRoutes = 0
  SeenCapacity = 2
  Shapes = {TRUE}
  Quiet = {FALSE}
  Actors = {"reseed", "stop"}
INVARIANTS StatusNeverUndoesWire
PROPERTIES IncarnationForward Converges StopRetires
CHECK_DEADLOCK FALSE
