SPECIFICATION Spec
CONSTANTS
  Alias <- MCOneAlias
  Kinds <- MCNative
  None = None
  Started = {TRUE}
  MaxChanges = 1
  Faults = {"dial", "socket", "poll", "restart"}
  MaxFaults = 1
  MaxRoutes = 1
  SeenCapacity = 2
  Shapes = {TRUE, FALSE}
  Quiet = {FALSE}
  Actors = {"stop", "tick", "catalog"}
INVARIANTS TypeOK FenceSound
 
