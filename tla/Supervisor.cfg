SPECIFICATION Spec
CONSTANTS
  Restarts = {"watchdog"}
  Rescans = {"rescan"}
  Watchdog = "watchdog"
  None = None
  MaxStarts = 2
INVARIANTS TypeOK NoOrphans TruthfulReplacement
PROPERTIES RendererLast SuccessorSpared
