SPECIFICATION FairSpec
CONSTANTS
  Restarts = {"watchdog"}
  Rescans = {"rescan"}
  Watchdog = "watchdog"
  None = None
  MaxStarts = 1
PROPERTIES Terminates BarrierOpens
