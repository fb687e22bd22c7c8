SPECIFICATION Spec
CONSTANTS
  None = None
  Devices = {d1}
  Outcomes = {"accepted", "unknown"}
  Modes = {"full", "target"}
  MaxChanges = 1
  MaxRestarts = 1
  MaxCommands = 0
  MaxSessions = 1
  MaxRequests = 2
  MaxRevisions = 1
  MaxFaults = 2
  MaxAttempts = 2
  MaxLegacy = 0
  MaxDirect = 0
INVARIANTS TypeOK CustodyCovers ReleasedMeansRestored 
CHECK_DEADLOCK FALSE
