SPECIFICATION FairSpec
CONSTANTS
  None = None
  Devices = {d1}
  Outcomes = {"accepted"}
  Modes = {"full"}
  MaxChanges = 0
  MaxRestarts = 1
  MaxCommands = 0
  MaxSessions = 2
  MaxRequests = 3
  MaxRevisions = 1
  MaxFaults = 0
  MaxAttempts = 4
  MaxLegacy = 1
  MaxDirect = 0
INVARIANTS OneOpenSession
 
CHECK_DEADLOCK FALSE
