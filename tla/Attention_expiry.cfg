SPECIFICATION FairSpec
CONSTANTS
  None = None
  Devices = {d1}
  Outcomes = {"accepted"}
  Modes = {"full"}
  MaxChanges = 0
  MaxRestarts = 0
  MaxCommands = 0
  MaxSessions = 1
  MaxRequests = 3
  MaxRevisions = 1
  MaxFaults = 0
  MaxAttempts = 1
  MaxLegacy = 0
  MaxDirect = 0
PROPERTIES ReleaseSettles
CHECK_DEADLOCK FALSE
