SPECIFICATION Spec
CONSTANTS
  None = None
  Devices = {d1, d2}
  Outcomes = {"accepted"}
  Modes = {"full", "settle"}
  MaxChanges = 0
  MaxRestarts = 1
  MaxCommands = 0
  MaxSessions = 1
  MaxRequests = 3
  MaxRevisions = 2
  MaxFaults = 0
  MaxAttempts = 2
  MaxLegacy = 0
  MaxDirect = 1
SYMMETRY DeviceSymmetry
INVARIANT DirectEffectsAlone
CHECK_DEADLOCK FALSE
