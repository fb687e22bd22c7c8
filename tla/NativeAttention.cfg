SPECIFICATION NSpec
CONSTANTS
  None = None
  Devices = {d1}
  Outcomes = {"accepted", "unknown"}
  MaxChanges = 2
  MaxRestarts = 1
  MaxCommands = 5
INVARIANTS NTypeOK OneOpenOrigin
PROPERTIES RestoresLatestBase OutcomesFinal
CHECK_DEADLOCK FALSE
