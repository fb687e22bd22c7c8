SPECIFICATION Spec
CONSTANTS
    t1 = t1
    t2 = t2
    Targets <- MCTargets
    Kinds <- MCAll
    MaxOps = 2
    MaxPlays = 1
    MaxFaults = 1
    MaxRestarts = 1
SYMMETRY TargetSymmetry
INVARIANTS TypeOK NeverBoth OneUnresolved GateAccounts
PROPERTIES RevokedForGood RefinesCustody
CHECK_DEADLOCK FALSE
