------------------------------ MODULE MCRadio ------------------------------
(* The receivers are interchangeable: nothing orders them.                   *)
EXTENDS Radio, TLC
CONSTANTS t1, t2
MCTargets == {t1, t2}
TargetSymmetry == Permutations(Targets)
MCAll == {"start", "move", "stop", "volume"}
=============================================================================
