SPECIFICATION FairSpec
INVARIANTS NeverUnguarded VisibleMeansExecuted ClosedMeansGone
PROPERTIES UnguardedEnds LaunchEnds
CHECK_DEADLOCK FALSE
