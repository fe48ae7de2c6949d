\* Three Runnables that come and go, with and without ExitWait.
CONSTANT Runnables = {r1, r2, r3}
SPECIFICATION DynamicFairSpec
INVARIANT ListedIsStarted
PROPERTIES RemovedEnds RunEnds
CHECK_DEADLOCK FALSE
