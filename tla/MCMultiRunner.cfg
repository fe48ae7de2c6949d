\* Three runners, with and without ExitWait.
CONSTANT Runners = {r1, r2, r3}
SPECIFICATION FairSpec
INVARIANTS WaitsForRunners
PROPERTIES RunEnds FailureReachesHandler
CHECK_DEADLOCK FALSE
