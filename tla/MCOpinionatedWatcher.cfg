\* One object, a handler and a retrier, both modes of the informer; two
\* changes, a fault, a crash.
CONSTANTS
    Foreign = {"other"}
    UseWatchList = {FALSE, TRUE}
    Merges = TRUE
    MaxAttempts = 1
    MaxConflicts = 1
    MaxOps = 2
    MaxFaults = 1
    MaxCrashes = 1
SPECIFICATION FairSpec
INVARIANTS FinalizerGuardsDelete AddIsGuarded
PROPERTIES DeletionCompletes
CHECK_DEADLOCK FALSE
