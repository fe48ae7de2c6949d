\* One object, a handler and a retrier, both modes of the informer; two
\* changes, a fault, a crash.
CONSTANTS
    Foreign = {"other"}
    UseWatchList = {FALSE, TRUE}
    Merges = FALSE
    MaxAttempts = 1
    MaxConflicts = 1
    MaxOps = 2
    MaxFaults = 1
    MaxCrashes = 1
SPECIFICATION FairSpec
INVARIANTS DeletedIsReconciled
PROPERTIES DeletedObjectGoes EventuallyReconciled
CHECK_DEADLOCK FALSE
