\* An informer that lists, one fault, no crash.
CONSTANTS
    Foreign = {}
    UseWatchList = {FALSE}
    Merges = TRUE
    MaxAttempts = 1
    MaxConflicts = 1
    MaxOps = 2
    MaxFaults = 1
    MaxCrashes = 0
SPECIFICATION FairSpec
PROPERTIES DeletionHandled
CHECK_DEADLOCK FALSE
