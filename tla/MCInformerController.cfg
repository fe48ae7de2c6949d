\* Three watchers and a reconciler, two events, and changes of the lists.
CONSTANTS
    Watchers = {"a", "b", "c"}
    Reconcilers = {"r"}
    MaxAttempts = 1
    MaxEvents = 2
    MaxTroubles = 2
SPECIFICATION FairSpec
INVARIANTS ListsAsPromised Accounted
PROPERTIES HandlingEnds
CHECK_DEADLOCK FALSE
