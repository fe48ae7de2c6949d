\* One key, three changes, a fault, a restart; a store in memory, with and
\* without UseWatchList, and memcached with and without ShardKey.
CONSTANTS
    Keys = {"a"}
    Backends = {"memory", "tracked", "sharded"}
    WatchList = {"memory"}
    MaxChanges = 3
    MaxFaults = 1
    MaxCrashes = 1
SPECIFICATION FairSpec
INVARIANTS HandlerFollowsStore CachedIsListed
PROPERTIES NeverBackInTime CacheConverges
CHECK_DEADLOCK FALSE
