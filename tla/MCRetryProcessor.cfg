\* Two shards, two requests, one attempt granted after the first.
CONSTANTS
    k1 = k1  k2 = k2  w1 = w1  w2 = w2
    create = create  delete = delete
    Keys = {k1, k2}
    Workers = {w1, w2}
    Shard <- MCShard
    Actions = {create, delete}
    Delete = delete
    Gens = {1}
    Delays = {1}
    MaxAttempts = 1
    Backoff <- MCBackoff
    MaxReqs = 2
    MaxTime = 2
SPECIFICATION FairSpec
INVARIANTS TypeOK Accounted SerialPerKey
PROPERTIES DueRetryLeavesHeap RunReturns
