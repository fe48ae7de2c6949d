\* Three calls: the least in which a late joiner, an old and a new instance meet.
CONSTANTS
    Calls = {c1, c2, c3}
    StopOnAny = FALSE
SPECIFICATION FairSpec
INVARIANTS IndependentLifecycles
PROPERTIES CancelledCallReturns CanStartAgain
CHECK_DEADLOCK FALSE
