\* Two producers; a listener or a worker as consumer, whose handler may block.
CONSTANTS
    Producers = {p1, p2}
    MaxPush = 3
SPECIFICATION QueueFairSpec
INVARIANTS NoSendOnClosed
PROPERTIES ImplementsStream NeverStuck
CHECK_DEADLOCK FALSE
