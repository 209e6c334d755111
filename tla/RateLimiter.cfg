SPECIFICATION Spec
CONSTANTS
    QPS = 2
    TicksPerSecond = 2
    MaxTicks = 4
    MaxCalls = 8
INVARIANT RateBounded
CHECK_DEADLOCK FALSE
