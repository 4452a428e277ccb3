CONSTANTS
    BusCount = 1
    QueueCapacity = 2
    Timeout = 2
    ClockSize = 7
    MaxArrivals = 1
    MaxRequests = 0
    MaxResets = 0

SPECIFICATION Spec

INVARIANT NothingWaitsAtSleep
