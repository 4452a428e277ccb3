CONSTANTS
    QueueCapacity = 2
    RxFifoDepth = 1
    MaxBytes = 4

SPECIFICATION FairSpec

PROPERTY ResumedWithRoom

CHECK_DEADLOCK FALSE
