\* The peer may send a second byte before the handler takes the first and drops RTS.
\* With two bytes in all, that is the only way to a full queue and a byte in the UART:
\* the other one, RTS raised again on a full queue (ResumedWithRoom), takes a third.
CONSTANTS
    QueueCapacity = 1
    RxFifoDepth = 2
    MaxBytes = 2

SPECIFICATION FairSpec

PROPERTY FullQueueCleared

CHECK_DEADLOCK FALSE
