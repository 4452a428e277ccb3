\* Five bytes fill a queue of three, empty it and fill part of it again, with
\* every content of the queue that the search tells apart.
CONSTANTS
    QueueCapacity = 3
    RxFifoDepth = 2
    MaxBytes = 5

SPECIFICATION FairSpec

INVARIANTS TypeOK NoByteOverflows
PROPERTIES PeerResumed CorruptedQueueCleared

\* The peer may have nothing left to send.
CHECK_DEADLOCK FALSE
