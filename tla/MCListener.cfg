\* A queue of seven bytes holds one message and part of another: messages are
\* accepted, dropped and accepted again at each interface.
CONSTANTS
    m1 = m1
    m2 = m2
    Message <- MCMessage
    Size <- MCSize
    NoMessage = NoMessage
    Fitted = {"USB", "UART", "ETHERNET"}
    QueueCapacity = 7
    SendBufferSize = 7
    NetworkBufferSize = 2
    LogThreshold = 1
    MaxMessages = 3

SPECIFICATION Spec

INVARIANTS TypeOK WholeFrames DroppedForThatInterfaceOnly WholeTransfers
CHECK_DEADLOCK FALSE
