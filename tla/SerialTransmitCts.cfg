\* As SerialTransmit.cfg: one byte in the FIFO and CTS dropped are enough to stop
\* the main loop.
CONSTANTS
    Byte = {b1}
    NoByte = NoByte
    QueueCapacity = 2
    FifoDepth = 1
    MaxBytes = 2

SPECIFICATION FairSpec

PROPERTY MainLoopNeverWaits
