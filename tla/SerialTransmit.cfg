\* Two byte values show an exchange of bytes, three bytes a full queue, a
\* full FIFO and a byte that waits behind both.
CONSTANTS
    Byte = {b1, b2}
    NoByte = NoByte
    QueueCapacity = 2
    FifoDepth = 1
    MaxBytes = 4

SPECIFICATION FairSpec

INVARIANTS TypeOK OneDrainer MaskInv ExactlyOnceInOrder
PROPERTIES NoByteStartsWhileStopped ImplementsByteChannel EveryByteDelivered
