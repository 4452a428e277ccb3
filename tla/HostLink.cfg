\* Requests of a byte, of two packets, which an empty one may follow, and one too long for
\* the queue of two packets; a send queue and its buffer of a packet and a half, of which
\* the UART takes two bytes at once.
CONSTANTS
    Links = {"lpc17xx usb", "pic32 usb", "pic32 uart", "ethernet"}
    PacketSize = 2
    QueueCapacity = 4
    Lengths = {1, 4, 5}
    MaxRequests = 3
    Nul = Nul
    Junk = Junk
    SendQueueCapacity = 3
    SendBufferSize = 3
    MaxMessageSize = 2
    SendPacketSize = 2
    MaxWait = 1
    MaxProduced = 4
    MaxConfigured = 2
    MaxTraffic = 4

SPECIFICATION FairSpec

INVARIANTS TypeOK CleanRequestExecuted LostOnlyWhenGivenUp
PROPERTIES RequestsLostAtMost BytesLostAtMost MainLoopGoesOn
