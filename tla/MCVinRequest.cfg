\* Two requests from hosts against a queue of one, and a request for the VIN every
\* third pass.
CONSTANTS
    Vehicles <- MCVehicles
    Boards = {"LPC17xx", "PIC32"}
    Requests <- MCRequests
    BusCount = 2
    QueueCapacity = 1
    MaxRequests = 2
    Period = 2

SPECIFICATION FairSpec

INVARIANTS TypeOK OnTheWire DecodedAsWritten WritePermission VinSentOnce
PROPERTY VinEventuallySent
