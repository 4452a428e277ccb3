\* Two buses with queues of two: three messages fill a queue and have one dropped.
\* The clock goes round: a bus that has long been quiet looks active again.
CONSTANTS
    BusCount = 2
    QueueCapacity = 2
    Timeout = 2
    ClockSize = 7
    MaxArrivals = 3
    MaxRequests = 2
    MaxResets = 1

SPECIFICATION FairSpec

INVARIANTS TypeOK DecodedOnceInOrder WrittenOnceInOrder EachPassServesEachBus
PROPERTIES SleepsAfterTimeout QuietUnitSleeps
