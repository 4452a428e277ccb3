\* Every setting of the filter and every handler, over seven messages: more than two
\* rounds of three, and the clock of a signal with frequency zero goes round an
\* integer of three bits.  Three packs of two cells, of which every second message is sent.
CONSTANTS
    Value = {0, 1, 2, 3}
    MaxValue = 3
    Stated = {0, 2}
    NoValue = NoValue
    Absent = Absent
    Frequencies = {0, 1, 2, 3}
    IntMax = 3
    Packs = 3
    Cells = 2
    SendAfter = 3
    MaxReceived = 7

SPECIFICATION Spec

INVARIANTS TypeOK EveryNthSent NoChangeMissed TotalsKept CellsCountedApart
PROPERTIES NeverTwiceInARow TotalNeverRunsBack

\* The behavior ends when the bound is reached.
CHECK_DEADLOCK FALSE
