CONSTANTS
    Value = {0, 1, 2, 3}
    MaxValue = 3
    Stated = {0, 2}
    NoValue = NoValue
    Absent = Absent
    Frequencies = {0, 1, 2, 3}
    IntMax = 3
    Packs = 3
    Cells = 2
    SendAfter = 3
    MaxReceived = 7

SPECIFICATION Spec

INVARIANT EveryValueProcessed

\* The behavior ends when the bound is reached.
CHECK_DEADLOCK FALSE
