CONSTANTS
    Month = {1, 2, 3, 4}
    Never = 99
    WarningAfter = 2
    LapseAfter = 3
    MaxPaid = 3
SPECIFICATION Spec
INVARIANTS
    StatusIsUnpaidRun
    PayingNeverHurts
CHECK_DEADLOCK FALSE
