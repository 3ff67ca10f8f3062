CONSTANTS
    h1 = h1
    h2 = h2
    u1 = u1
    u2 = u2
    NULL = NULL
    Handlers = {h1, h2}
    Users = {u1, u2}
    Months = {1, 2}
    Today = 2
    Accounts <- MCAccounts
    Chart <- MCChart
    Cash = "1010"
    Inputs <- FractionInputs
    MaxEntries = 3
    MaxCrashes = 1
SPECIFICATION MCSpec
SYMMETRY Symmetry
INVARIANTS
    ReversedOnce
    StoredBalances
PROPERTIES
    ClosedMonthsFrozen
CHECK_DEADLOCK FALSE
