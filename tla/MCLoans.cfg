CONSTANTS
    h1 = h1
    h2 = h2
    l1 = l1
    u1 = u1
    u2 = u2
    u3 = u3
    NULL = NULL
    Handlers = {h1, h2}
    Loans = {l1}
    Users = {u1, u2}
    Tenure = 2
    AmountDue = 3
    Amounts = {1, 2}
    MaxRecorded = 3
    MaxCrashes = 1
SPECIFICATION MCSpec
INVARIANTS
    FullyApprovedAlone
    CompletedIsPaidAlone
PROPERTIES
    MarksCompleted
CHECK_DEADLOCK FALSE
