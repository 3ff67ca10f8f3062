CONSTANTS
    Jobs <- ThreeSweeps
    NULL = NULL
    MaxCrashes = 1
    Nightly = "nightly"
    Runs = {"nightly", "manual"}
    Entities = {"e1", "e2"}
    TriggerRows <- Rows
    MaxDisturbances = 1
    Callers = {"c1"}
    Recipients = 2
    MaxMessages = 2
    MaxCampaigns = 1
    MaxJobs = 2
    MaxFaults = 1
    CloseRuns = {"r1"}
    Months = 3
    Premiums = {101}
    MaxRows = 5
    MaxPayments = 1
    Groups <- ThreeGroups
SPECIFICATION MCSpec
INVARIANTS
    MessagesCounted
    NeverDoubleSends
    PremiumsEarnedOnce
    MarginsEarnedOnce
PROPERTIES
    QueueDrains
    MessagesSettle
    ReachesAll
    RunClosesTheRest
CHECK_DEADLOCK FALSE
