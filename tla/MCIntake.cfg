CONSTANTS
    x1 = x1
    x2 = x2
    Requests = {x1, x2}
    Applicants = {"a1"}
    Forms <- FilledForms
    AppVisible = {"endowment"}
    BeneficiaryLimit = 2
    StaffNumbers <- OfficeNumbers
    MaxApplications = 1
    MaxPolicies = 2
    MaxCrashes = 1
    Clerks = {x1, x2}
    Sheets <- Rosters
    FixNumbers <- NumbersGiven
    NoNumber <- NoRosterNumber
    NoPin = 0
    MaxImports = 2
    MaxIssues = 3
    MaxRestarts = 1
    Uploaders = {x1, x2}
    Files <- PremiumFiles
    Absent = 99
    Products = {"Endowment", "Pikin"}
    MaxUploads = 2
    MaxCuts = 1
SPECIFICATION Spec
SYMMETRY Symmetry
INVARIANTS
    ApprovalIsComplete
    OnePolicyEach
    RowsAccounted
    UploadsAccounted
CHECK_DEADLOCK FALSE
