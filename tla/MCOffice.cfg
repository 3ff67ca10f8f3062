CONSTANTS
    h1 = h1
    x1 = x1
    x2 = x2
    p1 = p1
    p2 = p2
    NULL = NULL
    Handlers = {h1}
    Claims = {"c1"}
    Reserves = {0, 1}
    MaxCrashes = 1
    Senders = {"s1"}
    Members = {1, 2}
    Seekers = {11}
    Devices <- Two
    ApplicantOf <- CameAs
    MaxMessages = 1
    MaxRequests = 1
    MaxFailures = 2
    Calls <- Two
    Clients = {1}
    Prospects = {2}
    Pins = {p1, p2}
    NoPin = NULL
    MaxFailedAttempts = 2
    MaxCodeAttempts = 1
    MaxCodesPerHour = 1
    MaxDirectFails = 1
    MaxVersion = 1
    MaxCodes = 1
    MaxTimes = 1
    Staff = {"boss", "amy"}
    Admins = {"boss"}
    Desks <- Two
    MaxItems = 1
    MaxEvents = 1
    MaxTouches = 2
    MaxHalts = 1
    Tellers <- Two
    Codes = {"1010"}
    LedgerLines = {1, 2}
    MaxAccounts = 1
    MaxStatement = 2
    MaxDeletions = 2
    MaxBreaks = 1
    Workers <- Two
    Users = {"ann", "bob"}
    Roles = {"clerk"}
    MaxSecrets = 2
    MaxActs = 4
    MaxOutages = 1
    Officers <- Two
    Months = {1}
    Days = {1}
    Logins <- Accounts
    Updates <- Corrections
    Exports <- Files
    MaxEmployees = 2
    MaxLeave = 1
    MaxMarks = 1
    MaxUploads = 2
    MaxEdits = 1
    MaxStops = 1
    Managers <- Two
    AssetKinds <- Kinds
    Items <- Goods
    MaxAssets = 2
    MaxOrders = 1
    MaxEntries = 3
    MaxDays = 1
    MaxAdminBreaks = 1
SPECIFICATION MCSpec
SYMMETRY Symmetry
INVARIANTS
    EntriesOnce
    SessionsFollowPin
    EveryoneTold
    PaysTheLastFile
    BooksMeetRegisters
    TasksAgree
    BankBooksHold
    EnrolledCanLogin
CHECK_DEADLOCK FALSE
