CONSTANTS
    p1 = p1
    h1 = h1
    h2 = h2
    NULL = NULL
    Policies = {p1}
    Handlers = {h1}
    Book <- MCBook
    OfficeStatus = {"Cancelled"}
    Month = {1, 2, 3, 4}
    Never = 99
    WarningAfter = 2
    LapseAfter = 3
    MaxOps = 3
SPECIFICATION FairSpec
PROPERTIES
    MaturityOnlyExtends
    RegisterConverges
