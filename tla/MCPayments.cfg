CONSTANTS
    h1 = h1
    h2 = h2
    k1 = k1
    k2 = k2
    p1 = p1
    m1 = m1
    NULL = NULL
    Handlers = {h1, h2}
    Keys = {k1}
    Policies = {p1}
    Marketers = {m1}
    Listeners = {"finance"}
    Dto <- MCDto
    Amounts = {1}
    MaxFaults = 1
    MaxOffice = 0
SPECIFICATION FairSpec
INVARIANTS
    TypeOK
    OnePaymentPerKey
    AckedIsPosted
    EffectsOnce
PROPERTIES
    Answered
    ReplyStable
