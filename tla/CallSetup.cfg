SPECIFICATION Spec
CONSTANTS
    a1 = a1  b1 = b1  b2 = b2
    Alice = Alice  Bob = Bob
    Device = {a1, b1}
    Account = {Alice, Bob}
    AccountOf <- PairAccountOf
    Contacts <- PairContacts
    RequireApproval = TRUE
    UserOps = {"call", "accept", "reject", "ignore", "hangup", "throw"}
    Faults = {}
    MaxCalls = 2
    MaxIncarnations = 2
    MaxRestarts = 1
    MaxInFlight = 3
CONSTRAINTS
    InFlight
    TwoCallsPlain
INVARIANTS
    TypeOK
    OneCallBoosted
    TornDownIsFinal
    OrphansComeFromDoubleEnds
PROPERTIES
    IsOneLine
CHECK_DEADLOCK FALSE
