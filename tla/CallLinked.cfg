SPECIFICATION Spec
CONSTANTS
    a1 = a1  b1 = b1  b2 = b2
    Alice = Alice  Bob = Bob
    Device = {a1, b1, b2}
    Account = {Alice, Bob}
    AccountOf <- LinkedAccountOf
    Contacts <- HalfLinkedContacts
    RequireApproval = TRUE
    UserOps = {"call", "accept", "reject", "ignore", "approve"}
    Faults = {"stale"}
    MaxCalls = 1
    MaxIncarnations = 1
    MaxRestarts = 1
    MaxInFlight = 4
CONSTRAINTS
    InFlight
    OthersApproved
INVARIANTS
    AnsweredElsewhereIsTrue
    EndCallHasACause
    StrangersAreNotAnswered
CHECK_DEADLOCK FALSE
