SPECIFICATION Spec
CONSTANTS
    a1 = a1  b1 = b1  b2 = b2
    Alice = Alice  Bob = Bob
    Device = {a1, b1}
    Account = {Alice, Bob}
    AccountOf <- PairAccountOf
    Contacts <- PairContacts
    RequireApproval = TRUE
    UserOps = {"call", "accept"}
    Faults = {"flap"}
    MaxCalls = 1
    MaxIncarnations = 1
    MaxRestarts = 1
    MaxInFlight = 99
INVARIANTS
    IceFailedMeansMediaDown
CHECK_DEADLOCK FALSE
