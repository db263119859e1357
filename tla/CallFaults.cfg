SPECIFICATION Spec
CONSTANTS
    a1 = a1  b1 = b1  b2 = b2
    Alice = Alice  Bob = Bob
    Device = {a1, b1}
    Account = {Alice, Bob}
    AccountOf <- PairAccountOf
    Contacts <- PairContacts
    RequireApproval = TRUE
    UserOps = {"call", "accept", "dispose"}
    Faults = {"send", "media", "stale", "flap"}
    MaxCalls = 1
    MaxIncarnations = 1
    MaxRestarts = 2
    MaxInFlight = 4
CONSTRAINTS
    InFlight
    DisposeOrFlap
    OneDisposes
INVARIANTS
    ConnectedMeansMediaUp
    ReconnectIsTimed
    SetupIsTimed
    DisposedIsLeaving
CHECK_DEADLOCK FALSE
