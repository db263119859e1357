SPECIFICATION FairWithCalls
CONSTANTS
    p = p  data = data
    Pollers = {p}
    Namespace = {data}
    NamespacesOf <- OneNamespacesOf
    UserInterval <- NoUserInterval
    Intervals = {"boosted", "assumed"}
    Nodes = {"n1", "n2"}
    Storages = {"sync"}
    MaxMessages = 2
    MaxPolls = 2
    MaxMishaps = 1
    Here = "here"
    Uuid = {1}
    Boosted = "boosted"
    Assumed = "assumed"
CONSTRAINTS
    ShortCalls
INVARIANTS
    TypeOK
    NothingSkipped
    InOrderOnce
    CadenceFollowsCalls
PROPERTIES
    EventuallyDelivered
