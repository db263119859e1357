SPECIFICATION Spec
CONSTANTS
    a1 = a1  a2 = a2  b1 = b1
    Alice = Alice  Bob = Bob
    s1 = s1  s2 = s2
    n1 = n1  n2 = n2  n3 = n3
    Undefined = Undefined
    Device = {a1, a2, b1}
    Account = {Alice, Bob}
    AccountOf <- Owner
    Snode = {s1, s2}
    Node = {n1, n2, n3}
    Swarm <- Swarms0
    MaxRetries = 2
    Loads <- AllLoads
INVARIANTS
    TypeOK
    SentInOrder
    MisdirectedOnce
    EventsAreTrue
    AvatarLossHasACause
CHECK_DEADLOCK FALSE
