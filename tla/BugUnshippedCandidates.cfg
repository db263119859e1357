SPECIFICATION Spec
CONSTANTS
    MaxContexts = 2
    Session <- Sessions
    Candidate <- Candidates
    FrameSamples = 2
    MaxQueuedFrames = 2
    SeqModulus = 65536
    FirstSeq = 65534
    RelayOnly = TRUE
    Relayed <- AllButOne
    Hosts <- TurnHosts
    Sdps <- Descriptions
    Loads <- MediaLoads
INVARIANTS
    EarlyGatherShips
CHECK_DEADLOCK FALSE
