-------------------------------- MODULE MCCall --------------------------------
(***************************************************************************)
(* Instances of CallSupervisor: which devices there are, and whose.        *)
(***************************************************************************)
EXTENDS CallProperties, TLC

CONSTANTS a1, b1, b2, Alice, Bob

\* One device each.
PairAccountOf == a1 :> Alice @@ b1 :> Bob
PairContacts  == a1 :> {Bob} @@ b1 :> {Alice}

\* Bob has two linked devices.
LinkedAccountOf == a1 :> Alice @@ b1 :> Bob @@ b2 :> Bob
LinkedContacts  == a1 :> {Bob} @@ b1 :> {Alice} @@ b2 :> {Alice}

\* Of Bob's devices, only one knows Alice's approval so far.
HalfLinkedContacts == a1 :> {Bob} @@ b1 :> {Alice} @@ b2 :> {}

\* Bound: what may be under way at once.  Messages for a call that is over stay in
\* the swarm, so without it the runs explore mostly what nobody will ever read.
CONSTANTS MaxInFlight
InFlight == Cardinality(net) + Cardinality(jobs) <= MaxInFlight

\* Bound: nobody approves himself, which nothing asks for.
OthersApproved == \A d \in Device : AccountOf[d] \notin approved[d]

\* Bound: behaviours with two calls are plain ones, without second contexts and
\* without the user leaving a call or a listener that throws; all of that happens to
\* a single call.
TwoCallsPlain ==
    call[MaxCalls].from # None /\ MaxCalls > 1 =>
        /\ \A d \in Device : /\ ~disposed[d]
                             /\ \A u \in Uuid : made[d][u] <= 1 /\ <<u, "ignored">> \notin missed[d]
        /\ \A j \in jobs : j.reason = None
        /\ \A c \in Context : /\ ctx[c].reason \notin {"local-hangup", "error"}
                              /\ ctx[c].reason = "remote-declined" => DirectionOf(c) = "outbound"

\* Bound: dispose() comes before the media first flaps, or not at all; with sends that
\* may fail, one device disposes, and less is under way.
DisposeOrFlap ==
    (\E d \in Device : disposed[d]) => \A c \in Context : ctx[c].ice # "disconnected"
OneDisposes ==
    (\E d \in Device : disposed[d]) => /\ \E d \in Device : ~disposed[d]
                                       /\ Cardinality(net) + Cardinality(jobs) < MaxInFlight

\* Bound: once a device has disposed, the other one does not, nor has it hung up.
OthersStay ==
    (\E d \in Device : disposed[d]) =>
        /\ \E d \in Device : ~disposed[d]
        /\ \A c \in Context : ctx[c].reason = "local-hangup" => disposed[c[1]]
=============================================================================
