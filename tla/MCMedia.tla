-------------------------------- MODULE MCMedia --------------------------------
(***************************************************************************)
(* Instances of CallMedia.  Each load lets a few kinds of things happen:   *)
(* together they would multiply, and they meet in the session only.        *)
(***************************************************************************)
EXTENDS MediaProperties

Sessions   == End \X (1..MaxContexts)
Candidates == End \X (1..3)
AllButOne  == Candidates \ {<<"caller", 1>>}
TurnHosts  == <<"freyr", "angus", "hereford">>

L(kind, pt) == [kind |-> kind, pt |-> pt, cbr |-> FALSE]
Lines == {L("rtpmap", 1), L("fmtp", 1), L("fmtp", 2), L("level", 0)}
Descriptions == UNION {[1..n -> Lines] : n \in 0..3}

Load(caller, callee) ==
    [caller |-> [k \in LoadKinds |-> IF k \in DOMAIN caller THEN caller[k] ELSE 0],
     callee |-> [k \in LoadKinds |-> IF k \in DOMAIN callee THEN callee[k] ELSE 0]]
Nothing == [frames |-> 0]

MediaLoads ==
    {\* Candidates of one end, with a user who leaves or a send or negotiation that fails.
     Load([candidates |-> 1, ends |-> 1], Nothing),
     Load([candidates |-> 3, failures |-> 1], Nothing),
     Load(Nothing, [candidates |-> 1, ends |-> 1]),
     Load(Nothing, [candidates |-> 1, failures |-> 1]),
     \* A connection that comes and goes, with audio or with a hangup over its channel.
     Load(Nothing, [frames |-> 3, events |-> 1]),
     Load([frames |-> 1, events |-> 3], Nothing),
     Load([events |-> 1, ends |-> 1], [events |-> 1]),
     \* Incoming audio; the ways to set a session up.
     Load([packets |-> 4], Nothing),
     Load([picks |-> 1], Nothing),
     Load([sdps |-> 1], Nothing)}
=============================================================================
