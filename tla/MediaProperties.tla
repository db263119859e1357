---------------------------- MODULE MediaProperties ----------------------------
(***************************************************************************)
(* What the media half of a call promises, stated over CallMedia.          *)
(***************************************************************************)
EXTENDS CallMedia, Filter

Increasing(q) == \A i \in 1..(Len(q) - 1) : q[i] < q[i + 1]

Passes(c) == RelayOnly => c \in Relayed

----------------------------------------------------------------------------
(* Trickle ICE.                                                            *)

\* No candidates are stored for a peer before the OFFER or ANSWER they belong to,
\* however gathering, the batch timer and the sends interleave (the gate of
\* TrickleIceSender, armed by the "signaling" trace).
DescriptionFirst ==
    \A e \in End : \A i \in DOMAIN swarm[e] :
        swarm[e][i].type = "ICE_CANDIDATES" =>
            \E j \in 1..(i - 1) : swarm[e][j].type \in {"OFFER", "ANSWER"}

\* While a session is wired to the sender, each candidate it gathered was sent, is in
\* the batch or is parked, in the order of gathering: arming loses and reorders nothing.
CandidatesKept ==
    \A s \in Session :
        media[s].wired /\ sender[s[1]].listed =>
            sender[s[1]].sent \o sender[s[1]].queue \o sender[s[1]].parked
                = Filtered(gathered[s], {c \in Candidate : Passes(c)})

Batches == {m \in Message : m.type = "ICE_CANDIDATES"}

\* Every candidate that reached the first context of an end was given to werift or
\* waits for it, in the order it came in: what the supervisor keeps before there is a
\* media session and what that keeps before the remote description add up.
NoCandidateDropped ==
    \A e \in End :
        contexts[e] = 1 =>
            LET s == <<e, 1>>
                batches == Filtered(SubSeq(swarm[e], 1, read[e]), Batches)
            IN  media[s].injected \o media[s].parked
                    \o (IF media[s].made THEN <<>> ELSE ctx[s].waiting)
                  = FlattenSeq([i \in DOMAIN batches |-> batches[i].cands])

\* feed(): before arm() a candidate "is parked (NOT dropped) so early gather results still
\* ship once the local description exists" (signaling.ts:166-168).  So once the OFFER or
\* ANSWER of a call that goes on is out, no candidate its session gathered is held back.
\* The code keeps it for the first context of an end only: onNewContext makes no sender
\* and arms none for a uuid that has had a handle.
EarlyGatherShips ==
    \A s \in Session : \A i \in DOMAIN gathered[s] :
        LET c == gathered[s][i]
        IN  /\ Passes(c) /\ media[s].described
            /\ contexts[s[1]] = s[2] /\ ctx[s].phase = "setup"
            /\ \A x \in sends : x.ctx = s => x.msg.type \notin {"OFFER", "ANSWER"}
            => c \in Range(sender[s[1]].sent) \cup Range(sender[s[1]].queue)

\* After "ended" or dispose() the sender sends nothing more, whatever was queued and
\* whichever timer was running.
SilentOnceEnded ==
    [][\A e \in End : calls[e] # 0 /\ ~sender[e].listed => sender'[e].sent = sender[e].sent]_vars

----------------------------------------------------------------------------
(* Media.                                                                  *)

\* Sequence numbers of the packets written follow each other, across drains, closed
\* gates and the wrap; frames are never written twice or out of order; while the session
\* is open each was written, waits, or was counted as dropped.
FramesInOrder ==
    \A s \in Session :
        LET a == audio[s]
        IN  /\ \A i \in DOMAIN a.rtp : a.rtp[i].seq = (FirstSeq + i - 1) % SeqModulus
            /\ Increasing([i \in DOMAIN a.rtp |-> a.rtp[i].frame] \o a.queue)
            /\ Open(s) => Len(a.rtp) + Len(a.queue) + a.droppedFrames = a.frames

\* Nothing is written before DTLS is done, when werift drops it silently
\* (peer-connection.ts:425-431), though the gate has two keys.
SecureBeforeRtp == \A s \in Session : \A i \in DOMAIN audio[s].rtp : audio[s].rtp[i].secure

\* A frame heard has FrameSamples samples of a single track, in their order.
FramesOfOneTrack ==
    \A s \in Session : \A k \in DOMAIN audio[s].heard :
        LET frame == audio[s].heard[k]
        IN  /\ Len(frame) = FrameSamples
            /\ \A i \in 1..(Len(frame) - 1) : /\ frame[i][1] = frame[i + 1][1]
                                              /\ frame[i][2] < frame[i + 1][2]

\* The munged description asks for a constant bit rate wherever there is Opus, has no
\* audio level, is otherwise what werift made, and munging it again changes nothing;
\* the session is given two different TURN servers that werift can parse.
SetUpRight ==
    \A s \in Session :
        LET raw == setup[s].raw
            sdp == setup[s].sdp
            Forced(l) == l.kind = "fmtp" /\ l.pt \in OpusPts(raw)
            others    == {l \in Line : ~Forced(l) /\ l.kind # "level"}
            two == setup[s].servers
        IN  /\ Filtered(sdp, others) = Filtered(raw, others)
            /\ \A i \in DOMAIN sdp : /\ sdp[i].kind # "level"
                                     /\ Forced(sdp[i]) => sdp[i].cbr
            /\ \A pt \in OpusPts(raw) : \E i \in DOMAIN sdp : Forced(sdp[i]) /\ sdp[i].pt = pt
            /\ MungeLocalSdp(sdp) = sdp
            /\ media[s].made => Len(two) = 2 /\ two[1].host # two[2].host /\ two[1].port /\ two[2].port

----------------------------------------------------------------------------
(* Liveness.                                                               *)

Over == \E s \in Session : ctx[s].phase \in {"leaving", "over"}

\* Once the call was accepted, every candidate an end has gathered is in the end with the
\* other end's ICE agent, unless its batch was rejected or the call is over.
CandidatesArrive ==
    ctx[<<"callee", 1>>].phase = "setup" ~>
        [](Over \/ \A e \in End : \A i \in DOMAIN gathered[<<e, 1>>] :
                      LET c == gathered[<<e, 1>>][i]
                      IN  Passes(c) => c \in sender[e].lost \cup Range(media[<<Far(e), 1>>].injected))

\* Queued audio is written once ICE and DTLS are up, also where werift never reports the
\* whole connection "connected", as long as ICE has not been disconnected before.
AudioFlows ==
    []<>(\A s \in Session :
            Open(s) /\ link[s].told = "connected" /\ link[s].secure /\ ~link[s].flapped
                => audio[s].queue = <<>>)
=============================================================================
