----------------------------- MODULE MediaSession -----------------------------
(***************************************************************************)
(* Media sessions: WeriftMediaSession (media/peer-connection.ts) and its   *)
(* AudioBridge (media/audio-bridge.ts).                                    *)
(*                                                                         *)
(* werift is external: it reports changes of its ICE state, of the whole   *)
(* connection's state and of the data channel, receives tracks and RTP.    *)
(* DTLS completes some time after ICE connects; RTP that is written before *)
(* is lost.  On the answering side werift may never report the state       *)
(* "connected" of the whole connection.                                    *)
(*                                                                         *)
(* Candidates and frames are numbered.  Decoded audio is a sequence of     *)
(* samples, <<track, place>>.  An RTP timestamp moves with the sequence    *)
(* number, by one frame a packet, and is left out.                         *)
(***************************************************************************)
EXTENDS Naturals, Sequences

CONSTANTS
    Session,          \* WeriftMediaSession objects
    Candidate,        \* ICE candidates
    FrameSamples,     \* FRAME_SAMPLES, 960
    MaxQueuedFrames,  \* maxQueuedFrames, 50
    SeqModulus,       \* sequence numbers of RTP, 2^16
    FirstSeq          \* where those of a session start, random in the code

None == "none"

ASSUME BridgeAssumption == /\ FrameSamples \in Nat \ {0}
                           /\ MaxQueuedFrames \in Nat \ {0}
                           /\ SeqModulus \in Nat \ {0}
                           /\ FirstSeq \in 0..(SeqModulus - 1)

VARIABLES
    media,   \* negotiation and candidates of each session
    link,    \* the connection, as werift has it and as the session tells of it
    audio    \* the AudioBridge of each session

sessionVars == <<media, link, audio>>

----------------------------------------------------------------------------
IceState     == {"new", "checking", "connected", "completed", "disconnected", "failed", "closed"}
ContractState == {"connecting", "connected", "disconnected", "failed"}

\* wired: a TrickleIceSender listens to the candidates; parked: pendingRemoteCandidates;
\* injected: what werift was given, in that order.
MediaType == [made : BOOLEAN, closed : BOOLEAN, wired : BOOLEAN,
              described : BOOLEAN, remote : BOOLEAN,
              parked : Seq(Candidate), injected : Seq(Candidate)]

\* ice, secure, reported: werift's ICE state, whether DTLS is done, and the state of the
\* whole connection it reported last; told: lastEmittedState; flapped: whether ICE was ever
\* disconnected; hint: the hangup message, which waits in pendingDcMessages until the
\* channel opens.
LinkType == [ice : IceState, secure : BOOLEAN, told : ContractState \cup {None},
             flapped : BOOLEAN, reported : {"new", "connected", "disconnected", "failed"},
             channel : {"connecting", "open"}, hint : {"none", "waiting", "sent"}]

\* frames: how many writeAudio() was called with; due: drainScheduled; rtp: the packets
\* written, and whether DTLS was done; heard: the frames delivered to the application.
AudioType == [ready : BOOLEAN, due : BOOLEAN, queue : Seq(Nat), frames : Nat,
              droppedFrames : Nat, seq : 0..(SeqModulus - 1),
              rtp : Seq([seq : 0..(SeqModulus - 1), frame : Nat, secure : BOOLEAN]),
              track : Nat, samples : Nat, residue : Seq(Nat \X Nat),
              heard : Seq(Seq(Nat \X Nat))]

NewMedia == [made |-> FALSE, closed |-> FALSE, wired |-> FALSE, described |-> FALSE,
             remote |-> FALSE, parked |-> <<>>, injected |-> <<>>]
NewLink  == [ice |-> "new", secure |-> FALSE, told |-> None, flapped |-> FALSE, reported |-> "new",
             channel |-> "connecting", hint |-> "none"]
NewAudio == [ready |-> FALSE, due |-> FALSE, queue |-> <<>>, frames |-> 0,
             droppedFrames |-> 0, seq |-> FirstSeq, rtp |-> <<>>, track |-> 0,
             samples |-> 0, residue |-> <<>>, heard |-> <<>>]

SessionsInit == /\ media = [s \in Session |-> NewMedia]
                /\ link  = [s \in Session |-> NewLink]
                /\ audio = [s \in Session |-> NewAudio]

Open(s) == media[s].made /\ ~media[s].closed

\* A microtask runs before the next event is handled.
Calm(s) == ~audio[s].due

----------------------------------------------------------------------------
(* Negotiation: candidates wait for the remote description.                *)

\* Mutant: a candidate passes those that are still parked.
AddRemoteParkedLast(m, cs) ==
    IF m.closed THEN m
    ELSE IF m.parked # <<>> \/ m.remote THEN [m EXCEPT !.injected = m.injected \o cs]
    ELSE [m EXCEPT !.parked = m.parked \o cs]

AddRemoteCandidates(m, cs) ==
    IF m.closed THEN m
    ELSE IF m.remote THEN [m EXCEPT !.injected = m.injected \o cs]
    ELSE [m EXCEPT !.parked = m.parked \o cs]

\* Mutant: what waited for the description is forgotten.
RemoteDescribedForgetful(m) == [m EXCEPT !.remote = TRUE, !.parked = <<>>]

\* onRemoteDescriptionSet, which follows an await that close() may have overtaken.
RemoteDescribed(m) == [m EXCEPT !.remote = TRUE, !.parked = <<>>,
                                !.injected = m.injected \o m.parked]

\* close(), of the session and of its bridge: subscriptions end and buffers empty.
Closed(m)      == [m EXCEPT !.closed = TRUE, !.wired = FALSE, !.parked = <<>>]
ClosedBridge(a) == [a EXCEPT !.queue = <<>>, !.residue = <<>>]

----------------------------------------------------------------------------
(* The connection.                                                         *)

Mapped(ice) == CASE ice \in {"connected", "completed"} -> "connected"
                 [] ice = "disconnected"               -> "disconnected"
                 [] ice \in {"failed", "closed"}       -> "failed"
                 [] OTHER                              -> "connecting"

\* What is told after an ICE state: a flap back to checking is not a downgrade.
Told(told, ice) == IF told = "connected" /\ Mapped(ice) = "connecting" THEN told ELSE Mapped(ice)

SenderReady(a, ready) == [a EXCEPT !.ready = ready, !.due = a.due \/ (ready /\ a.queue # <<>>)]

IceStateChanges(s, ice) ==
    /\ Open(s) /\ Calm(s)
    /\ link[s].ice # ice
    /\ link' = [link EXCEPT ![s].ice = ice, ![s].told = Told(link[s].told, ice),
                            ![s].flapped = link[s].flapped \/ ice = "disconnected"]
    /\ UNCHANGED <<media, audio>>

IceUp(s) == link[s].ice \in {"connected", "completed"}

\* External: the DTLS handshake over a connected pair.
DtlsCompletes(s) ==
    /\ Open(s) /\ Calm(s)
    /\ IceUp(s) /\ ~link[s].secure
    /\ link' = [link EXCEPT ![s].secure = TRUE]
    /\ UNCHANGED <<media, audio>>

\* connectionStateChange: ICE and DTLS together.
ConnectionStateChanges(s, state) ==
    /\ Open(s) /\ Calm(s)
    /\ link[s].reported # state
    /\ \/ state = "connected" /\ IceUp(s) /\ link[s].secure
       \/ state = "disconnected" /\ link[s].ice = "disconnected"
       \/ state = "failed" /\ link[s].ice \in {"failed", "closed"}
    /\ link' = [link EXCEPT ![s].reported = state]
    /\ audio' = [audio EXCEPT ![s] = SenderReady(audio[s], state = "connected")]
    /\ UNCHANGED media

\* Mutant: the gate of the answering side stays shut.
OnChannelFlushed(a, told) == a

\* The fallback gate: an open data channel proves that DTLS is done.
OnChannelOpen(a, told) == IF told = "connected" THEN SenderReady(a, TRUE) ELSE a

ChannelOpens(s) ==
    /\ Open(s) /\ Calm(s)
    /\ link[s].secure /\ link[s].channel = "connecting"
    /\ IceUp(s) \/ link[s].ice = "checking"
    /\ link' = [link EXCEPT ![s].channel = "open",
                            ![s].hint = IF link[s].hint = "waiting" THEN "sent" ELSE link[s].hint]
    /\ audio' = [audio EXCEPT ![s] = OnChannelOpen(audio[s], link[s].told)]
    /\ UNCHANGED media

\* sendDataChannelMessage, which only a hangup calls.
HangupHint(s) == IF ~Open(s) THEN link[s]
                 ELSE [link[s] EXCEPT !.hint = IF link[s].channel = "open" THEN "sent" ELSE "waiting"]

----------------------------------------------------------------------------
(* Outgoing audio.                                                         *)

\* writeAudio: false, and the frame is dropped, when the queue is full.
Accepted(a) ==
    IF Len(a.queue) >= MaxQueuedFrames
    THEN [a EXCEPT !.frames = a.frames + 1, !.droppedFrames = a.droppedFrames + 1]
    ELSE [a EXCEPT !.frames = a.frames + 1, !.queue = Append(a.queue, a.frames + 1), !.due = TRUE]

WriteAudio(s) ==
    /\ Open(s)
    /\ audio' = [audio EXCEPT ![s] = Accepted(audio[s])]
    /\ UNCHANGED <<media, link>>

\* Mutant: every drain numbers its packets from the start.
PacketsRenumbered(a, secure) ==
    [i \in DOMAIN a.queue |->
        [seq |-> (FirstSeq + i - 1) % SeqModulus, frame |-> a.queue[i], secure |-> secure]]

\* Mutant: sequence numbers do not wrap.
PacketsUnwrapped(a, secure) ==
    [i \in DOMAIN a.queue |-> [seq |-> a.seq + i - 1, frame |-> a.queue[i], secure |-> secure]]

Packets(a, secure) ==
    [i \in DOMAIN a.queue |->
        [seq |-> (a.seq + i - 1) % SeqModulus, frame |-> a.queue[i], secure |-> secure]]

\* Mutant: frames that came too early are written too.
DrainedUngated(a, secure) ==
    [a EXCEPT !.due = FALSE, !.queue = <<>>, !.rtp = a.rtp \o Packets(a, secure),
              !.seq = (a.seq + Len(a.queue)) % SeqModulus]

Drained(a, secure) ==
    IF ~a.ready THEN [a EXCEPT !.due = FALSE]
    ELSE [a EXCEPT !.due = FALSE, !.queue = <<>>, !.rtp = a.rtp \o Packets(a, secure),
                   !.seq = (a.seq + Len(a.queue)) % SeqModulus]

\* The microtask that scheduleDrain() queued; close() has emptied the queue.
Drain(s) ==
    /\ audio[s].due
    /\ audio' = [audio EXCEPT ![s] = IF media[s].closed THEN [audio[s] EXCEPT !.due = FALSE]
                                     ELSE Drained(audio[s], link[s].secure)]
    /\ UNCHANGED <<media, link>>

----------------------------------------------------------------------------
(* Incoming audio.                                                         *)

\* Mutant: what was left of the last track begins the first frame of the next.
AttachedGlued(a) == [a EXCEPT !.track = a.track + 1, !.samples = 0]

Attached(a) == [a EXCEPT !.track = a.track + 1, !.samples = 0, !.residue = <<>>]

AttachRemoteTrack(s) ==
    /\ Open(s) /\ Calm(s)
    /\ audio' = [audio EXCEPT ![s] = Attached(audio[s])]
    /\ UNCHANGED <<media, link>>

\* deliver: frames of exactly FrameSamples, and the rest kept for the next packet.
Rechunked(a, n) ==
    LET input  == a.residue \o [i \in 1..n |-> <<a.track, a.samples + i>>]
        frames == Len(input) \div FrameSamples
    IN  [a EXCEPT !.samples = a.samples + n,
                  !.residue = SubSeq(input, frames * FrameSamples + 1, Len(input)),
                  !.heard = a.heard \o [k \in 1..frames |->
                              SubSeq(input, (k - 1) * FrameSamples + 1, k * FrameSamples)]]

\* A packet of n samples, or one the codec cannot decode, which is dropped.
ReceiveRtp(s, n) ==
    /\ Open(s) /\ Calm(s)
    /\ audio[s].track > 0
    /\ \E decoded \in BOOLEAN :
         audio' = [audio EXCEPT ![s] = IF decoded THEN Rechunked(audio[s], n)
                                       ELSE [audio[s] EXCEPT !.samples = audio[s].samples + n]]
    /\ UNCHANGED <<media, link>>
=============================================================================
