------------------------------ MODULE MediaProofs ------------------------------
(***************************************************************************)
(* Theorems about the media half of a call: the types of CallMedia, the    *)
(* RTP gate, the contract with the supervisor and the trickle-ICE sender.  *)
(***************************************************************************)
EXTENDS MediaProperties, SequenceTheorems, TLAPS

----------------------------------------------------------------------------
(* The types of what the operators of MediaSession return.                 *)

LEMMA ClosedType ==
    ASSUME NEW m \in MediaType
    PROVE  Closed(m) \in MediaType
<1>1. <<>> \in Seq(Candidate)
  OBVIOUS
<1> QED
  BY <1>1 DEF Closed, MediaType

LEMMA AddRemoteType ==
    ASSUME NEW m \in MediaType, NEW cs \in Seq(Candidate)
    PROVE  AddRemoteCandidates(m, cs) \in MediaType
<1>1. m.injected \o cs \in Seq(Candidate) /\ m.parked \o cs \in Seq(Candidate)
  BY DEF MediaType
<1> QED
  BY <1>1 DEF AddRemoteCandidates, MediaType

LEMMA RemoteDescribedType ==
    ASSUME NEW m \in MediaType
    PROVE  RemoteDescribed(m) \in MediaType
<1>1. m.injected \o m.parked \in Seq(Candidate) /\ <<>> \in Seq(Candidate)
  BY DEF MediaType
<1> QED
  BY <1>1 DEF RemoteDescribed, MediaType

LEMMA ClosedBridgeType ==
    ASSUME NEW a \in AudioType
    PROVE  ClosedBridge(a) \in AudioType
<1>1. <<>> \in Seq(Nat) /\ <<>> \in Seq(Nat \X Nat)
  OBVIOUS
<1> QED
  BY <1>1 DEF ClosedBridge, AudioType

LEMMA SenderReadyType ==
    ASSUME NEW a \in AudioType, NEW ready \in BOOLEAN
    PROVE  SenderReady(a, ready) \in AudioType
BY DEF SenderReady, AudioType

LEMMA AcceptedType ==
    ASSUME NEW a \in AudioType
    PROVE  Accepted(a) \in AudioType
<1>1. a.frames + 1 \in Nat /\ a.droppedFrames + 1 \in Nat
  BY DEF AudioType
<1>2. Append(a.queue, a.frames + 1) \in Seq(Nat)
  BY <1>1 DEF AudioType
<1> QED
  BY <1>1, <1>2 DEF Accepted, AudioType

LEMMA SeqWraps ==
    ASSUME NEW n \in Nat
    PROVE  n % SeqModulus \in 0..(SeqModulus - 1)
BY BridgeAssumption

Packet == [seq : 0..(SeqModulus - 1), frame : Nat, secure : BOOLEAN]

LEMMA PacketsType ==
    ASSUME NEW a \in AudioType, NEW secure \in BOOLEAN
    PROVE  Packets(a, secure) \in Seq(Packet)
<1>1. a.queue \in Seq(Nat) /\ a.seq \in Nat
  BY BridgeAssumption DEF AudioType
<1>2. DOMAIN a.queue = 1..Len(a.queue) /\ Len(a.queue) \in Nat
  BY <1>1
<1>3. ASSUME NEW i \in DOMAIN a.queue
      PROVE  [seq |-> (a.seq + i - 1) % SeqModulus, frame |-> a.queue[i], secure |-> secure] \in Packet
  <2>1. a.seq + i - 1 \in Nat /\ a.queue[i] \in Nat
    BY <1>1, <1>2
  <2> QED
    BY <2>1, SeqWraps DEF Packet
<1> QED
  BY <1>2, <1>3 DEF Packets

LEMMA DrainedType ==
    ASSUME NEW a \in AudioType, NEW secure \in BOOLEAN
    PROVE  Drained(a, secure) \in AudioType
<1> DEFINE rtp == a.rtp \o Packets(a, secure)
           seq == (a.seq + Len(a.queue)) % SeqModulus
<1>1. rtp \in Seq(Packet)
  <2>1. a.rtp \in Seq(Packet)
    BY DEF AudioType, Packet
  <2> QED
    BY <2>1, PacketsType
<1>2. seq \in 0..(SeqModulus - 1)
  <2>1. a.seq + Len(a.queue) \in Nat
    BY BridgeAssumption DEF AudioType
  <2> QED
    BY <2>1, SeqWraps
<1> HIDE DEF rtp, seq
<1>3. <<>> \in Seq(Nat)
  OBVIOUS
<1>4. Drained(a, secure) = IF ~a.ready THEN [a EXCEPT !.due = FALSE]
                           ELSE [a EXCEPT !.due = FALSE, !.queue = <<>>, !.rtp = rtp, !.seq = seq]
  BY DEF Drained, rtp, seq
<1> QED
  BY <1>1, <1>2, <1>3, <1>4, ZenonT(60) DEF AudioType, Packet

LEMMA AttachedType ==
    ASSUME NEW a \in AudioType
    PROVE  Attached(a) \in AudioType
<1>1. <<>> \in Seq(Nat) /\ <<>> \in Seq(Nat \X Nat)
  OBVIOUS
<1>2. a.track + 1 \in Nat
  BY DEF AudioType
<1> QED
  BY <1>1, <1>2 DEF Attached, AudioType

\* What the whole frames of some samples take.
LEMMA DivBound ==
    ASSUME NEW n \in Nat
    PROVE  n \div FrameSamples \in Nat /\ (n \div FrameSamples) * FrameSamples <= n
BY BridgeAssumption

LEMMA ChunkBounds ==
    ASSUME NEW n \in Nat, NEW m \in Nat, m * FrameSamples <= n, NEW k \in 1..m
    PROVE  (k - 1) * FrameSamples + 1 \in 1..(n + 1) /\ k * FrameSamples \in 0..n
<1> DEFINE lo   == (k - 1) * FrameSamples
           hi   == k * FrameSamples
           all  == m * FrameSamples
           after == (m - k) * FrameSamples
<1>1. FrameSamples \in Nat /\ FrameSamples >= 1 /\ k - 1 \in Nat /\ m - k \in Nat
  BY BridgeAssumption
<1>2. lo \in Nat /\ hi \in Nat /\ all \in Nat /\ after \in Nat
  BY <1>1
<1>3. lo = hi - FrameSamples /\ after = all - hi
  BY <1>1
<1>4. all <= n
  OBVIOUS
<1> HIDE DEF lo, hi, all, after
<1>5. lo + 1 \in 1..(n + 1) /\ hi \in 0..n
  BY <1>1, <1>2, <1>3, <1>4
<1> QED
  BY <1>5 DEF lo, hi

LEMMA RechunkedType ==
    ASSUME NEW a \in AudioType, NEW n \in Nat
    PROVE  Rechunked(a, n) \in AudioType
<1> DEFINE Sample == Nat \X Nat
           new    == [i \in 1..n |-> <<a.track, a.samples + i>>]
           input  == a.residue \o new
           frames == Len(input) \div FrameSamples
           rest   == SubSeq(input, frames * FrameSamples + 1, Len(input))
           chunk  == [k \in 1..frames |->
                         SubSeq(input, (k - 1) * FrameSamples + 1, k * FrameSamples)]
<1>1. new \in Seq(Sample)
  <2>1. \A i \in 1..n : <<a.track, a.samples + i>> \in Sample
    BY DEF AudioType
  <2> QED
    BY <2>1
<1>2. input \in Seq(Sample) /\ Len(input) \in Nat
  BY <1>1 DEF AudioType
<1> HIDE DEF new, input
<1>3. frames \in Nat /\ frames * FrameSamples <= Len(input)
  BY <1>2, DivBound
<1> HIDE DEF frames
<1>4. \A k \in 1..frames : (k - 1) * FrameSamples + 1 \in 1..(Len(input) + 1)
                           /\ k * FrameSamples \in 0..Len(input)
  BY <1>2, <1>3, ChunkBounds
<1>5. rest \in Seq(Sample)
  <2>1. frames * FrameSamples + 1 \in 1..(Len(input) + 1)
    BY <1>2, <1>3, BridgeAssumption
  <2> QED
    BY <1>2, <2>1, SubSeqProperties
<1>6. chunk \in Seq(Seq(Sample))
  <2>1. \A k \in 1..frames :
           SubSeq(input, (k - 1) * FrameSamples + 1, k * FrameSamples) \in Seq(Sample)
    BY <1>2, <1>4, SubSeqProperties
  <2> QED
    BY <1>3, <2>1
<1> HIDE DEF rest, chunk
<1>7. a.heard \o chunk \in Seq(Seq(Sample)) /\ a.samples + n \in Nat
  BY <1>6 DEF AudioType
<1>8. Rechunked(a, n) = [a EXCEPT !.samples = a.samples + n, !.residue = rest,
                                  !.heard = a.heard \o chunk]
  BY DEF Rechunked, rest, chunk, frames, input, new
<1> QED
  BY <1>5, <1>7, <1>8 DEF AudioType

LEMMA OnChannelOpenType ==
    ASSUME NEW a \in AudioType, NEW told
    PROVE  OnChannelOpen(a, told) \in AudioType
BY SenderReadyType DEF OnChannelOpen

LEMMA ToldType ==
    ASSUME NEW told \in ContractState \cup {None}, NEW ice \in IceState
    PROVE  Mapped(ice) \in ContractState /\ Told(told, ice) \in ContractState
BY DEF Told, Mapped, ContractState, IceState

----------------------------------------------------------------------------
(* The types of what the operators of CallMedia return.                    *)

LEMMA DisposedType ==
    ASSUME NEW r \in Sender
    PROVE  Disposed(r) \in Sender
<1>1. <<>> \in Seq(Candidate)
  OBVIOUS
<1> QED
  BY <1>1 DEF Disposed, Sender

LEMMA ArmedType ==
    ASSUME NEW r \in Sender
    PROVE  Armed(r) \in Sender
<1>1. <<>> \in Seq(Candidate) /\ r.queue \o r.parked \in Seq(Candidate)
  BY DEF Sender
<1> QED
  BY <1>1 DEF Armed, Sender

LEMMA FedType ==
    ASSUME NEW r \in Sender, NEW c \in Candidate
    PROVE  Fed(r, c) \in Sender
<1>1. Append(r.queue, c) \in Seq(Candidate) /\ Append(r.parked, c) \in Seq(Candidate)
  BY DEF Sender
<1> QED
  BY <1>1 DEF Fed, Enqueued, Sender

\* Whose candidates these are: each end numbers its own.
Numbered == \A e \in End : \A n \in 1..left[e]["candidates"] : <<e, n>> \in Candidate

SessionTypes == /\ media \in [Session -> MediaType]
                /\ link \in [Session -> LinkType]
                /\ audio \in [Session -> AudioType]

ContextTypes == /\ contexts \in [End -> 0..MaxContexts] /\ made \in [End -> 0..MaxContexts]
                /\ ctx \in [Session -> [phase : Phase, waiting : Seq(Candidate)]]
                /\ calls \in [End -> 0..MaxContexts]
                /\ awaits \subseteq Session \X {"describe", "remote"}
                /\ disposed \in [End -> BOOLEAN]

SenderType == sender \in [End -> Sender]

PostTypes == /\ sends \subseteq Send
             /\ swarm \in [End -> Seq(Message)]
             /\ \A e \in End : read[e] \in 0..Len(swarm[e])

LoadTypes == /\ gathered \in [Session -> Seq(Candidate)]
             /\ left \in [End -> [LoadKinds -> Nat]]
             /\ Numbered

\* Without a handle there is no sender at work.
UnusedSender == \A e \in End :
    calls[e] = 0 => ~sender[e].listed /\ ~sender[e].timer /\ ~sender[e].armed

\* read must be a function for the proofs to follow its EXCEPTs.
Types == /\ SessionTypes /\ ContextTypes /\ SenderType /\ PostTypes /\ LoadTypes
         /\ UnusedSender
         /\ DOMAIN read = End

LEMMA TypesGiveTypeOK == Types => TypeOK
BY DEF Types, TypeOK, SessionTypes, ContextTypes, SenderType, PostTypes, LoadTypes

LEMMA SessionIsPair ==
    ASSUME NEW s \in Session
    PROVE  s[1] \in End /\ s[2] \in 1..MaxContexts /\ s = <<s[1], s[2]>>
BY CallMediaAssumption

LEMMA NumberedSession ==
    ASSUME NEW e \in End, NEW n \in 1..MaxContexts
    PROVE  <<e, n>> \in Session
BY CallMediaAssumption

\* What no action but the loads' own disturbs.
LEMMA UsesLoads ==
    ASSUME LoadTypes, NEW e \in End, NEW kind \in LoadKinds, Uses(e, kind)
    PROVE  left' \in [End -> [LoadKinds -> Nat]] /\ Numbered'
<1>1. left[e][kind] - 1 \in Nat
  BY DEF LoadTypes, Uses
<1>2. left' \in [End -> [LoadKinds -> Nat]]
  BY <1>1 DEF LoadTypes, Uses
<1>3. ASSUME NEW f \in End PROVE left'[f]["candidates"] <= left[f]["candidates"]
  <2>1. left[f]["candidates"] \in Nat
    BY DEF LoadTypes, LoadKinds
  <2>2. CASE f = e /\ kind = "candidates"
    <3>1. left'[f]["candidates"] = left[f]["candidates"] - 1
      BY <2>2 DEF LoadTypes, Uses
    <3> QED
      BY <3>1, <2>1
  <2>3. CASE f # e \/ kind # "candidates"
    <3>1. left'[f]["candidates"] = left[f]["candidates"]
      BY <2>3 DEF LoadTypes, Uses
    <3> QED
      BY <3>1, <2>1
  <2> QED
    BY <2>2, <2>3
<1>4. \A f \in End : left[f]["candidates"] \in Nat /\ left'[f]["candidates"] \in Nat
  BY <1>2 DEF LoadTypes, LoadKinds
<1>5. ASSUME NEW f \in End, NEW n \in 1..left'[f]["candidates"] PROVE <<f, n>> \in Candidate
  <2>1. n \in 1..left[f]["candidates"]
    BY <1>3, <1>4
  <2> QED
    BY <2>1 DEF LoadTypes, Numbered
<1> QED
  BY <1>2, <1>5 DEF Numbered

LEMMA UsesTypes ==
    ASSUME LoadTypes, NEW e \in End, NEW kind \in LoadKinds, Uses(e, kind),
           gathered' = gathered
    PROVE  LoadTypes'
BY UsesLoads DEF LoadTypes

LEMMA StartsType ==
    ASSUME NEW s \in Session, NEW type \in Type, NEW ends \in BOOLEAN
    PROVE  Starts(s, type, ends) \in Send
<1>1. <<>> \in Seq(Candidate)
  OBVIOUS
<1> QED
  BY <1>1 DEF Starts, Send, Message

LEMMA EndCallTypes ==
    ASSUME Types, NEW s \in Session, EndCall(s)
    PROVE  /\ sender' \in [End -> Sender]
           /\ contexts' \in [End -> 0..MaxContexts]
           /\ ctx' \in [Session -> [phase : Phase, waiting : Seq(Candidate)]]
           /\ media' \in [Session -> MediaType]
           /\ audio' \in [Session -> AudioType]
           /\ calls' = calls => UnusedSender'
<1>1. s[1] \in End
  BY SessionIsPair
<1>2. sender' \in [End -> Sender]
  <2>1. Disposed(sender[s[1]]) \in Sender
    BY <1>1, DisposedType DEF Types, SenderType
  <2> QED
    BY <1>1, <2>1 DEF EndCall, Types, SenderType
<1>3. contexts' \in [End -> 0..MaxContexts]
  BY <1>1, CallMediaAssumption DEF EndCall, Types, ContextTypes
<1>4. ctx' \in [Session -> [phase : Phase, waiting : Seq(Candidate)]]
  BY DEF EndCall, Types, ContextTypes, Phase
<1>5. media' \in [Session -> MediaType]
  BY ClosedType DEF EndCall, Types, SessionTypes
<1>6. audio' \in [Session -> AudioType]
  BY ClosedBridgeType DEF EndCall, Types, SessionTypes
<1>7. calls' = calls => UnusedSender'
  <2>1. \A r \in Sender : Disposed(r).timer => r.timer
    BY DEF Disposed, Sender
  <2>2. \A r \in Sender : Disposed(r).listed => r.listed
    BY DEF Disposed, Sender
  <2>3. \A r \in Sender : Disposed(r).armed => r.armed
    BY DEF Disposed, Sender
  <2> QED
    BY <1>1, <2>1, <2>2, <2>3 DEF EndCall, Types, SenderType, UnusedSender
<1> QED
  BY <1>2, <1>3, <1>4, <1>5, <1>6, <1>7

LEMMA NewContextTypes ==
    ASSUME Types, NEW e \in End, NEW phase \in Phase, NEW record \in Sender,
           NewContext(e, phase, record)
    PROVE  /\ contexts' \in [End -> 0..MaxContexts] /\ made' \in [End -> 0..MaxContexts]
           /\ ctx' \in [Session -> [phase : Phase, waiting : Seq(Candidate)]]
           /\ calls' \in [End -> 0..MaxContexts]
           /\ sender' \in [End -> Sender]
           /\ UnusedSender'
<1>1. made[e] + 1 \in 0..MaxContexts /\ <<>> \in Seq(Candidate)
  BY CallMediaAssumption DEF NewContext, Types, ContextTypes
<1>2. contexts' \in [End -> 0..MaxContexts] /\ made' \in [End -> 0..MaxContexts]
  BY <1>1 DEF NewContext, Types, ContextTypes
<1>3. ctx' \in [Session -> [phase : Phase, waiting : Seq(Candidate)]]
  BY <1>1 DEF NewContext, Types, ContextTypes
<1>4. calls' \in [End -> 0..MaxContexts]
  BY <1>1 DEF NewContext, Types, ContextTypes
<1>5. sender' \in [End -> Sender]
  BY DEF NewContext, Types, SenderType
<1>6. UnusedSender'
  BY DEF NewContext, Types, SenderType, ContextTypes, UnusedSender
<1> QED
  BY <1>2, <1>3, <1>4, <1>5, <1>6

LEMMA NewSessionType ==
    ASSUME NEW r \in Sender, NEW waiting \in Seq(Candidate)
    PROVE  NewSession(r, waiting) \in MediaType
<1>1. [NewMedia EXCEPT !.made = TRUE, !.wired = r.listed] \in MediaType
  <2>1. <<>> \in Seq(Candidate) /\ r.listed \in BOOLEAN
    BY DEF Sender
  <2> QED
    BY <2>1 DEF NewMedia, MediaType
<1> QED
  BY <1>1, AddRemoteType DEF NewSession

LEMMA SenderForType ==
    ASSUME Types, NEW e \in End
    PROVE  SenderFor(e) \in Sender
<1>1. <<>> \in Seq(Candidate)
  OBVIOUS
<1> QED
  BY <1>1 DEF SenderFor, NoSender, Sender, Types, SenderType

LEMMA CurrentType ==
    ASSUME Types, NEW e \in End, Has(e)
    PROVE  Current(e) \in Session /\ Current(e)[1] = e
BY NumberedSession DEF Has, Current, Types, ContextTypes

LEMMA LeavingTypes ==
    ASSUME Types, NEW s \in Session, NEW hinting \in BOOLEAN, Leaving(s, hinting)
    PROVE  /\ ctx' \in [Session -> [phase : Phase, waiting : Seq(Candidate)]]
           /\ link' \in [Session -> LinkType]
           /\ sends' \subseteq Send
<1>1. ctx' \in [Session -> [phase : Phase, waiting : Seq(Candidate)]]
  BY DEF Leaving, Types, ContextTypes, Phase
<1>2. link' \in [Session -> LinkType]
  <2>1. HangupHint(s) \in LinkType
    BY DEF HangupHint, Types, SessionTypes, LinkType
  <2> QED
    BY <2>1 DEF Leaving, Types, SessionTypes
<1>3. sends' \subseteq Send
  <2>1. Starts(s, "END_CALL", TRUE) \in Send
    BY StartsType DEF Type
  <2> QED
    BY <2>1 DEF Leaving, Types, PostTypes
<1> QED
  BY <1>1, <1>2, <1>3

LEMMA FailCallTypes ==
    ASSUME Types, NEW s \in Session, FailCall(s)
    PROVE  /\ sender' \in [End -> Sender]
           /\ contexts' \in [End -> 0..MaxContexts]
           /\ ctx' \in [Session -> [phase : Phase, waiting : Seq(Candidate)]]
           /\ media' \in [Session -> MediaType]
           /\ audio' \in [Session -> AudioType]
           /\ calls' = calls => UnusedSender'
BY EndCallTypes DEF FailCall, Types, SessionTypes, ContextTypes, SenderType, UnusedSender

\* A teardown without "ended", as dispose() and ignore() do it.
LEMMA TornDownTypes ==
    ASSUME Types, NEW s \in Session, NEW e \in End,
           contexts' = [contexts EXCEPT ![e] = 0],
           ctx' = [ctx EXCEPT ![s].phase = "over"],
           media' = [media EXCEPT ![s] = Closed(media[s])],
           audio' = [audio EXCEPT ![s] = ClosedBridge(audio[s])]
    PROVE  /\ contexts' \in [End -> 0..MaxContexts]
           /\ ctx' \in [Session -> [phase : Phase, waiting : Seq(Candidate)]]
           /\ media' \in [Session -> MediaType]
           /\ audio' \in [Session -> AudioType]
<1>1. contexts' \in [End -> 0..MaxContexts]
  BY CallMediaAssumption DEF Types, ContextTypes
<1>2. ctx' \in [Session -> [phase : Phase, waiting : Seq(Candidate)]]
  BY DEF Types, ContextTypes, Phase
<1>3. media' \in [Session -> MediaType]
  BY ClosedType DEF Types, SessionTypes
<1>4. audio' \in [Session -> AudioType]
  BY ClosedBridgeType DEF Types, SessionTypes
<1> QED
  BY <1>1, <1>2, <1>3, <1>4

LEMMA ArrivesTypes ==
    ASSUME Types, NEW e \in End, NEW type, Arrives(e, type), UNCHANGED <<sends, swarm>>
    PROVE  PostTypes' /\ DOMAIN read' = End /\ Next_(e) \in Message
<1>1. read[e] + 1 \in 1..Len(swarm[e]) /\ swarm[e] \in Seq(Message)
  BY DEF Arrives, Types, PostTypes
<1>2. Next_(e) \in Message
  BY <1>1 DEF Next_
<1>3. \A f \in End : read'[f] = IF f = e THEN read[e] + 1 ELSE read[f]
  BY DEF Arrives, Types
<1>4. DOMAIN read' = End
  BY DEF Arrives, Types
<1>5. PostTypes'
  BY <1>1, <1>3 DEF Types, PostTypes
<1> QED
  BY <1>2, <1>4, <1>5

LEMMA CallTypesKept ==
    ASSUME Types, Call
    PROVE  Types'
<1> DEFINE s == <<"caller", 1>>
<1>a. "caller" \in End /\ s \in Session
  BY NumberedSession, CallMediaAssumption DEF End
<1>b. SenderFor("caller") \in Sender /\ <<>> \in Seq(Candidate)
  BY <1>a, SenderForType
<1>c. NewContext("caller", "setup", SenderFor("caller"))
  BY DEF Call
<1>1. SessionTypes'
  BY <1>a, <1>b, NewSessionType DEF Call, Types, SessionTypes
<1>2. ContextTypes'
  <2>1. awaits' \subseteq Session \X {"describe", "remote"}
    <3>1. <<s, "describe">> \in Session \X {"describe", "remote"}
      BY <1>a
    <3> QED
      BY <3>1 DEF Call, Types, ContextTypes
  <2> QED
    BY <1>a, <1>b, <1>c, <2>1, NewContextTypes DEF Call, Types, ContextTypes, Phase
<1>3. SenderType'
  BY <1>a, <1>b, <1>c, NewContextTypes DEF SenderType, Phase
<1>4. PostTypes' /\ DOMAIN read' = End
  <2>1. Starts(s, "PRE_OFFER", FALSE) \in Send
    BY <1>a, StartsType DEF Type
  <2> QED
    BY <2>1 DEF Call, Types, PostTypes
<1>5. LoadTypes'
  BY DEF Call, Types, LoadTypes, Numbered
<1>6. UnusedSender'
  BY <1>a, <1>b, <1>c, NewContextTypes DEF Phase
<1> QED
  BY <1>1, <1>2, <1>3, <1>4, <1>5, <1>6 DEF Types

LEMMA AcceptTypesKept ==
    ASSUME Types, Accept
    PROVE  Types'
<1>a. "callee" \in End /\ Current("callee") \in Session
  BY CurrentType DEF Accept, End
<1>1. SessionTypes'
  BY DEF Accept, sessionVars, Types, SessionTypes
<1>2. ContextTypes'
  <2>1. <<Current("callee"), "remote">> \in Session \X {"describe", "remote"}
    BY <1>a
  <2>2. awaits' \subseteq Session \X {"describe", "remote"}
    BY <2>1 DEF Accept, Types, ContextTypes
  <2> QED
    BY <1>a, <2>2 DEF Accept, Types, ContextTypes, Phase
<1>3. SenderType'
  BY DEF Accept, sessionVars, Types, SenderType
<1>4. PostTypes' /\ DOMAIN read' = End
  BY DEF Accept, sessionVars, Types, PostTypes
<1>5. LoadTypes'
  BY DEF Accept, sessionVars, Types, LoadTypes, Numbered
<1>6. UnusedSender'
  BY DEF Accept, sessionVars, Types, UnusedSender
<1> QED
  BY <1>1, <1>2, <1>3, <1>4, <1>5, <1>6 DEF Types

LEMMA IgnoreTypesKept ==
    ASSUME Types, Ignore
    PROVE  Types'
<1>a. "callee" \in End /\ Current("callee") \in Session
  BY CurrentType DEF Ignore, End
<1>b. /\ contexts' \in [End -> 0..MaxContexts]
      /\ ctx' \in [Session -> [phase : Phase, waiting : Seq(Candidate)]]
      /\ media' \in [Session -> MediaType]
      /\ audio' \in [Session -> AudioType]
  BY <1>a, TornDownTypes DEF Ignore
<1>1. SessionTypes'
  BY <1>b DEF Ignore, Types, SessionTypes
<1>2. ContextTypes'
  BY <1>b DEF Ignore, Types, ContextTypes
<1>3. SenderType'
  BY DEF Ignore, Types, SenderType
<1>4. PostTypes' /\ DOMAIN read' = End
  BY DEF Ignore, Types, PostTypes
<1>5. LoadTypes'
  BY <1>a, UsesTypes DEF Ignore, Types, LoadKinds
<1>6. UnusedSender'
  BY DEF Ignore, Types, UnusedSender
<1> QED
  BY <1>1, <1>2, <1>3, <1>4, <1>5, <1>6 DEF Types

LEMMA LeaveTypesKept ==
    ASSUME Types, NEW e \in End, Leave(e)
    PROVE  Types'
<1>a. Current(e) \in Session
  BY CurrentType DEF Leave
<1>b. /\ ctx' \in [Session -> [phase : Phase, waiting : Seq(Candidate)]]
      /\ link' \in [Session -> LinkType]
      /\ sends' \subseteq Send
  BY <1>a, LeavingTypes DEF Leave
<1>1. SessionTypes'
  BY <1>b DEF Leave, Types, SessionTypes
<1>2. ContextTypes'
  BY <1>b DEF Leave, Types, ContextTypes
<1>3. SenderType'
  BY DEF Leave, Types, SenderType
<1>4. PostTypes' /\ DOMAIN read' = End
  BY <1>b DEF Leave, Types, PostTypes
<1>5. LoadTypes'
  BY UsesTypes DEF Leave, Types, LoadKinds
<1>6. UnusedSender'
  BY DEF Leave, Types, UnusedSender
<1> QED
  BY <1>1, <1>2, <1>3, <1>4, <1>5, <1>6 DEF Types

LEMMA CallFailsTypesKept ==
    ASSUME Types, NEW e \in End, CallFails(e)
    PROVE  Types'
<1>a. Current(e) \in Session
  BY CurrentType DEF CallFails
<1>b. /\ sender' \in [End -> Sender]
      /\ contexts' \in [End -> 0..MaxContexts]
      /\ ctx' \in [Session -> [phase : Phase, waiting : Seq(Candidate)]]
      /\ media' \in [Session -> MediaType]
      /\ audio' \in [Session -> AudioType]
      /\ UnusedSender'
  BY <1>a, EndCallTypes DEF CallFails
<1>1. SessionTypes'
  BY <1>b DEF CallFails, Types, SessionTypes
<1>2. ContextTypes'
  BY <1>b DEF CallFails, Types, ContextTypes
<1>3. SenderType'
  BY <1>b DEF SenderType
<1>4. PostTypes' /\ DOMAIN read' = End
  <2>1. Starts(Current(e), "END_CALL", FALSE) \in Send
    BY <1>a, StartsType DEF Type
  <2> QED
    BY <2>1 DEF CallFails, Types, PostTypes
<1>5. LoadTypes'
  BY UsesTypes DEF CallFails, Types, LoadKinds
<1>6. UnusedSender'
  BY <1>b
<1> QED
  BY <1>1, <1>2, <1>3, <1>4, <1>5, <1>6 DEF Types

LEMMA DisposeTypesKept ==
    ASSUME Types, NEW e \in End, Dispose(e)
    PROVE  Types'
<1> DEFINE s == Current(e)
<1>a. Has(e) => s \in Session
  BY CurrentType
<1>b. /\ contexts' \in [End -> 0..MaxContexts]
      /\ ctx' \in [Session -> [phase : Phase, waiting : Seq(Candidate)]]
      /\ media' \in [Session -> MediaType]
      /\ link' \in [Session -> LinkType]
      /\ audio' \in [Session -> AudioType]
      /\ sends' \subseteq Send
  <2>1. CASE Has(e) /\ ctx[s].phase # "leaving"
    <3>1. Leaving(s, TRUE) /\ UNCHANGED <<media, audio, contexts>>
      BY <2>1 DEF Dispose
    <3> QED
      BY <1>a, <2>1, <3>1, LeavingTypes DEF Types, SessionTypes, ContextTypes
  <2>2. CASE Has(e) /\ ctx[s].phase = "leaving"
    <3>1. /\ contexts' = [contexts EXCEPT ![e] = 0]
          /\ ctx' = [ctx EXCEPT ![s].phase = "over"]
          /\ media' = [media EXCEPT ![s] = Closed(media[s])]
          /\ audio' = [audio EXCEPT ![s] = ClosedBridge(audio[s])]
          /\ UNCHANGED <<link, sends>>
      BY <2>2 DEF Dispose
    <3> QED
      BY <1>a, <2>2, <3>1, TornDownTypes DEF Types, SessionTypes, PostTypes
  <2>3. CASE ~Has(e)
    BY <2>3 DEF Dispose, Types, SessionTypes, ContextTypes, PostTypes
  <2> QED
    BY <2>1, <2>2, <2>3
<1>1. SessionTypes'
  BY <1>b DEF SessionTypes
<1>2. ContextTypes'
  BY <1>b DEF Dispose, Types, ContextTypes
<1>3. SenderType'
  BY DisposedType DEF Dispose, Types, SenderType
<1>4. PostTypes' /\ DOMAIN read' = End
  BY <1>b DEF Dispose, Types, PostTypes
<1>5. LoadTypes'
  BY UsesTypes DEF Dispose, Types, LoadKinds
<1>6. UnusedSender'
  BY DEF Dispose, Disposed, Types, SenderType, Sender, UnusedSender
<1> QED
  BY <1>1, <1>2, <1>3, <1>4, <1>5, <1>6 DEF Types

LEMMA OnPreOfferTypesKept ==
    ASSUME Types, OnPreOffer
    PROVE  Types'
<1>a. "callee" \in End
  BY DEF End
<1>b. SenderFor("callee") \in Sender
  BY <1>a, SenderForType
<1>c. ~Has("callee") => NewContext("callee", "ringing", SenderFor("callee"))
  BY DEF OnPreOffer
<1>d. Has("callee") => UNCHANGED <<contexts, made, ctx, calls, sender>>
  BY DEF OnPreOffer
<1>1. SessionTypes'
  BY DEF OnPreOffer, sessionVars, Types, SessionTypes
<1>2. ContextTypes'
  BY <1>a, <1>b, <1>c, <1>d, NewContextTypes DEF OnPreOffer, Types, ContextTypes, Phase
<1>3. SenderType'
  BY <1>a, <1>b, <1>c, <1>d, NewContextTypes DEF Types, SenderType, Phase
<1>4. PostTypes' /\ DOMAIN read' = End
  BY <1>a, ArrivesTypes DEF OnPreOffer
<1>5. LoadTypes'
  BY DEF OnPreOffer, sessionVars, Types, LoadTypes, Numbered
<1>6. UnusedSender'
  BY <1>a, <1>b, <1>c, <1>d, NewContextTypes DEF Types, UnusedSender, Phase
<1> QED
  BY <1>1, <1>2, <1>3, <1>4, <1>5, <1>6 DEF Types

LEMMA OnOfferTypesKept ==
    ASSUME Types, OnOffer
    PROVE  Types'
<1> DEFINE s == Current("callee")
           t == <<"callee", made["callee"] + 1>>
<1>a. "callee" \in End
  BY DEF End
<1>b. SenderFor("callee") \in Sender /\ <<>> \in Seq(Candidate)
  BY <1>a, SenderForType
<1>c. ~Has("callee") => /\ NewContext("callee", "ringing", SenderFor("callee"))
                       /\ media' = [media EXCEPT ![t] = NewSession(SenderFor("callee"), <<>>)]
  BY DEF OnOffer
<1>d. Has("callee") =>
        /\ UNCHANGED <<contexts, made, ctx, calls, sender>>
        /\ \/ media' = [media EXCEPT ![s] = NewSession(sender["callee"], ctx[s].waiting)]
           \/ UNCHANGED media
  BY DEF OnOffer
<1>e. Has("callee") => s \in Session
  BY <1>a, CurrentType
<1>1. SessionTypes'
  <2>1. CASE ~Has("callee")
    <3>1. NewSession(SenderFor("callee"), <<>>) \in MediaType
      BY <1>b, NewSessionType
    <3> QED
      BY <1>c, <2>1, <3>1 DEF OnOffer, Types, SessionTypes
  <2>2. CASE Has("callee")
    <3>1. NewSession(sender["callee"], ctx[s].waiting) \in MediaType
      BY <1>a, <1>e, <2>2, NewSessionType DEF Types, SenderType, ContextTypes
    <3> QED
      BY <1>d, <2>2, <3>1 DEF OnOffer, Types, SessionTypes
  <2> QED
    BY <2>1, <2>2
<1>2. ContextTypes'
  BY <1>a, <1>b, <1>c, <1>d, NewContextTypes DEF OnOffer, Types, ContextTypes, Phase
<1>3. SenderType'
  BY <1>a, <1>b, <1>c, <1>d, NewContextTypes DEF Types, SenderType, Phase
<1>4. PostTypes' /\ DOMAIN read' = End
  BY <1>a, ArrivesTypes DEF OnOffer
<1>5. LoadTypes'
  BY DEF OnOffer, Types, LoadTypes, Numbered
<1>6. UnusedSender'
  BY <1>a, <1>b, <1>c, <1>d, NewContextTypes DEF Types, UnusedSender, Phase
<1> QED
  BY <1>1, <1>2, <1>3, <1>4, <1>5, <1>6 DEF Types

LEMMA OnAnswerTypesKept ==
    ASSUME Types, OnAnswer
    PROVE  Types'
<1>a. "caller" \in End
  BY DEF End
<1>b. Has("caller") => Current("caller") \in Session
  BY <1>a, CurrentType
<1>1. SessionTypes'
  BY DEF OnAnswer, sessionVars, Types, SessionTypes
<1>2. ContextTypes'
  BY <1>b DEF OnAnswer, Types, ContextTypes
<1>3. SenderType'
  BY DEF OnAnswer, sessionVars, Types, SenderType
<1>4. PostTypes' /\ DOMAIN read' = End
  BY <1>a, ArrivesTypes DEF OnAnswer
<1>5. LoadTypes'
  BY DEF OnAnswer, sessionVars, Types, LoadTypes, Numbered
<1>6. UnusedSender'
  BY DEF OnAnswer, sessionVars, Types, UnusedSender
<1> QED
  BY <1>1, <1>2, <1>3, <1>4, <1>5, <1>6 DEF Types

LEMMA OnIceCandidatesTypesKept ==
    ASSUME Types, NEW e \in End, OnIceCandidates(e)
    PROVE  Types'
<1> DEFINE s == Current(e)
<1>a. PostTypes' /\ DOMAIN read' = End /\ Next_(e) \in Message
  BY ArrivesTypes DEF OnIceCandidates
<1>b. Has(e) => s \in Session
  BY CurrentType
<1>c. Next_(e).cands \in Seq(Candidate)
  BY <1>a DEF Message
<1>d. \/ UNCHANGED <<media, ctx>>
      \/ /\ Has(e)
         /\ media' = [media EXCEPT ![s] = AddRemoteCandidates(media[s], Next_(e).cands)]
         /\ UNCHANGED ctx
      \/ /\ Has(e)
         /\ ctx' = [ctx EXCEPT ![s].waiting = ctx[s].waiting \o Next_(e).cands]
         /\ UNCHANGED media
  BY DEF OnIceCandidates
<1>1. SessionTypes'
  <2>1. Has(e) => AddRemoteCandidates(media[s], Next_(e).cands) \in MediaType
    BY <1>b, <1>c, AddRemoteType DEF Types, SessionTypes
  <2> QED
    BY <1>d, <2>1 DEF OnIceCandidates, Types, SessionTypes
<1>2. ContextTypes'
  <2>1. Has(e) => ctx[s].waiting \o Next_(e).cands \in Seq(Candidate)
    BY <1>b, <1>c DEF Types, ContextTypes
  <2>2. ctx' \in [Session -> [phase : Phase, waiting : Seq(Candidate)]]
    BY <1>d, <2>1, ZenonT(60) DEF Types, ContextTypes
  <2> QED
    BY <2>2 DEF OnIceCandidates, Types, ContextTypes
<1>3. SenderType'
  BY DEF OnIceCandidates, Types, SenderType
<1>4. PostTypes' /\ DOMAIN read' = End
  BY <1>a
<1>5. LoadTypes'
  BY DEF OnIceCandidates, Types, LoadTypes, Numbered
<1>6. UnusedSender'
  BY DEF OnIceCandidates, Types, UnusedSender
<1> QED
  BY <1>1, <1>2, <1>3, <1>4, <1>5, <1>6 DEF Types

LEMMA OnEndCallTypesKept ==
    ASSUME Types, NEW e \in End, OnEndCall(e)
    PROVE  Types'
<1>a. Has(e) => Current(e) \in Session
  BY CurrentType
<1>b. /\ sender' \in [End -> Sender]
      /\ contexts' \in [End -> 0..MaxContexts]
      /\ ctx' \in [Session -> [phase : Phase, waiting : Seq(Candidate)]]
      /\ media' \in [Session -> MediaType]
      /\ audio' \in [Session -> AudioType]
      /\ UnusedSender'
  BY <1>a, EndCallTypes DEF OnEndCall, Types, SessionTypes, ContextTypes, SenderType, UnusedSender
<1>1. SessionTypes'
  BY <1>b DEF OnEndCall, Types, SessionTypes
<1>2. ContextTypes'
  BY <1>b DEF OnEndCall, Types, ContextTypes
<1>3. SenderType'
  BY <1>b DEF SenderType
<1>4. PostTypes' /\ DOMAIN read' = End
  BY ArrivesTypes DEF OnEndCall
<1>5. LoadTypes'
  BY DEF OnEndCall, Types, LoadTypes, Numbered
<1>6. UnusedSender'
  BY <1>b
<1> QED
  BY <1>1, <1>2, <1>3, <1>4, <1>5, <1>6 DEF Types

LEMMA OnHangupHintTypesKept ==
    ASSUME Types, NEW s \in Session, OnHangupHint(s)
    PROVE  Types'
<1>b. /\ sender' \in [End -> Sender]
      /\ contexts' \in [End -> 0..MaxContexts]
      /\ ctx' \in [Session -> [phase : Phase, waiting : Seq(Candidate)]]
      /\ media' \in [Session -> MediaType]
      /\ audio' \in [Session -> AudioType]
      /\ UnusedSender'
  BY EndCallTypes DEF OnHangupHint
<1>1. SessionTypes'
  BY <1>b DEF OnHangupHint, Types, SessionTypes
<1>2. ContextTypes'
  BY <1>b DEF OnHangupHint, Types, ContextTypes
<1>3. SenderType'
  BY <1>b DEF SenderType
<1>4. PostTypes' /\ DOMAIN read' = End
  BY DEF OnHangupHint, Types, PostTypes
<1>5. LoadTypes'
  BY DEF OnHangupHint, Types, LoadTypes, Numbered
<1>6. UnusedSender'
  BY <1>b
<1> QED
  BY <1>1, <1>2, <1>3, <1>4, <1>5, <1>6 DEF Types

LEMMA DescribedTypesKept ==
    ASSUME Types, NEW s \in Session, Described(s)
    PROVE  Types'
<1>1. SessionTypes'
  BY ZenonT(60) DEF Described, Types, SessionTypes, MediaType
<1>2. ContextTypes'
  BY DEF Described, Types, ContextTypes
<1>3. SenderType'
  BY DEF Described, Types, SenderType
<1>4. PostTypes' /\ DOMAIN read' = End
  <2>1. Starts(s, IF s[1] = "caller" THEN "OFFER" ELSE "ANSWER", FALSE) \in Send
    BY StartsType DEF Type
  <2> QED
    BY <2>1 DEF Described, Types, PostTypes
<1>5. LoadTypes'
  BY DEF Described, Types, LoadTypes, Numbered
<1>6. UnusedSender'
  BY DEF Described, Types, UnusedSender
<1> QED
  BY <1>1, <1>2, <1>3, <1>4, <1>5, <1>6 DEF Types

LEMMA RemoteSetTypesKept ==
    ASSUME Types, NEW s \in Session, RemoteSet(s)
    PROVE  Types'
<1>1. SessionTypes'
  BY RemoteDescribedType DEF RemoteSet, Types, SessionTypes
<1>2. ContextTypes'
  BY DEF RemoteSet, Types, ContextTypes
<1>3. SenderType'
  BY DEF RemoteSet, Types, SenderType
<1>4. PostTypes' /\ DOMAIN read' = End
  BY DEF RemoteSet, Types, PostTypes
<1>5. LoadTypes'
  BY DEF RemoteSet, Types, LoadTypes, Numbered
<1>6. UnusedSender'
  BY DEF RemoteSet, Types, UnusedSender
<1> QED
  BY <1>1, <1>2, <1>3, <1>4, <1>5, <1>6 DEF Types

LEMMA MediaRejectsTypesKept ==
    ASSUME Types, NEW s \in Session, NEW what, MediaRejects(s, what)
    PROVE  Types'
<1>a. s[1] \in End
  BY SessionIsPair
<1>b. /\ sender' \in [End -> Sender]
      /\ contexts' \in [End -> 0..MaxContexts]
      /\ ctx' \in [Session -> [phase : Phase, waiting : Seq(Candidate)]]
      /\ media' \in [Session -> MediaType]
      /\ audio' \in [Session -> AudioType]
      /\ UnusedSender'
  BY FailCallTypes DEF MediaRejects
<1>1. SessionTypes'
  BY <1>b DEF MediaRejects, Types, SessionTypes
<1>2. ContextTypes'
  BY <1>b DEF MediaRejects, Types, ContextTypes
<1>3. SenderType'
  BY <1>b DEF SenderType
<1>4. PostTypes' /\ DOMAIN read' = End
  BY DEF MediaRejects, Types, PostTypes
<1>5. LoadTypes'
  BY <1>a, UsesTypes DEF MediaRejects, Types, LoadKinds
<1>6. UnusedSender'
  BY <1>b
<1> QED
  BY <1>1, <1>2, <1>3, <1>4, <1>5, <1>6 DEF Types

LEMMA StoreTypesKept ==
    ASSUME Types, NEW x \in sends, Store(x)
    PROVE  Types'
<1>a. x \in Send /\ x.ctx[1] \in End /\ Far(x.ctx[1]) \in End
  BY SessionIsPair DEF Types, PostTypes, Send, Far, End
<1>1. SessionTypes'
  BY DEF Store, sessionVars, Types, SessionTypes
<1>2. ContextTypes'
  BY DEF Store, sessionVars, Types, ContextTypes
<1>3. SenderType'
  BY DEF Store, sessionVars, Types, SenderType
<1>4. PostTypes' /\ DOMAIN read' = End
  <2> DEFINE f == Far(x.ctx[1])
  <2>1. [x EXCEPT !.stored = TRUE] \in Send /\ x.msg \in Message
    BY <1>a DEF Send
  <2>2. sends' \subseteq Send
    BY <2>1 DEF Store, Types, PostTypes
  <2>3. swarm[f] \in Seq(Message)
    BY <1>a DEF Types, PostTypes
  <2>4. Append(swarm[f], x.msg) \in Seq(Message) /\ Len(Append(swarm[f], x.msg)) = Len(swarm[f]) + 1
    BY <2>1, <2>3
  <2>5. swarm' = [swarm EXCEPT ![f] = Append(swarm[f], x.msg)] /\ read' = read
    BY DEF Store
  <2> HIDE DEF f
  <2>6. swarm' \in [End -> Seq(Message)]
    BY <2>4, <2>5 DEF Types, PostTypes
  <2>7. \A e \in End : Len(swarm'[e]) = IF e = f THEN Len(swarm[e]) + 1 ELSE Len(swarm[e])
    BY <2>4, <2>5 DEF Types, PostTypes
  <2>8. \A e \in End : Len(swarm[e]) \in Nat
    BY DEF Types, PostTypes
  <2>9. \A e \in End : read'[e] \in 0..Len(swarm'[e])
    BY <2>5, <2>7, <2>8 DEF Types, PostTypes
  <2> QED
    BY <2>2, <2>5, <2>6, <2>9 DEF Types, PostTypes
<1>5. LoadTypes'
  BY DEF Store, sessionVars, Types, LoadTypes, Numbered
<1>6. UnusedSender'
  BY DEF Store, sessionVars, Types, UnusedSender
<1> QED
  BY <1>1, <1>2, <1>3, <1>4, <1>5, <1>6 DEF Types

LEMMA ResolveTypesKept ==
    ASSUME Types, NEW x \in sends, Resolve(x)
    PROVE  Types'
<1>a. x \in Send /\ x.ctx \in Session /\ x.ctx[1] \in End
  BY SessionIsPair DEF Types, PostTypes, Send
<1>b. /\ sender' \in [End -> Sender]
      /\ contexts' \in [End -> 0..MaxContexts]
      /\ ctx' \in [Session -> [phase : Phase, waiting : Seq(Candidate)]]
      /\ media' \in [Session -> MediaType]
      /\ audio' \in [Session -> AudioType]
      /\ UnusedSender'
  <2>1. CASE x.ends
    BY <1>a, <2>1, EndCallTypes DEF Resolve
  <2>2. CASE ~x.ends
    <3>1. sender' = IF Arms(x) THEN [sender EXCEPT ![x.ctx[1]] = Armed(sender[x.ctx[1]])] ELSE sender
      BY <2>2 DEF Resolve
    <3>2. sender' \in [End -> Sender]
      BY <1>a, <3>1, ArmedType DEF Types, SenderType
    <3>3. UnusedSender'
      <4>1. Arms(x) => calls[x.ctx[1]] # 0
        BY <1>a, CallMediaAssumption DEF Arms
      <4> QED
        BY <1>a, <3>1, <4>1 DEF Resolve, Types, SenderType, UnusedSender
    <3> QED
      BY <1>a, <2>2, <3>2, <3>3 DEF Resolve, Types, SessionTypes, ContextTypes
  <2> QED
    BY <2>1, <2>2
<1>1. SessionTypes'
  BY <1>b DEF Resolve, Types, SessionTypes
<1>2. ContextTypes'
  BY <1>b DEF Resolve, Types, ContextTypes
<1>3. SenderType'
  BY <1>b DEF SenderType
<1>4. PostTypes' /\ DOMAIN read' = End
  BY DEF Resolve, Types, PostTypes
<1>5. LoadTypes'
  BY DEF Resolve, Types, LoadTypes, Numbered
<1>6. UnusedSender'
  BY <1>b
<1> QED
  BY <1>1, <1>2, <1>3, <1>4, <1>5, <1>6 DEF Types

LEMMA RejectSendTypesKept ==
    ASSUME Types, NEW x \in sends, RejectSend(x)
    PROVE  Types'
<1> DEFINE e == x.ctx[1]
<1>a. x \in Send /\ x.ctx \in Session /\ e \in End /\ x.msg.type \in Type
  BY SessionIsPair DEF Types, PostTypes, Send, Message
<1>b. /\ sender' \in [End -> Sender]
      /\ contexts' \in [End -> 0..MaxContexts]
      /\ ctx' \in [Session -> [phase : Phase, waiting : Seq(Candidate)]]
      /\ media' \in [Session -> MediaType]
      /\ audio' \in [Session -> AudioType]
      /\ UnusedSender'
  <2>1. CASE x.msg.type = "ICE_CANDIDATES"
    <3>1. sender[e].lost \cup Range(x.msg.cands) \subseteq Candidate
      <4>1. x.msg.cands \in Seq(Candidate) /\ sender[e].lost \subseteq Candidate
        BY <1>a DEF Send, Message, Types, SenderType, Sender
      <4>2. Range(x.msg.cands) \subseteq Candidate
        BY <4>1 DEF Range
      <4> QED
        BY <4>1, <4>2
    <3>2. sender' = [sender EXCEPT ![e].lost = sender[e].lost \cup Range(x.msg.cands)]
      BY <2>1 DEF RejectSend
    <3>3. sender' \in [End -> Sender]
      BY <1>a, <3>1, <3>2, ZenonT(60) DEF Types, SenderType, Sender
    <3>4. UnusedSender'
      BY <1>a, <3>2 DEF RejectSend, Types, SenderType, UnusedSender
    <3> QED
      BY <2>1, <3>3, <3>4 DEF RejectSend, Types, SessionTypes, ContextTypes
  <2>2. CASE x.msg.type = "END_CALL"
    BY <1>a, <2>2, EndCallTypes DEF RejectSend, Types, SessionTypes, ContextTypes, SenderType, UnusedSender
  <2>3. CASE x.msg.type \notin {"ICE_CANDIDATES", "END_CALL"}
    BY <1>a, <2>3, FailCallTypes DEF RejectSend
  <2> QED
    BY <2>1, <2>2, <2>3
<1>1. SessionTypes'
  BY <1>b DEF RejectSend, Types, SessionTypes
<1>2. ContextTypes'
  BY <1>b DEF RejectSend, Types, ContextTypes
<1>3. SenderType'
  BY <1>b DEF SenderType
<1>4. PostTypes' /\ DOMAIN read' = End
  BY DEF RejectSend, Types, PostTypes
<1>5. LoadTypes'
  BY <1>a, UsesTypes DEF RejectSend, Types, LoadKinds
<1>6. UnusedSender'
  BY <1>b
<1> QED
  BY <1>1, <1>2, <1>3, <1>4, <1>5, <1>6 DEF Types

LEMMA GatherTypesKept ==
    ASSUME Types, NEW s \in Session, Gather(s)
    PROVE  Types'
<1> DEFINE c == <<s[1], left[s[1]]["candidates"]>>
<1>a. s[1] \in End /\ c \in Candidate
  BY SessionIsPair DEF Gather, Uses, Types, LoadTypes, Numbered, LoadKinds
<1> HIDE DEF c
<1>b. gathered' = [gathered EXCEPT ![s] = Append(gathered[s], c)]
  BY DEF Gather, c
<1>c. sender' = IF media[s].wired THEN [sender EXCEPT ![s[1]] = Fed(sender[s[1]], c)] ELSE sender
  BY DEF Gather, c
<1>1. SessionTypes'
  BY DEF Gather, sessionVars, callVars, Types, SessionTypes
<1>2. ContextTypes'
  BY DEF Gather, sessionVars, callVars, Types, ContextTypes
<1>3. SenderType'
  BY <1>a, <1>c, FedType DEF Types, SenderType
<1>4. PostTypes' /\ DOMAIN read' = End
  BY DEF Gather, sessionVars, callVars, Types, PostTypes
<1>5. LoadTypes'
  <2>1. gathered' \in [Session -> Seq(Candidate)]
    BY <1>a, <1>b DEF Types, LoadTypes
  <2>2. left' \in [End -> [LoadKinds -> Nat]] /\ Numbered'
    BY <1>a, UsesLoads DEF Gather, Types, LoadKinds
  <2> QED
    BY <2>1, <2>2 DEF LoadTypes
<1>6. UnusedSender'
  BY <1>a, <1>c DEF Gather, callVars, Fed, Enqueued, Types, SenderType, Sender, UnusedSender
<1> QED
  BY <1>1, <1>2, <1>3, <1>4, <1>5, <1>6 DEF Types

LEMMA FlushTypesKept ==
    ASSUME Types, NEW e \in End, Flush(e)
    PROVE  Types'
<1> DEFINE r == sender[e]
<1>a. r \in Sender /\ r.queue \in Seq(Candidate)
  BY DEF Types, SenderType, Sender
<1>b. sender' = [sender EXCEPT ![e].timer = FALSE, ![e].queue = <<>>, ![e].sent = r.sent \o r.queue]
  BY DEF Flush
<1>c. sender' = [sender EXCEPT ![e] =
                    [r EXCEPT !.timer = FALSE, !.queue = <<>>, !.sent = r.sent \o r.queue]]
  BY <1>a, <1>b DEF Types, SenderType
<1>1. SessionTypes'
  BY DEF Flush, sessionVars, Types, SessionTypes
<1>2. ContextTypes'
  BY DEF Flush, sessionVars, Types, ContextTypes
<1>3. SenderType'
  <2>1. r.sent \o r.queue \in Seq(Candidate) /\ <<>> \in Seq(Candidate)
    BY <1>a DEF Sender
  <2>2. [r EXCEPT !.timer = FALSE, !.queue = <<>>, !.sent = r.sent \o r.queue] \in Sender
    BY <1>a, <2>1 DEF Sender
  <2> QED
    BY <1>c, <2>2 DEF Types, SenderType
<1>4. PostTypes' /\ DOMAIN read' = End
  <2> DEFINE x == [Starts(<<e, calls[e]>>, "ICE_CANDIDATES", FALSE) EXCEPT !.msg.cands = r.queue]
  <2>1. x \in Send
    <3>1. <<e, calls[e]>> \in Session
      BY NumberedSession DEF Flush, Types, ContextTypes, UnusedSender
    <3> QED
      BY <1>a, <3>1 DEF Starts, Send, Message, Type
  <2> QED
    BY <2>1 DEF Flush, Types, PostTypes
<1>5. LoadTypes'
  BY DEF Flush, sessionVars, Types, LoadTypes, Numbered
<1>6. UnusedSender'
  BY <1>b DEF Flush, Types, SenderType, Sender, UnusedSender
<1> QED
  BY <1>1, <1>2, <1>3, <1>4, <1>5, <1>6 DEF Types

\* The connection and the audio of a session, which nothing else depends on.
LEMMA SessionActionTypes ==
    ASSUME Types, NEW s \in Session
    PROVE  /\ \A ice \in IceState : IceStateChanges(s, ice) => SessionTypes'
           /\ DtlsCompletes(s) => SessionTypes'
           /\ \A state \in {"connected", "disconnected", "failed"} :
                 ConnectionStateChanges(s, state) => SessionTypes'
           /\ ChannelOpens(s) => SessionTypes'
           /\ WriteAudio(s) => SessionTypes'
           /\ Drain(s) => SessionTypes'
           /\ AttachRemoteTrack(s) => SessionTypes'
           /\ \A n \in Nat : ReceiveRtp(s, n) => SessionTypes'
<1>0. /\ media[s] \in MediaType /\ link[s] \in LinkType /\ audio[s] \in AudioType
      /\ link \in [Session -> LinkType] /\ audio \in [Session -> AudioType]
      /\ media \in [Session -> MediaType]
  BY DEF Types, SessionTypes
<1>1. ASSUME NEW ice \in IceState, IceStateChanges(s, ice) PROVE SessionTypes'
  <2>1. Told(link[s].told, ice) \in ContractState \cup {None}
    BY <1>0, ToldType DEF LinkType
  <2>2. link' = [link EXCEPT ![s].ice = ice, ![s].told = Told(link[s].told, ice),
                             ![s].flapped = link[s].flapped \/ ice = "disconnected"]
    BY <1>1 DEF IceStateChanges
  <2>3. link' = [link EXCEPT ![s] =
                    [link[s] EXCEPT !.ice = ice, !.told = Told(link[s].told, ice),
                                    !.flapped = link[s].flapped \/ ice = "disconnected"]]
    BY <1>0, <2>2
  <2>4. (link[s].flapped \/ ice = "disconnected") \in BOOLEAN
    BY <1>0 DEF LinkType
  <2>5. [link[s] EXCEPT !.ice = ice, !.told = Told(link[s].told, ice),
                        !.flapped = link[s].flapped \/ ice = "disconnected"] \in LinkType
    BY <1>0, <2>1, <2>4 DEF LinkType
  <2> QED
    BY <1>0, <1>1, <2>3, <2>5 DEF IceStateChanges, SessionTypes
<1>2. ASSUME DtlsCompletes(s) PROVE SessionTypes'
  BY <1>0, <1>2 DEF DtlsCompletes, SessionTypes, LinkType
<1>3. ASSUME NEW state \in {"connected", "disconnected", "failed"}, ConnectionStateChanges(s, state)
      PROVE  SessionTypes'
  <2>1. SenderReady(audio[s], state = "connected") \in AudioType
    BY <1>0, SenderReadyType
  <2> QED
    BY <1>0, <1>3, <2>1 DEF ConnectionStateChanges, SessionTypes, LinkType
<1>4. ASSUME ChannelOpens(s) PROVE SessionTypes'
  <2>1. OnChannelOpen(audio[s], link[s].told) \in AudioType
    BY <1>0, OnChannelOpenType
  <2>2. link' \in [Session -> LinkType]
    BY <1>0, <1>4 DEF ChannelOpens, LinkType
  <2> QED
    BY <1>0, <1>4, <2>1, <2>2 DEF ChannelOpens, SessionTypes
<1>5. ASSUME WriteAudio(s) PROVE SessionTypes'
  BY <1>0, <1>5, AcceptedType DEF WriteAudio, SessionTypes
<1>6. ASSUME Drain(s) PROVE SessionTypes'
  <2>1. Drained(audio[s], link[s].secure) \in AudioType
    BY <1>0, DrainedType DEF LinkType
  <2>2. [audio[s] EXCEPT !.due = FALSE] \in AudioType
    BY <1>0 DEF AudioType
  <2> QED
    BY <1>0, <1>6, <2>1, <2>2 DEF Drain, SessionTypes
<1>7. ASSUME AttachRemoteTrack(s) PROVE SessionTypes'
  BY <1>0, <1>7, AttachedType DEF AttachRemoteTrack, SessionTypes
<1>8. ASSUME NEW n \in Nat, ReceiveRtp(s, n) PROVE SessionTypes'
  <2>1. Rechunked(audio[s], n) \in AudioType
    BY <1>0, RechunkedType
  <2>2. [audio[s] EXCEPT !.samples = audio[s].samples + n] \in AudioType
    <3>1. audio[s].samples + n \in Nat
      BY <1>0 DEF AudioType
    <3> QED
      BY <1>0, <3>1 DEF AudioType
  <2>3. \/ audio' = [audio EXCEPT ![s] = Rechunked(audio[s], n)]
        \/ audio' = [audio EXCEPT ![s] = [audio[s] EXCEPT !.samples = audio[s].samples + n]]
    BY <1>8 DEF ReceiveRtp
  <2> QED
    BY <1>0, <1>8, <2>1, <2>2, <2>3 DEF ReceiveRtp, SessionTypes
<1> QED
  BY <1>1, <1>2, <1>3, <1>4, <1>5, <1>6, <1>7, <1>8

LEMMA MediaTypesKept ==
    ASSUME Types, NEW s \in Session, Media(s)
    PROVE  Types'
<1>1. SessionTypes'
  <2>1. ASSUME Connects(s) PROVE SessionTypes'
    <3>1. \A ice \in IceState : IceFollows(ice) \subseteq IceState
      BY DEF IceFollows, IceState
    <3>2. link[s].ice \in IceState
      BY DEF Types, SessionTypes, LinkType
    <3> QED
      BY <2>1, <3>1, <3>2, SessionActionTypes DEF Connects
  <2>2. ASSUME NEW n \in 1..(FrameSamples + 1), ReceiveRtp(s, n) PROVE SessionTypes'
    BY <2>2, SessionActionTypes, BridgeAssumption
  <2> QED
    BY <2>1, <2>2, SessionActionTypes DEF Media, WithLoad, Free
<1>2. UNCHANGED <<callVars, sender, gathered>>
  BY DEF Media, WithLoad, Free
<1>3. LoadTypes'
  <2>1. s[1] \in End
    BY SessionIsPair
  <2>2. ASSUME NEW kind \in LoadKinds, Uses(s[1], kind) PROVE LoadTypes'
    BY <1>2, <2>1, <2>2, UsesTypes DEF Types
  <2>3. UNCHANGED left \/ \E kind \in LoadKinds : Uses(s[1], kind)
    BY DEF Media, WithLoad, Free, LoadKinds
  <2> QED
    BY <1>2, <2>2, <2>3 DEF Types, LoadTypes, Numbered
<1>4. ContextTypes' /\ SenderType' /\ PostTypes' /\ UnusedSender' /\ DOMAIN read' = End
  BY <1>2 DEF callVars, Types, ContextTypes, SenderType, PostTypes, UnusedSender
<1> QED
  BY <1>1, <1>3, <1>4 DEF Types

LEMMA TypesInit == Init => Types
<1> SUFFICES ASSUME Init PROVE Types
  OBVIOUS
<1>1. <<>> \in Seq(Candidate) /\ <<>> \in Seq(Message) /\ <<>> \in Seq(Nat)
  OBVIOUS
<1>2. NewMedia \in MediaType
  BY <1>1 DEF NewMedia, MediaType
<1>3. NewLink \in LinkType
  BY DEF NewLink, LinkType, IceState
<1>4. NewAudio \in AudioType
  <2>1. <<>> \in Seq([seq : 0..(SeqModulus - 1), frame : Nat, secure : BOOLEAN])
        /\ <<>> \in Seq(Nat \X Nat) /\ <<>> \in Seq(Seq(Nat \X Nat))
    OBVIOUS
  <2> QED
    BY <1>1, <2>1, BridgeAssumption DEF NewAudio, AudioType
<1>5. SessionTypes
  BY <1>2, <1>3, <1>4 DEF Init, SessionsInit, SessionTypes
<1>6. ContextTypes
  BY <1>1, CallMediaAssumption DEF Init, ContextTypes, Phase
<1>7. SenderType /\ UnusedSender
  BY <1>1 DEF Init, SenderType, NoSender, Sender, UnusedSender
<1>8. PostTypes /\ DOMAIN read = End
  BY <1>1 DEF Init, PostTypes
<1>9. LoadTypes
  BY <1>1, CallMediaAssumption DEF Init, LoadTypes, Numbered
<1> QED
  BY <1>5, <1>6, <1>7, <1>8, <1>9 DEF Types

LEMMA TypesStep == Types /\ [Next]_vars => Types'
<1> SUFFICES ASSUME Types, [Next]_vars PROVE Types'
  OBVIOUS
<1>1. CASE UNCHANGED vars
  BY <1>1 DEF vars, callVars, sessionVars, Types, SessionTypes, ContextTypes, SenderType, PostTypes,
              LoadTypes, Numbered, UnusedSender
<1>2. CASE Call \/ Accept \/ Ignore \/ OnPreOffer \/ OnOffer \/ OnAnswer
  BY <1>2, CallTypesKept, AcceptTypesKept, IgnoreTypesKept, OnPreOfferTypesKept, OnOfferTypesKept,
     OnAnswerTypesKept
<1>3. ASSUME NEW e \in End, User(e) \/ Receive(e) \/ Flush(e) PROVE Types'
  BY <1>3, LeaveTypesKept, CallFailsTypesKept, DisposeTypesKept, OnIceCandidatesTypesKept,
     OnEndCallTypesKept, FlushTypesKept DEF User, Receive
<1>4. ASSUME NEW s \in Session, Described(s) \/ RemoteSet(s) \/ Gather(s) \/ OnHangupHint(s)
      PROVE  Types'
  BY <1>4, DescribedTypesKept, RemoteSetTypesKept, GatherTypesKept, OnHangupHintTypesKept
<1>5. ASSUME NEW s \in Session, NEW what, MediaRejects(s, what) PROVE Types'
  BY <1>5, MediaRejectsTypesKept
<1>6. ASSUME NEW s \in Session, Media(s) PROVE Types'
  BY <1>6, MediaTypesKept
<1>7. ASSUME NEW x \in sends, Store(x) \/ Resolve(x) \/ RejectSend(x) PROVE Types'
  BY <1>7, StoreTypesKept, ResolveTypesKept, RejectSendTypesKept
<1> QED
  BY <1>1, <1>2, <1>3, <1>4, <1>5, <1>6, <1>7 DEF Next

\* Every state has the types that CallMedia declares, whatever the frame size, the queue,
\* the modulus and the loads are.
THEOREM MediaTypeOK == Spec => []TypeOK
<1>1. Init => Types
  BY TypesInit
<1>2. Types /\ [Next]_vars => Types'
  BY TypesStep
<1>3. Types => TypeOK
  BY TypesGiveTypeOK
<1> QED
  BY <1>1, <1>2, <1>3, PTL DEF Spec

----------------------------------------------------------------------------
(* What the steps of the call do to its sessions.                          *)

\* All that reaches a session from outside of it: it is closed with its bridge, or a
\* hangup hint is put on its way.
Undisturbed ==
    \A t \in Session : /\ \/ audio'[t] = audio[t]
                          \/ audio'[t] = ClosedBridge(audio[t]) /\ media'[t] = Closed(media[t])
                       /\ link'[t] \in {link[t], HangupHint(t)}

LEMMA EndCallUndisturbed ==
    ASSUME Types, NEW s \in Session, EndCall(s), link' = link
    PROVE  Undisturbed
BY DEF EndCall, Types, SessionTypes, Undisturbed

LEMMA LeavingUndisturbed ==
    ASSUME Types, NEW s \in Session, NEW hinting \in BOOLEAN, Leaving(s, hinting),
           audio' = audio
    PROVE  Undisturbed
BY DEF Leaving, Types, SessionTypes, Undisturbed

LEMMA FailCallUndisturbed ==
    ASSUME Types, NEW s \in Session, FailCall(s), link' = link
    PROVE  Undisturbed
BY EndCallUndisturbed DEF FailCall, Undisturbed

LEMMA SessionMoves ==
    ASSUME Types, [Next]_vars
    PROVE  Undisturbed \/ \E s \in Session : Media(s)
<1>1. link' = link /\ audio' = audio => Undisturbed
  BY DEF Undisturbed
<1>2. CASE UNCHANGED vars
  BY <1>1, <1>2 DEF vars, sessionVars
<1>3. CASE Call \/ Accept \/ OnPreOffer \/ OnOffer \/ OnAnswer
  BY <1>1, <1>3 DEF Call, Accept, OnPreOffer, OnOffer, OnAnswer, sessionVars
<1>4. CASE Ignore
  BY <1>4 DEF Ignore, Types, SessionTypes, Undisturbed
<1>5. ASSUME NEW e \in End, Leave(e) PROVE Undisturbed
  <2>1. Current(e) \in Session
    BY <1>5, CurrentType DEF Leave
  <2> QED
    BY <1>5, <2>1, LeavingUndisturbed DEF Leave
<1>6. ASSUME NEW e \in End, CallFails(e) PROVE Undisturbed
  <2>1. Current(e) \in Session
    BY <1>6, CurrentType DEF CallFails
  <2> QED
    BY <1>6, <2>1, EndCallUndisturbed DEF CallFails
<1>7. ASSUME NEW e \in End, Dispose(e) PROVE Undisturbed
  <2> DEFINE s == Current(e)
  <2>1. Has(e) => s \in Session
    BY CurrentType
  <2>2. CASE Has(e) /\ ctx[s].phase # "leaving"
    BY <1>7, <2>1, <2>2, LeavingUndisturbed DEF Dispose
  <2>3. CASE Has(e) /\ ctx[s].phase = "leaving"
    <3>1. /\ audio' = [audio EXCEPT ![s] = ClosedBridge(audio[s])] /\ link' = link
          /\ media' = [media EXCEPT ![s] = Closed(media[s])]
      BY <1>7, <2>3 DEF Dispose
    <3> QED
      BY <3>1 DEF Types, SessionTypes, Undisturbed
  <2>4. CASE ~Has(e)
    <3>1. link' = link /\ audio' = audio
      BY <1>7, <2>4 DEF Dispose
    <3> QED
      BY <1>1, <3>1
  <2> QED
    BY <2>2, <2>3, <2>4
<1>8. ASSUME NEW e \in End, OnIceCandidates(e) \/ Flush(e) PROVE Undisturbed
  <2>1. link' = link /\ audio' = audio
    BY <1>8 DEF OnIceCandidates, Flush, sessionVars
  <2> QED
    BY <1>1, <2>1
<1>9. ASSUME NEW e \in End, OnEndCall(e) PROVE Undisturbed
  <2>1. Has(e) => Current(e) \in Session
    BY CurrentType
  <2> QED
    <3>1. link' = link /\ (audio' = audio \/ (Has(e) /\ EndCall(Current(e))))
      BY <1>9 DEF OnEndCall
    <3> QED
      BY <1>1, <2>1, <3>1, EndCallUndisturbed
<1>10. ASSUME NEW s \in Session, Described(s) \/ RemoteSet(s) \/ Gather(s) PROVE Undisturbed
  <2>1. link' = link /\ audio' = audio
    BY <1>10 DEF Described, RemoteSet, Gather, sessionVars
  <2> QED
    BY <1>1, <2>1
<1>11. ASSUME NEW s \in Session, OnHangupHint(s) PROVE Undisturbed
  BY <1>11, EndCallUndisturbed DEF OnHangupHint
<1>12. ASSUME NEW s \in Session, NEW what, MediaRejects(s, what) PROVE Undisturbed
  BY <1>12, FailCallUndisturbed DEF MediaRejects
<1>13. ASSUME NEW x \in sends, Store(x) PROVE Undisturbed
  <2>1. link' = link /\ audio' = audio
    BY <1>13 DEF Store, sessionVars
  <2> QED
    BY <1>1, <2>1
<1>14. ASSUME NEW x \in sends, Resolve(x) \/ RejectSend(x) PROVE Undisturbed
  <2>1. x.ctx \in Session
    BY DEF Types, PostTypes, Send
  <2> QED
    <3>1. link' = link
      BY <1>14 DEF Resolve, RejectSend
    <3>2. audio' = audio \/ EndCall(x.ctx) \/ FailCall(x.ctx)
      <4>1. CASE Resolve(x)
        BY <4>1 DEF Resolve
      <4>2. CASE RejectSend(x)
        BY <4>2 DEF RejectSend
      <4> QED
        BY <1>14, <4>1, <4>2
    <3> QED
      BY <1>1, <2>1, <3>1, <3>2, EndCallUndisturbed, FailCallUndisturbed
<1> QED
  BY <1>2, <1>3, <1>4, <1>5, <1>6, <1>7, <1>8, <1>9, <1>10, <1>11, <1>12, <1>13, <1>14
     DEF Next, User, Receive

----------------------------------------------------------------------------
(* The RTP gate.                                                           *)

\* The gate is open only once DTLS is done, which is never undone: so whatever a drain
\* finds open may write.
GateInv == /\ \A s \in Session : audio[s].ready => link[s].secure
           /\ SecureBeforeRtp

LEMMA GateInit == Init => GateInv
BY DEF Init, SessionsInit, NewAudio, NewLink, GateInv, SecureBeforeRtp

LEMMA DrainedIsSecure ==
    ASSUME NEW a \in AudioType, \A i \in DOMAIN a.rtp : a.rtp[i].secure,
           NEW secure \in BOOLEAN, a.ready => secure
    PROVE  /\ \A i \in DOMAIN Drained(a, secure).rtp : Drained(a, secure).rtp[i].secure
           /\ Drained(a, secure).ready = a.ready
<1> DEFINE p == Packets(a, secure)
           rtp == a.rtp \o p
<1>1. Drained(a, secure).ready = a.ready
  BY DEF Drained, AudioType
<1>2. CASE ~a.ready
  BY <1>1, <1>2 DEF Drained, AudioType
<1>3. CASE a.ready
  <2>1. \A i \in DOMAIN p : p[i].secure
    BY <1>3 DEF Packets
  <2>2. p \in Seq(Packet) /\ a.rtp \in Seq(Packet)
    BY PacketsType DEF AudioType, Packet
  <2> HIDE DEF p
  <2>3. \A i \in DOMAIN rtp : rtp[i].secure
    BY <2>1, <2>2
  <2>4. Drained(a, secure).rtp = rtp
    BY <1>3 DEF Drained, AudioType, p
  <2> QED
    BY <1>1, <2>3, <2>4
<1> QED
  BY <1>2, <1>3

LEMMA GateStep == Types /\ GateInv /\ [Next]_vars => GateInv'
<1> SUFFICES ASSUME Types, GateInv, [Next]_vars PROVE GateInv'
  OBVIOUS
<1>0. \A t \in Session : audio[t] \in AudioType /\ link[t] \in LinkType
  BY DEF Types, SessionTypes
<1>1. ASSUME NEW t \in Session, audio'[t] = audio[t], link[t].secure => link'[t].secure
      PROVE  /\ audio'[t].ready => link'[t].secure
             /\ \A i \in DOMAIN audio'[t].rtp : audio'[t].rtp[i].secure
  BY <1>1 DEF GateInv, SecureBeforeRtp
<1>2. CASE Undisturbed
  <2>1. \A t \in Session : HangupHint(t).secure = link[t].secure
    BY <1>0 DEF HangupHint, LinkType
  <2>2. \A t \in Session : /\ ClosedBridge(audio[t]).ready = audio[t].ready
                           /\ ClosedBridge(audio[t]).rtp = audio[t].rtp
    BY <1>0 DEF ClosedBridge, AudioType
  <2> QED
    BY <1>2, <2>1, <2>2 DEF Undisturbed, GateInv, SecureBeforeRtp
<1>3. ASSUME NEW s \in Session, Media(s) PROVE GateInv'
  <2>0. \A t \in Session \ {s} : audio'[t] = audio[t] /\ link'[t] = link[t]
    BY <1>3 DEF Media, WithLoad, Free, Connects, IceStateChanges, WriteAudio, AttachRemoteTrack,
                ReceiveRtp, DtlsCompletes, ConnectionStateChanges, ChannelOpens, Drain, Types,
                SessionTypes
  <2> SUFFICES /\ audio'[s].ready => link'[s].secure
               /\ \A i \in DOMAIN audio'[s].rtp : audio'[s].rtp[i].secure
    BY <1>1, <2>0 DEF GateInv, SecureBeforeRtp
  <2>1. CASE Connects(s) \/ DtlsCompletes(s)
    <3>1. audio' = audio
      BY <2>1 DEF Connects, IceStateChanges, DtlsCompletes
    <3>2. link[s].secure => link'[s].secure
      <4>1. ASSUME NEW ice, IceStateChanges(s, ice) PROVE link'[s].secure = link[s].secure
        <5>1. link'[s] = [link[s] EXCEPT !.ice = ice, !.told = Told(link[s].told, ice),
                                         !.flapped = link[s].flapped \/ ice = "disconnected"]
          BY <4>1 DEF IceStateChanges, Types, SessionTypes
        <5> QED
          BY <1>0, <5>1 DEF LinkType
      <4>2. CASE DtlsCompletes(s)
        BY <4>2 DEF DtlsCompletes, Types, SessionTypes, LinkType
      <4> QED
        BY <2>1, <4>1, <4>2 DEF Connects
    <3> QED
      BY <1>1, <3>1, <3>2
  <2>2. ASSUME NEW state, ConnectionStateChanges(s, state), state \in {"connected", "disconnected", "failed"}
        PROVE  /\ audio'[s].ready => link'[s].secure
               /\ audio'[s].rtp = audio[s].rtp
    BY <1>0, <2>2 DEF ConnectionStateChanges, SenderReady, Types, SessionTypes, LinkType, AudioType
  <2>3. CASE ChannelOpens(s)
    <3>1. /\ audio'[s] = OnChannelOpen(audio[s], link[s].told)
          /\ link[s].secure /\ link'[s].secure
      BY <1>0, <2>3 DEF ChannelOpens, Types, SessionTypes, LinkType
    <3>2. OnChannelOpen(audio[s], link[s].told).rtp = audio[s].rtp
      BY <1>0 DEF OnChannelOpen, SenderReady, AudioType
    <3> QED
      BY <3>1, <3>2 DEF GateInv, SecureBeforeRtp
  <2>4. CASE WriteAudio(s)
    <3>1. audio'[s] = Accepted(audio[s]) /\ link' = link
      BY <1>0, <2>4 DEF WriteAudio, Types, SessionTypes
    <3>2. /\ Accepted(audio[s]).rtp = audio[s].rtp
          /\ Accepted(audio[s]).ready = audio[s].ready
      BY <1>0 DEF Accepted, AudioType
    <3> QED
      BY <3>1, <3>2 DEF GateInv, SecureBeforeRtp
  <2>5. CASE Drain(s)
    <3>1. link' = link /\ audio'[s] \in {[audio[s] EXCEPT !.due = FALSE], Drained(audio[s], link[s].secure)}
      BY <1>0, <2>5 DEF Drain, Types, SessionTypes
    <3>2. /\ [audio[s] EXCEPT !.due = FALSE].rtp = audio[s].rtp
          /\ [audio[s] EXCEPT !.due = FALSE].ready = audio[s].ready
      BY <1>0 DEF AudioType
    <3>3. /\ \A i \in DOMAIN Drained(audio[s], link[s].secure).rtp :
                Drained(audio[s], link[s].secure).rtp[i].secure
          /\ Drained(audio[s], link[s].secure).ready = audio[s].ready
      BY <1>0, DrainedIsSecure DEF GateInv, SecureBeforeRtp, LinkType
    <3> QED
      BY <3>1, <3>2, <3>3 DEF GateInv, SecureBeforeRtp
  <2>6. CASE AttachRemoteTrack(s)
    <3>1. audio'[s] = Attached(audio[s]) /\ link' = link
      BY <1>0, <2>6 DEF AttachRemoteTrack, Types, SessionTypes
    <3>2. /\ Attached(audio[s]).rtp = audio[s].rtp
          /\ Attached(audio[s]).ready = audio[s].ready
      BY <1>0 DEF Attached, AudioType
    <3> QED
      BY <3>1, <3>2 DEF GateInv, SecureBeforeRtp
  <2>7. ASSUME NEW n \in 1..(FrameSamples + 1), ReceiveRtp(s, n)
        PROVE  /\ link' = link
               /\ audio'[s].rtp = audio[s].rtp /\ audio'[s].ready = audio[s].ready
    <3>1. link' = link /\ audio'[s] \in {Rechunked(audio[s], n),
                                         [audio[s] EXCEPT !.samples = audio[s].samples + n]}
      BY <1>0, <2>7 DEF ReceiveRtp, Types, SessionTypes
    <3>2. /\ Rechunked(audio[s], n).rtp = audio[s].rtp
          /\ Rechunked(audio[s], n).ready = audio[s].ready
      BY <1>0 DEF Rechunked, AudioType
    <3>3. /\ [audio[s] EXCEPT !.samples = audio[s].samples + n].rtp = audio[s].rtp
          /\ [audio[s] EXCEPT !.samples = audio[s].samples + n].ready = audio[s].ready
      BY <1>0 DEF AudioType
    <3> QED
      BY <3>1, <3>2, <3>3
  <2> QED
    BY <1>3, <2>1, <2>2, <2>3, <2>4, <2>5, <2>6, <2>7 DEF Media, WithLoad, Free, GateInv, SecureBeforeRtp
<1> QED
  BY <1>2, <1>3, SessionMoves

\* No RTP packet is written before DTLS is done, through whichever of its two keys the
\* gate was opened (peer-connection.ts:425-431 and 491-498).
THEOREM MediaSecureBeforeRtp == Spec => []SecureBeforeRtp
<1>1. GateInv => SecureBeforeRtp
  BY DEF GateInv
<1> QED
  BY <1>1, TypesInit, TypesStep, GateInit, GateStep, PTL DEF Spec

----------------------------------------------------------------------------
(* The trickle-ICE senders.                                                *)

\* What a step does to the sender of an end, but for arming it and for the batcher's timer.
Touched(e) ==
    \/ sender'[e] = sender[e] /\ calls'[e] = calls[e]
    \/ sender'[e] = Disposed(sender[e]) /\ calls'[e] = calls[e]
    \/ sender'[e] = [NoSender EXCEPT !.listed = TRUE] /\ calls[e] = 0
    \/ calls'[e] = calls[e] /\ \E c \in Candidate : sender'[e] = Fed(sender[e], c)
    \/ calls'[e] = calls[e] /\ \E cs : sender'[e] = [sender[e] EXCEPT !.lost = cs]

ArmedBy(x) == /\ Arms(x) /\ x.stored
              /\ calls' = calls /\ swarm' = swarm
              /\ sender' = [sender EXCEPT ![x.ctx[1]] = Armed(sender[x.ctx[1]])]

\* What a step adds to the pending sends and to the swarms, but for the batcher and the nodes.
QuietPost ==
    /\ swarm' = swarm
    /\ \A x \in sends' : x \in sends \/ (x.msg.type # "ICE_CANDIDATES" /\ ~x.stored)

AllTouched == \A e \in End : Touched(e)

LEMMA EndCallTouches ==
    ASSUME Types, NEW s \in Session, EndCall(s), calls' = calls
    PROVE  AllTouched
BY SessionIsPair DEF EndCall, Types, SenderType, AllTouched, Touched

LEMMA FailCallTouches ==
    ASSUME Types, NEW s \in Session, FailCall(s), calls' = calls
    PROVE  AllTouched
BY EndCallTouches DEF FailCall, AllTouched, Touched

LEMMA NewContextTouches ==
    ASSUME Types, NEW e \in End, NEW phase, NewContext(e, phase, SenderFor(e))
    PROVE  AllTouched
BY DEF NewContext, SenderFor, Types, SenderType, ContextTypes, AllTouched, Touched

LEMMA SenderMoves ==
    ASSUME Types, [Next]_vars
    PROVE  \/ AllTouched /\ QuietPost
           \/ \E e \in End : Flush(e)
           \/ AllTouched /\ \E x \in sends : Store(x)
           \/ QuietPost /\ \E x \in sends : ArmedBy(x)
<1>0. UNCHANGED <<sender, calls>> => AllTouched
  BY DEF AllTouched, Touched
<1>1. ASSUME NEW s, NEW type, type # "ICE_CANDIDATES", NEW ends, swarm' = swarm,
             sends' \subseteq sends \cup {Starts(s, type, ends)}
      PROVE  QuietPost
  <2>1. Starts(s, type, ends).msg.type = type /\ ~Starts(s, type, ends).stored
    BY DEF Starts
  <2> QED
    BY <1>1, <2>1 DEF QuietPost
<1>2. sends' \subseteq sends /\ swarm' = swarm => QuietPost
  BY DEF QuietPost
<1>3. CASE UNCHANGED vars
  <2>1. UNCHANGED <<sender, calls, sends, swarm>>
    BY <1>3 DEF vars, callVars
  <2> QED
    BY <1>0, <1>2, <2>1
<1>4. CASE Call
  <2>1. NewContext("caller", "setup", SenderFor("caller")) /\ "caller" \in End
    BY <1>4 DEF Call, End
  <2>2. sends' \subseteq sends \cup {Starts(<<"caller", 1>>, "PRE_OFFER", FALSE)} /\ swarm' = swarm
    BY <1>4 DEF Call
  <2> QED
    BY <1>1, <2>1, <2>2, NewContextTouches
<1>5. CASE Accept \/ Ignore \/ OnAnswer
  <2>1. UNCHANGED <<sender, calls, sends, swarm>>
    BY <1>5 DEF Accept, Ignore, OnAnswer
  <2> QED
    BY <1>0, <1>2, <2>1
<1>6. CASE OnPreOffer \/ OnOffer
  <2>1. UNCHANGED <<sends, swarm>>
    BY <1>6 DEF OnPreOffer, OnOffer
  <2>2. \/ UNCHANGED <<sender, calls>>
        \/ NewContext("callee", "ringing", SenderFor("callee")) /\ "callee" \in End
    BY <1>6 DEF OnPreOffer, OnOffer, End
  <2> QED
    BY <1>0, <1>2, <2>1, <2>2, NewContextTouches
<1>7. ASSUME NEW e \in End, Leave(e) PROVE AllTouched /\ QuietPost
  <2>1. UNCHANGED <<sender, calls>>
    BY <1>7 DEF Leave
  <2>2. sends' \subseteq sends \cup {Starts(Current(e), "END_CALL", TRUE)} /\ swarm' = swarm
    BY <1>7 DEF Leave, Leaving
  <2> QED
    BY <1>0, <1>1, <2>1, <2>2
<1>8. ASSUME NEW e \in End, CallFails(e) PROVE AllTouched /\ QuietPost
  <2>1. Current(e) \in Session
    BY <1>8, CurrentType DEF CallFails
  <2>2. EndCall(Current(e)) /\ calls' = calls
    BY <1>8 DEF CallFails
  <2>3. sends' \subseteq sends \cup {Starts(Current(e), "END_CALL", FALSE)} /\ swarm' = swarm
    BY <1>8 DEF CallFails
  <2> QED
    BY <1>1, <2>1, <2>2, <2>3, EndCallTouches
<1>9. ASSUME NEW e \in End, Dispose(e) PROVE AllTouched /\ QuietPost
  <2>1. sender' = [sender EXCEPT ![e] = Disposed(sender[e])] /\ calls' = calls /\ swarm' = swarm
    BY <1>9 DEF Dispose
  <2>2. AllTouched
    BY <2>1 DEF Types, SenderType, AllTouched, Touched
  <2>3. sends' \subseteq sends \cup {Starts(Current(e), "END_CALL", TRUE)}
    BY <1>9 DEF Dispose, Leaving
  <2> QED
    BY <1>1, <2>1, <2>2, <2>3
<1>10. ASSUME NEW e \in End, OnIceCandidates(e) PROVE AllTouched /\ QuietPost
  <2>1. UNCHANGED <<sender, calls, sends, swarm>>
    BY <1>10 DEF OnIceCandidates
  <2> QED
    BY <1>0, <1>2, <2>1
<1>11. ASSUME NEW e \in End, OnEndCall(e) PROVE AllTouched /\ QuietPost
  <2>1. Has(e) => Current(e) \in Session
    BY CurrentType
  <2>2. UNCHANGED <<calls, sends, swarm>> /\ (sender' = sender \/ (Has(e) /\ EndCall(Current(e))))
    BY <1>11 DEF OnEndCall
  <2> QED
    BY <1>0, <1>2, <2>1, <2>2, EndCallTouches
<1>12. ASSUME NEW s \in Session, OnHangupHint(s) PROVE AllTouched /\ QuietPost
  <2>1. UNCHANGED <<calls, sends, swarm>> /\ EndCall(s)
    BY <1>12 DEF OnHangupHint
  <2> QED
    BY <1>2, <2>1, EndCallTouches
<1>13. ASSUME NEW s \in Session, Described(s) PROVE AllTouched /\ QuietPost
  <2> DEFINE type == IF s[1] = "caller" THEN "OFFER" ELSE "ANSWER"
  <2>1. /\ UNCHANGED <<sender, calls>> /\ swarm' = swarm
        /\ sends' \subseteq sends \cup {Starts(s, type, FALSE)}
    BY <1>13 DEF Described
  <2>2. type # "ICE_CANDIDATES"
    OBVIOUS
  <2> HIDE DEF type
  <2> QED
    BY <1>0, <1>1, <2>1, <2>2
<1>14. ASSUME NEW s \in Session, RemoteSet(s) PROVE AllTouched /\ QuietPost
  <2>1. UNCHANGED <<sender, calls, sends, swarm>>
    BY <1>14 DEF RemoteSet
  <2> QED
    BY <1>0, <1>2, <2>1
<1>15. ASSUME NEW s \in Session, NEW what, MediaRejects(s, what) PROVE AllTouched /\ QuietPost
  <2>1. UNCHANGED <<calls, sends, swarm>> /\ FailCall(s)
    BY <1>15 DEF MediaRejects
  <2> QED
    BY <1>2, <2>1, FailCallTouches
<1>16. ASSUME NEW s \in Session, Gather(s) PROVE AllTouched /\ QuietPost
  <2> DEFINE c == <<s[1], left[s[1]]["candidates"]>>
  <2>1. c \in Candidate /\ s[1] \in End
    BY <1>16, SessionIsPair DEF Gather, Uses, Types, LoadTypes, Numbered, LoadKinds
  <2>2. UNCHANGED <<calls, sends, swarm>>
    BY <1>16 DEF Gather, callVars
  <2>3. sender' = IF media[s].wired
                  THEN [sender EXCEPT ![s[1]] = Fed(sender[s[1]], c)] ELSE sender
    BY <1>16 DEF Gather
  <2> HIDE DEF c
  <2>4. AllTouched
    BY <2>1, <2>2, <2>3 DEF Types, SenderType, AllTouched, Touched
  <2> QED
    BY <1>2, <2>2, <2>4
<1>17. ASSUME NEW s \in Session, Media(s) PROVE AllTouched /\ QuietPost
  <2>1. UNCHANGED <<sender, calls, sends, swarm>>
    BY <1>17 DEF Media, WithLoad, Free, callVars
  <2> QED
    BY <1>0, <1>2, <2>1
<1>18. ASSUME NEW x \in sends, Store(x) PROVE AllTouched /\ \E y \in sends : Store(y)
  <2>1. UNCHANGED <<sender, calls>>
    BY <1>18 DEF Store
  <2> QED
    BY <1>0, <1>18, <2>1
<1>19. ASSUME NEW x \in sends, Resolve(x)
       PROVE  (AllTouched /\ QuietPost) \/ (QuietPost /\ \E y \in sends : ArmedBy(y))
  <2>1. x.ctx \in Session
    BY DEF Types, PostTypes, Send
  <2>2. QuietPost /\ calls' = calls /\ swarm' = swarm /\ x.stored
    BY <1>2, <1>19 DEF Resolve
  <2>3. CASE x.ends
    BY <1>19, <2>1, <2>2, <2>3, EndCallTouches DEF Resolve
  <2>4. CASE ~x.ends /\ ~Arms(x)
    BY <1>0, <1>19, <2>2, <2>4 DEF Resolve
  <2>5. CASE ~x.ends /\ Arms(x)
    BY <1>19, <2>2, <2>5 DEF Resolve, ArmedBy
  <2> QED
    BY <2>3, <2>4, <2>5
<1>20. ASSUME NEW x \in sends, RejectSend(x) PROVE AllTouched /\ QuietPost
  <2> DEFINE e == x.ctx[1]
  <2>1. x.ctx \in Session /\ e \in End
    BY SessionIsPair DEF Types, PostTypes, Send
  <2>2. QuietPost /\ calls' = calls
    BY <1>2, <1>20 DEF RejectSend
  <2>3. CASE x.msg.type = "ICE_CANDIDATES"
    <3>1. sender' = [sender EXCEPT ![e].lost = sender[e].lost \cup Range(x.msg.cands)]
      BY <1>20, <2>3 DEF RejectSend
    <3>2. sender'[e] = [sender[e] EXCEPT !.lost = sender[e].lost \cup Range(x.msg.cands)]
          /\ \A f \in End \ {e} : sender'[f] = sender[f]
      BY <2>1, <3>1 DEF Types, SenderType
    <3> QED
      BY <2>2, <3>2 DEF AllTouched, Touched
  <2>4. CASE x.msg.type # "ICE_CANDIDATES"
    <3>1. sender' = sender \/ EndCall(x.ctx) \/ FailCall(x.ctx)
      BY <1>20, <2>4 DEF RejectSend
    <3> QED
      BY <1>0, <2>1, <2>2, <3>1, EndCallTouches, FailCallTouches
  <2> QED
    BY <2>2, <2>3, <2>4
<1> QED
  BY <1>3, <1>4, <1>5, <1>6, <1>7, <1>8, <1>9, <1>10, <1>11, <1>12, <1>13, <1>14, <1>15, <1>16,
     <1>17, <1>18, <1>19, <1>20 DEF Next, User, Receive

\* A sender that was dropped has been disposed of, and its timer with it.
SilentInv == \A e \in End :
    calls[e] # 0 /\ ~sender[e].listed => sender[e].disposed /\ ~sender[e].timer

\* What the operators make of a sender, as far as the two invariants ask.
LEMMA SenderFacts ==
    ASSUME NEW r \in Sender, NEW c \in Candidate
    PROVE  /\ Disposed(r).sent = r.sent /\ Disposed(r).armed = r.armed
           /\ Disposed(r).timer => r.timer
           /\ ~Disposed(r).listed
           /\ r.listed => Disposed(r).disposed /\ ~Disposed(r).timer
           /\ ~r.listed => Disposed(r) = r
           /\ Fed(r, c).sent = r.sent /\ Fed(r, c).armed = r.armed
           /\ Fed(r, c).listed = r.listed /\ Fed(r, c).disposed = r.disposed
           /\ Fed(r, c).timer => r.timer \/ (r.armed /\ ~r.disposed)
           /\ Armed(r).sent = r.sent /\ Armed(r).listed = r.listed
           /\ Armed(r).disposed = r.disposed
           /\ r.disposed => Armed(r) = r
           /\ Armed(r).timer => Armed(r).armed \/ r.timer
           /\ \A cs : LET l == [r EXCEPT !.lost = cs]
                      IN  /\ l.sent = r.sent /\ l.armed = r.armed /\ l.timer = r.timer
                          /\ l.listed = r.listed /\ l.disposed = r.disposed
<1>1. /\ Disposed(r).sent = r.sent /\ Disposed(r).armed = r.armed
      /\ Disposed(r).timer => r.timer
      /\ ~Disposed(r).listed
      /\ r.listed => Disposed(r).disposed /\ ~Disposed(r).timer
      /\ ~r.listed => Disposed(r) = r
  BY DEF Disposed, Sender
<1>2. /\ Fed(r, c).sent = r.sent /\ Fed(r, c).armed = r.armed
      /\ Fed(r, c).listed = r.listed /\ Fed(r, c).disposed = r.disposed
      /\ Fed(r, c).timer => r.timer \/ (r.armed /\ ~r.disposed)
  BY DEF Fed, Enqueued, Sender
<1>3. /\ Armed(r).sent = r.sent /\ Armed(r).listed = r.listed
      /\ Armed(r).disposed = r.disposed
      /\ r.disposed => Armed(r) = r
      /\ Armed(r).timer => Armed(r).armed \/ r.timer
  BY DEF Armed, Sender
<1>4. ASSUME NEW cs
      PROVE  LET l == [r EXCEPT !.lost = cs]
             IN  /\ l.sent = r.sent /\ l.armed = r.armed /\ l.timer = r.timer
                 /\ l.listed = r.listed /\ l.disposed = r.disposed
  BY DEF Sender
<1> QED
  BY <1>1, <1>2, <1>3, <1>4

\* The sender of an end over one step: what it sent, and whether it is dropped for good.
LEMMA SilentMove ==
    ASSUME Types, SilentInv, [Next]_vars, NEW e \in End
    PROVE  /\ calls[e] # 0 /\ ~sender[e].listed => sender'[e].sent = sender[e].sent
           /\ calls'[e] # 0 /\ ~sender'[e].listed => sender'[e].disposed /\ ~sender'[e].timer
<1> DEFINE r == sender[e]
<1>0. r \in Sender
  BY DEF Types, SenderType
<1>1. calls[e] # 0 /\ ~r.listed => r.disposed /\ ~r.timer
  BY DEF SilentInv
<1>2. calls[e] = 0 => ~r.listed /\ ~r.timer /\ ~r.armed
  BY DEF Types, UnusedSender
<1>3. CASE Touched(e)
  <2>1. CASE sender'[e] = r /\ calls'[e] = calls[e]
    BY <1>1, <2>1
  <2>2. CASE sender'[e] = Disposed(r) /\ calls'[e] = calls[e]
    <3>1. /\ Disposed(r).sent = r.sent
          /\ r.listed => Disposed(r).disposed /\ ~Disposed(r).timer
          /\ ~r.listed => Disposed(r) = r
      BY <1>0 DEF Disposed, Sender
    <3> QED
      BY <1>1, <2>2, <3>1
  <2>3. CASE sender'[e] = [NoSender EXCEPT !.listed = TRUE] /\ calls[e] = 0
    BY <2>3 DEF NoSender
  <2>4. CASE calls'[e] = calls[e] /\ \E c \in Candidate : sender'[e] = Fed(r, c)
    <3>1. PICK c \in Candidate : sender'[e] = Fed(r, c)
      BY <2>4
    <3> QED
      BY <1>0, <1>1, <2>4, <3>1, SenderFacts
  <2>5. CASE calls'[e] = calls[e] /\ \E cs : sender'[e] = [r EXCEPT !.lost = cs]
    <3>1. /\ sender'[e].sent = r.sent /\ sender'[e].timer = r.timer
          /\ sender'[e].listed = r.listed /\ sender'[e].disposed = r.disposed
      BY <1>0, <2>5 DEF Sender
    <3> QED
      BY <1>1, <2>5, <3>1
  <2> QED
    BY <1>3, <2>1, <2>2, <2>3, <2>4, <2>5 DEF Touched
<1>4. ASSUME NEW f \in End, Flush(f)
      PROVE  /\ calls[e] # 0 /\ ~r.listed => sender'[e].sent = r.sent
             /\ calls'[e] # 0 /\ ~sender'[e].listed => sender'[e].disposed /\ ~sender'[e].timer
  <2>1. CASE f # e
    BY <1>1, <1>4, <2>1 DEF Flush, Types, SenderType
  <2>2. CASE f = e
    <3>1. calls[e] # 0 /\ r.listed /\ calls' = calls
      BY <1>1, <1>2, <1>4, <2>2 DEF Flush
    <3>2. sender'[e].listed = r.listed
      BY <1>0, <1>4, <2>2 DEF Flush, Types, SenderType, Sender
    <3> QED
      BY <3>1, <3>2
  <2> QED
    BY <2>1, <2>2
<1>5. ASSUME NEW x \in sends, ArmedBy(x)
      PROVE  /\ calls[e] # 0 /\ ~r.listed => sender'[e].sent = r.sent
             /\ calls'[e] # 0 /\ ~sender'[e].listed => sender'[e].disposed /\ ~sender'[e].timer
  <2>1. calls' = calls /\ sender'[e] \in {r, Armed(r)}
    BY <1>5 DEF ArmedBy, Types, SenderType
  <2>2. /\ Armed(r).sent = r.sent /\ Armed(r).listed = r.listed
        /\ r.disposed => Armed(r) = r
    BY <1>0 DEF Armed, Sender
  <2> QED
    BY <1>1, <2>1, <2>2
<1> QED
  BY <1>3, <1>4, <1>5, SenderMoves DEF AllTouched

LEMMA SilentInit == Init => SilentInv
BY DEF Init, SilentInv

\* After "ended" or dispose() the trickle sender passes nothing more on, however many
\* contexts and candidates there are (signaling.ts:208-217).
THEOREM MediaSilentOnceEnded == Spec => SilentOnceEnded
<1>1. Types /\ SilentInv /\ [Next]_vars => SilentInv'
  BY SilentMove DEF SilentInv
<1>2. Types /\ SilentInv /\ [Next]_vars
        => [\A e \in End : calls[e] # 0 /\ ~sender[e].listed => sender'[e].sent = sender[e].sent]_vars
  BY SilentMove
<1> QED
  BY <1>1, <1>2, TypesInit, TypesStep, SilentInit, PTL DEF Spec, SilentOnceEnded

----------------------------------------------------------------------------
(* Candidates come after their description.                                *)

IsDescription(m) == m.type \in {"OFFER", "ANSWER"}

\* A description of end e is stored for its peer.
Out(e) == \E j \in DOMAIN swarm[Far(e)] : IsDescription(swarm[Far(e)][j])

\* Nothing arms a sender but a stored description, and nothing starts a batch but an
\* armed sender.
OrderInv == /\ \A e \in End : sender[e].armed \/ sender[e].timer => Out(e)
            /\ \A x \in sends : x.stored /\ IsDescription(x.msg) => Out(x.ctx[1])
            /\ \A x \in sends : x.msg.type = "ICE_CANDIDATES" => Out(x.ctx[1])
            /\ DescriptionFirst

LEMMA OrderInit == Init => OrderInv
BY DEF Init, NoSender, OrderInv, DescriptionFirst

LEMMA FarIsEnd ==
    ASSUME NEW e \in End
    PROVE  Far(e) \in End /\ Far(Far(e)) = e
BY DEF Far, End

LEMMA OrderStep == Types /\ OrderInv /\ [Next]_vars => OrderInv'
<1> SUFFICES ASSUME Types, OrderInv, [Next]_vars PROVE OrderInv'
  OBVIOUS
<1>0. /\ \A e \in End : sender[e] \in Sender
      /\ \A x \in sends : x \in Send /\ x.ctx[1] \in End
      /\ swarm \in [End -> Seq(Message)]
  BY SessionIsPair DEF Types, SenderType, PostTypes, Send
<1>1. ASSUME QuietPost
      PROVE  /\ \A e \in End : Out(e)' <=> Out(e)
             /\ \A x \in sends' : x.stored /\ IsDescription(x.msg) => Out(x.ctx[1])'
             /\ \A x \in sends' : x.msg.type = "ICE_CANDIDATES" => Out(x.ctx[1])'
             /\ DescriptionFirst'
  <2>1. \A e : Out(e)' <=> Out(e)
    BY <1>1 DEF QuietPost, Out
  <2>2. DescriptionFirst'
    BY <1>1 DEF QuietPost, OrderInv, DescriptionFirst
  <2> QED
    BY <1>1, <2>1, <2>2 DEF QuietPost, OrderInv
<1>2. ASSUME NEW e \in End, Touched(e)
      PROVE  sender'[e].armed \/ sender'[e].timer => sender[e].armed \/ sender[e].timer
  <2> DEFINE r == sender[e]
  <2>1. CASE sender'[e] = [NoSender EXCEPT !.listed = TRUE]
    BY <2>1 DEF NoSender
  <2>2. CASE sender'[e] = Disposed(r)
    BY <1>0, <2>2 DEF Disposed, Sender
  <2>3. ASSUME NEW c \in Candidate, sender'[e] = Fed(r, c)
        PROVE  sender'[e].armed \/ sender'[e].timer => r.armed \/ r.timer
    BY <1>0, <2>3, SenderFacts
  <2>4. ASSUME NEW cs, sender'[e] = [r EXCEPT !.lost = cs]
        PROVE  sender'[e].armed \/ sender'[e].timer => r.armed \/ r.timer
    BY <1>0, <2>4 DEF Sender
  <2> QED
    BY <1>2, <2>1, <2>2, <2>3, <2>4 DEF Touched
<1>3. CASE AllTouched /\ QuietPost
  <2>1. \A e \in End : sender'[e].armed \/ sender'[e].timer => Out(e)'
    BY <1>1, <1>2, <1>3 DEF AllTouched, OrderInv
  <2> QED
    BY <1>1, <1>3, <2>1 DEF OrderInv
<1>4. ASSUME NEW f \in End, Flush(f) PROVE OrderInv'
  <2> DEFINE x == [Starts(<<f, calls[f]>>, "ICE_CANDIDATES", FALSE) EXCEPT !.msg.cands = sender[f].queue]
  <2>1. swarm' = swarm /\ sends' \subseteq sends \cup {x}
    BY <1>4 DEF Flush
  <2>2. x.ctx[1] = f /\ x.msg.type = "ICE_CANDIDATES"
    BY DEF Starts
  <2>3. Out(f)
    BY <1>4 DEF Flush, OrderInv
  <2>4. \A e : Out(e)' <=> Out(e)
    BY <2>1 DEF Out
  <2>5. \A e \in End : sender'[e].armed \/ sender'[e].timer => sender[e].armed \/ sender[e].timer
    BY <1>0, <1>4 DEF Flush, Types, SenderType, Sender
  <2>6. DescriptionFirst'
    BY <2>1 DEF OrderInv, DescriptionFirst
  <2> HIDE DEF x
  <2>7. ~IsDescription(x.msg)
    BY <2>2 DEF IsDescription
  <2> QED
    BY <2>1, <2>2, <2>3, <2>4, <2>5, <2>6, <2>7 DEF OrderInv
<1>5. ASSUME NEW x \in sends, AllTouched, Store(x) PROVE OrderInv'
  <2> DEFINE e == x.ctx[1]
             f == Far(e)
             y == [x EXCEPT !.stored = TRUE]
             q == swarm[f]
  <2>1. e \in End /\ f \in End /\ q \in Seq(Message) /\ x.msg \in Message
    BY <1>0, FarIsEnd DEF Send
  <2>2. swarm' = [swarm EXCEPT ![f] = Append(q, x.msg)] /\ sends' = (sends \ {x}) \cup {y}
    BY <1>5 DEF Store
  <2>3. y.ctx = x.ctx /\ y.msg = x.msg
    BY <1>0 DEF Send
  <2>4. swarm'[f] = Append(q, x.msg) /\ \A g \in End \ {f} : swarm'[g] = swarm[g]
    BY <1>0, <2>1, <2>2
  <2>5. /\ Len(Append(q, x.msg)) = Len(q) + 1 /\ Len(q) \in Nat
        /\ \A i \in 1..Len(q) : Append(q, x.msg)[i] = q[i]
        /\ Append(q, x.msg)[Len(q) + 1] = x.msg
        /\ DOMAIN q = 1..Len(q) /\ DOMAIN Append(q, x.msg) = 1..(Len(q) + 1)
    BY <2>1
  <2> HIDE DEF e, f, y, q
  <2>6. \A g \in End : Out(g) => Out(g)'
    <3> SUFFICES ASSUME NEW g \in End, Out(g) PROVE Out(g)'
      OBVIOUS
    <3>1. PICK j \in DOMAIN swarm[Far(g)] : IsDescription(swarm[Far(g)][j])
      BY DEF Out
    <3>2. CASE Far(g) = f
      <4>1. j \in DOMAIN swarm'[Far(g)] /\ swarm'[Far(g)][j] = swarm[Far(g)][j]
        BY <2>4, <2>5, <3>1, <3>2 DEF q
      <4> QED
        BY <3>1, <4>1 DEF Out
    <3>3. CASE Far(g) # f
      BY <2>4, <3>1, <3>3, FarIsEnd DEF Out
    <3> QED
      BY <3>2, <3>3
  <2>7. IsDescription(x.msg) => Out(e)'
    <3>1. Far(e) = f /\ Len(q) + 1 \in DOMAIN swarm'[f] /\ swarm'[f][Len(q) + 1] = x.msg
      BY <2>4, <2>5 DEF f
    <3> QED
      BY <3>1 DEF Out
  <2>8. \A g \in End : sender'[g].armed \/ sender'[g].timer => Out(g)'
    BY <1>2, <1>5, <2>6 DEF AllTouched, OrderInv
  <2>9. \A z \in sends' : z.stored /\ IsDescription(z.msg) => Out(z.ctx[1])'
    BY <1>0, <2>2, <2>3, <2>6, <2>7 DEF OrderInv, e
  <2>10. \A z \in sends' : z.msg.type = "ICE_CANDIDATES" => Out(z.ctx[1])'
    BY <1>0, <2>2, <2>3, <2>6 DEF OrderInv
  <2>11. DescriptionFirst'
    <3> SUFFICES ASSUME NEW g \in End, NEW i \in DOMAIN swarm'[g],
                        swarm'[g][i].type = "ICE_CANDIDATES"
                 PROVE  \E j \in 1..(i - 1) : IsDescription(swarm'[g][j])
      BY DEF DescriptionFirst, IsDescription
    <3>1. \A h \in End : \A k \in DOMAIN swarm[h] : swarm[h][k].type = "ICE_CANDIDATES" =>
              \E j \in 1..(k - 1) : IsDescription(swarm[h][j])
      BY DEF OrderInv, DescriptionFirst, IsDescription
    <3>2. CASE g # f
      BY <2>4, <3>1, <3>2
    <3>3. CASE g = f /\ i # Len(q) + 1
      <4>1. i \in 1..Len(q) /\ swarm'[g][i] = q[i] /\ q = swarm[g]
        BY <2>4, <2>5, <3>3 DEF q
      <4>2. PICK j \in 1..(i - 1) : IsDescription(q[j])
        BY <2>1, <2>5, <3>1, <3>3, <4>1
      <4>3. swarm'[g][j] = q[j]
        BY <2>4, <2>5, <3>3, <4>1, <4>2
      <4> QED
        BY <4>2, <4>3
    <3>4. CASE g = f /\ i = Len(q) + 1
      <4>1. x.msg.type = "ICE_CANDIDATES"
        BY <2>4, <2>5, <3>4
      <4>2. Out(e)
        BY <4>1 DEF OrderInv, e
      <4>3. PICK j \in DOMAIN q : IsDescription(q[j])
        BY <4>2 DEF Out, q, f
      <4>4. j \in 1..(i - 1) /\ swarm'[g][j] = q[j]
        BY <2>4, <2>5, <3>4, <4>3
      <4> QED
        BY <4>3, <4>4
    <3> QED
      BY <3>2, <3>3, <3>4
  <2> QED
    BY <2>8, <2>9, <2>10, <2>11 DEF OrderInv
<1>6. ASSUME QuietPost, NEW x \in sends, ArmedBy(x) PROVE OrderInv'
  <2>1. Out(x.ctx[1])
    BY <1>6 DEF ArmedBy, Arms, OrderInv, IsDescription
  <2>2. \A e \in End : sender'[e] = IF e = x.ctx[1] THEN Armed(sender[e]) ELSE sender[e]
    BY <1>0, <1>6 DEF ArmedBy, Types, SenderType
  <2>3. \A e \in End : sender'[e].armed \/ sender'[e].timer => Out(e)
    BY <2>1, <2>2 DEF OrderInv
  <2> QED
    BY <1>1, <1>6, <2>3 DEF OrderInv
<1> QED
  BY <1>3, <1>4, <1>5, <1>6, SenderMoves

\* No end's candidates are stored before its OFFER or ANSWER, for any number of
\* candidates, batches and failing sends (signaling.ts:170-198).
THEOREM MediaDescriptionFirst == Spec => []DescriptionFirst
<1>1. OrderInv => DescriptionFirst
  BY DEF OrderInv
<1> QED
  BY <1>1, TypesInit, TypesStep, OrderInit, OrderStep, PTL DEF Spec
=============================================================================
