------------------------------- MODULE CallMedia -------------------------------
(***************************************************************************)
(* The two ends of one call below the call's state machine: CallManager    *)
(* with its handles and trickle-ICE senders (call-manager.ts, call.ts,     *)
(* signaling.ts), the candidates' way through swarm and supervisor, and    *)
(* the media sessions of MediaSession.                                     *)
(*                                                                         *)
(* Of the supervisor there is what creates and closes a media session and  *)
(* passes candidates on; states and timers are in CallSupervisor.  A       *)
(* context is its end and its number: the callee may make another one for  *)
(* the same call.  A swarm keeps its messages in the order they are stored *)
(* and the Poller delivers them in that order; sends that are in flight at *)
(* once are stored in any order.                                           *)
(***************************************************************************)
EXTENDS MediaSession, MediaSetup

CONSTANTS
    MaxContexts,   \* bound: contexts an end creates for the call
    RelayOnly,     \* iceTransportPolicy = "relay"
    Relayed,       \* the candidates of type relay
    Hosts,         \* SESSION_TURN_SERVERS
    Sdps,          \* the local descriptions werift may produce
    Loads          \* bound: how much of each kind may happen to each end

End == {"caller", "callee"}
Far(e) == IF e = "caller" THEN "callee" ELSE "caller"

LoadKinds == {"candidates", "frames", "packets", "events", "ends", "failures", "picks", "sdps"}

ASSUME CallMediaAssumption == /\ MaxContexts \in Nat \ {0}
                              /\ Session = End \X (1..MaxContexts)
                              /\ RelayOnly \in BOOLEAN
                              /\ Loads \subseteq [End -> [LoadKinds -> Nat]]
                              /\ \A load \in Loads : \A e \in End :
                                   \A n \in 1..load[e]["candidates"] : <<e, n>> \in Candidate

\* The servers of policy.ts are of different hosts; a description is a sequence of lines.
ASSUME SetupAssumption == /\ Hosts \in Seq(STRING) /\ Len(Hosts) >= 2
                          /\ \A i, j \in DOMAIN Hosts : i # j => Hosts[i] # Hosts[j]
                          /\ Sdps \subseteq Seq(Line)

VARIABLES
    contexts,   \* the supervisor's map: the context of the call at each end, 0 if none
    made,       \* how many contexts each end created
    ctx,        \* the contexts
    calls,      \* #calls: the context the end's CallImpl wraps, 0 if there is none
    sender,     \* the end's TrickleIceSender
    awaits,     \* media operations whose promises are pending
    sends,      \* sendToPeer promises that are pending
    swarm,      \* everything stored for each end, in order
    read,       \* how much of it each end has received
    disposed,   \* #disposed of each end's CallManager
    gathered,   \* what each session told its CallManager: onLocalCandidate
    setup,      \* what each session was set up with
    left        \* what is left of the load

callVars == <<contexts, made, ctx, calls, awaits, sends, swarm, read, disposed, setup>>
vars == <<sessionVars, callVars, sender, gathered, left>>

----------------------------------------------------------------------------
Type    == {"PRE_OFFER", "OFFER", "ANSWER", "ICE_CANDIDATES", "END_CALL"}
Message == [type : Type, cands : Seq(Candidate)]

\* One sendToPeer; ends: its context ends the call when the promise resolves.
Send == [ctx : Session, msg : Message, ends : BOOLEAN, stored : BOOLEAN]

\* A TrickleIceSender and its IceCandidateBatcher; listed: it is in #trickle; parked:
\* #preArmQueue; queue, timer: the batcher's; sent: what it has passed to sendToPeer; lost: what of
\* that was rejected.
Sender == [listed : BOOLEAN, armed : BOOLEAN, disposed : BOOLEAN, parked : Seq(Candidate),
           queue : Seq(Candidate), timer : BOOLEAN, sent : Seq(Candidate),
           lost : SUBSET Candidate]

Phase == {"none", "ringing", "setup", "leaving", "over"}

NoSender == [listed |-> FALSE, armed |-> FALSE, disposed |-> FALSE, parked |-> <<>>,
             queue |-> <<>>, timer |-> FALSE, sent |-> <<>>, lost |-> {}]

TypeOK ==
    /\ media \in [Session -> MediaType] /\ link \in [Session -> LinkType]
    /\ audio \in [Session -> AudioType]
    /\ contexts \in [End -> 0..MaxContexts] /\ made \in [End -> 0..MaxContexts]
    /\ ctx \in [Session -> [phase : Phase, waiting : Seq(Candidate)]]
    /\ calls \in [End -> 0..MaxContexts]
    /\ sender \in [End -> Sender]
    /\ awaits \subseteq Session \X {"describe", "remote"}
    /\ sends \subseteq Send
    /\ swarm \in [End -> Seq(Message)]
    /\ \A e \in End : read[e] \in 0..Len(swarm[e])
    /\ disposed \in [End -> BOOLEAN]
    /\ gathered \in [Session -> Seq(Candidate)]
    /\ left \in [End -> [LoadKinds -> Nat]]

Init ==
    /\ SessionsInit
    /\ contexts = [e \in End |-> 0] /\ made = [e \in End |-> 0]
    /\ ctx = [s \in Session |-> [phase |-> "none", waiting |-> <<>>]]
    /\ calls = [e \in End |-> 0]
    /\ sender = [e \in End |-> NoSender]
    /\ awaits = {} /\ sends = {}
    /\ swarm = [e \in End |-> <<>>] /\ read = [e \in End |-> 0]
    /\ disposed = [e \in End |-> FALSE]
    /\ gathered = [s \in Session |-> <<>>]
    /\ setup = [s \in Session |-> [raw |-> <<>>, sdp |-> <<>>, servers |-> <<>>]]
    /\ left \in Loads

Uses(e, kind) == left[e][kind] > 0 /\ left' = [left EXCEPT ![e][kind] = left[e][kind] - 1]

Current(e) == <<e, contexts[e]>>
Has(e)     == contexts[e] # 0

Starts(s, type, ends) ==
    [ctx |-> s, msg |-> [type |-> type, cands |-> <<>>], ends |-> ends, stored |-> FALSE]

----------------------------------------------------------------------------
(* The trickle-ICE sender.                                                 *)

\* Mutant: what was parked is lost on the way to the batcher.
ArmedForgetful(r) ==
    IF r.armed \/ r.disposed THEN r ELSE [r EXCEPT !.armed = TRUE, !.parked = <<>>]

Armed(r) ==
    IF r.armed \/ r.disposed THEN r
    ELSE [r EXCEPT !.armed = TRUE, !.parked = <<>>, !.queue = r.queue \o r.parked,
                   !.timer = r.timer \/ r.parked # <<>>]

Enqueued(r, c) == [r EXCEPT !.queue = Append(r.queue, c), !.timer = TRUE]

\* Mutant: candidates are sent as soon as there are any.
FedUngated(r, c) == IF r.disposed THEN r ELSE Enqueued(r, c)

\* feed: relay mode lets only relay candidates out; before arm() they are parked.
Fed(r, c) ==
    IF r.disposed \/ (RelayOnly /\ c \notin Relayed) THEN r
    ELSE IF r.armed THEN Enqueued(r, c)
    ELSE [r EXCEPT !.parked = Append(r.parked, c)]

\* Mutant: the batcher's timer and queue survive.
DisposedTicking(r) == [r EXCEPT !.listed = FALSE, !.parked = <<>>]

\* dispose() by its CallManager, which drops it from #trickle.
Disposed(r) == IF ~r.listed THEN r
               ELSE [r EXCEPT !.listed = FALSE, !.disposed = TRUE, !.parked = <<>>,
                              !.queue = <<>>, !.timer = FALSE]

----------------------------------------------------------------------------
(* Contexts come and go.                                                   *)

\* onNewContext: a handle and a sender, unless the call has had a handle before.
SenderFor(e) == IF calls[e] # 0 THEN sender[e] ELSE [NoSender EXCEPT !.listed = TRUE]

\* registerContext and the callbacks it leads to, up to the "incoming" or "outgoing" event.
NewContext(e, phase, record) ==
    /\ made[e] < MaxContexts
    /\ made' = [made EXCEPT ![e] = made[e] + 1]
    /\ contexts' = [contexts EXCEPT ![e] = made[e] + 1]
    /\ ctx' = [ctx EXCEPT ![<<e, made[e] + 1>>] = [phase |-> phase, waiting |-> <<>>]]
    /\ calls' = [calls EXCEPT ![e] = IF calls[e] = 0 THEN made[e] + 1 ELSE calls[e]]
    /\ sender' = [sender EXCEPT ![e] = record]

\* createMediaSession and onMediaSession: the session is wired to the sender of #trickle,
\* if any, and gets the candidates that waited for it.
NewSession(record, waiting) ==
    AddRemoteCandidates([NewMedia EXCEPT !.made = TRUE, !.wired = record.listed], waiting)

Servers(picks) ==
    ToWeriftIceServers(LET two == PickTurnServers(Hosts, picks)
                       IN  [i \in DOMAIN two |-> [urls |-> <<[scheme |-> "turn", host |-> two[i],
                                                               port |-> FALSE]>>]])

\* Bound: only with a load for it does the random source, and do descriptions, vary.
Vary(e, what, all, one) == IF left[e][what] > 0 THEN all ELSE {one}

ServersGiven(e, s) ==
    \E p \in Vary(e, "picks", Picks(Len(Hosts)), [i \in 2..Len(Hosts) |-> i]) :
        setup' = [setup EXCEPT ![s].servers = Servers(p)]

\* endCall of context s: onCallEnded, then teardownContext, which goes by the call.
EndCall(s) ==
    /\ sender' = [sender EXCEPT ![s[1]] = Disposed(sender[s[1]])]
    /\ contexts' = [contexts EXCEPT ![s[1]] = 0]
    /\ ctx' = [ctx EXCEPT ![s].phase = "over"]
    /\ media' = [media EXCEPT ![s] = Closed(media[s])]
    /\ audio' = [audio EXCEPT ![s] = ClosedBridge(audio[s])]

\* failCall, of whichever context the call has: nothing if it has none.
FailCall(s) == IF Has(s[1]) THEN EndCall(s)
               ELSE UNCHANGED <<sender, contexts, ctx, media, audio>>
----------------------------------------------------------------------------
(* The users.  Guards of the call's state are CallSupervisor's.            *)

\* call: CallManager's guards, then placeCall.
Call ==
    LET s == <<"caller", 1>>
    IN  /\ ~disposed["caller"] /\ calls["caller"] = 0
        /\ NewContext("caller", "setup", SenderFor("caller"))
        /\ media' = [media EXCEPT ![s] = NewSession(SenderFor("caller"), <<>>)]
        /\ ServersGiven("caller", s)
        /\ sends' = sends \cup {Starts(s, "PRE_OFFER", FALSE)}
        /\ awaits' = awaits \cup {<<s, "describe">>}
        /\ UNCHANGED <<link, audio, swarm, read, disposed, gathered, left>>

\* accept, on an inbound call whose OFFER has come.
Accept ==
    LET s == Current("callee")
    IN  /\ Has("callee") /\ ctx[s].phase = "ringing" /\ Open(s)
        /\ ctx' = [ctx EXCEPT ![s].phase = "setup"]
        /\ awaits' = awaits \cup {<<s, "remote">>}
        /\ UNCHANGED <<sessionVars, contexts, made, calls, sender, sends, swarm, read, disposed,
                       gathered, setup, left>>

\* ignore: a teardown without "ended".
Ignore ==
    LET s == Current("callee")
    IN  /\ Uses("callee", "ends")
        /\ Has("callee") /\ ctx[s].phase = "ringing"
        /\ contexts' = [contexts EXCEPT !["callee"] = 0]
        /\ ctx' = [ctx EXCEPT ![s].phase = "over"]
        /\ media' = [media EXCEPT ![s] = Closed(media[s])]
        /\ audio' = [audio EXCEPT ![s] = ClosedBridge(audio[s])]
        /\ UNCHANGED <<link, made, calls, sender, awaits, sends, swarm, read, disposed, gathered,
                       setup>>

\* The END_CALL of a call that is left is awaited before the call ends.
Leaving(s, hinting) ==
    /\ ctx' = [ctx EXCEPT ![s].phase = "leaving"]
    /\ link' = [link EXCEPT ![s] = IF hinting THEN HangupHint(s) ELSE link[s]]
    /\ sends' = sends \cup {Starts(s, "END_CALL", TRUE)}

\* hangup, and reject, which gives no hint over the data channel.
Leave(e) ==
    /\ Uses(e, "ends")
    /\ Has(e) /\ ctx[Current(e)].phase # "leaving"
    /\ Leaving(Current(e), ctx[Current(e)].phase # "ringing")
    /\ UNCHANGED <<media, audio, contexts, made, calls, sender, awaits, swarm, read, disposed,
                   gathered, setup>>

\* A timeout, which tells the peer, or a consumer's callback that throws.
CallFails(e) ==
    /\ Uses(e, "ends")
    /\ Has(e)
    /\ EndCall(Current(e))
    /\ \/ sends' = sends \cup {Starts(Current(e), "END_CALL", FALSE)}
       \/ UNCHANGED sends
    /\ UNCHANGED <<link, made, calls, awaits, swarm, read, disposed, gathered, setup>>

\* dispose: the senders first, then the supervisor's.
Dispose(e) ==
    LET s == Current(e)
    IN  /\ Uses(e, "ends")
        /\ ~disposed[e]
        /\ disposed' = [disposed EXCEPT ![e] = TRUE]
        /\ sender' = [sender EXCEPT ![e] = Disposed(sender[e])]
        /\ \/ /\ Has(e) /\ ctx[s].phase # "leaving"
              /\ Leaving(s, TRUE)
              /\ UNCHANGED <<media, audio, contexts>>
           \/ /\ Has(e) /\ ctx[s].phase = "leaving"
              /\ contexts' = [contexts EXCEPT ![e] = 0]
              /\ ctx' = [ctx EXCEPT ![s].phase = "over"]
              /\ media' = [media EXCEPT ![s] = Closed(media[s])]
              /\ audio' = [audio EXCEPT ![s] = ClosedBridge(audio[s])]
              /\ UNCHANGED <<link, sends>>
           \/ /\ ~Has(e)
              /\ UNCHANGED <<media, link, audio, contexts, ctx, sends>>
        /\ UNCHANGED <<made, calls, awaits, swarm, read, gathered, setup>>

User(e) == Leave(e) \/ CallFails(e) \/ Dispose(e)

----------------------------------------------------------------------------
(* What the peer sent, in the order of the swarm.                          *)

Next_(e)       == swarm[e][read[e] + 1]
Arrives(e, type) == /\ read[e] < Len(swarm[e])
                    /\ ~disposed[e]
                    /\ Next_(e).type = type
                    /\ read' = [read EXCEPT ![e] = read[e] + 1]

OnPreOffer ==
    /\ Arrives("callee", "PRE_OFFER")
    /\ IF Has("callee") THEN UNCHANGED <<contexts, made, ctx, calls, sender>>
       ELSE NewContext("callee", "ringing", SenderFor("callee"))
    /\ UNCHANGED <<sessionVars, awaits, sends, swarm, disposed, gathered, setup, left>>

\* onOffer, up to the media session; restarts are CallSupervisor's.
OnOffer ==
    /\ Arrives("callee", "OFFER")
    /\ IF Has("callee")
       THEN LET s == Current("callee")
            IN  /\ UNCHANGED <<contexts, made, ctx, calls, sender>>
                /\ IF ctx[s].phase = "ringing" /\ ~media[s].made
                   THEN /\ media' = [media EXCEPT ![s] = NewSession(sender["callee"], ctx[s].waiting)]
                        /\ ServersGiven("callee", s)
                   ELSE UNCHANGED <<media, setup>>
       ELSE LET s == <<"callee", made["callee"] + 1>>
            IN  /\ NewContext("callee", "ringing", SenderFor("callee"))
                /\ media' = [media EXCEPT ![s] = NewSession(SenderFor("callee"), <<>>)]
                /\ ServersGiven("callee", s)
    /\ UNCHANGED <<link, audio, awaits, sends, swarm, disposed, gathered, left>>

OnAnswer ==
    /\ Arrives("caller", "ANSWER")
    /\ awaits' = IF Has("caller") /\ ctx[Current("caller")].phase = "setup"
                 THEN awaits \cup {<<Current("caller"), "remote">>} ELSE awaits
    /\ UNCHANGED <<sessionVars, contexts, made, ctx, calls, sender, sends, swarm, disposed,
                   gathered, setup, left>>

\* onIceCandidates: to the media session, or kept until there is one; dropped without a call.
OnIceCandidates(e) ==
    /\ Arrives(e, "ICE_CANDIDATES")
    /\ LET s     == Current(e)
           cands == Next_(e).cands
       IN  IF ~Has(e) THEN UNCHANGED <<media, ctx>>
           ELSE IF media[s].made
           THEN /\ media' = [media EXCEPT ![s] = AddRemoteCandidates(media[s], cands)]
                /\ UNCHANGED ctx
           ELSE /\ ctx' = [ctx EXCEPT ![s].waiting = ctx[s].waiting \o cands]
                /\ UNCHANGED media
    /\ UNCHANGED <<link, audio, contexts, made, calls, sender, awaits, sends, swarm, disposed,
                   gathered, setup, left>>

OnEndCall(e) ==
    /\ Arrives(e, "END_CALL")
    /\ IF Has(e) /\ ctx[Current(e)].phase # "leaving" THEN EndCall(Current(e))
       ELSE UNCHANGED <<sender, contexts, ctx, media, audio>>
    /\ UNCHANGED <<link, made, calls, awaits, sends, swarm, disposed, gathered, setup, left>>

\* The hangup hint comes over the data channel, and ends the call early.
OnHangupHint(s) ==
    /\ Open(s) /\ Calm(s)
    /\ link[s].channel = "open"
    /\ ctx[s].phase # "leaving"
    /\ \E t \in Session : t[1] = Far(s[1]) /\ link[t].hint = "sent"
    /\ EndCall(s)
    /\ UNCHANGED <<link, made, calls, awaits, sends, swarm, read, disposed, gathered, setup, left>>

Receive(e) == OnIceCandidates(e) \/ OnEndCall(e)

----------------------------------------------------------------------------
(* Continuations.                                                          *)

\* createOffer or createAnswer has set the munged local description.
Described(s) ==
    /\ <<s, "describe">> \in awaits
    /\ awaits' = awaits \ {<<s, "describe">>}
    /\ \E raw \in Vary(s[1], "sdps", Sdps, <<>>) :
         setup' = [setup EXCEPT ![s].raw = raw, ![s].sdp = MungeLocalSdp(raw)]
    /\ media' = [media EXCEPT ![s].described = TRUE]
    /\ sends' = sends \cup {Starts(s, IF s[1] = "caller" THEN "OFFER" ELSE "ANSWER", FALSE)}
    /\ UNCHANGED <<link, audio, contexts, made, ctx, calls, sender, swarm, read, disposed,
                   gathered, left>>

\* setRemoteOffer or setRemoteAnswer has resolved; the callee goes on to its answer.
RemoteSet(s) ==
    /\ <<s, "remote">> \in awaits
    /\ awaits' = (awaits \ {<<s, "remote">>})
                   \cup (IF s[1] = "callee" THEN {<<s, "describe">>} ELSE {})
    /\ media' = [media EXCEPT ![s] = RemoteDescribed(media[s])]
    /\ UNCHANGED <<link, audio, contexts, made, ctx, calls, sender, sends, swarm, read, disposed,
                   gathered, setup, left>>

MediaRejects(s, what) ==
    /\ Uses(s[1], "failures")
    /\ <<s, what>> \in awaits
    /\ awaits' = awaits \ {<<s, what>>}
    /\ FailCall(s)
    /\ UNCHANGED <<link, made, calls, sends, swarm, read, disposed, gathered, setup>>

\* A send is stored some time before its promise resolves.
Store(x) ==
    /\ ~x.stored
    /\ swarm' = [swarm EXCEPT ![Far(x.ctx[1])] = Append(swarm[Far(x.ctx[1])], x.msg)]
    /\ sends' = (sends \ {x}) \cup {[x EXCEPT !.stored = TRUE]}
    /\ UNCHANGED <<sessionVars, contexts, made, ctx, calls, sender, awaits, read, disposed,
                   gathered, setup, left>>

\* Once its OFFER or ANSWER is out, the context the handle was made for arms the sender.
Arms(x) == x.msg.type \in {"OFFER", "ANSWER"} /\ calls[x.ctx[1]] = x.ctx[2]

Resolve(x) ==
    /\ x.stored
    /\ sends' = sends \ {x}
    /\ LET e == x.ctx[1]
       IN  IF x.ends THEN EndCall(x.ctx)
           ELSE /\ sender' = IF Arms(x) THEN [sender EXCEPT ![e] = Armed(sender[e])] ELSE sender
                /\ UNCHANGED <<contexts, ctx, media, audio>>
    /\ UNCHANGED <<link, made, calls, awaits, swarm, read, disposed, gathered, setup, left>>

\* A rejected send, stored or not: candidates are best effort; an END_CALL leaves the call
\* as it is, unless dispose() catches it; anything else fails the call.
RejectSend(x) ==
    LET e == x.ctx[1]
    IN  /\ Uses(e, "failures")
        /\ sends' = sends \ {x}
        /\ CASE x.msg.type = "ICE_CANDIDATES" ->
                  /\ sender' = [sender EXCEPT ![e].lost = sender[e].lost \cup Range(x.msg.cands)]
                  /\ UNCHANGED <<contexts, ctx, media, audio>>
             [] x.msg.type = "END_CALL" ->
                  IF x.ends /\ disposed[e] THEN EndCall(x.ctx)
                  ELSE UNCHANGED <<sender, contexts, ctx, media, audio>>
             [] OTHER -> FailCall(x.ctx)
        /\ UNCHANGED <<link, made, calls, awaits, swarm, read, disposed, gathered, setup>>

\* werift gathers from when it makes the local description.
Gather(s) ==
    LET c == <<s[1], left[s[1]]["candidates"]>>
    IN  /\ Uses(s[1], "candidates")
        /\ Open(s) /\ Calm(s)
        /\ <<s, "describe">> \in awaits \/ media[s].described
        /\ gathered' = [gathered EXCEPT ![s] = Append(gathered[s], c)]
        /\ sender' = IF media[s].wired
                     THEN [sender EXCEPT ![s[1]] = Fed(sender[s[1]], c)] ELSE sender
        /\ UNCHANGED <<sessionVars, callVars>>

\* The batcher's quiet period is over: everything queued goes out as one message.
Flush(e) ==
    LET r == sender[e]
    IN  /\ r.timer
        /\ sender' = [sender EXCEPT ![e].timer = FALSE, ![e].queue = <<>>,
                                    ![e].sent = r.sent \o r.queue]
        /\ sends' = IF r.queue = <<>> THEN sends
                    ELSE sends \cup {[Starts(<<e, calls[e]>>, "ICE_CANDIDATES", FALSE)
                                         EXCEPT !.msg.cands = r.queue]}
        /\ UNCHANGED <<sessionVars, contexts, made, ctx, calls, awaits, swarm, read, disposed,
                       gathered, setup, left>>

----------------------------------------------------------------------------
(* werift's events and the producers of audio, within their loads.         *)

\* External: how werift's ICE agent moves, once both descriptions are there.
IceFollows(ice) ==
    CASE ice = "new"          -> {"checking", "connected"}
      [] ice = "checking"     -> {"connected", "completed", "disconnected", "failed", "closed"}
      [] ice = "connected"    -> {"checking", "completed", "disconnected", "failed", "closed"}
      [] ice = "completed"    -> {"checking", "disconnected", "closed"}
      [] ice = "disconnected" -> {"checking", "connected", "failed", "closed"}
      [] ice = "failed"       -> {"checking", "closed"}
      [] ice = "closed"       -> {}

Connects(s) == /\ media[s].described /\ media[s].remote
               /\ \E ice \in IceFollows(link[s].ice) : IceStateChanges(s, ice)

WithLoad(s, kind, A) == A /\ Uses(s[1], kind) /\ UNCHANGED <<callVars, sender, gathered>>
Free(A)              == A /\ UNCHANGED <<callVars, sender, gathered, left>>

Media(s) ==
    \/ WithLoad(s, "events", Connects(s))
    \/ WithLoad(s, "frames", WriteAudio(s))
    \/ WithLoad(s, "packets", AttachRemoteTrack(s))
    \/ \E n \in 1..(FrameSamples + 1) : WithLoad(s, "packets", ReceiveRtp(s, n))
    \/ Free(DtlsCompletes(s))
    \/ \E state \in {"connected", "disconnected", "failed"} : Free(ConnectionStateChanges(s, state))
    \/ Free(ChannelOpens(s))
    \/ Free(Drain(s))

----------------------------------------------------------------------------
Next ==
    \/ Call \/ Accept \/ Ignore \/ OnPreOffer \/ OnOffer \/ OnAnswer
    \/ \E e \in End : User(e) \/ Receive(e) \/ Flush(e)
    \/ \E s \in Session : \/ Described(s) \/ RemoteSet(s) \/ Gather(s) \/ OnHangupHint(s)
                          \/ \E what \in {"describe", "remote"} : MediaRejects(s, what)
                          \/ Media(s)
    \/ \E x \in sends : Store(x) \/ Resolve(x) \/ RejectSend(x)

Spec == Init /\ [][Next]_vars

\* What goes on by itself: promises settle, timers and microtasks run, the poller fetches
\* what is there, and SCTP comes up over working DTLS.
Work ==
    \/ OnPreOffer \/ OnOffer \/ OnAnswer
    \/ \E e \in End : Receive(e) \/ Flush(e)
    \/ \E s \in Session : \/ Described(s) \/ RemoteSet(s)
                          \/ Free(Drain(s)) \/ Free(ChannelOpens(s))
    \/ \E x \in sends : Store(x) \/ Resolve(x)

\* Each step of it uses something up, so that it is enough that it goes on at all.
Fairness == WF_vars(Work)

FairSpec == Spec /\ Fairness
=============================================================================
