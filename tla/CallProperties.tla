---------------------------- MODULE CallProperties ----------------------------
(***************************************************************************)
(* What the call supervisors promise, stated over CallSupervisor.          *)
(***************************************************************************)
EXTENDS CallSupervisor

Born(c) == c[3] <= made[c[1]][c[2]]
TornDownContext(c) == ctx[c].ended > 0 \/ (Born(c) /\ ctx[c].state = "idle")

----------------------------------------------------------------------------
(* Safety.                                                                 *)

\* One call at a time per device: placeCall and the busy arbitration together
\* never let a second uuid into #contexts, however their awaits interleave.
OneActiveCall ==
    \A d \in Device : \A u, v \in Uuid : Has(d, u) /\ Has(d, v) => u = v

\* The poller runs at the call cadence exactly while a call is in #contexts:
\* whichever of the ways a call can end was taken restores it.
PollBoostedWhileCalling == \A d \in Device : boosted[d] <=> ~Idle(d)

\* The two go together: teardown looks at the whole map, so that with a second call
\* there the end of either would leave the cadence to the other.
OneCallBoosted == OneActiveCall /\ PollBoostedWhileCalling

\* Once a context was torn down, no continuation, timer or media event of the
\* call gives it a timer, a media session or a live state again.
TornDownIsFinal ==
    \A c \in Context :
        TornDownContext(c) => /\ ctx[c].timers = {}
                              /\ ~ctx[c].media
                              /\ ctx[c].state \in {"idle", "disconnected"}

\* The state "connected", and the early connection remembered for later, are
\* only there while the media session's last reported state is "connected".
ConnectedMeansMediaUp ==
    \A c \in Context :
        (ctx[c].state = "connected" \/ ctx[c].early) /\ InMap(c) =>
            ctx[c].media /\ ctx[c].ice = "connected"

\* An outgoing call that has never connected is under the call timeout until
\* somebody ends it.
SetupIsTimed ==
    \A c \in Context :
        /\ InMap(c) /\ ctx[c].state \in Live
        /\ DirectionOf(c) = "outbound" /\ ~ctx[c].ever
        => "call" \in ctx[c].timers

\* A call that lost its media has a timer that will restart it or give it up.
ReconnectIsTimed ==
    \A c \in Context :
        InMap(c) /\ ctx[c].state \in {"pending-reconnect", "reconnecting"} =>
            (IF DirectionOf(c) = "outbound" THEN "restart" ELSE "wait") \in ctx[c].timers

\* A context outside #contexts keeps timers or an open media session only after
\* another context of the same call was ended twice (endCall deletes by uuid).
OrphansComeFromDoubleEnds ==
    \A c \in Context :
        ~InMap(c) /\ (ctx[c].timers # {} \/ ctx[c].media) =>
            \E k \in 1..MaxIncarnations : ctx[<<c[1], c[2], k>>].ended > 1

\* "answered-elsewhere" is reported only when the user has accepted the call on another
\* device of the account, or in another context of it: one that declined or ignored it, or
\* that rang in vain, sends no ANSWER to its own account.
AnsweredElsewhereIsTrue ==
    \A c \in Context :
        ctx[c].reason = "answered-elsewhere" =>
            \E e \in Context \ {c} : /\ AccountOf[e[1]] = AccountOf[c[1]] /\ e[2] = c[2]
                                     /\ ctx[e].accepted

\* An END_CALL on its way was sent by a device that left the call or was busy with
\* another one: not by one that ignored it, missed it stale or refuses its sender.
EndCallHasACause ==
    \A m \in net :
        m.type = "END_CALL" =>
            \E d \in Device :
                /\ AccountOf[d] = m.from
                /\ \/ <<m.uuid, "busy">> \in missed[d]
                   \/ \E k \in 1..MaxIncarnations : ctx[<<d, m.uuid, k>>].state = "disconnected"

\* A stranger's call makes no context, so that it never rings, and nothing of the account's
\* is sent to him or anybody about it, not even that the device is busy, unless a device of
\* the account that has approved him does it.  This is less than docs-site/docs/voice/
\* receiving-calls.md:55 says, "no ring, no missed record": a call that comes stale is
\* recorded, as the freshness gate is asked before the approval (supervisor.ts:583).
StrangersAreNotAnswered ==
    RequireApproval =>
        /\ \A d \in Device : \A u \in Uuid :
             /\ call[u].to = AccountOf[d]
             /\ made[d][u] > 0 \/ missed[d] \cap {<<u, "busy">>, <<u, "ignored">>} # {}
             => AccountOf[call[u].from] \in approved[d]
        /\ \A m \in net :
             m.from = call[m.uuid].to =>
                \E d \in Device : AccountOf[d] = m.from /\ AccountOf[call[m.uuid].from] \in approved[d]

\* A call that is still there after dispose() is on its way out, whichever of its sends
\* fails and also when a hangup that began earlier failed half way.
DisposedIsLeaving ==
    \A c \in Context :
        disposed[c[1]] /\ InMap(c) =>
            \E j \in jobs : j.ctx = c /\ j.do \in {"end", "sync-end"}

----------------------------------------------------------------------------
(* The supervisor as a telephone line (see OneLine).                       *)

Phase(c) == IF ctx[c].state = "disconnected" THEN "closing"
            ELSE IF ctx[c].ever THEN "open" ELSE "setup"

Line == INSTANCE OneLine WITH
          line <- [d \in Device |->
                     IF Idle(d) THEN [call |-> 0, phase |-> "free"]
                     ELSE LET u == CHOOSE v \in Uuid : Has(d, v)
                          IN  [call |-> u, phase |-> Phase(Current(d, u))]]

\* Every behaviour of the supervisor is one of a device with a single line.
IsOneLine == Line!Spec

----------------------------------------------------------------------------
(* What documentation and comments say and the code does not do.           *)

\* supervisor.ts:1231 "surface the error but never end twice".
EndedOnce == \A c \in Context : ctx[c].ended <= 1

\* call-manager.ts:17 "Every async effect chain lands in a catch that ... ends
\* the affected call": a disconnected call still in #contexts is on its way out.
DisconnectedIsLeaving ==
    \A c \in Context :
        InMap(c) /\ ctx[c].state = "disconnected" =>
            \E j \in jobs : j.ctx = c /\ j.do \in {"end", "sync-end"}

\* supervisor.ts:1002 "Recovered (connecting/connected) or torn down -> stop the
\* chain": a call is not given up as "ice-failed" over media that came back.
IceFailedMeansMediaDown ==
    \A c \in Context : ctx[c].reason = "ice-failed" => ctx[c].ice # "connected"

----------------------------------------------------------------------------
(* Liveness.                                                               *)

\* An outgoing call does not stay in setup: it connects or leaves #contexts.
SetupResolves ==
    \A c \in Context :
        InMap(c) /\ ctx[c].state \in Calling ~> ctx[c].ever \/ ~InMap(c)

\* A call that lost its media is connected again, being renegotiated, or over.
ReconnectResolves ==
    \A c \in Context :
        ctx[c].state \in {"pending-reconnect", "reconnecting"} ~>
            ctx[c].state \notin {"pending-reconnect", "reconnecting"}

\* A call that was hung up or declined leaves #contexts, which frees the device:
\* so it is while no send fails (see DisconnectedIsLeaving for when one does).
HangupFrees ==
    \A c \in Context : InMap(c) /\ ctx[c].state = "disconnected" ~> ~InMap(c)

\* dispose() leaves no call behind, and the poll cadence as it was.
DisposeFrees == \A d \in Device : disposed[d] ~> [](Idle(d) /\ ~boosted[d])
=============================================================================
