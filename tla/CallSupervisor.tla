---------------------------- MODULE CallSupervisor ----------------------------
(***************************************************************************)
(* The call supervisors (calls/src/supervisor.ts) of a set of devices that *)
(* signal to each other through their accounts' swarms.                    *)
(*                                                                         *)
(* One JavaScript turn is one action: a handler runs to its first await,   *)
(* and each continuation after an await is a job of its own that finishes  *)
(* later, in any order, successfully or not.  A context is one CallContext *)
(* object, <<device, uuid, incarnation>>: the map #contexts is keyed by    *)
(* uuid, while the closures of timers, media events and jobs hold on to    *)
(* the object, so the two are kept apart here too.                         *)
(*                                                                         *)
(* A swarm is a set of stored messages, each fetched at most once by each  *)
(* device of the receiving account, in any order, or never.  Timers carry  *)
(* no durations: an armed timer may fire at any moment.                    *)
(***************************************************************************)
EXTENDS Naturals, FiniteSets, CallFsm

CONSTANTS
    Device,           \* running CallManagers
    Account,          \* Session IDs; one may have several linked devices, or none
    AccountOf,        \* the account each device is signed in to
    Contacts,         \* the accounts each device has approved at the start
    RequireApproval,  \* the option requireApprovedContact
    UserOps,          \* the operations users perform
    Faults,           \* what may go wrong: "send", "media", "stale", "flap"
    MaxCalls,         \* bound: calls placed in a behaviour
    MaxIncarnations,  \* bound: contexts one device creates for one uuid
    MaxRestarts       \* ICE_RESTART_MAX_ATTEMPTS, 5 in policy.ts

None == "none"

ASSUME AccountAssumption == /\ AccountOf \in [Device -> Account]
                            /\ Contacts \in [Device -> SUBSET Account]
                            /\ None \notin Device
ASSUME OptionAssumption  == RequireApproval \in BOOLEAN
ASSUME BoundAssumption   == /\ MaxCalls \in Nat
                            /\ MaxIncarnations \in Nat \ {0}
                            /\ MaxRestarts \in Nat

VARIABLES
    call,       \* call[u]: who placed u to whom; fixes peer and direction everywhere
    net,        \* messages stored for a device and not fetched yet
    contexts,   \* #contexts: contexts[d][u] is the incarnation in the map, 0 if none
    made,       \* made[d][u]: how many CallContext objects were created
    ctx,        \* the CallContext objects
    jobs,       \* asynchronous continuations in flight
    boosted,    \* #pollBoosted
    disposed,   \* #disposed
    approved,   \* #approvedPeers
    missed      \* missed-call records, with the uuid they were recorded for

vars == <<call, net, contexts, made, ctx, jobs, boosted, disposed, approved, missed>>

----------------------------------------------------------------------------
Uuid    == 1..MaxCalls
Context == Device \X Uuid \X (1..MaxIncarnations)
Type    == {"PRE_OFFER", "OFFER", "ANSWER", "END_CALL", "HANGUP_HINT"}
Reason  == {"local-hangup", "remote-hangup", "remote-declined", "timeout", "ice-failed",
            "error", "answered-elsewhere", "ended-elsewhere"}
MaxEnds == 2    \* bound: endCall runs told apart (0, 1, more)

Message == [to : Device, from : Account, type : Type, uuid : Uuid]
Job     == [ctx : Context, do : {"pre-offer", "offer", "answer", "sync-answer", "apply-answer"},
            stored : BOOLEAN, reason : {None}, contained : {FALSE}]
           \cup [ctx : Context, do : {"end", "sync-end"},
                 stored : BOOLEAN, reason : Reason, contained : BOOLEAN]

\* accepted is history: whether the user has accepted the call here.
CallContext ==
    [state : CallState, offer : BOOLEAN, accepted : BOOLEAN, media : BOOLEAN,
     ice : {"new", "connected", "disconnected", "failed"},
     early : BOOLEAN, ever : BOOLEAN, timers : SUBSET {"call", "restart", "wait"},
     attempts : 0..MaxRestarts, ended : 0..MaxEnds, reason : Reason \cup {None}]

TypeOK ==
    /\ call \in [Uuid -> [from : Device \cup {None}, to : Account \cup {None}]]
    /\ net \subseteq Message
    /\ contexts \in [Device -> [Uuid -> 0..MaxIncarnations]]
    /\ made \in [Device -> [Uuid -> 0..MaxIncarnations]]
    /\ ctx \in [Context -> CallContext]
    /\ jobs \subseteq Job
    /\ boosted \in [Device -> BOOLEAN]
    /\ disposed \in [Device -> BOOLEAN]
    /\ approved \in [Device -> SUBSET Account]
    /\ missed \in [Device -> SUBSET (Uuid \X {"busy", "stale", "ignored"})]

NewContext == [state |-> "idle", offer |-> FALSE, accepted |-> FALSE, media |-> FALSE,
               ice |-> "new", early |-> FALSE, ever |-> FALSE, timers |-> {}, attempts |-> 0,
               ended |-> 0, reason |-> None]

Init ==
    /\ call = [u \in Uuid |-> [from |-> None, to |-> None]]
    /\ net = {}
    /\ contexts = [d \in Device |-> [u \in Uuid |-> 0]]
    /\ made = [d \in Device |-> [u \in Uuid |-> 0]]
    /\ ctx = [c \in Context |-> NewContext]
    /\ jobs = {}
    /\ boosted = [d \in Device |-> FALSE]
    /\ disposed = [d \in Device |-> FALSE]
    /\ approved = Contacts
    /\ missed = [d \in Device |-> {}]

----------------------------------------------------------------------------
(* Contexts and the map that holds them.                                   *)

Current(d, u) == <<d, u, contexts[d][u]>>
Has(d, u)     == contexts[d][u] # 0
InMap(c)      == contexts[c[1]][c[2]] = c[3]
Idle(d)       == \A u \in Uuid : ~Has(d, u)

\* Mutant: a call that is still being set up does not count.
BusyWhileTalking(d, u) ==
    \E v \in Uuid \ {u} : Has(d, v) /\ ctx[Current(d, v)].state \in Talking

Busy(d, u) == \E v \in Uuid \ {u} : Has(d, v)

DirectionOf(c) == IF call[c[2]].from = c[1] THEN "outbound" ELSE "inbound"
Peer(d, u)     == IF call[u].from = d THEN call[u].to ELSE AccountOf[call[u].from]

Can(c, event) == Accepts(ctx[c].state, event, DirectionOf(c))

\* Mutant: every transition cancels the call timeout.
AfterUntimed(c, event) == [ctx[c] EXCEPT !.state = NextState(event), !.timers = @ \ {"call"}]

After(c, event) == [ctx[c] EXCEPT !.state = NextState(event)]

\* Mutant: the timers survive.
TornDownTicking(r) == [r EXCEPT !.media = FALSE]

\* teardownContext: every timer cleared, the media session closed and dropped.
TornDown(r) == [r EXCEPT !.timers = {}, !.media = FALSE]

\* Mutant: the state is recorded where the reason belongs.
EndedByState(r, why) == [TornDown(r) EXCEPT !.ended = 1, !.reason = r.state]

\* endCall: the "ended" event, then the teardown.
Ended(r, why) == [TornDown(r) EXCEPT !.ended = IF @ < MaxEnds THEN @ + 1 ELSE @,
                                     !.reason = why]

MarkConnected(r) == [r EXCEPT !.state = NextState("ice-connected"), !.early = FALSE,
                              !.ever = TRUE, !.timers = {}, !.attempts = 0]

\* Mutants: a late answer revives whatever the call has become; an answer is taken
\* for a connection.
EarlyConnectedAnyState(r) == IF r.early THEN MarkConnected(r) ELSE r
AnsweredIsConnected(r)    == IF r.state \in Talking THEN MarkConnected(r) ELSE r

MaybeApplyEarlyConnected(r) ==
    IF r.early /\ r.state \in {"connecting", "reconnecting"} THEN MarkConnected(r) ELSE r

\* Mutants: the poll cadence is not restored; the map entry stays.
ForgetBoosted(d, u) == contexts' = [contexts EXCEPT ![d][u] = 0] /\ UNCHANGED boosted
ForgetNothing(d, u) == UNCHANGED <<contexts, boosted>>

\* The map entry of the uuid goes, whichever context it holds; the poll cadence
\* is restored once the map is empty.
Forget(d, u) ==
    /\ contexts' = [contexts EXCEPT ![d][u] = 0]
    /\ boosted' = [boosted EXCEPT ![d] = @ /\ Busy(d, u)]

Set(c, r) == /\ ctx' = [ctx EXCEPT ![c] = r]
             /\ UNCHANGED <<contexts, boosted>>

End(c, r, why) == /\ ctx' = [ctx EXCEPT ![c] = Ended(r, why)]
                  /\ Forget(c[1], c[2])

\* failCall: the guard asks for the uuid, not for this context.
FailCall(c, why) ==
    IF ~Has(c[1], c[2])
    THEN UNCHANGED <<ctx, contexts, boosted>>
    ELSE End(c, IF ctx[c].state \in {"idle", "disconnected"}
                THEN ctx[c] ELSE After(c, "receive-end-call"), why)

\* registerContext, boostPoll: the new context takes the uuid's place in the map.
Register(d, u, r) ==
    /\ made[d][u] < MaxIncarnations
    /\ made' = [made EXCEPT ![d][u] = @ + 1]
    /\ contexts' = [contexts EXCEPT ![d][u] = made[d][u] + 1]
    /\ ctx' = [ctx EXCEPT ![<<d, u, made[d][u] + 1>>] = r]
    /\ boosted' = [boosted EXCEPT ![d] = TRUE]

----------------------------------------------------------------------------
(* Signaling: a copy of a message for every device of the account.         *)

Copies(d, account, type, u) ==
    {[to |-> e, from |-> AccountOf[d], type |-> type, uuid |-> u] :
        e \in {x \in Device : AccountOf[x] = account}}

ToPeer(d, u, type) == Copies(d, Peer(d, u), type, u)
ToSelf(d, u, type) == Copies(d, AccountOf[d], type, u)

\* Mutant: a failing END_CALL leaves dispose as it leaves hangup.
SomeJobUncontained(c, do, reason, contained) ==
    [ctx |-> c, do |-> do, stored |-> FALSE, reason |-> reason, contained |-> FALSE]

SomeJob(c, do, reason, contained) ==
    [ctx |-> c, do |-> do, stored |-> FALSE, reason |-> reason, contained |-> contained]
JobOf(c, do) == SomeJob(c, do, None, FALSE)

\* A media session is created synchronously, or the engine throws.
EngineResult == {TRUE} \cup IF "media" \in Faults THEN {FALSE} ELSE {}

\* sendEndCall whose outcome nobody looks at: both copies are on their way.
EndCallMessages(d, u) == ToPeer(d, u, "END_CALL") \cup ToSelf(d, u, "END_CALL")

\* The data channel carries the hangup hint only once the media is up.
Hint(c) == IF ctx[c].media /\ ctx[c].ice = "connected"
           THEN ToPeer(c[1], c[2], "HANGUP_HINT") ELSE {}

----------------------------------------------------------------------------
(* User operations.                                                        *)

\* placeCall.  The OFFER is created and sent by a job of its own, and so is the
\* PRE_OFFER; a media engine that throws ends the call at once.
PlaceCall(d, a) ==
    /\ "call" \in UserOps
    /\ ~disposed[d]
    /\ RequireApproval => a \in approved[d]
    /\ Idle(d)
    /\ a # AccountOf[d]        \* assumption: nobody calls himself
    /\ approved' = [approved EXCEPT ![d] = @ \cup {a}]
    /\ \E u \in Uuid :
         /\ call[u].from = None
         /\ \A v \in Uuid : v < u => call[v].from # None
         /\ made[d][u] < MaxIncarnations
         /\ call' = [call EXCEPT ![u] = [from |-> d, to |-> a]]
         /\ LET c == <<d, u, made[d][u] + 1>>
                r == [NewContext EXCEPT !.state = NextState("send-pre-offer"),
                                        !.timers = {"call"}, !.media = TRUE]
            IN  \/ /\ Register(d, u, r)
                   /\ jobs' = jobs \cup {JobOf(c, "pre-offer"), JobOf(c, "offer")}
                \/ /\ FALSE \in EngineResult
                   /\ made' = [made EXCEPT ![d][u] = @ + 1]
                   /\ ctx' = [ctx EXCEPT ![c] =
                                Ended([r EXCEPT !.state = "disconnected"], "error")]
                   /\ jobs' = jobs \cup {JobOf(c, "pre-offer")}
                   /\ UNCHANGED <<contexts, boosted>>
    /\ UNCHANGED <<net, disposed, missed>>

\* accept: without a media session the FSM has moved on before requireMedia throws.
Accept(d, u) ==
    /\ "accept" \in UserOps
    /\ Has(d, u)
    /\ LET c == Current(d, u)
       IN  /\ ctx[c].offer
           /\ Can(c, "user-accept")
           /\ Set(c, [After(c, "user-accept") EXCEPT !.accepted = TRUE])
           /\ jobs' = IF ctx[c].media THEN jobs \cup {JobOf(c, "answer")} ELSE jobs
    /\ UNCHANGED <<call, net, made, disposed, approved, missed>>

\* reject, and hangup of a call that is still ringing.
Reject(d, u) ==
    /\ "reject" \in UserOps
    /\ Has(d, u)
    /\ LET c == Current(d, u)
       IN  /\ Can(c, "user-decline")
           /\ Set(c, After(c, "user-decline"))
           /\ jobs' = jobs \cup {SomeJob(c, "end", "remote-declined", FALSE)}
    /\ UNCHANGED <<call, net, made, disposed, approved, missed>>

\* Mutant: the caller is told.
IgnoreAloud(d, u) ==
    /\ "ignore" \in UserOps
    /\ Has(d, u)
    /\ Can(Current(d, u), "user-ignore")
    /\ ctx' = [ctx EXCEPT ![Current(d, u)] = TornDown(After(Current(d, u), "user-ignore"))]
    /\ Forget(d, u)
    /\ net' = net \cup EndCallMessages(d, u)
    /\ UNCHANGED <<call, made, jobs, disposed, approved, missed>>

\* ignore: no wire message and no "ended" event.
Ignore(d, u) ==
    /\ "ignore" \in UserOps
    /\ Has(d, u)
    /\ LET c == Current(d, u)
       IN  /\ Can(c, "user-ignore")
           /\ ctx' = [ctx EXCEPT ![c] = TornDown(After(c, "user-ignore"))]
    /\ Forget(d, u)
    /\ missed' = [missed EXCEPT ![d] = @ \cup {<<u, "ignored">>}]
    /\ UNCHANGED <<call, net, made, jobs, disposed, approved>>

Hangup(d, u) ==
    /\ "hangup" \in UserOps
    /\ Has(d, u)
    /\ LET c == Current(d, u)
       IN  /\ Can(c, "user-hangup")
           /\ Set(c, After(c, "user-hangup"))
           /\ net' = net \cup Hint(c)
           /\ jobs' = jobs \cup {SomeJob(c, "end", "local-hangup", FALSE)}
    /\ UNCHANGED <<call, made, disposed, approved, missed>>

\* dispose: a live call is hung up or declined and ends whatever becomes of the
\* END_CALL; one that is already disconnected is torn down without an event.
Dispose(d) ==
    /\ "dispose" \in UserOps
    /\ ~disposed[d]
    /\ disposed' = [disposed EXCEPT ![d] = TRUE]
    /\ \/ /\ Idle(d)
          /\ UNCHANGED <<net, contexts, ctx, jobs, boosted>>
       \/ \E u \in Uuid :
            LET c == Current(d, u)
                Leave(event, why) ==
                    /\ Can(c, event)
                    /\ Set(c, After(c, event))
                    /\ net' = net \cup Hint(c)
                    /\ jobs' = jobs \cup {SomeJob(c, "end", why, TRUE)}
            IN  /\ Has(d, u)
                /\ \/ Leave("user-decline", "remote-declined")
                   \/ Leave("user-hangup", "local-hangup")
                   \/ /\ ctx[c].state \in {"idle", "disconnected"}
                      /\ ctx' = [ctx EXCEPT ![c] = TornDown(@)]
                      /\ Forget(d, u)
                      /\ UNCHANGED <<net, jobs>>
    /\ UNCHANGED <<call, made, approved, missed>>

MarkApproved(d, a) ==
    /\ "approve" \in UserOps
    /\ a \notin approved[d]
    /\ approved' = [approved EXCEPT ![d] = @ \cup {a}]
    /\ UNCHANGED <<call, net, contexts, made, ctx, jobs, boosted, disposed, missed>>

\* The public failCall: a consumer callback of a call threw.
ConsumerThrows(d, u) ==
    /\ "throw" \in UserOps
    /\ Has(d, u)
    /\ FailCall(Current(d, u), "error")
    /\ UNCHANGED <<call, net, made, jobs, disposed, approved, missed>>

User(d) ==
    \/ \E a \in Account : PlaceCall(d, a) \/ MarkApproved(d, a)
    \/ \E u \in Uuid : \/ Accept(d, u) \/ Reject(d, u) \/ Ignore(d, u)
                       \/ Hangup(d, u) \/ ConsumerThrows(d, u)
    \/ Dispose(d)

----------------------------------------------------------------------------
(* handleInbound: own copies, freshness, approval, busy arbitration and    *)
(* dispatch, in that order.  Only a PRE_OFFER or an OFFER makes a context; *)
(* nothing looks whether the uuid belongs to a call that is over.          *)

Fetched(d, m) == m \in net /\ m.to = d /\ m.type # "HANGUP_HINT"
Inbound(d, m) == Fetched(d, m) /\ ~disposed[d] /\ m.from # AccountOf[d]
\* Mutant: no approval gate.
AdmittedUngated(d, m) == Inbound(d, m)

Admitted(d, m) == Inbound(d, m) /\ (RequireApproval => m.from \in approved[d])

\* After dispose() the listener is off; strangers' messages leave no trace.
Discard(d, m) ==
    /\ Fetched(d, m)
    /\ disposed[d] \/ (Inbound(d, m) /\ ~Admitted(d, m))
    /\ net' = net \ {m}
    /\ UNCHANGED <<call, contexts, made, ctx, jobs, boosted, disposed, approved, missed>>

\* Mutant: the two are swapped.
ElsewhereSwapped(type) ==
    IF type = "ANSWER" THEN [event |-> "self-end-call", reason |-> "ended-elsewhere"]
                       ELSE [event |-> "self-answer", reason |-> "answered-elsewhere"]

Elsewhere(type) ==
    IF type = "ANSWER" THEN [event |-> "self-answer", reason |-> "answered-elsewhere"]
                       ELSE [event |-> "self-end-call", reason |-> "ended-elsewhere"]

\* handleSelfMessage: a linked device (or this one) answered or ended the call.
HandleSelfMessage(d, m) ==
    /\ Fetched(d, m) /\ ~disposed[d]
    /\ m.from = AccountOf[d]
    /\ m.type \in {"ANSWER", "END_CALL"}
    /\ net' = net \ {m}
    /\ LET c    == Current(d, m.uuid)
           stop == Elsewhere(m.type)
       IN  IF Has(d, m.uuid) /\ Can(c, stop.event)
           THEN End(c, After(c, stop.event), stop.reason)
           ELSE UNCHANGED <<ctx, contexts, boosted>>
    /\ UNCHANGED <<call, made, jobs, disposed, approved, missed>>

\* isFresh() is FALSE: older than 60 s for a PRE_OFFER, than 5 min for the rest.
DropStale(d, m) ==
    /\ "stale" \in Faults
    /\ Inbound(d, m)
    /\ net' = net \ {m}
    /\ missed' = [missed EXCEPT ![d] =
                    IF m.type = "PRE_OFFER" THEN @ \cup {<<m.uuid, "stale">>} ELSE @]
    /\ UNCHANGED <<call, contexts, made, ctx, jobs, boosted, disposed, approved>>

\* Any message with another uuid than the active call's, whatever its type.
AnswerBusy(d, m) ==
    /\ Admitted(d, m)
    /\ Busy(d, m.uuid)
    /\ missed' = [missed EXCEPT ![d] = @ \cup {<<m.uuid, "busy">>}]
    /\ net' = (net \ {m}) \cup Copies(d, m.from, "END_CALL", m.uuid)
    /\ UNCHANGED <<call, contexts, made, ctx, jobs, boosted, disposed, approved>>

Dispatched(d, m, type) == Admitted(d, m) /\ ~Busy(d, m.uuid) /\ m.type = type

OnPreOffer(d, m) ==
    /\ Dispatched(d, m, "PRE_OFFER")
    /\ IF Has(d, m.uuid)
       THEN UNCHANGED <<contexts, made, ctx, boosted>>
       ELSE Register(d, m.uuid, [NewContext EXCEPT !.state = NextState("receive-pre-offer")])
    /\ net' = net \ {m}
    /\ UNCHANGED <<call, jobs, disposed, approved, missed>>

\* onOffer without a context: one is made as if a PRE_OFFER had come first.
OnFirstOffer(d, m) ==
    /\ Dispatched(d, m, "OFFER")
    /\ ~Has(d, m.uuid)
    /\ \E created \in EngineResult :
         Register(d, m.uuid, [NewContext EXCEPT !.state = NextState("receive-offer"),
                                                !.offer = TRUE, !.media = created])
    /\ net' = net \ {m}
    /\ UNCHANGED <<call, jobs, disposed, approved, missed>>

\* answerRestart: a context without media could not answer, and fails.
AnswerRestart(c) ==
    LET restarted == [ctx[c] EXCEPT !.state = NextState("receive-offer-restart"),
                                    !.timers = @ \ {"wait"}]
    IN  IF ctx[c].media
        THEN Set(c, restarted) /\ jobs' = jobs \cup {JobOf(c, "answer")}
        ELSE End(c, [restarted EXCEPT !.state = "disconnected"], "error") /\ UNCHANGED jobs

\* onOffer with a context: a restart, the first offer, or one that is ignored.
OnOffer(d, m) ==
    /\ Dispatched(d, m, "OFFER")
    /\ Has(d, m.uuid)
    /\ LET c == Current(d, m.uuid)
           restart == DirectionOf(c) = "inbound"
                        /\ ctx[c].state \in {"pending-reconnect", "reconnecting"}
       IN  \/ restart /\ AnswerRestart(c)
           \/ /\ ~restart
              /\ Can(c, "receive-offer")
              /\ \E created \in EngineResult :
                   Set(c, [After(c, "receive-offer") EXCEPT !.offer = TRUE,
                                                            !.media = @ \/ created])
              /\ UNCHANGED jobs
           \/ /\ ~restart
              /\ ~Can(c, "receive-offer")
              /\ UNCHANGED <<ctx, contexts, boosted, jobs>>
    /\ net' = net \ {m}
    /\ UNCHANGED <<call, made, disposed, approved, missed>>

OnAnswer(d, m) ==
    /\ Dispatched(d, m, "ANSWER")
    /\ LET c == Current(d, m.uuid)
           used == Has(d, m.uuid) /\ Can(c, "receive-answer")
       IN  \/ /\ ~used
              /\ UNCHANGED <<ctx, contexts, boosted, jobs>>
           \/ /\ used
              /\ IF ctx[c].media
                 THEN Set(c, After(c, "receive-answer"))
                      /\ jobs' = jobs \cup {JobOf(c, "apply-answer")}
                 ELSE End(c, [ctx[c] EXCEPT !.state = "disconnected"], "error")
                      /\ UNCHANGED jobs
    /\ net' = net \ {m}
    /\ UNCHANGED <<call, made, disposed, approved, missed>>

OnEndCall(d, m) ==
    /\ Dispatched(d, m, "END_CALL")
    /\ LET c == Current(d, m.uuid)
       IN  IF Has(d, m.uuid) /\ Can(c, "receive-end-call")
           THEN End(c, After(c, "receive-end-call"),
                    IF DirectionOf(c) = "outbound" /\ ~ctx[c].ever /\ ctx[c].state # "connected"
                    THEN "remote-declined" ELSE "remote-hangup")
           ELSE UNCHANGED <<ctx, contexts, boosted>>
    /\ net' = net \ {m}
    /\ UNCHANGED <<call, made, jobs, disposed, approved, missed>>

\* The hint arrives over the data channel of a media session that has been up, and
\* ends the context that owns the session, be it in the map or not.
HintTargets(d, u) ==
    {c \in Context : c[1] = d /\ c[2] = u /\ ctx[c].media /\ ctx[c].ice # "new"}

OnHangupHint(d, m) ==
    /\ m \in net /\ m.to = d /\ m.type = "HANGUP_HINT"
    /\ \/ \E c \in HintTargets(d, m.uuid) :
            /\ ctx[c].state \notin {"disconnected", "idle"}
            /\ End(c, After(c, "receive-end-call"), "remote-hangup")
       \/ /\ \A c \in HintTargets(d, m.uuid) : ctx[c].state \in {"disconnected", "idle"}
          /\ UNCHANGED <<ctx, contexts, boosted>>
    /\ net' = net \ {m}
    /\ UNCHANGED <<call, made, jobs, disposed, approved, missed>>

Receive(d, m) ==
    \/ Discard(d, m) \/ HandleSelfMessage(d, m) \/ DropStale(d, m) \/ AnswerBusy(d, m)
    \/ OnPreOffer(d, m) \/ OnFirstOffer(d, m) \/ OnOffer(d, m) \/ OnAnswer(d, m)
    \/ OnEndCall(d, m) \/ OnHangupHint(d, m)

----------------------------------------------------------------------------
(* Continuations.  Each finishes for the context object it was started for,*)
(* whatever has become of that context meanwhile.  A send is visible to    *)
(* every device once the swarm has stored it, which is before the sender's *)
(* promise resolves, and it may be rejected before or after that.          *)

Sends(j) ==
    LET d == j.ctx[1]
        u == j.ctx[2]
    IN  CASE j.do = "pre-offer"    -> ToPeer(d, u, "PRE_OFFER")
          [] j.do = "offer"        -> ToPeer(d, u, "OFFER")
          [] j.do = "answer"       -> ToPeer(d, u, "ANSWER")
          [] j.do = "sync-answer"  -> ToSelf(d, u, "ANSWER")
          [] j.do = "end"          -> ToPeer(d, u, "END_CALL")
          [] j.do = "sync-end"     -> ToSelf(d, u, "END_CALL")

Store(j) ==
    /\ ~j.stored
    /\ j.do # "apply-answer"
    /\ net' = net \cup Sends(j)
    /\ jobs' = (jobs \ {j}) \cup {[j EXCEPT !.stored = TRUE]}
    /\ UNCHANGED <<call, contexts, made, ctx, boosted, disposed, approved, missed>>

\* What follows the await: PRE_OFFER and OFFER (first or restart) are done; an
\* ANSWER or END_CALL to the peer is followed by the copy to ourselves; then the
\* answer, sent or applied, may find the media up already, and the call ends.
Resolve(j) ==
    /\ j.stored \/ j.do = "apply-answer"
    /\ LET c == j.ctx
           Then(do) == jobs' = (jobs \ {j}) \cup {[j EXCEPT !.do = do, !.stored = FALSE]}
           Done      == jobs' = jobs \ {j}
       IN  \/ /\ j.do \in {"pre-offer", "offer"}
              /\ Done /\ UNCHANGED <<ctx, contexts, boosted>>
           \/ /\ j.do = "answer"
              /\ Then("sync-answer") /\ UNCHANGED <<ctx, contexts, boosted>>
           \/ /\ j.do \in {"sync-answer", "apply-answer"}
              /\ Done /\ Set(c, MaybeApplyEarlyConnected(ctx[c]))
           \/ /\ j.do = "end"
              /\ Then("sync-end") /\ UNCHANGED <<ctx, contexts, boosted>>
           \/ /\ j.do = "sync-end"
              /\ Done /\ End(c, ctx[c], j.reason)
    /\ UNCHANGED <<call, net, made, disposed, approved, missed>>

\* A rejected send or media operation fails the call, except that of END_CALL:
\* it leaves hangup and reject before their endCall, while dispose catches it.
RejectPromise(j) ==
    /\ "send" \in Faults \/ ("media" \in Faults /\ j.do \in {"offer", "answer", "apply-answer"})
    /\ jobs' = jobs \ {j}
    /\ IF j.do \notin {"end", "sync-end"} THEN FailCall(j.ctx, "error")
       ELSE IF j.contained THEN End(j.ctx, ctx[j.ctx], j.reason)
       ELSE UNCHANGED <<ctx, contexts, boosted>>
    /\ UNCHANGED <<call, net, made, disposed, approved, missed>>

Continue(c) ==
    \E j \in jobs : j.ctx = c /\ (Store(j) \/ Resolve(j) \/ RejectPromise(j))

----------------------------------------------------------------------------
(* The media session of a context: werift's ICE states, deduplicated by    *)
(* WeriftMediaSession ("connecting" has no effect on the supervisor).      *)

\* Assumption: ICE connects two open sessions, one of them of a callee who has
\* accepted; before accept() the callee's session has no remote description.
FarEnd(c) == {e \in Context : /\ e[2] = c[2] /\ DirectionOf(e) # DirectionOf(c)
                              /\ ctx[e].media /\ ctx[e].state \notin Ringing}

MediaConnected(c) ==
    /\ ctx[c].media
    /\ ctx[c].ice \in {"new", "disconnected"}
    /\ ctx[c].state \notin Ringing
    /\ FarEnd(c) # {}
    /\ LET r == [ctx[c] EXCEPT !.ice = "connected"]
       IN  Set(c, IF r.state \in {"connecting", "reconnecting"} THEN MarkConnected(r)
                  ELSE IF r.state = "connected" THEN r
                  ELSE [r EXCEPT !.early = TRUE])
    /\ UNCHANGED <<call, net, made, jobs, disposed, approved, missed>>

\* A flap: the initiator schedules ICE restarts, the other side waits for one.
MediaDisconnected(c) ==
    /\ "flap" \in Faults
    /\ ctx[c].media
    /\ ctx[c].ice = "connected"
    /\ LET r == [ctx[c] EXCEPT !.ice = "disconnected", !.early = FALSE]
       IN  Set(c, IF r.state # "connected" THEN r
                  ELSE IF DirectionOf(c) = "outbound"
                  THEN [r EXCEPT !.state = NextState("ice-disconnected"),
                                 !.timers = @ \cup {"restart"}]
                  ELSE [r EXCEPT !.state = NextState("network-reconnect"),
                                 !.timers = @ \cup {"wait"}])
    /\ UNCHANGED <<call, net, made, jobs, disposed, approved, missed>>

MediaFailed(c) ==
    /\ "media" \in Faults
    /\ ctx[c].media
    /\ ctx[c].ice # "failed"
    /\ IF Has(c[1], c[2])
       THEN End(c, [ctx[c] EXCEPT !.ice = "failed",
                                  !.state = IF @ = "idle" THEN @ ELSE "disconnected"], "ice-failed")
       ELSE Set(c, [ctx[c] EXCEPT !.ice = "failed"])
    /\ UNCHANGED <<call, net, made, jobs, disposed, approved, missed>>

Media(c) == MediaConnected(c) \/ MediaDisconnected(c) \/ MediaFailed(c)

----------------------------------------------------------------------------
(* Timers.                                                                 *)

Fired(c, timer) == [ctx[c] EXCEPT !.timers = @ \ {timer}]

OnCallTimeout(c) ==
    /\ "call" \in ctx[c].timers
    /\ IF Has(c[1], c[2]) /\ Can(c, "timeout")
       THEN /\ End(c, [Fired(c, "call") EXCEPT !.state = NextState("timeout")], "timeout")
            /\ net' = net \cup EndCallMessages(c[1], c[2])
       ELSE /\ Set(c, Fired(c, "call"))
            /\ UNCHANGED net
    /\ UNCHANGED <<call, made, jobs, disposed, approved, missed>>

\* Mutant: the next attempt is not scheduled.
AttemptLast(r) == [r EXCEPT !.state = NextState("restart-attempt"), !.attempts = @ + 1,
                            !.timers = @ \ {"restart"}]

\* The restart timer stays armed, for the next attempt.
Attempt(r) == [r EXCEPT !.state = NextState("restart-attempt"), !.attempts = @ + 1]

\* scheduleRestartIfInitiator: one attempt, and the next one scheduled; after
\* MaxRestarts attempts the call is given up.
OnRestartTick(c) ==
    /\ "restart" \in ctx[c].timers
    /\ \/ /\ ctx[c].state \notin {"pending-reconnect", "reconnecting"}
          /\ Set(c, Fired(c, "restart"))
          /\ UNCHANGED <<net, jobs>>
       \/ /\ ctx[c].state \in {"pending-reconnect", "reconnecting"}
          /\ ctx[c].attempts < MaxRestarts
          /\ Set(c, Attempt(ctx[c]))
          /\ jobs' = IF ctx[c].media THEN jobs \cup {JobOf(c, "offer")} ELSE jobs
          /\ UNCHANGED net
       \/ /\ ctx[c].state \in {"pending-reconnect", "reconnecting"}
          /\ ctx[c].attempts >= MaxRestarts
          /\ End(c, [Fired(c, "restart") EXCEPT !.state = NextState("user-hangup")], "ice-failed")
          /\ net' = net \cup EndCallMessages(c[1], c[2])
          /\ UNCHANGED jobs
    /\ UNCHANGED <<call, made, disposed, approved, missed>>

OnReconnectWaitExpired(c) ==
    /\ "wait" \in ctx[c].timers
    /\ LET r == Fired(c, "wait")
       IN  IF Has(c[1], c[2]) /\ r.state \in {"reconnecting", "pending-reconnect"}
           THEN /\ End(c, IF Can(c, "timeout") THEN [r EXCEPT !.state = NextState("timeout")]
                          ELSE r, "ice-failed")
                /\ net' = net \cup EndCallMessages(c[1], c[2])
           ELSE Set(c, r) /\ UNCHANGED net
    /\ UNCHANGED <<call, made, jobs, disposed, approved, missed>>

Timer(c) == OnCallTimeout(c) \/ OnRestartTick(c) \/ OnReconnectWaitExpired(c)

----------------------------------------------------------------------------
Next ==
    \/ \E d \in Device : User(d) \/ \E m \in net : Receive(d, m)
    \/ \E c \in Context : Continue(c) \/ Media(c) \/ Timer(c)

Spec == Init /\ [][Next]_vars

\* The event loop runs what is due: continuations finish and armed timers fire.
\* Nothing obliges users, media or the network to act.
Fairness ==
    \A c \in Context : /\ WF_vars(Continue(c))
                       /\ WF_vars(OnCallTimeout(c))
                       /\ WF_vars(OnRestartTick(c))
                       /\ WF_vars(OnReconnectWaitExpired(c))

FairSpec == Spec /\ Fairness
=============================================================================
