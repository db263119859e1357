------------------------ MODULE CallSupervisorProofs ------------------------
(***************************************************************************)
(* Theorems about CallSupervisor, for every set of devices and accounts,   *)
(* every number of calls and incarnations, and every choice of faults.     *)
(***************************************************************************)
EXTENDS CallProperties, TLAPS

----------------------------------------------------------------------------
(* The state machine and the records it moves.                             *)

\* Where each event leads, as literals.
LEMMA Targets ==
    /\ NextState("send-pre-offer") = "local-pre-offer"
    /\ NextState("receive-pre-offer") = "remote-pre-offer"
    /\ NextState("receive-offer") = "remote-ring"
    /\ NextState("user-accept") = "connecting"
    /\ NextState("receive-answer") = "connecting"
    /\ NextState("ice-connected") = "connected"
    /\ NextState("ice-disconnected") = "pending-reconnect"
    /\ NextState("network-reconnect") = "reconnecting"
    /\ NextState("restart-attempt") = "reconnecting"
    /\ NextState("receive-offer-restart") = "connecting"
    /\ NextState("user-decline") = "disconnected"
    /\ NextState("user-hangup") = "disconnected"
    /\ NextState("receive-end-call") = "disconnected"
    /\ NextState("user-ignore") = "idle"
    /\ NextState("timeout") = "disconnected"
    /\ NextState("self-answer") = "disconnected"
    /\ NextState("self-end-call") = "disconnected"
  BY DEF NextState, Transition, Row

LEMMA FreshContext == NewContext \in CallContext
  BY BoundAssumption DEF NewContext, CallContext, CallState, MaxEnds

LEMMA TornDownType ==
    ASSUME NEW r \in CallContext
    PROVE  TornDown(r) \in CallContext
  BY DEF TornDown, CallContext

LEMMA EndedType ==
    ASSUME NEW r \in CallContext, NEW why \in Reason
    PROVE  Ended(r, why) \in CallContext
<1> DEFINE t == TornDown(r)
           n == IF t.ended < MaxEnds THEN t.ended + 1 ELSE t.ended
<1>1. t \in CallContext
  BY TornDownType
<1>2. n \in 0..MaxEnds
  BY <1>1 DEF CallContext, MaxEnds
<1>3. Ended(r, why) = [t EXCEPT !.ended = n, !.reason = why]
  BY DEF Ended
<1> HIDE DEF t, n
<1> QED
  BY <1>1, <1>2, <1>3, ZenonT(60) DEF CallContext

LEMMA MarkConnectedType ==
    ASSUME NEW r \in CallContext
    PROVE  MarkConnected(r) \in CallContext
<1>1. NextState("ice-connected") \in CallState
  BY Targets DEF CallState
<1>2. 0 \in 0..MaxRestarts
  BY BoundAssumption
<1> QED
  BY <1>1, <1>2 DEF MarkConnected, CallContext

LEMMA EarlyConnectedType ==
    ASSUME NEW r \in CallContext
    PROVE  MaybeApplyEarlyConnected(r) \in CallContext
  BY MarkConnectedType DEF MaybeApplyEarlyConnected

LEMMA AfterType ==
    ASSUME TypeOK, NEW c \in Context, NEW event, NextState(event) \in CallState
    PROVE  After(c, event) \in CallContext
<1>1. ctx[c] \in CallContext
  BY DEF TypeOK
<1> QED
  BY <1>1 DEF After, CallContext

\* Any state of the machine may be put in a context.
LEMMA StateType ==
    ASSUME NEW r \in CallContext, NEW s \in CallState
    PROVE  [r EXCEPT !.state = s] \in CallContext
  BY DEF CallContext

----------------------------------------------------------------------------
(* The map of contexts.                                                    *)

LEMMA ContextParts ==
    ASSUME NEW c \in Context
    PROVE  /\ c[1] \in Device
           /\ c[2] \in Uuid
           /\ c[3] \in 1..MaxIncarnations
  BY DEF Context

LEMMA CurrentType ==
    ASSUME TypeOK, NEW d \in Device, NEW u \in Uuid, Has(d, u)
    PROVE  Current(d, u) \in Context
<1>1. contexts[d][u] \in 1..MaxIncarnations
  BY BoundAssumption DEF TypeOK, Has
<1> QED
  BY <1>1 DEF Current, Context

\* What the four ways of writing a context leave in the map and the contexts.
MapTypeOK ==
    /\ contexts \in [Device -> [Uuid -> 0..MaxIncarnations]]
    /\ ctx \in [Context -> CallContext]
    /\ boosted \in [Device -> BOOLEAN]

LEMMA ForgetType ==
    ASSUME TypeOK, NEW d \in Device, NEW u \in Uuid, Forget(d, u)
    PROVE  /\ contexts' \in [Device -> [Uuid -> 0..MaxIncarnations]]
           /\ boosted' \in [Device -> BOOLEAN]
<1>1. contexts' \in [Device -> [Uuid -> 0..MaxIncarnations]]
  BY BoundAssumption DEF TypeOK, Forget
<1>2. (boosted[d] /\ Busy(d, u)) \in BOOLEAN
  OBVIOUS
<1>3. boosted' \in [Device -> BOOLEAN]
  BY <1>2 DEF TypeOK, Forget
<1> QED
  BY <1>1, <1>3

LEMMA SetTypeOK ==
    ASSUME TypeOK, NEW c \in Context, NEW r \in CallContext, Set(c, r)
    PROVE  MapTypeOK'
  BY DEF TypeOK, Set, MapTypeOK

LEMMA EndTypeOK ==
    ASSUME TypeOK, NEW c \in Context, NEW r \in CallContext, NEW why \in Reason,
           End(c, r, why)
    PROVE  MapTypeOK'
<1>1. Ended(r, why) \in CallContext
  BY EndedType
<1>2. ctx' \in [Context -> CallContext]
  BY <1>1 DEF End, TypeOK
<1> QED
  BY <1>2, ForgetType, ContextParts DEF End, MapTypeOK

LEMMA FailCallTypeOK ==
    ASSUME TypeOK, NEW c \in Context, NEW why \in Reason, FailCall(c, why)
    PROVE  MapTypeOK'
<1>1. CASE ~Has(c[1], c[2])
  BY <1>1 DEF FailCall, MapTypeOK, TypeOK
<1>2. CASE Has(c[1], c[2])
  <2> DEFINE r == IF ctx[c].state \in {"idle", "disconnected"}
                  THEN ctx[c] ELSE After(c, "receive-end-call")
  <2>1. ctx[c] \in CallContext
    BY DEF TypeOK
  <2>2. After(c, "receive-end-call") \in CallContext
    BY AfterType, Targets DEF CallState
  <2>3. r \in CallContext
    BY <2>1, <2>2
  <2>4. End(c, r, why)
    BY <1>2 DEF FailCall
  <2> HIDE DEF r
  <2> QED
    BY <2>3, <2>4, EndTypeOK
<1> QED
  BY <1>1, <1>2

LEMMA RegisterTypeOK ==
    ASSUME TypeOK, NEW d \in Device, NEW u \in Uuid, NEW r \in CallContext,
           Register(d, u, r)
    PROVE  MapTypeOK' /\ made' \in [Device -> [Uuid -> 0..MaxIncarnations]]
<1> DEFINE n == made[d][u] + 1
<1>1. n \in 1..MaxIncarnations /\ n \in 0..MaxIncarnations
  BY BoundAssumption DEF TypeOK, Register
<1>2. <<d, u, n>> \in Context
  BY <1>1 DEF Context
<1>3. /\ made' = [made EXCEPT ![d][u] = n]
      /\ contexts' = [contexts EXCEPT ![d][u] = n]
      /\ ctx' = [ctx EXCEPT ![<<d, u, n>>] = r]
      /\ boosted' = [boosted EXCEPT ![d] = TRUE]
  BY DEF Register, TypeOK
<1> HIDE DEF n
<1> QED
  BY <1>1, <1>2, <1>3 DEF TypeOK, MapTypeOK

----------------------------------------------------------------------------
(* Messages and continuations.                                             *)

LEMMA CopiesType ==
    ASSUME NEW d \in Device, NEW account, NEW type \in Type, NEW u \in Uuid
    PROVE  Copies(d, account, type, u) \subseteq Message
  BY AccountAssumption DEF Copies, Message

LEMMA SendTypes ==
    ASSUME NEW d \in Device, NEW u \in Uuid, NEW type \in Type
    PROVE  /\ ToPeer(d, u, type) \subseteq Message
           /\ ToSelf(d, u, type) \subseteq Message
           /\ EndCallMessages(d, u) \subseteq Message
  BY CopiesType DEF ToPeer, ToSelf, EndCallMessages, Type

LEMMA HintType ==
    ASSUME NEW c \in Context
    PROVE  Hint(c) \subseteq Message
  BY SendTypes, ContextParts DEF Hint, Type

LEMMA SomeJobType ==
    ASSUME NEW c \in Context
    PROVE  /\ \A do \in {"pre-offer", "offer", "answer", "sync-answer", "apply-answer"} :
                JobOf(c, do) \in Job
           /\ \A reason \in Reason, contained \in BOOLEAN :
                SomeJob(c, "end", reason, contained) \in Job
  BY DEF SomeJob, JobOf, Job

----------------------------------------------------------------------------
(* Type correctness, one lemma per group of actions.                       *)

\* Most actions touch only the map, the contexts, the network and the jobs.
LEMMA FrameTypeOK ==
    ASSUME TypeOK, MapTypeOK', net' \subseteq Message, jobs' \subseteq Job,
           UNCHANGED <<call, made, disposed, approved, missed>>
    PROVE  TypeOK'
  BY DEF TypeOK, MapTypeOK

LEMMA PlaceCallTypeOK ==
    ASSUME TypeOK, NEW d \in Device, NEW a \in Account, PlaceCall(d, a)
    PROVE  TypeOK'
<1>1. PICK u \in Uuid :
        /\ made[d][u] < MaxIncarnations
        /\ call' = [call EXCEPT ![u] = [from |-> d, to |-> a]]
        /\ LET c == <<d, u, made[d][u] + 1>>
               r == [NewContext EXCEPT !.state = NextState("send-pre-offer"),
                                       !.timers = {"call"}, !.media = TRUE]
           IN  \/ /\ Register(d, u, r)
                  /\ jobs' = jobs \cup {JobOf(c, "pre-offer"), JobOf(c, "offer")}
               \/ /\ made' = [made EXCEPT ![d][u] = @ + 1]
                  /\ ctx' = [ctx EXCEPT ![c] =
                               Ended([r EXCEPT !.state = "disconnected"], "error")]
                  /\ jobs' = jobs \cup {JobOf(c, "pre-offer")}
                  /\ UNCHANGED <<contexts, boosted>>
  BY DEF PlaceCall
<1> DEFINE c == <<d, u, made[d][u] + 1>>
           r == [NewContext EXCEPT !.state = NextState("send-pre-offer"),
                                   !.timers = {"call"}, !.media = TRUE]
           e == Ended([r EXCEPT !.state = "disconnected"], "error")
<1>2. /\ made[d][u] + 1 \in 0..MaxIncarnations
      /\ c \in Context
  BY <1>1, BoundAssumption DEF TypeOK, Context
<1>3. r \in CallContext
  <2>1. NewContext \in CallContext
    BY FreshContext
  <2>2. NextState("send-pre-offer") \in CallState
    BY Targets DEF CallState
  <2> QED
    BY <2>1, <2>2 DEF CallContext
<1>4. e \in CallContext
  BY <1>3, StateType, EndedType DEF CallState, Reason
<1>5. JobOf(c, "pre-offer") \in Job /\ JobOf(c, "offer") \in Job
  BY <1>2, SomeJobType
<1>6. call' \in [Uuid -> [from : Device \cup {None}, to : Account \cup {None}]]
  BY <1>1 DEF TypeOK
<1>7. /\ UNCHANGED <<net, disposed, missed>>
      /\ approved' \in [Device -> SUBSET Account]
  BY DEF PlaceCall, TypeOK
<1> HIDE DEF r, e
<1>8. MapTypeOK' /\ made' \in [Device -> [Uuid -> 0..MaxIncarnations]] /\ jobs' \subseteq Job
  <2>1. CASE Register(d, u, r) /\ jobs' = jobs \cup {JobOf(c, "pre-offer"), JobOf(c, "offer")}
    BY <2>1, <1>3, <1>5, RegisterTypeOK DEF TypeOK
  <2>2. CASE /\ made' = [made EXCEPT ![d][u] = @ + 1]
             /\ ctx' = [ctx EXCEPT ![c] = e]
             /\ jobs' = jobs \cup {JobOf(c, "pre-offer")}
             /\ UNCHANGED <<contexts, boosted>>
    BY <2>2, <1>2, <1>4, <1>5 DEF TypeOK, MapTypeOK
  <2> QED
    BY <1>1, <2>1, <2>2 DEF r, e
<1> QED
  BY <1>6, <1>7, <1>8 DEF TypeOK, MapTypeOK

LEMMA AnswerTypeOK ==
    ASSUME TypeOK, NEW d \in Device, NEW u \in Uuid,
           Accept(d, u) \/ Reject(d, u) \/ Hangup(d, u)
    PROVE  TypeOK'
<1> DEFINE c == Current(d, u)
<1>1. c \in Context
  BY CurrentType DEF Accept, Reject, Hangup
<1>2. /\ [After(c, "user-accept") EXCEPT !.accepted = TRUE] \in CallContext
      /\ After(c, "user-decline") \in CallContext
      /\ After(c, "user-hangup") \in CallContext
  <2>1. /\ NextState("user-accept") \in CallState /\ NextState("user-decline") \in CallState
        /\ NextState("user-hangup") \in CallState
    BY Targets DEF CallState
  <2>2. /\ After(c, "user-accept") \in CallContext
        /\ After(c, "user-decline") \in CallContext
        /\ After(c, "user-hangup") \in CallContext
    BY <1>1, <2>1, AfterType
  <2> QED
    BY <2>2 DEF CallContext
<1>3. /\ JobOf(c, "answer") \in Job
      /\ SomeJob(c, "end", "remote-declined", FALSE) \in Job
      /\ SomeJob(c, "end", "local-hangup", FALSE) \in Job
  BY <1>1, SomeJobType DEF Reason
<1>4. MapTypeOK'
  BY <1>1, <1>2, SetTypeOK DEF Accept, Reject, Hangup
<1>5. jobs' \subseteq Job
  BY <1>3 DEF Accept, Reject, Hangup, TypeOK
<1>6. net' \subseteq Message
  BY <1>1, HintType DEF Accept, Reject, Hangup, TypeOK
<1>7. UNCHANGED <<call, made, disposed, approved, missed>>
  BY DEF Accept, Reject, Hangup
<1> QED
  BY <1>4, <1>5, <1>6, <1>7, FrameTypeOK

LEMMA IgnoreTypeOK ==
    ASSUME TypeOK, NEW d \in Device, NEW u \in Uuid, Ignore(d, u)
    PROVE  TypeOK'
<1> DEFINE c == Current(d, u)
<1>1. c \in Context
  BY CurrentType DEF Ignore
<1>2. TornDown(After(c, "user-ignore")) \in CallContext
  BY <1>1, AfterType, Targets, TornDownType DEF CallState
<1>3. ctx' \in [Context -> CallContext]
  BY <1>2 DEF Ignore, TypeOK
<1>4. missed' \in [Device -> SUBSET (Uuid \X {"busy", "stale", "ignored"})]
  BY DEF Ignore, TypeOK
<1>5. Forget(d, u) /\ UNCHANGED <<call, net, made, jobs, disposed, approved>>
  BY DEF Ignore
<1> QED
  BY <1>3, <1>4, <1>5, ForgetType DEF TypeOK

LEMMA DisposeTypeOK ==
    ASSUME TypeOK, NEW d \in Device, Dispose(d)
    PROVE  TypeOK'
<1>1. /\ disposed' \in [Device -> BOOLEAN]
      /\ UNCHANGED <<call, made, approved, missed>>
  BY DEF Dispose, TypeOK
<1>2. MapTypeOK' /\ net' \subseteq Message /\ jobs' \subseteq Job
  <2>1. CASE UNCHANGED <<net, contexts, ctx, jobs, boosted>>
    BY <2>1 DEF TypeOK, MapTypeOK
  <2>2. ASSUME NEW u \in Uuid, NEW event \in {"user-decline", "user-hangup"},
               NEW why \in {"remote-declined", "local-hangup"},
               Has(d, u),
               Set(Current(d, u), After(Current(d, u), event)),
               net' = net \cup Hint(Current(d, u)),
               jobs' = jobs \cup {SomeJob(Current(d, u), "end", why, TRUE)}
        PROVE  MapTypeOK' /\ net' \subseteq Message /\ jobs' \subseteq Job
    <3>1. Current(d, u) \in Context
      BY <2>2, CurrentType
    <3>2. After(Current(d, u), event) \in CallContext
      BY <3>1, AfterType, Targets DEF CallState
    <3>3. SomeJob(Current(d, u), "end", why, TRUE) \in Job
      BY <3>1, SomeJobType DEF Reason
    <3> QED
      BY <2>2, <3>1, <3>2, <3>3, SetTypeOK, HintType DEF TypeOK
  <2>3. ASSUME NEW u \in Uuid, Has(d, u), Forget(d, u), UNCHANGED <<net, jobs>>,
               ctx' = [ctx EXCEPT ![Current(d, u)] = TornDown(@)]
        PROVE  MapTypeOK' /\ net' \subseteq Message /\ jobs' \subseteq Job
    <3>1. Current(d, u) \in Context
      BY <2>3, CurrentType
    <3>2. TornDown(ctx[Current(d, u)]) \in CallContext
      BY <3>1, TornDownType DEF TypeOK
    <3> QED
      BY <2>3, <3>1, <3>2, ForgetType DEF TypeOK, MapTypeOK
  <2> QED
    BY <2>1, <2>2, <2>3 DEF Dispose
<1> QED
  BY <1>1, <1>2 DEF TypeOK, MapTypeOK

LEMMA UserTypeOK ==
    ASSUME TypeOK, NEW d \in Device, User(d)
    PROVE  TypeOK'
<1>1. ASSUME NEW a \in Account, MarkApproved(d, a)
      PROVE  TypeOK'
  BY <1>1 DEF MarkApproved, TypeOK
<1>2. ASSUME NEW u \in Uuid, ConsumerThrows(d, u)
      PROVE  TypeOK'
  <2>1. MapTypeOK'
    BY <1>2, CurrentType, FailCallTypeOK DEF ConsumerThrows, Reason
  <2> QED
    BY <1>2, <2>1, FrameTypeOK DEF ConsumerThrows, TypeOK
<1> QED
  BY <1>1, <1>2, PlaceCallTypeOK, AnswerTypeOK, IgnoreTypeOK, DisposeTypeOK DEF User

LEMMA MessageParts ==
    ASSUME TypeOK, NEW m \in net
    PROVE  m.to \in Device /\ m.from \in Account /\ m.type \in Type /\ m.uuid \in Uuid
  BY DEF TypeOK, Message

\* Messages that end, drop or record a call, and make none.
LEMMA EndingTypeOK ==
    ASSUME TypeOK, NEW d \in Device, NEW m \in net,
           \/ Discard(d, m) \/ DropStale(d, m) \/ AnswerBusy(d, m)
           \/ HandleSelfMessage(d, m) \/ OnEndCall(d, m) \/ OnHangupHint(d, m)
    PROVE  TypeOK'
<1> DEFINE c == Current(d, m.uuid)
<1>1. /\ m.uuid \in Uuid /\ m.from \in Account
      /\ net \ {m} \subseteq Message
  BY MessageParts DEF TypeOK
<1>2. CASE Discard(d, m)
  BY <1>1, <1>2 DEF Discard, TypeOK
<1>3. CASE DropStale(d, m)
  BY <1>1, <1>3 DEF DropStale, TypeOK
<1>4. CASE AnswerBusy(d, m)
  <2>1. Copies(d, m.from, "END_CALL", m.uuid) \subseteq Message
    BY <1>1, CopiesType DEF Type
  <2> QED
    BY <1>1, <1>4, <2>1 DEF AnswerBusy, TypeOK
<1>5. ASSUME NEW event \in {"self-answer", "self-end-call", "receive-end-call"},
             NEW why \in Reason, Has(d, m.uuid), End(c, After(c, event), why)
      PROVE  MapTypeOK'
  <2>1. c \in Context
    BY <1>1, <1>5, CurrentType
  <2>2. After(c, event) \in CallContext
    BY <2>1, AfterType, Targets DEF CallState
  <2> QED
    BY <1>5, <2>1, <2>2, EndTypeOK
<1>6. CASE HandleSelfMessage(d, m)
  <2>1. /\ Elsewhere(m.type).event \in {"self-answer", "self-end-call"}
        /\ Elsewhere(m.type).reason \in Reason
    BY DEF Elsewhere, Reason
  <2>2. MapTypeOK'
    BY <1>5, <1>6, <2>1 DEF HandleSelfMessage, MapTypeOK, TypeOK
  <2> QED
    BY <1>1, <1>6, <2>2, FrameTypeOK DEF HandleSelfMessage, TypeOK
<1>7. CASE OnEndCall(d, m)
  <2> DEFINE why == IF DirectionOf(c) = "outbound" /\ ~ctx[c].ever /\ ctx[c].state # "connected"
                    THEN "remote-declined" ELSE "remote-hangup"
  <2>1. why \in Reason
    BY DEF Reason
  <2>2. \/ Has(d, m.uuid) /\ End(c, After(c, "receive-end-call"), why)
        \/ UNCHANGED <<ctx, contexts, boosted>>
    BY <1>7 DEF OnEndCall
  <2> HIDE DEF why
  <2>3. MapTypeOK'
    BY <1>5, <2>1, <2>2 DEF MapTypeOK, TypeOK
  <2> QED
    BY <1>1, <1>7, <2>3, FrameTypeOK DEF OnEndCall, TypeOK
<1>8. CASE OnHangupHint(d, m)
  <2>1. ASSUME NEW e \in Context, End(e, After(e, "receive-end-call"), "remote-hangup")
        PROVE  MapTypeOK'
    BY <2>1, AfterType, EndTypeOK, Targets DEF CallState, Reason
  <2>2. MapTypeOK'
    BY <1>8, <2>1 DEF OnHangupHint, HintTargets, MapTypeOK, TypeOK
  <2> QED
    BY <1>1, <1>8, <2>2, FrameTypeOK DEF OnHangupHint, TypeOK
<1> QED
  BY <1>2, <1>3, <1>4, <1>6, <1>7, <1>8

\* Messages that make a context.
LEMMA FirstTypeOK ==
    ASSUME TypeOK, NEW d \in Device, NEW m \in net, OnPreOffer(d, m) \/ OnFirstOffer(d, m)
    PROVE  TypeOK'
<1>1. m.uuid \in Uuid /\ net \ {m} \subseteq Message
  BY MessageParts DEF TypeOK
<1>2. CASE OnPreOffer(d, m)
  <2>1. [NewContext EXCEPT !.state = NextState("receive-pre-offer")] \in CallContext
    BY FreshContext, StateType, Targets DEF CallState
  <2>2. MapTypeOK' /\ made' \in [Device -> [Uuid -> 0..MaxIncarnations]]
    BY <1>1, <1>2, <2>1, RegisterTypeOK DEF OnPreOffer, MapTypeOK, TypeOK
  <2> QED
    BY <1>1, <1>2, <2>2 DEF OnPreOffer, MapTypeOK, TypeOK
<1>3. CASE OnFirstOffer(d, m)
  <2>1. PICK created \in BOOLEAN :
          Register(d, m.uuid, [NewContext EXCEPT !.state = NextState("receive-offer"),
                                                 !.offer = TRUE, !.media = created])
    BY <1>3 DEF OnFirstOffer, EngineResult
  <2> DEFINE r == [NewContext EXCEPT !.state = NextState("receive-offer"),
                                     !.offer = TRUE, !.media = created]
  <2>2. NextState("receive-offer") \in CallState
    BY Targets DEF CallState
  <2>3. r \in CallContext
    BY <2>2, FreshContext DEF CallContext
  <2> HIDE DEF r
  <2>4. MapTypeOK' /\ made' \in [Device -> [Uuid -> 0..MaxIncarnations]]
    BY <1>1, <2>1, <2>3, RegisterTypeOK DEF r
  <2> QED
    BY <1>1, <1>3, <2>4 DEF OnFirstOffer, MapTypeOK, TypeOK
<1> QED
  BY <1>2, <1>3

\* An OFFER for a context: a restart, the offer awaited, or one out of place.
LEMMA OnOfferTypeOK ==
    ASSUME TypeOK, NEW d \in Device, NEW m \in net, OnOffer(d, m)
    PROVE  TypeOK'
<1> DEFINE c == Current(d, m.uuid)
           restarted == [ctx[c] EXCEPT !.state = NextState("receive-offer-restart"),
                                       !.timers = @ \ {"wait"}]
<1>1. m.uuid \in Uuid /\ net' \subseteq Message
  BY MessageParts DEF OnOffer, TypeOK
<1>2. c \in Context
  BY <1>1, CurrentType DEF OnOffer
<1>3. ctx[c] \in CallContext
  BY <1>2 DEF TypeOK
<1>4. JobOf(c, "answer") \in Job
  BY <1>2, SomeJobType
<1>5. restarted \in CallContext
  <2>1. NextState("receive-offer-restart") \in CallState
    BY Targets DEF CallState
  <2> QED
    BY <1>3, <2>1 DEF CallContext
<1> HIDE DEF c, restarted
<1>6. MapTypeOK' /\ jobs' \subseteq Job
  <2>1. CASE Set(c, restarted) /\ jobs' = jobs \cup {JobOf(c, "answer")}
    BY <2>1, <1>2, <1>4, <1>5, SetTypeOK DEF TypeOK
  <2>2. CASE End(c, [restarted EXCEPT !.state = "disconnected"], "error") /\ UNCHANGED jobs
    <3>1. [restarted EXCEPT !.state = "disconnected"] \in CallContext
      BY <1>5, StateType DEF CallState
    <3> QED
      BY <2>2, <3>1, <1>2, EndTypeOK DEF TypeOK, Reason
  <2>3. ASSUME NEW created \in BOOLEAN,
               Set(c, [After(c, "receive-offer") EXCEPT !.offer = TRUE, !.media = @ \/ created]),
               UNCHANGED jobs
        PROVE  MapTypeOK' /\ jobs' \subseteq Job
    <3> DEFINE a == After(c, "receive-offer")
               r == [a EXCEPT !.offer = TRUE, !.media = @ \/ created]
    <3>1. a \in CallContext
      BY <1>2, AfterType, Targets DEF CallState
    <3> HIDE DEF a
    <3>2. a.media \/ created \in BOOLEAN
      BY <3>1 DEF CallContext
    <3>3. r \in CallContext
      BY <3>1, <3>2 DEF CallContext
    <3>4. Set(c, r)
      BY <2>3 DEF r, a
    <3> HIDE DEF r
    <3> QED
      BY <2>3, <3>3, <3>4, <1>2, SetTypeOK DEF TypeOK
  <2>4. CASE UNCHANGED <<ctx, contexts, boosted, jobs>>
    BY <2>4 DEF TypeOK, MapTypeOK
  <2>5. \/ Set(c, restarted) /\ jobs' = jobs \cup {JobOf(c, "answer")}
        \/ End(c, [restarted EXCEPT !.state = "disconnected"], "error") /\ UNCHANGED jobs
        \/ /\ \E created \in BOOLEAN :
                Set(c, [After(c, "receive-offer") EXCEPT !.offer = TRUE, !.media = @ \/ created])
           /\ UNCHANGED jobs
        \/ UNCHANGED <<ctx, contexts, boosted, jobs>>
    BY DEF OnOffer, AnswerRestart, c, restarted, EngineResult
  <2> QED
    BY <2>1, <2>2, <2>3, <2>4, <2>5
<1> QED
  BY <1>1, <1>6, FrameTypeOK DEF OnOffer

LEMMA OnAnswerTypeOK ==
    ASSUME TypeOK, NEW d \in Device, NEW m \in net, OnAnswer(d, m)
    PROVE  TypeOK'
<1> DEFINE c == Current(d, m.uuid)
<1>1. m.uuid \in Uuid /\ net' \subseteq Message
  BY MessageParts DEF OnAnswer, TypeOK
<1>2. CASE UNCHANGED <<ctx, contexts, boosted, jobs>>
  BY <1>1, <1>2 DEF OnAnswer, TypeOK
<1>3. CASE Has(d, m.uuid)
  <2>1. c \in Context
    BY <1>1, <1>3, CurrentType
  <2>2. After(c, "receive-answer") \in CallContext
    BY <2>1, AfterType, Targets DEF CallState
  <2>3. [ctx[c] EXCEPT !.state = "disconnected"] \in CallContext
    BY <2>1, StateType DEF TypeOK, CallState
  <2>4. JobOf(c, "apply-answer") \in Job
    BY <2>1, SomeJobType
  <2>5. \/ UNCHANGED <<ctx, contexts, boosted, jobs>>
        \/ /\ Set(c, After(c, "receive-answer"))
           /\ jobs' = jobs \cup {JobOf(c, "apply-answer")}
        \/ End(c, [ctx[c] EXCEPT !.state = "disconnected"], "error") /\ UNCHANGED jobs
    BY DEF OnAnswer
  <2>6. MapTypeOK' /\ jobs' \subseteq Job
    BY <2>1, <2>2, <2>3, <2>4, <2>5, SetTypeOK, EndTypeOK DEF TypeOK, MapTypeOK, Reason
  <2> QED
    BY <1>1, <2>6, FrameTypeOK DEF OnAnswer
<1> QED
  BY <1>2, <1>3 DEF OnAnswer

LEMMA ReceiveTypeOK ==
    ASSUME TypeOK, NEW d \in Device, NEW m \in net, Receive(d, m)
    PROVE  TypeOK'
  BY EndingTypeOK, FirstTypeOK, OnOfferTypeOK, OnAnswerTypeOK DEF Receive

LEMMA ContinueTypeOK ==
    ASSUME TypeOK, NEW c \in Context, Continue(c)
    PROVE  TypeOK'
<1>1. PICK j \in jobs : j.ctx = c /\ (Store(j) \/ Resolve(j) \/ RejectPromise(j))
  BY DEF Continue
<1>2. j \in Job /\ c[1] \in Device /\ c[2] \in Uuid /\ ctx[c] \in CallContext
  BY <1>1, ContextParts DEF TypeOK
<1>3. CASE Store(j)
  <2>1. Sends(j) \subseteq Message
    <3> DEFINE d == c[1]
               u == c[2]
    <3>1. /\ ToPeer(d, u, "PRE_OFFER") \subseteq Message
          /\ ToPeer(d, u, "OFFER") \subseteq Message
          /\ ToPeer(d, u, "ANSWER") \subseteq Message
          /\ ToSelf(d, u, "ANSWER") \subseteq Message
          /\ ToPeer(d, u, "END_CALL") \subseteq Message
          /\ ToSelf(d, u, "END_CALL") \subseteq Message
      BY <1>2, SendTypes DEF Type
    <3> QED
      BY <1>1, <1>2, <1>3, <3>1 DEF Sends, Store, Job
  <2>2. [j EXCEPT !.stored = TRUE] \in Job
    BY <1>2 DEF Job
  <2> QED
    BY <1>3, <2>1, <2>2 DEF Store, TypeOK
<1>4. CASE Resolve(j)
  <2>1. /\ j.do = "answer" => [j EXCEPT !.do = "sync-answer", !.stored = FALSE] \in Job
        /\ j.do = "end" => [j EXCEPT !.do = "sync-end", !.stored = FALSE] \in Job
    BY <1>2 DEF Job
  <2>2. jobs' \subseteq Job
    BY <1>4, <2>1 DEF Resolve, TypeOK
  <2>3. MapTypeOK'
    <3>1. CASE UNCHANGED <<ctx, contexts, boosted>>
      BY <3>1 DEF MapTypeOK, TypeOK
    <3>2. CASE Set(c, MaybeApplyEarlyConnected(ctx[c]))
      BY <1>2, <3>2, EarlyConnectedType, SetTypeOK
    <3>3. CASE End(c, ctx[c], j.reason) /\ j.do = "sync-end"
      <4>1. j.reason \in Reason
        BY <1>2, <3>3 DEF Job
      <4> QED
        BY <1>2, <3>3, <4>1, EndTypeOK
    <3> QED
      BY <1>1, <1>4, <3>1, <3>2, <3>3 DEF Resolve
  <2> QED
    BY <1>4, <2>2, <2>3, FrameTypeOK DEF Resolve, TypeOK
<1>5. CASE RejectPromise(j)
  <2>1. MapTypeOK'
    <3>1. CASE FailCall(c, "error")
      BY <3>1, FailCallTypeOK DEF Reason
    <3>2. CASE End(c, ctx[c], j.reason) /\ j.do \in {"end", "sync-end"}
      <4>1. j.reason \in Reason
        BY <1>2, <3>2 DEF Job
      <4> QED
        BY <1>2, <3>2, <4>1, EndTypeOK
    <3>3. CASE UNCHANGED <<ctx, contexts, boosted>>
      BY <3>3 DEF MapTypeOK, TypeOK
    <3> QED
      BY <1>1, <1>5, <3>1, <3>2, <3>3 DEF RejectPromise
  <2> QED
    BY <1>5, <2>1, FrameTypeOK DEF RejectPromise, TypeOK
<1> QED
  BY <1>1, <1>3, <1>4, <1>5

LEMMA MediaTypeOK ==
    ASSUME TypeOK, NEW c \in Context, Media(c)
    PROVE  TypeOK'
<1>1. ctx[c] \in CallContext
  BY DEF TypeOK
<1>2. UNCHANGED <<call, net, made, jobs, disposed, approved, missed>>
  BY DEF Media, MediaConnected, MediaDisconnected, MediaFailed
<1>3. CASE MediaConnected(c)
  <2> DEFINE r == [ctx[c] EXCEPT !.ice = "connected"]
  <2>1. r \in CallContext /\ [r EXCEPT !.early = TRUE] \in CallContext
    BY <1>1 DEF CallContext
  <2>2. MarkConnected(r) \in CallContext
    BY <2>1, MarkConnectedType
  <2>3. \/ Set(c, r)
        \/ Set(c, [r EXCEPT !.early = TRUE])
        \/ Set(c, MarkConnected(r))
    BY <1>3 DEF MediaConnected
  <2> HIDE DEF r
  <2>4. MapTypeOK'
    BY <2>1, <2>2, <2>3, SetTypeOK
  <2> QED
    BY <1>2, <2>4, FrameTypeOK DEF TypeOK
<1>4. CASE MediaDisconnected(c)
  <2> DEFINE r == [ctx[c] EXCEPT !.ice = "disconnected", !.early = FALSE]
             initiator == [r EXCEPT !.state = NextState("ice-disconnected"),
                                    !.timers = @ \cup {"restart"}]
             other == [r EXCEPT !.state = NextState("network-reconnect"),
                                !.timers = @ \cup {"wait"}]
  <2>1. r \in CallContext
    BY <1>1 DEF CallContext
  <2>2. NextState("ice-disconnected") \in CallState /\ NextState("network-reconnect") \in CallState
    BY Targets DEF CallState
  <2>3. initiator \in CallContext /\ other \in CallContext
    BY <2>1, <2>2 DEF CallContext
  <2>4. Set(c, r) \/ Set(c, initiator) \/ Set(c, other)
    BY <1>4 DEF MediaDisconnected
  <2> HIDE DEF r, initiator, other
  <2>5. MapTypeOK'
    BY <2>1, <2>3, <2>4, SetTypeOK
  <2> QED
    BY <1>2, <2>5, FrameTypeOK DEF TypeOK
<1>5. CASE MediaFailed(c)
  <2> DEFINE failed == [ctx[c] EXCEPT !.ice = "failed"]
             dead == [ctx[c] EXCEPT !.ice = "failed",
                                    !.state = IF @ = "idle" THEN @ ELSE "disconnected"]
  <2>1. failed \in CallContext /\ dead \in CallContext
    BY <1>1 DEF CallContext, CallState
  <2>2. End(c, dead, "ice-failed") \/ Set(c, failed)
    BY <1>5 DEF MediaFailed
  <2> HIDE DEF failed, dead
  <2>3. MapTypeOK'
    BY <2>1, <2>2, SetTypeOK, EndTypeOK DEF Reason
  <2> QED
    BY <1>2, <2>3, FrameTypeOK DEF TypeOK
<1> QED
  BY <1>3, <1>4, <1>5 DEF Media

LEMMA TimerTypeOK ==
    ASSUME TypeOK, NEW c \in Context, Timer(c)
    PROVE  TypeOK'
<1>1. ctx[c] \in CallContext /\ c[1] \in Device /\ c[2] \in Uuid
  BY ContextParts DEF TypeOK
<1>2. \A t \in {"call", "restart", "wait"} : Fired(c, t) \in CallContext
  BY <1>1 DEF Fired, CallContext
<1>3. UNCHANGED <<call, made, disposed, approved, missed>>
  BY DEF Timer, OnCallTimeout, OnRestartTick, OnReconnectWaitExpired
<1>4. EndCallMessages(c[1], c[2]) \subseteq Message
  BY <1>1, SendTypes DEF Type
<1>5. net' \subseteq Message
  BY <1>4 DEF Timer, OnCallTimeout, OnRestartTick, OnReconnectWaitExpired, TypeOK
<1>6. JobOf(c, "offer") \in Job
  BY SomeJobType
<1>7. jobs' \subseteq Job
  BY <1>6 DEF Timer, OnCallTimeout, OnRestartTick, OnReconnectWaitExpired, TypeOK
<1>8. \A t \in {"call", "restart", "wait"}, e \in {"timeout", "user-hangup"} :
        [Fired(c, t) EXCEPT !.state = NextState(e)] \in CallContext
  BY <1>2, StateType, Targets, ZenonT(60) DEF CallState
<1>9. MapTypeOK'
  <2>1. CASE OnCallTimeout(c)
    BY <2>1, <1>2, <1>8, EndTypeOK, SetTypeOK DEF OnCallTimeout, Reason
  <2>2. CASE OnRestartTick(c)
    <3>1. CASE ctx[c].attempts < MaxRestarts /\ Set(c, Attempt(ctx[c]))
      <4>1. NextState("restart-attempt") \in CallState
        BY Targets DEF CallState
      <4>2. ctx[c].attempts + 1 \in 0..MaxRestarts
        BY <1>1, <3>1, BoundAssumption DEF CallContext
      <4>3. Attempt(ctx[c]) \in CallContext
        BY <1>1, <4>1, <4>2 DEF Attempt, CallContext
      <4> QED
        BY <3>1, <4>3, SetTypeOK
    <3> QED
      BY <2>2, <3>1, <1>2, <1>8, EndTypeOK, SetTypeOK DEF OnRestartTick, Reason
  <2>3. CASE OnReconnectWaitExpired(c)
    <3> DEFINE r == Fired(c, "wait")
               over == IF Can(c, "timeout") THEN [r EXCEPT !.state = NextState("timeout")] ELSE r
    <3>1. r \in CallContext /\ over \in CallContext
      BY <1>2, <1>8
    <3>2. End(c, over, "ice-failed") \/ Set(c, r)
      BY <2>3 DEF OnReconnectWaitExpired
    <3> HIDE DEF r, over
    <3> QED
      BY <3>1, <3>2, EndTypeOK, SetTypeOK DEF Reason
  <2> QED
    BY <2>1, <2>2, <2>3 DEF Timer
<1> QED
  BY <1>3, <1>5, <1>7, <1>9, FrameTypeOK

LEMMA TypeInit == Init => TypeOK
<1> SUFFICES ASSUME Init
             PROVE  TypeOK
  OBVIOUS
<1>1. NewContext \in CallContext
  BY FreshContext
<1>2. 0 \in 0..MaxIncarnations
  BY BoundAssumption
<1> QED
  BY <1>1, <1>2, AccountAssumption DEF Init, TypeOK

LEMMA TypeStep == TypeOK /\ [Next]_vars => TypeOK'
<1> SUFFICES ASSUME TypeOK, [Next]_vars
             PROVE  TypeOK'
  OBVIOUS
<1>1. CASE UNCHANGED vars
  BY <1>1 DEF vars, TypeOK
<1>2. CASE Next
  BY <1>2, UserTypeOK, ReceiveTypeOK, ContinueTypeOK, MediaTypeOK, TimerTypeOK DEF Next
<1> QED
  BY <1>1, <1>2

\* Every variable keeps the type that the code's data structures have; with it, end
\* jobs carry a reason and attempts stay within ICE_RESTART_MAX_ATTEMPTS.
THEOREM TypeCorrect == Spec => []TypeOK
  BY TypeInit, TypeStep, PTL DEF Spec

----------------------------------------------------------------------------
(* The map of contexts and the poll cadence.                               *)

\* A call takes the line of a device that has no other one.
Takes(d, u) ==
    /\ ~Busy(d, u)
    /\ \E n \in 1..MaxIncarnations : contexts' = [contexts EXCEPT ![d][u] = n]
    /\ boosted' = [boosted EXCEPT ![d] = TRUE]

LEMMA RegisterTakes ==
    ASSUME TypeOK, NEW d \in Device, NEW u \in Uuid, NEW r, Register(d, u, r), ~Busy(d, u)
    PROVE  Takes(d, u)
<1>1. made[d][u] + 1 \in 1..MaxIncarnations
  BY BoundAssumption DEF TypeOK, Register
<1> QED
  BY <1>1 DEF Register, Takes

\* All that a step can do to the map: nothing, drop a uuid, or take a free line.
LEMMA MapStep ==
    ASSUME TypeOK, Next
    PROVE  \/ UNCHANGED <<contexts, boosted>>
           \/ \E d \in Device, u \in Uuid : Forget(d, u) \/ Takes(d, u)
<1>1. ASSUME NEW c \in Context, NEW r, NEW why, End(c, r, why)
      PROVE  \E d \in Device, u \in Uuid : Forget(d, u)
  BY <1>1, ContextParts DEF End
<1>2. ASSUME NEW c \in Context, NEW why, FailCall(c, why)
      PROVE  \/ UNCHANGED <<contexts, boosted>>
             \/ \E d \in Device, u \in Uuid : Forget(d, u)
  BY <1>1, <1>2 DEF FailCall
<1>3. ASSUME NEW d \in Device, User(d)
      PROVE  \/ UNCHANGED <<contexts, boosted>>
             \/ \E u \in Uuid : Forget(d, u) \/ Takes(d, u)
  <2>1. ASSUME NEW a \in Account, PlaceCall(d, a)
        PROVE  UNCHANGED <<contexts, boosted>> \/ \E u \in Uuid : Takes(d, u)
    BY <2>1, RegisterTakes DEF PlaceCall, Idle, Busy
  <2>2. ASSUME NEW a \in Account, MarkApproved(d, a)
        PROVE  UNCHANGED <<contexts, boosted>>
    BY <2>2 DEF MarkApproved
  <2>3. ASSUME NEW u \in Uuid, Accept(d, u) \/ Reject(d, u) \/ Hangup(d, u)
        PROVE  UNCHANGED <<contexts, boosted>>
    BY <2>3 DEF Accept, Reject, Hangup, Set
  <2>4. ASSUME NEW u \in Uuid, ConsumerThrows(d, u)
        PROVE  UNCHANGED <<contexts, boosted>> \/ Forget(d, u)
    BY <2>4 DEF ConsumerThrows, FailCall, End, Current
  <2>5. ASSUME NEW u \in Uuid, Ignore(d, u)
        PROVE  Forget(d, u)
    BY <2>5 DEF Ignore
  <2>6. CASE Dispose(d)
    BY <2>6 DEF Dispose, Set
  <2> QED
    BY <1>3, <2>1, <2>2, <2>3, <2>4, <2>5, <2>6 DEF User
<1>4. ASSUME NEW d \in Device, NEW m \in net, Receive(d, m)
      PROVE  \/ UNCHANGED <<contexts, boosted>>
             \/ \E u \in Uuid : Forget(d, u) \/ Takes(d, u)
  <2>1. m.uuid \in Uuid
    BY MessageParts
  <2>2. CASE Discard(d, m) \/ DropStale(d, m) \/ AnswerBusy(d, m)
    BY <2>2 DEF Discard, DropStale, AnswerBusy
  <2>3. CASE HandleSelfMessage(d, m) \/ OnEndCall(d, m) \/ OnHangupHint(d, m)
    BY <2>1, <2>3 DEF HandleSelfMessage, OnEndCall, OnHangupHint, HintTargets, End, Current
  <2>4. CASE OnPreOffer(d, m) \/ OnFirstOffer(d, m)
    BY <2>1, <2>4, RegisterTakes DEF OnPreOffer, OnFirstOffer, Dispatched
  <2>5. CASE OnOffer(d, m) \/ OnAnswer(d, m)
    BY <2>1, <2>5 DEF OnOffer, AnswerRestart, OnAnswer, End, Set, Current
  <2> QED
    BY <1>4, <2>2, <2>3, <2>4, <2>5 DEF Receive
<1>5. ASSUME NEW c \in Context, Continue(c) \/ Media(c) \/ Timer(c)
      PROVE  \/ UNCHANGED <<contexts, boosted>>
             \/ \E d \in Device, u \in Uuid : Forget(d, u)
  <2>1. CASE Continue(c)
    BY <1>1, <1>2, <2>1 DEF Continue, Store, Resolve, RejectPromise, Set
  <2>2. CASE Media(c)
    BY <1>1, <2>2 DEF Media, MediaConnected, MediaDisconnected, MediaFailed, Set
  <2>3. CASE Timer(c)
    BY <1>1, <2>3 DEF Timer, OnCallTimeout, OnRestartTick, OnReconnectWaitExpired, Set
  <2> QED
    BY <1>5, <2>1, <2>2, <2>3
<1> QED
  BY <1>3, <1>4, <1>5 DEF Next

LineInv == TypeOK /\ OneActiveCall /\ PollBoostedWhileCalling

LEMMA LineInvStep == LineInv /\ [Next]_vars => LineInv'
<1> SUFFICES ASSUME LineInv, [Next]_vars
             PROVE  LineInv'
  OBVIOUS
<1>1. TypeOK /\ TypeOK'
  BY TypeStep DEF LineInv
<1>2. CASE UNCHANGED <<contexts, boosted>>
  BY <1>1, <1>2 DEF LineInv, OneActiveCall, PollBoostedWhileCalling, Has, Idle
<1>3. ASSUME NEW d \in Device, NEW u \in Uuid, Forget(d, u)
      PROVE  LineInv'
  <2>1. /\ \A e \in Device, v \in Uuid :
              contexts'[e][v] = IF e = d /\ v = u THEN 0 ELSE contexts[e][v]
        /\ boosted' = [boosted EXCEPT ![d] = @ /\ Busy(d, u)]
    BY <1>1, <1>3 DEF Forget, TypeOK
  <2>2. OneActiveCall'
    BY <2>1 DEF LineInv, OneActiveCall, Has
  <2>3. Idle(d)' <=> ~Busy(d, u)
    BY <2>1 DEF Idle, Busy, Has
  <2>4. \A e \in Device \ {d} : Idle(e)' <=> Idle(e)
    BY <2>1 DEF Idle, Has
  <2>5. Busy(d, u) => boosted[d]
    BY DEF LineInv, PollBoostedWhileCalling, Idle, Busy
  <2>6. boosted'[d] <=> Busy(d, u)
    BY <1>1, <2>1, <2>5 DEF TypeOK
  <2>7. \A e \in Device \ {d} : boosted'[e] = boosted[e]
    BY <1>1, <2>1 DEF TypeOK
  <2>8. PollBoostedWhileCalling'
    BY <2>3, <2>4, <2>6, <2>7 DEF LineInv, PollBoostedWhileCalling
  <2> QED
    BY <1>1, <2>2, <2>8 DEF LineInv
<1>4. ASSUME NEW d \in Device, NEW u \in Uuid, Takes(d, u)
      PROVE  LineInv'
  <2>1. PICK n \in 1..MaxIncarnations : contexts' = [contexts EXCEPT ![d][u] = n]
    BY <1>4 DEF Takes
  <2>2. \A e \in Device, v \in Uuid :
          contexts'[e][v] = IF e = d /\ v = u THEN n ELSE contexts[e][v]
    BY <1>1, <2>1 DEF TypeOK
  <2>3. OneActiveCall'
    BY <1>4, <2>2 DEF LineInv, OneActiveCall, Has, Takes, Busy
  <2>4. ~Idle(d)' /\ \A e \in Device \ {d} : Idle(e)' <=> Idle(e)
    BY <2>2, n # 0 DEF Idle, Has
  <2>5. boosted'[d] /\ \A e \in Device \ {d} : boosted'[e] = boosted[e]
    BY <1>1, <1>4 DEF TypeOK, Takes
  <2>6. PollBoostedWhileCalling'
    BY <2>4, <2>5 DEF LineInv, PollBoostedWhileCalling
  <2> QED
    BY <1>1, <2>3, <2>6 DEF LineInv
<1>5. CASE UNCHANGED vars
  BY <1>2, <1>5 DEF vars
<1>6. CASE Next
  BY <1>1, <1>2, <1>3, <1>4, <1>6, MapStep
<1> QED
  BY <1>5, <1>6

LEMMA LineInvInit == Init => LineInv
  BY TypeInit DEF Init, LineInv, OneActiveCall, PollBoostedWhileCalling, Has, Idle

\* placeCall's guard and the busy arbitration keep every device at one call,
\* whatever the awaits, the network and the other devices do in between.
THEOREM OneActiveCallAlways == Spec => []OneActiveCall
<1>1. LineInv => OneActiveCall
  BY DEF LineInv
<1> QED
  BY <1>1, LineInvInit, LineInvStep, PTL DEF Spec

\* However a call ends, the poller is back at its own cadence when no call is left,
\* and no earlier.
THEOREM PollBoostedAlways == Spec => []PollBoostedWhileCalling
<1>1. LineInv => PollBoostedWhileCalling
  BY DEF LineInv
<1> QED
  BY <1>1, LineInvInit, LineInvStep, PTL DEF Spec

\* A device has one call at most and polls at its cadence exactly while it has it
\* (supervisor.ts:1261-1280, :1351-1363): what CallCadence takes of the supervisor.
THEOREM OneCallBoostedAlways == Spec => []OneCallBoosted
BY OneActiveCallAlways, PollBoostedAlways, PTL DEF OneCallBoosted

----------------------------------------------------------------------------
(* What becomes of a CallContext: an inductive invariant that ties         *)
(* contexts, the map, continuations and messages together, and what a step *)
(* may do to the contexts under it.                                        *)

----------------------------------------------------------------------------
(* The invariant.                                                          *)

\* A context that was made, as its record and its direction show it, in the map or not.
RecordInv(r, dir) ==
    /\ r.state \in Calling => dir = "outbound"
    /\ r.state \in Ringing \cup {"idle"} => dir = "inbound"
    /\ r.state = "pending-reconnect" => dir = "outbound"
    /\ r.state \in {"connected", "pending-reconnect", "reconnecting"} => r.ever
    /\ dir = "inbound" /\ r.state \in Talking => r.accepted
    /\ r.accepted => r.state \notin Ringing
    /\ "wait" \in r.timers => dir = "inbound"
    /\ r.timers \cap {"call", "restart"} # {} => dir = "outbound"
    /\ r.ended > 0 \/ r.state = "idle" => /\ r.timers = {}
                                          /\ ~r.media
                                          /\ r.state \in {"idle", "disconnected"}

\* What also holds of the context in the map.
HeldInv(r, dir) ==
    /\ r.state # "idle"
    /\ r.state = "connected" \/ r.early => r.media /\ r.ice = "connected"
    /\ r.state \in {"pending-reconnect", "reconnecting"} =>
         (IF dir = "outbound" THEN "restart" ELSE "wait") \in r.timers
    /\ r.state \in Live /\ dir = "outbound" /\ ~r.ever => "call" \in r.timers

\* A device has contexts of a call only as the one that placed it or as one called.
Party(d, u) == /\ call[u].from # None
               /\ d = call[u].from \/ AccountOf[d] = call[u].to

CallsInv ==
    \A u \in Uuid : call[u].from # None =>
        call[u].to \in Account /\ call[u].to # AccountOf[call[u].from]

ContextsInv ==
    \A c \in Context :
        /\ Born(c) => /\ Party(c[1], c[2])
                      /\ RecordInv(ctx[c], DirectionOf(c))
                      /\ InMap(c) => HeldInv(ctx[c], DirectionOf(c))
        /\ ~Born(c) => ctx[c] = NewContext /\ ~InMap(c)

\* A continuation belongs to a context that is past ringing.
JobInv(j, r, dir) ==
    /\ r.state \notin Ringing \cup {"idle"}
    /\ j.do \in {"pre-offer", "offer", "apply-answer"} => dir = "outbound"
    /\ j.do \in {"answer", "sync-answer"} => dir = "inbound" /\ r.accepted
    /\ j.do \in {"end", "sync-end"} => /\ r.state = "disconnected"
                                       /\ j.reason \in {"local-hangup", "remote-declined"}

JobsInv == \A j \in jobs : Born(j.ctx) /\ JobInv(j, ctx[j.ctx], DirectionOf(j.ctx))

\* Some device of the account has answered the call, has left it or was busy.
Answered(a, u) ==
    \E e \in Context : /\ AccountOf[e[1]] = a /\ e[2] = u
                       /\ ctx[e].accepted
Left(a, u) ==
    \E d \in Device : /\ AccountOf[d] = a
                      /\ \/ <<u, "busy">> \in missed[d]
                         \/ \E k \in 1..MaxIncarnations : ctx[<<d, u, k>>].state = "disconnected"

\* Messages go between the two accounts of a call, and mean what they say.
MessageInv(m) ==
    LET caller == AccountOf[call[m.uuid].from]
        callee == call[m.uuid].to
    IN  /\ call[m.uuid].from # None
        /\ m.from \in {caller, callee}
        /\ AccountOf[m.to] \in {caller, callee}
        /\ m.type \in {"PRE_OFFER", "OFFER"} => m.from = caller /\ AccountOf[m.to] = callee
        /\ m.type = "ANSWER" => m.from = callee /\ Answered(m.from, m.uuid)
        /\ m.type = "END_CALL" => Left(m.from, m.uuid)

NetInv == \A m \in net : MessageInv(m)

MissedInv == \A d \in Device : \A w \in missed[d] : call[w[1]].from # None

CallInv == /\ TypeOK /\ OneActiveCall
           /\ CallsInv /\ ContextsInv /\ JobsInv /\ NetInv /\ MissedInv

----------------------------------------------------------------------------
(* What a step may do to a context.                                        *)

\* What a context never takes back.
Advance(r, q) ==
    /\ r.accepted => q.accepted
    /\ r.ever => q.ever
    /\ r.ended <= q.ended
    /\ r.state \notin Ringing \cup {"idle"} => q.state \notin Ringing \cup {"idle"}
    /\ r.state \in {"idle", "disconnected"} => q.state = r.state

Active(r) == r.timers # {} \/ r.media
Alive(c)  == InMap(c) \/ Active(ctx[c]) \/ \E j \in jobs : j.ctx = c

\* A context changes where it is.
Updates(c, r) ==
    /\ Born(c) /\ Alive(c)
    /\ Advance(ctx[c], r)
    /\ RecordInv(r, DirectionOf(c))
    /\ InMap(c) => HeldInv(r, DirectionOf(c))
    /\ Active(r) => InMap(c) \/ Active(ctx[c])
    /\ r.ended = ctx[c].ended /\ r.reason = ctx[c].reason
    /\ ctx' = [ctx EXCEPT ![c] = r]
    /\ UNCHANGED <<call, contexts, made>>

\* A context is torn down, and the map entry of its uuid goes.
Leaves(c, r) ==
    /\ Born(c) /\ Alive(c)
    /\ Advance(ctx[c], r)
    /\ RecordInv(r, DirectionOf(c))
    /\ ~Active(r) /\ r.state \in {"idle", "disconnected"}
    /\ \/ r.ended > 0 /\ (r.ended > ctx[c].ended \/ r.ended = MaxEnds)
       \/ InMap(c) /\ ctx[c].state \in Ringing /\ UNCHANGED jobs
       \/ InMap(c) /\ disposed'[c[1]]
    /\ r.reason = "answered-elsewhere" =>
         \/ ctx[c].reason = "answered-elsewhere"
         \/ ctx[c].state \in Ringing /\ Answered(AccountOf[c[1]], c[2])
    /\ ctx' = [ctx EXCEPT ![c] = r]
    /\ contexts' = [contexts EXCEPT ![c[1]][c[2]] = 0]
    /\ UNCHANGED <<call, made>>

\* A context is made for a call that the device has no context of in the map.
Makes(d, u, r) ==
    /\ made[d][u] < MaxIncarnations
    /\ ~Has(d, u)
    /\ \/ call[u].from # None /\ UNCHANGED call
       \/ /\ call[u].from = None
          /\ \E a \in Account \ {AccountOf[d]} : call' = [call EXCEPT ![u] = [from |-> d, to |-> a]]
    /\ Party(d, u)'
    /\ RecordInv(r, DirectionOf(<<d, u, made[d][u] + 1>>)')
    /\ r.reason # "answered-elsewhere"
    /\ ctx' = [ctx EXCEPT ![<<d, u, made[d][u] + 1>>] = r]
    /\ made' = [made EXCEPT ![d][u] = @ + 1]

Enters(d, u, r) ==
    /\ Makes(d, u, r)
    /\ ~disposed[d]
    /\ ~Busy(d, u)
    /\ HeldInv(r, DirectionOf(<<d, u, made[d][u] + 1>>)')
    /\ r.state # "disconnected" /\ ~r.ever
    /\ contexts' = [contexts EXCEPT ![d][u] = made[d][u] + 1]

\* The media engine has thrown before the new context was in the map.
Misses(d, u, r) == Makes(d, u, r) /\ ~Active(r) /\ r.ended = 1 /\ UNCHANGED contexts

ContextStep ==
    \/ UNCHANGED <<call, contexts, made, ctx>>
    \/ \E c \in Context, r \in CallContext : Updates(c, r) \/ Leaves(c, r)
    \/ \E d \in Device, u \in Uuid, r \in CallContext : Enters(d, u, r) \/ Misses(d, u, r)

----------------------------------------------------------------------------
(* The state machine: where each event is accepted.                        *)

LEMMA Sources ==
    ASSUME NEW s, NEW dir \in Direction
    PROVE  /\ Accepts(s, "user-accept", dir) => s = "remote-ring"
           /\ Accepts(s, "receive-offer", dir) => s \in {"remote-pre-offer", "reconnecting"}
           /\ Accepts(s, "receive-answer", dir) => s \in Calling \cup {"reconnecting"}
           /\ Accepts(s, "user-decline", dir) => s \in Ringing
           /\ Accepts(s, "user-ignore", dir) => s \in Ringing
           /\ Accepts(s, "self-answer", dir) => s \in Ringing
           /\ Accepts(s, "user-hangup", dir) => s \in Calling \cup Talking
           /\ Accepts(s, "receive-end-call", dir) => s # "idle"
           /\ Accepts(s, "self-end-call", dir) => s # "idle"
           /\ Accepts(s, "timeout", dir) <=>
                s \in Calling \cup {"remote-ring", "connecting", "reconnecting"}
  BY DEF Accepts, Transition, Row, Live, Calling, Ringing, Talking, Direction

LEMMA DirectionType == \A c : DirectionOf(c) \in Direction
  BY DEF DirectionOf, Direction

\* What the invariant says of a context that was made, and of the one in the map.
LEMMA BornFacts ==
    ASSUME CallInv, NEW c \in Context, Born(c)
    PROVE  /\ c[1] \in Device /\ c[2] \in Uuid
           /\ ctx[c] \in CallContext
           /\ Party(c[1], c[2])
           /\ RecordInv(ctx[c], DirectionOf(c))
           /\ InMap(c) => HeldInv(ctx[c], DirectionOf(c))
  BY ContextParts DEF CallInv, TypeOK, ContextsInv

LEMMA CurrentFacts ==
    ASSUME CallInv, NEW d \in Device, NEW u \in Uuid, Has(d, u)
    PROVE  /\ Current(d, u) \in Context
           /\ Current(d, u)[1] = d /\ Current(d, u)[2] = u
           /\ InMap(Current(d, u)) /\ Born(Current(d, u))
<1>1. Current(d, u) \in Context
  BY CurrentType DEF CallInv
<1>2. InMap(Current(d, u))
  BY DEF InMap, Current
<1>3. Born(Current(d, u))
  BY <1>1, <1>2 DEF CallInv, ContextsInv
<1> QED
  BY <1>1, <1>2, <1>3 DEF Current

----------------------------------------------------------------------------
(* Contexts that end.                                                      *)

\* endCall of a context that is alive, whose state has been set to one of the final ones.
LEMMA EndLeaves ==
    ASSUME CallInv, NEW c \in Context, Born(c), Alive(c),
           NEW r \in CallContext, NEW why \in Reason, End(c, r, why),
           UNCHANGED <<call, made>>,
           r.accepted = ctx[c].accepted, r.ever = ctx[c].ever, r.ended = ctx[c].ended,
           \/ r.state = ctx[c].state /\ r.state \in {"idle", "disconnected"}
           \/ r.state = "disconnected" /\ ctx[c].state # "idle",
           why = "answered-elsewhere" =>
               ctx[c].state \in Ringing /\ Answered(AccountOf[c[1]], c[2])
    PROVE  ContextStep
<1> DEFINE q == Ended(r, why)
<1>1. q \in CallContext
  BY EndedType
<1>2. /\ q.accepted = r.accepted /\ q.ever = r.ever /\ q.state = r.state
      /\ q.timers = {} /\ q.media = FALSE /\ q.reason = why
      /\ q.ended = IF r.ended < MaxEnds THEN r.ended + 1 ELSE r.ended
  BY DEF Ended, TornDown, CallContext
<1>3. r.ended \in 0..2 /\ MaxEnds = 2
  BY DEF CallContext, MaxEnds
<1>4. q.ended > 0 /\ (q.ended > ctx[c].ended \/ q.ended = MaxEnds) /\ q.ended >= ctx[c].ended
  BY <1>2, <1>3
<1>5. /\ ctx' = [ctx EXCEPT ![c] = q]
      /\ contexts' = [contexts EXCEPT ![c[1]][c[2]] = 0]
  BY DEF End, Forget
<1>6. RecordInv(ctx[c], DirectionOf(c)) /\ ctx[c].ended \in 0..2
  BY BornFacts DEF CallContext, MaxEnds
<1> HIDE DEF q
<1>7. RecordInv(q, DirectionOf(c))
  BY <1>2, <1>6 DEF RecordInv, Calling, Ringing, Talking
<1>8. Advance(ctx[c], q)
  BY <1>2, <1>4, <1>6 DEF Advance, Ringing
<1>9. Leaves(c, q)
  BY <1>2, <1>4, <1>5, <1>7, <1>8 DEF Leaves, Active
<1> QED
  BY <1>1, <1>9 DEF ContextStep

LEMMA FailCallLeaves ==
    ASSUME CallInv, NEW c \in Context, Born(c), Alive(c), FailCall(c, "error"),
           UNCHANGED <<call, made>>
    PROVE  ContextStep
<1>1. CASE ~Has(c[1], c[2])
  BY <1>1 DEF FailCall, ContextStep
<1>2. CASE Has(c[1], c[2])
  <2> DEFINE r == IF ctx[c].state \in {"idle", "disconnected"}
                  THEN ctx[c] ELSE After(c, "receive-end-call")
  <2>1. ctx[c] \in CallContext /\ After(c, "receive-end-call") \in CallContext
    BY AfterType, Targets, BornFacts DEF CallState, CallInv
  <2>2. /\ r.accepted = ctx[c].accepted /\ r.ever = ctx[c].ever /\ r.ended = ctx[c].ended
        /\ \/ r.state = ctx[c].state /\ r.state \in {"idle", "disconnected"}
           \/ r.state = "disconnected" /\ ctx[c].state # "idle"
    BY <2>1, Targets DEF After, CallContext
  <2>3. End(c, r, "error")
    BY <1>2 DEF FailCall
  <2> HIDE DEF r
  <2>4. r \in CallContext
    BY <2>1 DEF r
  <2> QED
    BY <2>2, <2>3, <2>4, EndLeaves DEF Reason
<1> QED
  BY <1>1, <1>2

----------------------------------------------------------------------------
(* User operations.                                                        *)

LEMMA PlaceCallStep ==
    ASSUME CallInv, NEW d \in Device, NEW a \in Account, PlaceCall(d, a)
    PROVE  ContextStep
<1>1. PICK u \in Uuid :
        /\ call[u].from = None
        /\ made[d][u] < MaxIncarnations
        /\ call' = [call EXCEPT ![u] = [from |-> d, to |-> a]]
        /\ LET c == <<d, u, made[d][u] + 1>>
               r == [NewContext EXCEPT !.state = NextState("send-pre-offer"),
                                       !.timers = {"call"}, !.media = TRUE]
           IN  \/ Register(d, u, r)
               \/ /\ made' = [made EXCEPT ![d][u] = @ + 1]
                  /\ ctx' = [ctx EXCEPT ![c] =
                               Ended([r EXCEPT !.state = "disconnected"], "error")]
                  /\ UNCHANGED <<contexts, boosted>>
  BY DEF PlaceCall
<1> DEFINE n == made[d][u] + 1
           c == <<d, u, n>>
           r == [NewContext EXCEPT !.state = NextState("send-pre-offer"),
                                   !.timers = {"call"}, !.media = TRUE]
           e == Ended([r EXCEPT !.state = "disconnected"], "error")
<1>2. ~Has(d, u) /\ ~Busy(d, u) /\ ~disposed[d] /\ a \in Account \ {AccountOf[d]}
  BY DEF PlaceCall, Idle, Busy
<1>3. call'[u] = [from |-> d, to |-> a]
  BY <1>1 DEF CallInv, TypeOK
<1>4. d # None /\ d \in Device
  BY AccountAssumption
<1>5. Party(d, u)' /\ DirectionOf(c)' = "outbound"
  BY <1>3, <1>4 DEF Party, DirectionOf
<1>6. r \in CallContext /\ e \in CallContext
  <2>1. NextState("send-pre-offer") \in CallState
    BY Targets DEF CallState
  <2>2. r \in CallContext
    BY <2>1, FreshContext DEF CallContext
  <2> QED
    BY <2>2, StateType, EndedType DEF CallState, Reason
<1>7. /\ r.state = "local-pre-offer" /\ r.timers = {"call"} /\ r.media = TRUE /\ r.ended = 0
      /\ r.reason = None /\ r.early = FALSE /\ r.ever = FALSE
      /\ e.state = "disconnected" /\ e.timers = {} /\ e.media = FALSE /\ e.ended = 1
      /\ e.reason = "error"
  BY Targets DEF NewContext, Ended, TornDown, MaxEnds
<1> HIDE DEF r, e
<1>8. RecordInv(r, "outbound") /\ RecordInv(e, "outbound") /\ HeldInv(r, "outbound")
  BY <1>7 DEF RecordInv, HeldInv, Calling, Ringing, Talking
<1>9. CASE Register(d, u, r)
  <2>1. Makes(d, u, r)
    BY <1>1, <1>2, <1>5, <1>7, <1>8, <1>9 DEF Makes, Register, None
  <2>2. Enters(d, u, r)
    BY <1>2, <1>5, <1>7, <1>8, <1>9, <2>1 DEF Enters, Register
  <2> QED
    BY <1>6, <2>2 DEF ContextStep
<1>10. CASE /\ made' = [made EXCEPT ![d][u] = @ + 1]
            /\ ctx' = [ctx EXCEPT ![c] = e]
            /\ UNCHANGED <<contexts, boosted>>
  <2>1. Makes(d, u, e)
    BY <1>1, <1>2, <1>5, <1>7, <1>8, <1>10 DEF Makes
  <2>2. Misses(d, u, e)
    BY <1>7, <1>10, <2>1 DEF Misses, Active
  <2> QED
    BY <1>6, <2>2 DEF ContextStep
<1> QED
  BY <1>1, <1>9, <1>10 DEF r, e

\* A state is set by an operation of the user, and nothing else in the record.
AcceptedAfter(c) == [After(c, "user-accept") EXCEPT !.accepted = TRUE]

LEMMA StateUpdates ==
    ASSUME CallInv, NEW d \in Device, NEW u \in Uuid, Has(d, u), NEW event,
           Can(Current(d, u), event), UNCHANGED <<call, made>>,
           \/ event = "user-accept" /\ Set(Current(d, u), AcceptedAfter(Current(d, u)))
           \/ /\ event \in {"user-decline", "user-hangup"}
              /\ Set(Current(d, u), After(Current(d, u), event))
    PROVE  ContextStep
<1> DEFINE c == Current(d, u)
           r == IF event = "user-accept" THEN AcceptedAfter(c) ELSE After(c, event)
<1>1. c \in Context /\ InMap(c) /\ Born(c)
  BY CurrentFacts
<1>2. /\ ctx[c] \in CallContext
      /\ RecordInv(ctx[c], DirectionOf(c)) /\ HeldInv(ctx[c], DirectionOf(c))
  BY <1>1, BornFacts
<1>3. r \in CallContext
  <2>1. event \in {"user-accept", "user-decline", "user-hangup"} /\ NextState(event) \in CallState
    BY Targets DEF CallState
  <2>2. After(c, event) \in CallContext
    BY <1>1, <2>1, AfterType DEF CallInv
  <2>3. CASE event = "user-accept"
    <3>1. AcceptedAfter(c) \in CallContext
      BY <2>2, <2>3 DEF AcceptedAfter, CallContext
    <3> QED
      BY <2>3, <3>1
  <2>4. CASE event # "user-accept"
    BY <2>2, <2>4
  <2> QED
    BY <2>3, <2>4
<1>4. \/ ctx[c].state = "remote-ring" /\ r.state = "connecting" /\ r.accepted
      \/ ctx[c].state \in Live /\ r.state = "disconnected" /\ r.accepted = ctx[c].accepted
  <2>1. CASE event = "user-accept"
    <3>1. Accepts(ctx[c].state, "user-accept", DirectionOf(c))
      BY <2>1 DEF Can
    <3>2. ctx[c].state = "remote-ring"
      BY <1>1, <1>2, <3>1, Sources, DirectionType DEF CallContext
    <3>3. AcceptedAfter(c).state = "connecting" /\ AcceptedAfter(c).accepted
      BY <1>2, Targets DEF AcceptedAfter, After, CallContext
    <3> QED
      BY <2>1, <3>2, <3>3
  <2>2. CASE event # "user-accept"
    <3>1. event \in {"user-decline", "user-hangup"}
      BY <2>2
    <3>2. ctx[c].state \in Live
      BY <1>1, <1>2, <3>1, Sources, DirectionType DEF Can, CallContext, Live
    <3>3. r = After(c, event)
      BY <2>2
    <3>4. r.state = "disconnected" /\ r.accepted = ctx[c].accepted
      BY <1>2, <3>1, <3>3, Targets DEF After, CallContext
    <3> QED
      BY <3>2, <3>4
  <2> QED
    BY <2>1, <2>2
<1>5. /\ r.ever = ctx[c].ever /\ r.ended = ctx[c].ended
      /\ r.timers = ctx[c].timers /\ r.media = ctx[c].media /\ r.reason = ctx[c].reason
      /\ r.early = ctx[c].early /\ r.ice = ctx[c].ice
  BY <1>2 DEF After, AcceptedAfter, CallContext
<1>6. ctx[c].ended \in Nat
  BY <1>2 DEF CallContext
<1> HIDE DEF r
<1>7. RecordInv(r, DirectionOf(c))
  BY <1>2, <1>4, <1>5 DEF RecordInv, Calling, Ringing, Talking, Live
<1>8. HeldInv(r, DirectionOf(c))
  BY <1>2, <1>4, <1>5 DEF HeldInv, RecordInv, Calling, Ringing, Talking, Live
<1>9. Advance(ctx[c], r)
  BY <1>4, <1>5, <1>6 DEF Advance, Calling, Ringing, Talking, Live
<1>10. Updates(c, r)
  BY <1>1, <1>5, <1>7, <1>8, <1>9 DEF Updates, Alive, Set, r
<1> QED
  BY <1>1, <1>3, <1>10 DEF ContextStep

\* teardownContext without an event: the call was ignored, or dispose() drops it.
LEMMA TornLeaves ==
    ASSUME CallInv, NEW c \in Context, Born(c), InMap(c), NEW r \in CallContext,
           ctx' = [ctx EXCEPT ![c] = TornDown(r)], Forget(c[1], c[2]),
           UNCHANGED <<call, made>>,
           r.accepted = ctx[c].accepted, r.ever = ctx[c].ever, r.ended = ctx[c].ended,
           r.reason = ctx[c].reason,
           \/ ctx[c].state \in Ringing /\ r.state = "idle" /\ UNCHANGED jobs
           \/ r.state = ctx[c].state /\ r.state \in {"idle", "disconnected"} /\ disposed'[c[1]]
    PROVE  ContextStep
<1> DEFINE q == TornDown(r)
<1>1. q \in CallContext
  BY TornDownType
<1>2. /\ q.accepted = r.accepted /\ q.ever = r.ever /\ q.state = r.state /\ q.ended = r.ended
      /\ q.timers = {} /\ q.media = FALSE /\ q.reason = r.reason
  BY DEF TornDown, CallContext
<1>3. RecordInv(ctx[c], DirectionOf(c)) /\ ctx[c].ended \in Nat
  BY BornFacts DEF CallContext
<1> HIDE DEF q
<1>4. RecordInv(q, DirectionOf(c))
  BY <1>2, <1>3 DEF RecordInv, Calling, Ringing, Talking
<1>5. Advance(ctx[c], q)
  BY <1>2, <1>3 DEF Advance, Ringing
<1>6. Leaves(c, q)
  BY <1>2, <1>4, <1>5 DEF Leaves, Active, Alive, Forget, q
<1> QED
  BY <1>1, <1>6 DEF ContextStep

LEMMA UserStep ==
    ASSUME CallInv, NEW d \in Device, User(d)
    PROVE  ContextStep
<1>1. ASSUME NEW a \in Account, MarkApproved(d, a)
      PROVE  ContextStep
  BY <1>1 DEF MarkApproved, ContextStep
<1>2. ASSUME NEW u \in Uuid, Accept(d, u) \/ Reject(d, u) \/ Hangup(d, u)
      PROVE  ContextStep
  BY <1>2, StateUpdates DEF Accept, Reject, Hangup, AcceptedAfter
<1>3. ASSUME NEW u \in Uuid, Ignore(d, u)
      PROVE  ContextStep
  <2> DEFINE c == Current(d, u)
             r == After(c, "user-ignore")
  <2>1. c \in Context /\ c[1] = d /\ c[2] = u /\ InMap(c) /\ Born(c)
    BY <1>3, CurrentFacts DEF Ignore
  <2>2. ctx[c] \in CallContext /\ r \in CallContext
    BY <2>1, AfterType, BornFacts, Targets DEF CallState, CallInv
  <2>3. ctx[c].state \in Ringing
    BY <1>3, Sources, DirectionType DEF Ignore, Can
  <2>4. /\ r.accepted = ctx[c].accepted /\ r.ever = ctx[c].ever /\ r.ended = ctx[c].ended
        /\ r.reason = ctx[c].reason /\ r.state = "idle"
    BY <2>2, Targets DEF After, CallContext
  <2>5. /\ ctx' = [ctx EXCEPT ![c] = TornDown(r)]
        /\ Forget(c[1], c[2]) /\ UNCHANGED <<call, made, jobs>>
    BY <1>3, <2>1 DEF Ignore
  <2> HIDE DEF r, c
  <2> QED
    BY <2>1, <2>2, <2>3, <2>4, <2>5, TornLeaves
<1>4. ASSUME NEW u \in Uuid, ConsumerThrows(d, u)
      PROVE  ContextStep
  BY <1>4, CurrentFacts, FailCallLeaves DEF ConsumerThrows, Alive
<1>5. CASE Dispose(d)
  <2>1. UNCHANGED <<call, made>> /\ disposed'[d]
    BY <1>5 DEF Dispose, CallInv, TypeOK
  <2>2. CASE UNCHANGED <<net, contexts, ctx, jobs, boosted>>
    BY <2>1, <2>2 DEF ContextStep
  <2>3. ASSUME NEW u \in Uuid, NEW event \in {"user-decline", "user-hangup"}, Has(d, u),
               Can(Current(d, u), event), Set(Current(d, u), After(Current(d, u), event))
        PROVE  ContextStep
    BY <2>1, <2>3, StateUpdates
  <2>4. ASSUME NEW u \in Uuid, Has(d, u), Forget(d, u),
               ctx[Current(d, u)].state \in {"idle", "disconnected"},
               ctx' = [ctx EXCEPT ![Current(d, u)] = TornDown(@)]
        PROVE  ContextStep
    <3> DEFINE c == Current(d, u)
    <3>1. c \in Context /\ c[1] = d /\ c[2] = u /\ InMap(c) /\ Born(c)
      BY <2>4, CurrentFacts
    <3>2. ctx[c] \in CallContext /\ ctx' = [ctx EXCEPT ![c] = TornDown(ctx[c])]
      BY <2>4, <3>1, BornFacts
    <3>3. ctx[c].state \in {"idle", "disconnected"} /\ Forget(c[1], c[2]) /\ disposed'[c[1]]
      BY <2>1, <2>4, <3>1
    <3> HIDE DEF c
    <3> QED
      BY <2>1, <3>1, <3>2, <3>3, TornLeaves
  <2> QED
    BY <1>5, <2>2, <2>3, <2>4 DEF Dispose
<1> QED
  BY <1>1, <1>2, <1>3, <1>4, <1>5, PlaceCallStep DEF User

----------------------------------------------------------------------------
(* Messages.                                                               *)

\* Where a message is handled, and whose context it meets there.
LEMMA MessageFacts ==
    ASSUME CallInv, NEW d \in Device, NEW m \in net, m.to = d
    PROVE  /\ m.uuid \in Uuid
           /\ MessageInv(m)
           /\ call[m.uuid].to # AccountOf[call[m.uuid].from]
           /\ AccountOf[d] = call[m.uuid].to => call[m.uuid].from # d
           /\ Has(d, m.uuid) /\ AccountOf[d] # call[m.uuid].to =>
                DirectionOf(Current(d, m.uuid)) = "outbound"
<1>1. m.uuid \in Uuid /\ MessageInv(m)
  BY MessageParts DEF CallInv, NetInv
<1>2. call[m.uuid].to # AccountOf[call[m.uuid].from]
  BY <1>1 DEF CallInv, CallsInv, MessageInv
<1>3. ASSUME Has(d, m.uuid), AccountOf[d] # call[m.uuid].to
      PROVE  DirectionOf(Current(d, m.uuid)) = "outbound"
  BY <1>1, <1>3, CurrentFacts, BornFacts DEF Party, DirectionOf
<1> QED
  BY <1>1, <1>2, <1>3

\* A context made by a PRE_OFFER or an OFFER rings at a device that was called.
LEMMA RingingEnters ==
    ASSUME CallInv, NEW d \in Device, NEW m \in net, m.to = d,
           m.type \in {"PRE_OFFER", "OFFER"}, ~disposed[d], ~Busy(d, m.uuid), ~Has(d, m.uuid),
           NEW r \in CallContext, Register(d, m.uuid, r), UNCHANGED call,
           r.state \in Ringing, r.timers = {}, r.ended = 0, r.reason = None,
           ~r.early, ~r.ever, ~r.accepted
    PROVE  ContextStep
<1> DEFINE u == m.uuid
           c == <<d, u, made[d][u] + 1>>
<1>1. u \in Uuid /\ MessageInv(m) /\ call[u].from # d
  BY MessageFacts DEF MessageInv
<1>2. call[u].from # None /\ AccountOf[d] = call[u].to
  BY <1>1 DEF MessageInv
<1>3. Party(d, u)' /\ DirectionOf(c)' = "inbound"
  BY <1>1, <1>2 DEF Party, DirectionOf
<1>4. RecordInv(r, "inbound") /\ HeldInv(r, "inbound")
  BY DEF RecordInv, HeldInv, Calling, Ringing, Talking, Live
<1>5. Makes(d, u, r)
  BY <1>2, <1>3, <1>4 DEF Makes, Register, None
<1>6. Enters(d, u, r)
  BY <1>3, <1>4, <1>5 DEF Enters, Register, Ringing
<1> QED
  BY <1>1, <1>6 DEF ContextStep

LEMMA FirstStep ==
    ASSUME CallInv, NEW d \in Device, NEW m \in net, OnPreOffer(d, m) \/ OnFirstOffer(d, m)
    PROVE  ContextStep
<1> DEFINE rung == [NewContext EXCEPT !.state = NextState("receive-pre-offer")]
           offered(b) == [NewContext EXCEPT !.state = NextState("receive-offer"),
                                            !.offer = TRUE, !.media = b]
<1>1. /\ NewContext \in CallContext
      /\ NextState("receive-pre-offer") \in CallState /\ NextState("receive-offer") \in CallState
  BY FreshContext, Targets DEF CallState
<1>2. /\ rung \in CallContext
      /\ \A b \in BOOLEAN : offered(b) \in CallContext
  BY <1>1 DEF CallContext
<1>3. /\ rung.state \in Ringing /\ rung.timers = {} /\ rung.ended = 0 /\ rung.reason = None
      /\ ~rung.early /\ ~rung.ever /\ ~rung.accepted
      /\ \A b \in BOOLEAN :
           LET r == offered(b)
           IN  /\ r.state \in Ringing /\ r.timers = {} /\ r.ended = 0 /\ r.reason = None
               /\ ~r.early /\ ~r.ever /\ ~r.accepted
  BY Targets DEF NewContext, Ringing
<1>4. m.to = d /\ ~disposed[d] /\ ~Busy(d, m.uuid) /\ UNCHANGED call
  BY DEF OnPreOffer, OnFirstOffer, Dispatched, Admitted, Inbound, Fetched
<1> HIDE DEF rung, offered
<1>5. CASE OnPreOffer(d, m)
  <2>1. CASE Has(d, m.uuid)
    BY <1>5, <2>1 DEF OnPreOffer, ContextStep
  <2>2. CASE ~Has(d, m.uuid)
    <3>1. Register(d, m.uuid, rung) /\ m.type = "PRE_OFFER"
      BY <1>5, <2>2 DEF OnPreOffer, Dispatched, rung
    <3> QED
      BY <1>2, <1>3, <1>4, <2>2, <3>1, RingingEnters
  <2> QED
    BY <2>1, <2>2
<1>6. CASE OnFirstOffer(d, m)
  <2>1. PICK b \in EngineResult : Register(d, m.uuid, offered(b))
    BY <1>6 DEF OnFirstOffer, offered
  <2>2. b \in BOOLEAN /\ m.type = "OFFER" /\ ~Has(d, m.uuid)
    BY <1>6, <2>1 DEF OnFirstOffer, Dispatched, EngineResult
  <2> QED
    BY <1>2, <1>3, <1>4, <2>1, <2>2, RingingEnters
<1> QED
  BY <1>5, <1>6

\* Messages that end a call, or change no context.
LEMMA EndingStep ==
    ASSUME CallInv, NEW d \in Device, NEW m \in net,
           \/ Discard(d, m) \/ DropStale(d, m) \/ AnswerBusy(d, m)
           \/ HandleSelfMessage(d, m) \/ OnEndCall(d, m) \/ OnHangupHint(d, m)
    PROVE  ContextStep
<1>1. CASE Discard(d, m) \/ DropStale(d, m) \/ AnswerBusy(d, m)
  BY <1>1 DEF Discard, DropStale, AnswerBusy, ContextStep
<1>2. m.to = d
  BY DEF Discard, DropStale, AnswerBusy, HandleSelfMessage, OnEndCall, OnHangupHint,
         Admitted, Inbound, Fetched, Dispatched
<1>3. m.uuid \in Uuid /\ MessageInv(m)
  BY <1>2, MessageFacts
<1>4. ASSUME NEW c \in Context, Born(c), Alive(c),
             NEW event \in {"self-answer", "self-end-call", "receive-end-call"},
             NEW why \in Reason, End(c, After(c, event), why), ctx[c].state # "idle",
             UNCHANGED <<call, made>>,
             why = "answered-elsewhere" =>
                 ctx[c].state \in Ringing /\ Answered(AccountOf[c[1]], c[2])
      PROVE  ContextStep
  <2> DEFINE r == After(c, event)
  <2>1. r \in CallContext /\ ctx[c] \in CallContext
    BY <1>4, AfterType, BornFacts, Targets DEF CallState, CallInv
  <2>2. /\ r.accepted = ctx[c].accepted /\ r.ever = ctx[c].ever /\ r.ended = ctx[c].ended
        /\ r.state = "disconnected"
    BY <2>1, Targets DEF After, CallContext
  <2> HIDE DEF r
  <2>3. End(c, r, why)
    BY <1>4 DEF r
  <2> QED
    BY <1>4, <2>1, <2>2, <2>3, EndLeaves
<1>5. CASE HandleSelfMessage(d, m)
  <2> DEFINE c == Current(d, m.uuid)
             stop == Elsewhere(m.type)
  <2>1. CASE ~(Has(d, m.uuid) /\ Can(c, stop.event))
    BY <1>5, <2>1 DEF HandleSelfMessage, ContextStep
  <2>2. CASE Has(d, m.uuid) /\ Can(c, stop.event)
    <3>1. c \in Context /\ c[1] = d /\ c[2] = m.uuid /\ Born(c) /\ Alive(c)
      BY <1>3, <2>2, CurrentFacts DEF Alive
    <3>2. /\ stop.event \in {"self-answer", "self-end-call"} /\ stop.reason \in Reason
          /\ stop.reason = "answered-elsewhere" <=> m.type = "ANSWER"
          /\ m.type = "ANSWER" => stop.event = "self-answer"
      BY <1>5 DEF Elsewhere, Reason, HandleSelfMessage
    <3>3. ctx[c].state # "idle" /\ (m.type = "ANSWER" => ctx[c].state \in Ringing)
      BY <2>2, <3>2, Sources, DirectionType DEF Can, Ringing
    <3>4. m.type = "ANSWER" => Answered(AccountOf[d], m.uuid)
      BY <1>3, <1>5 DEF MessageInv, HandleSelfMessage
    <3>5. End(c, After(c, stop.event), stop.reason) /\ UNCHANGED <<call, made>>
      BY <1>5, <2>2 DEF HandleSelfMessage
    <3> HIDE DEF c, stop
    <3> QED
      BY <1>4, <3>1, <3>2, <3>3, <3>4, <3>5
  <2> QED
    BY <2>1, <2>2
<1>6. CASE OnEndCall(d, m)
  <2> DEFINE c == Current(d, m.uuid)
  <2>1. CASE ~(Has(d, m.uuid) /\ Can(c, "receive-end-call"))
    BY <1>6, <2>1 DEF OnEndCall, ContextStep
  <2>2. CASE Has(d, m.uuid) /\ Can(c, "receive-end-call")
    <3>1. c \in Context /\ Born(c) /\ Alive(c)
      BY <1>3, <2>2, CurrentFacts DEF Alive
    <3>2. ctx[c].state # "idle"
      BY <2>2, Sources, DirectionType DEF Can
    <3>3. /\ \E why \in Reason \ {"answered-elsewhere"} : End(c, After(c, "receive-end-call"), why)
          /\ UNCHANGED <<call, made>>
      BY <1>6, <2>2 DEF OnEndCall, Reason
    <3> HIDE DEF c
    <3> QED
      BY <1>4, <3>1, <3>2, <3>3
  <2> QED
    BY <2>1, <2>2
<1>7. CASE OnHangupHint(d, m)
  <2>1. CASE UNCHANGED <<ctx, contexts, boosted>>
    BY <1>7, <2>1 DEF OnHangupHint, ContextStep
  <2>2. ASSUME NEW c \in HintTargets(d, m.uuid), ctx[c].state \notin {"disconnected", "idle"},
               End(c, After(c, "receive-end-call"), "remote-hangup")
        PROVE  ContextStep
    <3>1. c \in Context /\ ctx[c].media
      BY DEF HintTargets
    <3>2. Born(c)
      BY <3>1 DEF CallInv, ContextsInv, NewContext
    <3> QED
      BY <1>4, <1>7, <2>2, <3>1, <3>2 DEF Alive, Active, Reason, OnHangupHint
  <2> QED
    BY <1>7, <2>1, <2>2 DEF OnHangupHint
<1> QED
  BY <1>1, <1>5, <1>6, <1>7

\* An OFFER finds its context ringing or, as a restart, talking, at a device that was called.
LEMMA OnOfferStep ==
    ASSUME CallInv, NEW d \in Device, NEW m \in net, OnOffer(d, m)
    PROVE  ContextStep
<1> DEFINE c == Current(d, m.uuid)
           dir == DirectionOf(c)
           restart == DirectionOf(c) = "inbound"
                        /\ ctx[c].state \in {"pending-reconnect", "reconnecting"}
<1>1. m.uuid \in Uuid /\ m.to = d /\ Has(d, m.uuid) /\ UNCHANGED <<call, made>>
  BY MessageParts DEF OnOffer, Dispatched, Admitted, Inbound, Fetched, CallInv
<1>2. c \in Context /\ InMap(c) /\ Born(c)
  BY <1>1, CurrentFacts
<1>3. ctx[c] \in CallContext /\ RecordInv(ctx[c], dir) /\ HeldInv(ctx[c], dir)
  BY <1>2, BornFacts
<1>4. dir = "inbound"
  <2>1. AccountOf[d] = call[m.uuid].to /\ call[m.uuid].from # d
    BY <1>1, MessageFacts DEF MessageInv, OnOffer, Dispatched
  <2> QED
    BY <1>1, <2>1, CurrentFacts DEF DirectionOf
<1>5. CASE UNCHANGED <<ctx, contexts, boosted, jobs>>
  BY <1>1, <1>5 DEF ContextStep
<1>6. CASE restart /\ AnswerRestart(c)
  <2> DEFINE r == [ctx[c] EXCEPT !.state = NextState("receive-offer-restart"),
                                 !.timers = @ \ {"wait"}]
             e == [r EXCEPT !.state = "disconnected"]
  <2>1. r \in CallContext /\ e \in CallContext
    <3>1. NextState("receive-offer-restart") \in CallState
      BY Targets DEF CallState
    <3>2. r \in CallContext
      BY <1>3, <3>1 DEF CallContext
    <3> QED
      BY <3>2, StateType DEF CallState
  <2>2. /\ r.state = "connecting" /\ r.timers = ctx[c].timers \ {"wait"}
        /\ r.accepted = ctx[c].accepted /\ r.ever = ctx[c].ever /\ r.ended = ctx[c].ended
        /\ r.media = ctx[c].media /\ r.reason = ctx[c].reason
        /\ r.early = ctx[c].early /\ r.ice = ctx[c].ice
        /\ e.state = "disconnected" /\ e.accepted = ctx[c].accepted /\ e.ever = ctx[c].ever
        /\ e.ended = ctx[c].ended
    BY <1>3, Targets DEF CallContext
  <2>3. CASE Set(c, r)
    <3> HIDE DEF r, e
    <3>1. ctx[c].ended \in Nat
      BY <1>3 DEF CallContext
    <3>2. RecordInv(r, dir) /\ HeldInv(r, dir)
      BY <1>3, <1>4, <1>6, <2>2 DEF RecordInv, HeldInv, Calling, Ringing, Talking
    <3>3. Advance(ctx[c], r)
      BY <1>6, <2>2, <3>1 DEF Advance, Ringing
    <3>4. Updates(c, r)
      BY <1>1, <1>2, <2>2, <2>3, <3>2, <3>3 DEF Updates, Alive, Set
    <3> QED
      BY <1>2, <2>1, <3>4 DEF ContextStep
  <2>4. CASE End(c, e, "error")
    <3> HIDE DEF r, e
    <3>1. ctx[c].state # "idle"
      BY <1>6
    <3> QED
      BY <1>1, <1>2, <2>1, <2>2, <2>4, <3>1, EndLeaves DEF Alive, Reason
  <2> QED
    BY <1>6, <2>3, <2>4 DEF AnswerRestart
<1>7. CASE ~restart /\ Can(c, "receive-offer")
  <2> DEFINE r(b) == [After(c, "receive-offer") EXCEPT !.offer = TRUE, !.media = @ \/ b]
  <2>1. PICK b \in EngineResult : Set(c, r(b))
    BY <1>7 DEF OnOffer
  <2>2. After(c, "receive-offer") \in CallContext
    BY <1>2, AfterType, Targets DEF CallState, CallInv
  <2>3. r(b) \in CallContext
    BY <2>1, <2>2 DEF CallContext, EngineResult
  <2>4. ctx[c].state = "remote-pre-offer"
    BY <1>4, <1>7, Sources, DirectionType DEF Can
  <2>5. /\ r(b).state = "remote-ring" /\ r(b).timers = ctx[c].timers /\ r(b).accepted = ctx[c].accepted
        /\ r(b).ever = ctx[c].ever /\ r(b).ended = ctx[c].ended /\ r(b).reason = ctx[c].reason
        /\ r(b).early = ctx[c].early /\ r(b).ice = ctx[c].ice
        /\ (ctx[c].media => r(b).media)
    BY <1>3, <2>1, <2>2, Targets DEF After, CallContext, EngineResult
  <2>6. ctx[c].ended \in Nat
    BY <1>3 DEF CallContext
  <2> DEFINE q == r(b)
  <2> HIDE DEF r
  <2>7. RecordInv(q, dir) /\ HeldInv(q, dir)
    BY <1>3, <1>4, <2>4, <2>5 DEF RecordInv, HeldInv, Calling, Ringing, Talking, Live
  <2>8. Advance(ctx[c], q)
    BY <2>4, <2>5, <2>6 DEF Advance, Ringing
  <2>9. Updates(c, q)
    BY <1>1, <1>2, <2>1, <2>5, <2>7, <2>8 DEF Updates, Alive, Set
  <2> QED
    BY <1>2, <2>3, <2>9 DEF ContextStep
<1> QED
  BY <1>5, <1>6, <1>7 DEF OnOffer

LEMMA OnAnswerStep ==
    ASSUME CallInv, NEW d \in Device, NEW m \in net, OnAnswer(d, m)
    PROVE  ContextStep
<1> DEFINE c == Current(d, m.uuid)
           dir == DirectionOf(c)
<1>1. m.uuid \in Uuid /\ m.to = d /\ m.type = "ANSWER" /\ m.from # AccountOf[d]
      /\ UNCHANGED <<call, made>>
  BY MessageParts DEF OnAnswer, Dispatched, Admitted, Inbound, Fetched, CallInv
<1>2. CASE ~(Has(d, m.uuid) /\ Can(c, "receive-answer"))
  BY <1>1, <1>2 DEF OnAnswer, ContextStep
<1>3. CASE Has(d, m.uuid) /\ Can(c, "receive-answer")
  <2>1. c \in Context /\ InMap(c) /\ Born(c)
    BY <1>1, <1>3, CurrentFacts
  <2>2. ctx[c] \in CallContext /\ RecordInv(ctx[c], dir) /\ HeldInv(ctx[c], dir)
    BY <2>1, BornFacts
  <2>3. dir = "outbound"
    BY <1>1, <1>3, MessageFacts DEF MessageInv
  <2>4. ctx[c].state \in Calling \cup {"reconnecting"}
    BY <1>3, Sources, DirectionType DEF Can
  <2>5. CASE Set(c, After(c, "receive-answer"))
    <3> DEFINE r == After(c, "receive-answer")
    <3>1. r \in CallContext
      BY <2>1, AfterType, Targets DEF CallState, CallInv
    <3>2. /\ r.state = "connecting" /\ r.accepted = ctx[c].accepted /\ r.ever = ctx[c].ever
          /\ r.ended = ctx[c].ended /\ r.timers = ctx[c].timers /\ r.media = ctx[c].media
          /\ r.reason = ctx[c].reason /\ r.early = ctx[c].early /\ r.ice = ctx[c].ice
          /\ ctx[c].ended \in Nat
      BY <2>2, Targets DEF After, CallContext
    <3> HIDE DEF r
    <3>3. RecordInv(r, dir) /\ HeldInv(r, dir)
      BY <2>2, <2>3, <2>4, <3>2 DEF RecordInv, HeldInv, Calling, Ringing, Talking, Live
    <3>4. Advance(ctx[c], r)
      BY <2>4, <3>2 DEF Advance, Calling, Ringing
    <3>5. Updates(c, r)
      BY <1>1, <2>1, <2>5, <3>2, <3>3, <3>4 DEF Updates, Alive, Set, r
    <3> QED
      BY <2>1, <3>1, <3>5 DEF ContextStep
  <2>6. CASE End(c, [ctx[c] EXCEPT !.state = "disconnected"], "error")
    <3> DEFINE e == [ctx[c] EXCEPT !.state = "disconnected"]
    <3>1. e \in CallContext
      BY <2>2, StateType DEF CallState
    <3>2. /\ e.state = "disconnected" /\ e.accepted = ctx[c].accepted /\ e.ever = ctx[c].ever
          /\ e.ended = ctx[c].ended /\ ctx[c].state # "idle"
      BY <2>2, <2>4 DEF CallContext, Calling
    <3> HIDE DEF e
    <3> QED
      BY <1>1, <2>1, <2>6, <3>1, <3>2, EndLeaves DEF Alive, Reason, e
  <2> QED
    BY <1>3, <2>5, <2>6 DEF OnAnswer
<1> QED
  BY <1>2, <1>3

LEMMA ReceiveStep ==
    ASSUME CallInv, NEW d \in Device, NEW m \in net, Receive(d, m)
    PROVE  ContextStep
  BY EndingStep, FirstStep, OnOfferStep, OnAnswerStep DEF Receive

----------------------------------------------------------------------------
(* Continuations, media and timers.                                        *)

LEMMA JobFacts ==
    ASSUME CallInv, NEW j \in jobs
    PROVE  /\ j \in Job /\ j.ctx \in Context
           /\ Born(j.ctx) /\ Alive(j.ctx)
           /\ JobInv(j, ctx[j.ctx], DirectionOf(j.ctx))
  BY DEF CallInv, TypeOK, Job, JobsInv, Alive

\* A connection that comes late connects a call that still waits for it.
LEMMA EarlyUpdates ==
    ASSUME CallInv, NEW c \in Context, Born(c), Alive(c), UNCHANGED <<call, made>>,
           Set(c, MaybeApplyEarlyConnected(ctx[c]))
    PROVE  ContextStep
<1> DEFINE r == MaybeApplyEarlyConnected(ctx[c])
           dir == DirectionOf(c)
<1>1. /\ ctx[c] \in CallContext /\ r \in CallContext
      /\ RecordInv(ctx[c], dir) /\ (InMap(c) => HeldInv(ctx[c], dir))
  BY BornFacts, EarlyConnectedType
<1>2. ctx[c].ended \in Nat
  BY <1>1 DEF CallContext
<1>3. CASE r = ctx[c]
  <2>1. Advance(ctx[c], r)
    BY <1>2, <1>3 DEF Advance
  <2>2. Updates(c, r)
    BY <1>1, <1>3, <2>1 DEF Updates, Set
  <2> QED
    BY <1>1, <2>2 DEF ContextStep
<1>4. CASE /\ ctx[c].early /\ ctx[c].state \in {"connecting", "reconnecting"}
           /\ r = MarkConnected(ctx[c])
  <2>1. /\ r.state = "connected" /\ r.ever = TRUE /\ r.early = FALSE /\ r.timers = {}
        /\ r.accepted = ctx[c].accepted /\ r.ended = ctx[c].ended /\ r.media = ctx[c].media
        /\ r.ice = ctx[c].ice /\ r.reason = ctx[c].reason
    BY <1>1, <1>4, Targets DEF MarkConnected, CallContext
  <2>2. RecordInv(r, dir) /\ (InMap(c) => HeldInv(r, dir))
    BY <1>1, <1>4, <2>1 DEF RecordInv, HeldInv, Calling, Ringing, Talking
  <2>3. Advance(ctx[c], r)
    BY <1>2, <1>4, <2>1 DEF Advance, Ringing
  <2>4. Updates(c, r)
    BY <2>1, <2>2, <2>3 DEF Updates, Set, Active
  <2> QED
    BY <1>1, <2>4 DEF ContextStep
<1> QED
  BY <1>3, <1>4 DEF MaybeApplyEarlyConnected

LEMMA ContinueStep ==
    ASSUME CallInv, NEW c \in Context, Continue(c)
    PROVE  ContextStep
<1>1. PICK j \in jobs : j.ctx = c /\ (Store(j) \/ Resolve(j) \/ RejectPromise(j))
  BY DEF Continue
<1>2. j \in Job /\ Born(c) /\ Alive(c) /\ JobInv(j, ctx[c], DirectionOf(c))
  BY <1>1, JobFacts
<1>3. CASE UNCHANGED <<call, contexts, made, ctx>>
  BY <1>3 DEF ContextStep
<1>4. CASE End(c, ctx[c], j.reason) /\ j.do \in {"end", "sync-end"} /\ UNCHANGED <<call, made>>
  <2>1. /\ ctx[c] \in CallContext /\ ctx[c].state = "disconnected"
        /\ j.reason \in Reason \ {"answered-elsewhere"}
    BY <1>2, <1>4, BornFacts DEF JobInv, Reason
  <2> QED
    BY <1>2, <1>4, <2>1, EndLeaves
<1>5. CASE Set(c, MaybeApplyEarlyConnected(ctx[c])) /\ UNCHANGED <<call, made>>
  BY <1>2, <1>5, EarlyUpdates
<1>6. CASE FailCall(c, "error") /\ UNCHANGED <<call, made>>
  BY <1>2, <1>6, FailCallLeaves
<1>7. CASE Store(j)
  BY <1>3, <1>7 DEF Store
<1>8. CASE Resolve(j)
  BY <1>1, <1>3, <1>4, <1>5, <1>8 DEF Resolve
<1>9. CASE RejectPromise(j)
  BY <1>1, <1>3, <1>4, <1>6, <1>9 DEF RejectPromise
<1> QED
  BY <1>1, <1>7, <1>8, <1>9

\* What happens to a context that has a media session or a timer.
LEMMA ActiveFacts ==
    ASSUME CallInv, NEW c \in Context, Active(ctx[c])
    PROVE  /\ Born(c) /\ Alive(c)
           /\ ctx[c] \in CallContext
           /\ ctx[c].state # "idle" /\ ctx[c].ended = 0
           /\ RecordInv(ctx[c], DirectionOf(c))
           /\ InMap(c) => HeldInv(ctx[c], DirectionOf(c))
           /\ InMap(c) => Has(c[1], c[2])
<1>1. Born(c)
  BY DEF CallInv, ContextsInv, NewContext, Active
<1>2. /\ ctx[c] \in CallContext /\ RecordInv(ctx[c], DirectionOf(c))
      /\ (InMap(c) => HeldInv(ctx[c], DirectionOf(c)))
  BY <1>1, BornFacts
<1>3. ctx[c].state # "idle" /\ ctx[c].ended = 0
  BY <1>2 DEF RecordInv, Active, CallContext
<1>4. InMap(c) => Has(c[1], c[2])
  BY ContextParts DEF InMap, Has
<1> QED
  BY <1>1, <1>2, <1>3, <1>4 DEF Alive

LEMMA MediaStep ==
    ASSUME CallInv, NEW c \in Context, Media(c)
    PROVE  ContextStep
<1> DEFINE dir == DirectionOf(c)
<1>1. Active(ctx[c]) /\ UNCHANGED <<call, made>>
  BY DEF Media, MediaConnected, MediaDisconnected, MediaFailed, Active
<1>2. /\ Born(c) /\ Alive(c) /\ ctx[c] \in CallContext
      /\ ctx[c].state # "idle" /\ ctx[c].ended \in Nat
      /\ RecordInv(ctx[c], dir) /\ (InMap(c) => HeldInv(ctx[c], dir))
  BY <1>1, ActiveFacts
<1>3. ASSUME NEW r \in CallContext, Set(c, r), RecordInv(r, dir),
             InMap(c) => HeldInv(r, dir), r.accepted = ctx[c].accepted,
             ctx[c].ever => r.ever,
             r.ended = ctx[c].ended, r.reason = ctx[c].reason,
             \/ r.state = ctx[c].state
             \/ ctx[c].state \in Talking /\ r.state \in Talking
      PROVE  ContextStep
  <2>1. Advance(ctx[c], r)
    BY <1>2, <1>3 DEF Advance, Ringing, Talking
  <2>2. Updates(c, r)
    BY <1>1, <1>2, <1>3, <2>1 DEF Updates, Set
  <2> QED
    BY <2>2 DEF ContextStep
<1>4. CASE MediaConnected(c)
  <2> DEFINE r == [ctx[c] EXCEPT !.ice = "connected"]
             late == [r EXCEPT !.early = TRUE]
             up == MarkConnected(r)
  <2>1. r \in CallContext /\ late \in CallContext
    BY <1>2 DEF CallContext
  <2>2. up \in CallContext
    BY <2>1, MarkConnectedType
  <2>3. /\ r.state = ctx[c].state /\ r.ever = ctx[c].ever /\ r.early = ctx[c].early
        /\ r.timers = ctx[c].timers /\ r.accepted = ctx[c].accepted /\ r.ended = ctx[c].ended
        /\ r.media = ctx[c].media /\ r.ice = "connected" /\ r.reason = ctx[c].reason
    BY <1>2 DEF CallContext
  <2>4. /\ late.state = r.state /\ late.ever = r.ever /\ late.early = TRUE
        /\ late.timers = r.timers /\ late.accepted = r.accepted /\ late.ended = r.ended
        /\ late.media = r.media /\ late.ice = r.ice /\ late.reason = r.reason
    BY <2>1 DEF CallContext
  <2>5. /\ up.state = "connected" /\ up.ever = TRUE /\ up.early = FALSE
        /\ up.timers = {} /\ up.accepted = r.accepted /\ up.ended = r.ended
        /\ up.media = r.media /\ up.ice = r.ice /\ up.reason = r.reason
    BY <2>1, Targets DEF MarkConnected, CallContext
  <2>6. /\ ctx[c].media
        /\ \/ Set(c, up) /\ r.state \in {"connecting", "reconnecting"}
           \/ Set(c, r) /\ r.state = "connected"
           \/ Set(c, late) /\ r.state \notin {"connected", "reconnecting"}
    BY <1>4 DEF MediaConnected
  <2> HIDE DEF r, late, up
  <2>7. CASE Set(c, up) /\ r.state \in {"connecting", "reconnecting"}
    <3>1. RecordInv(up, dir) /\ (InMap(c) => HeldInv(up, dir))
      BY <1>2, <2>3, <2>5, <2>6, <2>7 DEF RecordInv, HeldInv, Calling, Ringing, Talking, Live
    <3> QED
      BY <1>3, <2>2, <2>3, <2>5, <2>7, <3>1 DEF Talking
  <2>8. CASE Set(c, r) /\ r.state = "connected"
    <3>1. RecordInv(r, dir) /\ (InMap(c) => HeldInv(r, dir))
      BY <1>2, <2>3, <2>6, <2>8 DEF RecordInv, HeldInv, Calling, Ringing, Talking, Live
    <3> QED
      BY <1>3, <2>1, <2>3, <2>8, <3>1
  <2>9. CASE Set(c, late) /\ r.state \notin {"connected", "reconnecting"}
    <3>1. RecordInv(late, dir) /\ (InMap(c) => HeldInv(late, dir))
      BY <1>2, <2>3, <2>4, <2>6, <2>9 DEF RecordInv, HeldInv, Calling, Ringing, Talking, Live
    <3> QED
      BY <1>3, <2>1, <2>3, <2>4, <2>9, <3>1
  <2> QED
    BY <2>6, <2>7, <2>8, <2>9
<1>5. CASE MediaDisconnected(c)
  <2> DEFINE r == [ctx[c] EXCEPT !.ice = "disconnected", !.early = FALSE]
             initiator == [r EXCEPT !.state = NextState("ice-disconnected"),
                                    !.timers = @ \cup {"restart"}]
             other == [r EXCEPT !.state = NextState("network-reconnect"),
                                !.timers = @ \cup {"wait"}]
  <2>1. r \in CallContext
    BY <1>2 DEF CallContext
  <2>2. NextState("ice-disconnected") \in CallState /\ NextState("network-reconnect") \in CallState
    BY Targets DEF CallState
  <2>3. initiator \in CallContext /\ other \in CallContext
    BY <2>1, <2>2 DEF CallContext
  <2>4. /\ r.state = ctx[c].state /\ r.ever = ctx[c].ever /\ r.early = FALSE
        /\ r.timers = ctx[c].timers /\ r.accepted = ctx[c].accepted /\ r.ended = ctx[c].ended
        /\ r.media = ctx[c].media /\ r.reason = ctx[c].reason
    BY <1>2 DEF CallContext
  <2>5. /\ initiator.state = "pending-reconnect" /\ initiator.ever = r.ever
        /\ initiator.early = FALSE /\ initiator.timers = r.timers \cup {"restart"}
        /\ initiator.accepted = r.accepted /\ initiator.ended = r.ended
        /\ initiator.media = r.media /\ initiator.reason = r.reason
    BY <2>1, Targets DEF CallContext
  <2>6. /\ other.state = "reconnecting" /\ other.ever = r.ever
        /\ other.early = FALSE /\ other.timers = r.timers \cup {"wait"}
        /\ other.accepted = r.accepted /\ other.ended = r.ended
        /\ other.media = r.media /\ other.reason = r.reason
    BY <2>1, Targets DEF CallContext
  <2>7. \/ Set(c, r) /\ r.state # "connected"
        \/ Set(c, initiator) /\ r.state = "connected" /\ dir = "outbound"
        \/ Set(c, other) /\ r.state = "connected" /\ dir = "inbound"
    BY <1>5, DirectionType DEF MediaDisconnected, Direction
  <2> HIDE DEF r, initiator, other
  <2>8. CASE Set(c, r) /\ r.state # "connected"
    <3>1. RecordInv(r, dir) /\ (InMap(c) => HeldInv(r, dir))
      BY <1>2, <2>4, <2>8 DEF RecordInv, HeldInv, Calling, Ringing, Talking, Live
    <3> QED
      BY <1>3, <2>1, <2>4, <2>8, <3>1
  <2>9. CASE Set(c, initiator) /\ r.state = "connected" /\ dir = "outbound"
    <3>1. ctx[c].ended = 0 /\ ctx[c].media
      BY <1>1, <1>5, ActiveFacts DEF MediaDisconnected
    <3>2. RecordInv(initiator, dir) /\ (InMap(c) => HeldInv(initiator, dir))
      BY <1>2, <2>4, <2>5, <2>9, <3>1 DEF RecordInv, HeldInv, Calling, Ringing, Talking, Live
    <3> QED
      BY <1>3, <2>3, <2>4, <2>5, <2>9, <3>2 DEF Talking
  <2>10. CASE Set(c, other) /\ r.state = "connected" /\ dir = "inbound"
    <3>1. ctx[c].ended = 0 /\ ctx[c].media
      BY <1>1, <1>5, ActiveFacts DEF MediaDisconnected
    <3>2. RecordInv(other, dir) /\ (InMap(c) => HeldInv(other, dir))
      BY <1>2, <2>4, <2>6, <2>10, <3>1 DEF RecordInv, HeldInv, Calling, Ringing, Talking, Live
    <3> QED
      BY <1>3, <2>3, <2>4, <2>6, <2>10, <3>2 DEF Talking
  <2> QED
    BY <2>7, <2>8, <2>9, <2>10
<1>6. CASE MediaFailed(c)
  <2> DEFINE failed == [ctx[c] EXCEPT !.ice = "failed"]
             dead == [ctx[c] EXCEPT !.ice = "failed",
                                    !.state = IF @ = "idle" THEN @ ELSE "disconnected"]
  <2>1. failed \in CallContext /\ dead \in CallContext
    BY <1>2 DEF CallContext, CallState
  <2>2. /\ failed.state = ctx[c].state /\ failed.ever = ctx[c].ever
        /\ failed.timers = ctx[c].timers /\ failed.accepted = ctx[c].accepted
        /\ failed.ended = ctx[c].ended /\ failed.media = ctx[c].media
        /\ failed.reason = ctx[c].reason
        /\ dead.state = "disconnected" /\ dead.accepted = ctx[c].accepted
        /\ dead.ever = ctx[c].ever /\ dead.ended = ctx[c].ended
    BY <1>2 DEF CallContext
  <2>3. End(c, dead, "ice-failed") \/ (Set(c, failed) /\ ~Has(c[1], c[2]))
    BY <1>6 DEF MediaFailed
  <2> HIDE DEF failed, dead
  <2>4. CASE End(c, dead, "ice-failed")
    BY <1>1, <1>2, <2>1, <2>2, <2>4, EndLeaves DEF Reason
  <2>5. CASE Set(c, failed) /\ ~Has(c[1], c[2])
    <3>1. RecordInv(failed, dir) /\ ~InMap(c)
      BY <1>1, <1>2, <2>2, <2>5, ActiveFacts DEF RecordInv
    <3> QED
      BY <1>3, <2>1, <2>2, <2>5, <3>1
  <2> QED
    BY <2>3, <2>4, <2>5
<1> QED
  BY <1>4, <1>5, <1>6 DEF Media

\* A timer that fires and is not followed by an end.
LEMMA FiredUpdates ==
    ASSUME CallInv, NEW c \in Context, NEW t \in ctx[c].timers, Set(c, Fired(c, t)),
           UNCHANGED <<call, made>>,
           InMap(c) => HeldInv(Fired(c, t), DirectionOf(c))
    PROVE  ContextStep
<1> DEFINE r == Fired(c, t)
           dir == DirectionOf(c)
<1>1. /\ Born(c) /\ Alive(c) /\ ctx[c] \in CallContext /\ Active(ctx[c])
      /\ RecordInv(ctx[c], dir)
  BY ActiveFacts DEF Active
<1>2. /\ r \in CallContext
      /\ r.state = ctx[c].state /\ r.ever = ctx[c].ever /\ r.early = ctx[c].early
      /\ r.timers = ctx[c].timers \ {t} /\ r.accepted = ctx[c].accepted /\ r.ended = ctx[c].ended
      /\ r.media = ctx[c].media /\ r.ice = ctx[c].ice /\ r.reason = ctx[c].reason
      /\ ctx[c].ended \in Nat
  BY <1>1 DEF Fired, CallContext
<1> HIDE DEF r
<1>3. RecordInv(r, dir)
  BY <1>1, <1>2 DEF RecordInv
<1>4. Advance(ctx[c], r)
  BY <1>2 DEF Advance
<1>5. Updates(c, r)
  BY <1>1, <1>2, <1>3, <1>4 DEF Updates, Set, r
<1> QED
  BY <1>2, <1>5 DEF ContextStep

\* A timer that ends its call.
LEMMA FiredLeaves ==
    ASSUME CallInv, NEW c \in Context, NEW t \in ctx[c].timers, NEW why \in Reason,
           NEW event \in {"timeout", "user-hangup"}, why # "answered-elsewhere",
           End(c, [Fired(c, t) EXCEPT !.state = NextState(event)], why),
           UNCHANGED <<call, made>>
    PROVE  ContextStep
<1> DEFINE r == [Fired(c, t) EXCEPT !.state = NextState(event)]
<1>1. Born(c) /\ Alive(c) /\ ctx[c] \in CallContext /\ ctx[c].state # "idle"
  BY ActiveFacts DEF Active
<1>2. Fired(c, t) \in CallContext
  BY <1>1 DEF Fired, CallContext
<1>3. r \in CallContext
  BY <1>2, StateType, Targets, ZenonT(60) DEF CallState
<1>4. /\ r.state = "disconnected" /\ r.accepted = ctx[c].accepted /\ r.ever = ctx[c].ever
      /\ r.ended = ctx[c].ended
  BY <1>1, Targets DEF Fired, CallContext
<1> HIDE DEF r
<1> QED
  BY <1>1, <1>3, <1>4, EndLeaves DEF r

LEMMA TimerStep ==
    ASSUME CallInv, NEW c \in Context, Timer(c)
    PROVE  ContextStep
<1> DEFINE dir == DirectionOf(c)
<1>1. Active(ctx[c]) /\ UNCHANGED <<call, made>>
  BY DEF Timer, OnCallTimeout, OnRestartTick, OnReconnectWaitExpired, Active
<1>2. /\ Born(c) /\ Alive(c) /\ ctx[c] \in CallContext
      /\ ctx[c].state # "idle" /\ ctx[c].ended = 0
      /\ RecordInv(ctx[c], dir) /\ (InMap(c) => HeldInv(ctx[c], dir) /\ Has(c[1], c[2]))
  BY <1>1, ActiveFacts
<1>3. \A t : LET r == Fired(c, t)
             IN  /\ r.state = ctx[c].state /\ r.ever = ctx[c].ever /\ r.early = ctx[c].early
                 /\ r.timers = ctx[c].timers \ {t} /\ r.media = ctx[c].media
                 /\ r.ice = ctx[c].ice
  BY <1>2 DEF Fired, CallContext
<1>4. CASE OnCallTimeout(c)
  <2>1. CASE Has(c[1], c[2]) /\ Can(c, "timeout")
    BY <1>1, <1>4, <2>1, FiredLeaves DEF OnCallTimeout, Reason
  <2>2. CASE ~(Has(c[1], c[2]) /\ Can(c, "timeout"))
    <3> DEFINE r == Fired(c, "call")
    <3>1. Set(c, r) /\ "call" \in ctx[c].timers
      BY <1>4, <2>2 DEF OnCallTimeout
    <3>2. ASSUME InMap(c)
          PROVE  HeldInv(r, dir)
      <4>1. ~Can(c, "timeout") /\ HeldInv(ctx[c], dir)
        BY <1>2, <2>2, <3>2
      <4>2. ctx[c].state \notin Calling \cup {"remote-ring", "connecting", "reconnecting"}
        BY <4>1, Sources, DirectionType DEF Can
      <4> HIDE DEF r
      <4> QED
        BY <1>2, <1>3, <3>1, <4>1, <4>2 DEF r, HeldInv, RecordInv, Live, Calling, Ringing, Talking
    <3> HIDE DEF r
    <3> QED
      BY <1>1, <3>1, <3>2, FiredUpdates DEF r
  <2> QED
    BY <2>1, <2>2
<1>5. CASE OnRestartTick(c)
  <2>1. "restart" \in ctx[c].timers
    BY <1>5 DEF OnRestartTick
  <2>2. CASE /\ ctx[c].state \notin {"pending-reconnect", "reconnecting"}
             /\ Set(c, Fired(c, "restart"))
    <3>1. InMap(c) => HeldInv(Fired(c, "restart"), dir)
      BY <1>2, <1>3, <2>2 DEF HeldInv
    <3> QED
      BY <1>1, <2>1, <2>2, <3>1, FiredUpdates
  <2>3. CASE /\ ctx[c].state \in {"pending-reconnect", "reconnecting"}
             /\ ctx[c].attempts < MaxRestarts
             /\ Set(c, Attempt(ctx[c]))
    <3> DEFINE r == Attempt(ctx[c])
    <3>1. NextState("restart-attempt") \in CallState
      BY Targets DEF CallState
    <3>2. ctx[c].attempts + 1 \in 0..MaxRestarts
      BY <1>2, <2>3, BoundAssumption DEF CallContext
    <3>3. r \in CallContext
      BY <1>2, <3>1, <3>2 DEF Attempt, CallContext
    <3>4. /\ r.state = "reconnecting" /\ r.ever = ctx[c].ever /\ r.early = ctx[c].early
          /\ r.timers = ctx[c].timers /\ r.accepted = ctx[c].accepted /\ r.ended = ctx[c].ended
          /\ r.media = ctx[c].media /\ r.ice = ctx[c].ice /\ r.reason = ctx[c].reason
      BY <1>2, Targets DEF Attempt, CallContext
    <3> HIDE DEF r
    <3>5. RecordInv(r, dir) /\ (InMap(c) => HeldInv(r, dir))
      BY <1>2, <2>1, <2>3, <3>4 DEF RecordInv, HeldInv, Calling, Ringing, Talking, Live
    <3>6. Advance(ctx[c], r)
      BY <1>2, <2>3, <3>4 DEF Advance, Ringing
    <3>7. Updates(c, r)
      BY <1>1, <1>2, <2>3, <3>4, <3>5, <3>6 DEF Updates, Set, r
    <3> QED
      BY <3>3, <3>7 DEF ContextStep
  <2>4. CASE End(c, [Fired(c, "restart") EXCEPT !.state = NextState("user-hangup")], "ice-failed")
    BY <1>1, <2>1, <2>4, FiredLeaves DEF Reason
  <2> QED
    BY <1>5, <2>2, <2>3, <2>4 DEF OnRestartTick
<1>6. CASE OnReconnectWaitExpired(c)
  <2> DEFINE r == Fired(c, "wait")
  <2>1. "wait" \in ctx[c].timers /\ dir = "inbound" /\ r.state = ctx[c].state
    BY <1>2, <1>3, <1>6 DEF OnReconnectWaitExpired, RecordInv
  <2>2. CASE Has(c[1], c[2]) /\ r.state \in {"reconnecting", "pending-reconnect"}
    <3>1. ctx[c].state = "reconnecting"
      BY <1>2, <2>1, <2>2 DEF RecordInv
    <3>2. Can(c, "timeout")
      BY <3>1, Sources, DirectionType DEF Can
    <3>3. End(c, [r EXCEPT !.state = NextState("timeout")], "ice-failed")
      BY <1>6, <2>2, <3>2 DEF OnReconnectWaitExpired
    <3> QED
      BY <1>1, <2>1, <3>3, FiredLeaves DEF Reason
  <2>3. CASE ~(Has(c[1], c[2]) /\ r.state \in {"reconnecting", "pending-reconnect"})
    <3>1. Set(c, r)
      BY <1>6, <2>3 DEF OnReconnectWaitExpired
    <3>2. InMap(c) => HeldInv(r, dir)
      BY <1>2, <1>3, <2>1, <2>3 DEF HeldInv
    <3> QED
      BY <1>1, <2>1, <3>1, <3>2, FiredUpdates
  <2> QED
    BY <2>2, <2>3
<1> QED
  BY <1>4, <1>5, <1>6 DEF Timer

\* Whatever happens, at most one context changes, and only so.
LEMMA ContextSteps ==
    ASSUME CallInv, Next
    PROVE  ContextStep
  BY UserStep, ReceiveStep, ContinueStep, MediaStep, TimerStep DEF Next
=============================================================================
