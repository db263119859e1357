------------------------- MODULE CallPromisesProofs -------------------------
(***************************************************************************)
(* What the call supervisors promise, proved: CallInv is inductive, and    *)
(* from it follow the safety properties of CallProperties.                 *)
(***************************************************************************)
EXTENDS CallSupervisorProofs

----------------------------------------------------------------------------
(* What a step leaves of the contexts and calls there are.                 *)

LEMMA Stays ==
    ASSUME NEW r, r.ended \in Nat
    PROVE  Advance(r, r)
  BY DEF Advance

\* A context that is made was not there.
LEMMA MakesFresh ==
    ASSUME TypeOK, NEW d \in Device, NEW u \in Uuid, NEW r, Makes(d, u, r)
    PROVE  /\ <<d, u, made[d][u] + 1>> \in Context
           /\ ~Born(<<d, u, made[d][u] + 1>>)
           /\ \A c \in Context : Born(c)' <=> Born(c) \/ c = <<d, u, made[d][u] + 1>>
<1> DEFINE n == made[d][u] + 1
<1>1. made[d][u] \in Nat /\ n \in 1..MaxIncarnations /\ ~(n <= made[d][u])
  BY BoundAssumption DEF TypeOK, Makes
<1>2. <<d, u, n>> \in Context /\ ~Born(<<d, u, n>>)
  BY <1>1 DEF Context, Born
<1>3. \A e \in Device, v \in Uuid :
        made'[e][v] = IF e = d /\ v = u THEN n ELSE made[e][v]
  BY DEF TypeOK, Makes
<1>4. ASSUME NEW c \in Context
      PROVE  Born(c)' <=> Born(c) \/ c = <<d, u, n>>
  <2>1. c = <<c[1], c[2], c[3]>> /\ c[1] \in Device /\ c[2] \in Uuid /\ c[3] \in 1..MaxIncarnations
    BY DEF Context
  <2>2. CASE c[1] = d /\ c[2] = u
    BY <1>1, <1>3, <2>1, <2>2 DEF Born
  <2>3. CASE ~(c[1] = d /\ c[2] = u)
    BY <1>3, <2>1, <2>3 DEF Born
  <2> QED
    BY <2>2, <2>3
<1> QED
  BY <1>2, <1>4

\* Calls keep their parties; contexts stay, keep their direction and only advance.
LEMMA Frame ==
    ASSUME CallInv, ContextStep
    PROVE  /\ \A u \in Uuid : call[u].from # None => call'[u] = call[u]
           /\ \A c \in Context : Born(c) => /\ Born(c)'
                                            /\ DirectionOf(c)' = DirectionOf(c)
                                            /\ Advance(ctx[c], ctx'[c])
<1>1. ASSUME NEW c \in Context, Born(c)
      PROVE  /\ ctx[c].ended \in Nat /\ Advance(ctx[c], ctx[c])
             /\ c[2] \in Uuid /\ call[c[2]].from # None
  BY <1>1, BornFacts, Stays DEF CallContext, Party
<1>2. CASE UNCHANGED <<call, contexts, made, ctx>>
  BY <1>1, <1>2 DEF Born, DirectionOf
<1>3. ASSUME NEW x \in Context, NEW r \in CallContext, Updates(x, r) \/ Leaves(x, r)
      PROVE  /\ \A u \in Uuid : call[u].from # None => call'[u] = call[u]
             /\ \A c \in Context : Born(c) => /\ Born(c)'
                                              /\ DirectionOf(c)' = DirectionOf(c)
                                              /\ Advance(ctx[c], ctx'[c])
  <2>1. UNCHANGED <<call, made>> /\ ctx' = [ctx EXCEPT ![x] = r] /\ Advance(ctx[x], r)
    BY <1>3 DEF Updates, Leaves
  <2>2. \A c \in Context : ctx'[c] = IF c = x THEN r ELSE ctx[c]
    BY <2>1 DEF CallInv, TypeOK
  <2> QED
    BY <1>1, <2>1, <2>2 DEF Born, DirectionOf
<1>4. ASSUME NEW d \in Device, NEW u \in Uuid, NEW r \in CallContext, Makes(d, u, r)
      PROVE  /\ \A v \in Uuid : call[v].from # None => call'[v] = call[v]
             /\ \A c \in Context : Born(c) => /\ Born(c)'
                                              /\ DirectionOf(c)' = DirectionOf(c)
                                              /\ Advance(ctx[c], ctx'[c])
  <2> DEFINE x == <<d, u, made[d][u] + 1>>
  <2>1. /\ x \in Context /\ ~Born(x) /\ ctx' = [ctx EXCEPT ![x] = r]
        /\ \A c \in Context : Born(c) => Born(c)'
    BY <1>4, MakesFresh DEF CallInv, Makes
  <2>2. \A c \in Context : Born(c) => ctx'[c] = ctx[c]
    BY <2>1 DEF CallInv, TypeOK
  <2>3. \A v \in Uuid : call[v].from # None => call'[v] = call[v]
    BY <1>4 DEF Makes, CallInv, TypeOK
  <2> HIDE DEF x
  <2> QED
    BY <1>1, <2>1, <2>2, <2>3 DEF DirectionOf
<1> QED
  BY <1>2, <1>3, <1>4 DEF ContextStep, Enters, Misses

\* A context that holds anything has been made.
LEMMA SomethingBorn ==
    ASSUME CallInv, NEW c \in Context,
           \/ ctx[c].accepted \/ ctx[c].ended > 0 \/ ctx[c].state # "idle"
           \/ ctx[c].reason # None \/ InMap(c)
    PROVE  Born(c)
  BY DEF CallInv, ContextsInv, NewContext

----------------------------------------------------------------------------
(* CallInv, one part after the other.                                      *)

LEMMA CallsStep ==
    ASSUME CallInv, ContextStep
    PROVE  CallsInv'
<1>1. CASE UNCHANGED call
  BY <1>1 DEF CallInv, CallsInv
<1>2. ASSUME NEW d \in Device, NEW u \in Uuid, NEW a \in Account \ {AccountOf[d]},
             call' = [call EXCEPT ![u] = [from |-> d, to |-> a]]
      PROVE  CallsInv'
  BY <1>2 DEF CallInv, CallsInv, TypeOK
<1>3. ASSUME NEW d \in Device, NEW u \in Uuid, NEW r \in CallContext, Makes(d, u, r)
      PROVE  CallsInv'
  BY <1>1, <1>2, <1>3 DEF Makes
<1>4. CASE UNCHANGED <<call, contexts, made, ctx>>
  BY <1>1, <1>4
<1>5. ASSUME NEW c \in Context, NEW r \in CallContext, Updates(c, r) \/ Leaves(c, r)
      PROVE  CallsInv'
  BY <1>1, <1>5 DEF Updates, Leaves
<1> QED
  BY <1>3, <1>4, <1>5 DEF ContextStep, Enters, Misses

\* What ContextsInv says of one context.
ContextInv(c) ==
    /\ Born(c) => /\ Party(c[1], c[2])
                  /\ RecordInv(ctx[c], DirectionOf(c))
                  /\ InMap(c) => HeldInv(ctx[c], DirectionOf(c))
    /\ ~Born(c) => ctx[c] = NewContext /\ ~InMap(c)

LEMMA ContextsStep ==
    ASSUME CallInv, ContextStep
    PROVE  ContextsInv'
<1>1. ASSUME NEW c \in Context
      PROVE  ContextInv(c) /\ c[1] \in Device /\ c[2] \in Uuid /\ c[3] \in 1..MaxIncarnations
  BY ContextParts DEF CallInv, ContextsInv, ContextInv
<1>2. SUFFICES ASSUME NEW c \in Context
               PROVE  ContextInv(c)'
  BY DEF ContextsInv, ContextInv
<1>3. Party(c[1], c[2]) => Party(c[1], c[2])'
  BY <1>1, Frame DEF Party
\* A context that the step has not written, where the map has no new entry for it.
<1>4. ASSUME ctx'[c] = ctx[c], Born(c)' <=> Born(c), InMap(c)' => InMap(c)
      PROVE  ContextInv(c)'
  BY <1>1, <1>3, <1>4, Frame DEF ContextInv
<1>5. CASE UNCHANGED <<call, contexts, made, ctx>>
  BY <1>4, <1>5 DEF Born, InMap
<1>6. ASSUME NEW x \in Context, NEW r \in CallContext, Updates(x, r)
      PROVE  ContextInv(c)'
  <2>1. /\ ctx'[c] = IF c = x THEN r ELSE ctx[c]
        /\ Born(c)' <=> Born(c)
        /\ InMap(c)' <=> InMap(c)
    BY <1>6 DEF Updates, CallInv, TypeOK, Born, InMap
  <2>2. CASE c = x
    BY <1>1, <1>3, <1>6, <2>1, <2>2, Frame DEF Updates, ContextInv
  <2> QED
    BY <1>4, <2>1, <2>2
<1>7. ASSUME NEW x \in Context, NEW r \in CallContext, Leaves(x, r)
      PROVE  ContextInv(c)'
  <2>1. /\ ctx'[c] = IF c = x THEN r ELSE ctx[c]
        /\ Born(c)' <=> Born(c)
    BY <1>7 DEF Leaves, CallInv, TypeOK, Born
  <2>2. InMap(c)' => InMap(c) /\ c # x
    <3>1. x[1] \in Device /\ x[2] \in Uuid
      BY ContextParts
    <3>2. contexts'[c[1]][c[2]] = IF c[1] = x[1] /\ c[2] = x[2] THEN 0 ELSE contexts[c[1]][c[2]]
      BY <1>1, <1>7, <3>1 DEF Leaves, CallInv, TypeOK
    <3> QED
      BY <1>1, <3>2 DEF InMap
  <2>3. CASE c = x
    BY <1>1, <1>3, <1>7, <2>1, <2>2, <2>3, Frame DEF Leaves, ContextInv
  <2> QED
    BY <1>4, <2>1, <2>2, <2>3
<1>8. ASSUME NEW d \in Device, NEW u \in Uuid, NEW r \in CallContext,
             Enters(d, u, r) \/ Misses(d, u, r)
      PROVE  ContextInv(c)'
  <2> DEFINE n == made[d][u] + 1
             x == <<d, u, n>>
  <2>1. Makes(d, u, r)
    BY <1>8 DEF Enters, Misses
  <2>2. x \in Context /\ ~Born(x) /\ (Born(c)' <=> Born(c) \/ c = x)
    BY <2>1, MakesFresh DEF CallInv
  <2>3. ctx'[c] = IF c = x THEN r ELSE ctx[c]
    BY <2>1 DEF Makes, CallInv, TypeOK
  <2>4. InMap(c)' => InMap(c) \/ (c = x /\ Enters(d, u, r))
    <3>1. CASE Misses(d, u, r)
      BY <3>1 DEF Misses, InMap
    <3>2. CASE Enters(d, u, r)
      <4>1. contexts'[c[1]][c[2]] = IF c[1] = d /\ c[2] = u THEN n ELSE contexts[c[1]][c[2]]
        BY <1>1, <3>2 DEF Enters, CallInv, TypeOK
      <4>2. c = <<c[1], c[2], c[3]>>
        BY DEF Context
      <4> QED
        BY <3>2, <4>1, <4>2 DEF InMap
    <3> QED
      BY <1>8, <3>1, <3>2
  <2>5. CASE c # x
    BY <1>4, <2>2, <2>3, <2>4, <2>5
  <2>6. CASE c = x
    <3>1. Party(c[1], c[2])' /\ RecordInv(r, DirectionOf(x)')
      BY <2>1, <2>6 DEF Makes
    <3>2. ~InMap(c)
      BY <1>1, <2>2, <2>6 DEF ContextInv
    <3>3. Enters(d, u, r) => HeldInv(r, DirectionOf(x)')
      BY DEF Enters
    <3>4. DirectionOf(c)' = DirectionOf(x)'
      BY <2>6 DEF DirectionOf
    <3>5. RecordInv(r, DirectionOf(c)') /\ (Enters(d, u, r) => HeldInv(r, DirectionOf(c)'))
      BY <3>1, <3>3, <3>4
    <3> HIDE DEF x
    <3> QED
      BY <2>2, <2>3, <2>4, <2>6, <3>1, <3>2, <3>5 DEF ContextInv
  <2> QED
    BY <2>5, <2>6
<1> QED
  BY <1>5, <1>6, <1>7, <1>8 DEF ContextStep

\* A continuation fits the context it was started for.
Fits(j) == Born(j.ctx) /\ JobInv(j, ctx[j.ctx], DirectionOf(j.ctx))

LEMMA FitsFacts ==
    ASSUME CallInv, NEW j \in jobs
    PROVE  Fits(j) /\ j \in Job /\ j.ctx \in Context
  BY DEF CallInv, TypeOK, Job, JobsInv, Fits

LEMMA KeptJobs ==
    ASSUME CallInv, ContextStep, NEW j \in jobs
    PROVE  Fits(j)'
<1> DEFINE c == j.ctx
<1>1. c \in Context /\ Born(c) /\ JobInv(j, ctx[c], DirectionOf(c))
  BY FitsFacts DEF Fits
<1>2. Born(c)' /\ DirectionOf(c)' = DirectionOf(c) /\ Advance(ctx[c], ctx'[c])
  BY <1>1, Frame
<1> HIDE DEF c
<1>3. JobInv(j, ctx'[c], DirectionOf(c)')
  BY <1>1, <1>2 DEF JobInv, Advance
<1> QED
  BY <1>2, <1>3 DEF Fits, c

\* What there is to show of a step that starts continuations.
LEMMA NewJobs ==
    ASSUME CallInv, ContextStep, \A j \in jobs' \ jobs : Fits(j)'
    PROVE  JobsInv'
  BY KeptJobs DEF JobsInv, Fits

LEMMA SomeJobFits ==
    ASSUME NEW c, NEW do, NEW why, NEW b,
           Born(c)', JobInv(SomeJob(c, do, why, b), ctx'[c], DirectionOf(c)')
    PROVE  Fits(SomeJob(c, do, why, b))'
  BY DEF Fits, SomeJob

\* A call that is hung up or declined starts to end.
LEMMA LeavingFits ==
    ASSUME CallInv, ContextStep, NEW d \in Device, NEW u \in Uuid, Has(d, u),
           NEW c, c = Current(d, u),
           NEW event \in {"user-decline", "user-hangup"},
           NEW why \in {"local-hangup", "remote-declined"}, NEW b,
           Set(c, After(c, event))
    PROVE  Fits(SomeJob(c, "end", why, b))'
<1>1. c \in Context /\ Born(c)'
  BY CurrentFacts, Frame
<1>2. ctx'[c].state = "disconnected"
  BY <1>1, Targets DEF Set, After, CallInv, TypeOK, CallContext
<1> DEFINE j == SomeJob(c, "end", why, b)
<1>3. j.do = "end" /\ j.reason = why
  BY DEF SomeJob
<1>4. JobInv(j, ctx'[c], DirectionOf(c)')
  BY <1>2, <1>3 DEF JobInv, Ringing
<1> QED
  BY <1>1, <1>4, SomeJobFits

LEMMA PlaceCallJobs ==
    ASSUME CallInv, ContextStep, NEW d \in Device, NEW a \in Account, PlaceCall(d, a)
    PROVE  JobsInv'
<1>1. PICK u \in Uuid, n \in 1..MaxIncarnations, c \in Context :
        /\ n = made[d][u] + 1 /\ c = <<d, u, n>>
        /\ call' = [call EXCEPT ![u] = [from |-> d, to |-> a]]
        /\ made' = [made EXCEPT ![d][u] = n]
        /\ LET r == [NewContext EXCEPT !.state = NextState("send-pre-offer"),
                                       !.timers = {"call"}, !.media = TRUE]
           IN  \/ ctx' = [ctx EXCEPT ![c] = r]
               \/ ctx' = [ctx EXCEPT ![c] = Ended([r EXCEPT !.state = "disconnected"], "error")]
        /\ jobs' \subseteq jobs \cup {JobOf(c, "pre-offer"), JobOf(c, "offer")}
  <2>1. PICK u \in Uuid :
          /\ made[d][u] < MaxIncarnations
          /\ call' = [call EXCEPT ![u] = [from |-> d, to |-> a]]
          /\ LET c == <<d, u, made[d][u] + 1>>
                 r == [NewContext EXCEPT !.state = NextState("send-pre-offer"),
                                         !.timers = {"call"}, !.media = TRUE]
             IN  \/ /\ Register(d, u, r)
                    /\ jobs' = jobs \cup {JobOf(c, "pre-offer"), JobOf(c, "offer")}
                 \/ /\ made' = [made EXCEPT ![d][u] = @ + 1]
                    /\ ctx' = [ctx EXCEPT ![c] =
                                 Ended([r EXCEPT !.state = "disconnected"], "error")]
                    /\ jobs' = jobs \cup {JobOf(c, "pre-offer")}
                    /\ UNCHANGED <<contexts, boosted>>
    BY DEF PlaceCall
  <2>2. made[d][u] + 1 \in 1..MaxIncarnations /\ <<d, u, made[d][u] + 1>> \in Context
    BY <2>1, BoundAssumption DEF CallInv, TypeOK, Context
  <2>3. made' = [made EXCEPT ![d][u] = made[d][u] + 1]
    BY <2>1 DEF Register, CallInv, TypeOK
  <2> QED
    BY <2>1, <2>2, <2>3 DEF Register
<1>2. c \in Context
  BY <1>1
<1>3. made'[d][u] = n /\ call'[u].from = d
  BY <1>1 DEF CallInv, TypeOK
<1>4. ctx'[c].state \in {"local-pre-offer", "disconnected"}
  <2> DEFINE r == [NewContext EXCEPT !.state = NextState("send-pre-offer"),
                                     !.timers = {"call"}, !.media = TRUE]
             e == Ended([r EXCEPT !.state = "disconnected"], "error")
  <2>1. r.state = "local-pre-offer"
    BY Targets DEF NewContext
  <2>2. e.state = "disconnected"
    BY DEF Ended, TornDown, NewContext
  <2>3. ctx' = [ctx EXCEPT ![c] = r] \/ ctx' = [ctx EXCEPT ![c] = e]
    BY <1>1
  <2> HIDE DEF r, e
  <2> QED
    BY <1>2, <2>1, <2>2, <2>3 DEF CallInv, TypeOK
<1>5. Born(c)' /\ DirectionOf(c)' = "outbound"
  BY <1>1, <1>3 DEF Born, DirectionOf
<1>6. \A do \in {"pre-offer", "offer"} : JobInv(JobOf(c, do), ctx'[c], DirectionOf(c)')
  BY <1>4, <1>5 DEF JobInv, JobOf, SomeJob, Ringing
<1>7. \A do \in {"pre-offer", "offer"} : Fits(JobOf(c, do))'
  BY <1>5, <1>6, SomeJobFits DEF JobOf
<1> QED
  BY <1>1, <1>7, NewJobs

LEMMA UserJobs ==
    ASSUME CallInv, ContextStep, NEW d \in Device, User(d)
    PROVE  JobsInv'
<1>1. ASSUME jobs' \subseteq jobs
      PROVE  JobsInv'
  BY <1>1, NewJobs
<1>2. ASSUME NEW u \in Uuid, Reject(d, u) \/ Hangup(d, u)
      PROVE  JobsInv'
  <2>1. PICK c : c = Current(d, u)
    OBVIOUS
  <2>2. PICK event \in {"user-decline", "user-hangup"}, why \in {"local-hangup", "remote-declined"} :
          /\ Set(c, After(c, event))
          /\ jobs' = jobs \cup {SomeJob(c, "end", why, FALSE)}
          /\ Has(d, u)
    BY <1>2, <2>1 DEF Reject, Hangup
  <2>3. Fits(SomeJob(c, "end", why, FALSE))'
    BY <2>1, <2>2, LeavingFits
  <2> QED
    BY <2>2, <2>3, NewJobs
<1>3. CASE Dispose(d)
  <2>1. CASE UNCHANGED jobs
    BY <1>1, <2>1
  <2>2. ASSUME NEW u \in Uuid, NEW event \in {"user-decline", "user-hangup"},
               NEW why \in {"remote-declined", "local-hangup"},
               NEW c, c = Current(d, u), Has(d, u), Set(c, After(c, event)),
               jobs' = jobs \cup {SomeJob(c, "end", why, TRUE)}
        PROVE  JobsInv'
    <3>1. Fits(SomeJob(c, "end", why, TRUE))'
      BY <2>2, LeavingFits
    <3> QED
      BY <2>2, <3>1, NewJobs
  <2> QED
    BY <1>3, <2>1, <2>2 DEF Dispose
<1>4. ASSUME NEW u \in Uuid, Accept(d, u)
      PROVE  JobsInv'
  <2>1. PICK c \in Context : c = Current(d, u)
    BY <1>4, CurrentFacts DEF Accept
  <2>2. Born(c) /\ ctx[c] \in CallContext /\ RecordInv(ctx[c], DirectionOf(c))
    BY <1>4, <2>1, CurrentFacts, BornFacts DEF Accept
  <2>3. /\ ctx[c].state = "remote-ring"
        /\ ctx' = [ctx EXCEPT ![c] = [After(c, "user-accept") EXCEPT !.accepted = TRUE]]
        /\ jobs' \subseteq jobs \cup {JobOf(c, "answer")}
    BY <1>4, <2>1, Sources, DirectionType DEF Accept, Set, Can
  <2>4. DirectionOf(c) = "inbound"
    BY <2>2, <2>3 DEF RecordInv, Ringing
  <2>5. ctx'[c].state = "connecting" /\ ctx'[c].accepted
    BY <2>2, <2>3, Targets DEF After, CallContext, CallInv, TypeOK
  <2>6. Born(c)' /\ DirectionOf(c)' = "inbound"
    BY <2>2, <2>4, Frame
  <2>7. JobInv(JobOf(c, "answer"), ctx'[c], DirectionOf(c)')
    BY <2>5, <2>6 DEF JobInv, JobOf, SomeJob, Ringing
  <2>8. Fits(JobOf(c, "answer"))'
    BY <2>6, <2>7, SomeJobFits DEF JobOf
  <2> QED
    BY <2>3, <2>8, NewJobs
<1>5. ASSUME NEW u \in Uuid, Ignore(d, u) \/ ConsumerThrows(d, u)
      PROVE  JobsInv'
  BY <1>1, <1>5 DEF Ignore, ConsumerThrows
<1>6. ASSUME NEW a \in Account, MarkApproved(d, a)
      PROVE  JobsInv'
  BY <1>1, <1>6 DEF MarkApproved
<1> QED
  BY <1>2, <1>3, <1>4, <1>5, <1>6, PlaceCallJobs DEF User

LEMMA ReceiveJobs ==
    ASSUME CallInv, ContextStep, NEW d \in Device, NEW m \in net, Receive(d, m)
    PROVE  JobsInv'
<1>1. ASSUME jobs' \subseteq jobs
      PROVE  JobsInv'
  BY <1>1, NewJobs
<1>2. CASE OnOffer(d, m) /\ ~(jobs' \subseteq jobs)
  <2>1. m.uuid \in Uuid
    BY MessageParts DEF CallInv
  <2>2. PICK c \in Context : c = Current(d, m.uuid)
    BY <1>2, <2>1, CurrentFacts DEF OnOffer
  <2>3. Born(c) /\ ctx[c] \in CallContext /\ RecordInv(ctx[c], DirectionOf(c))
    BY <1>2, <2>1, <2>2, CurrentFacts, BornFacts DEF OnOffer
  <2> DEFINE r == [ctx[c] EXCEPT !.state = NextState("receive-offer-restart"),
                                 !.timers = @ \ {"wait"}]
  <2>4. /\ DirectionOf(c) = "inbound"
        /\ ctx[c].state \in {"pending-reconnect", "reconnecting"}
        /\ Set(c, r) /\ jobs' = jobs \cup {JobOf(c, "answer")}
    BY <1>2, <2>2 DEF OnOffer, AnswerRestart
  <2>5. r.state = "connecting" /\ r.accepted
    BY <2>3, <2>4, Targets DEF CallContext, RecordInv, Talking
  <2> HIDE DEF r
  <2>6. ctx'[c].state = "connecting" /\ ctx'[c].accepted
    BY <2>4, <2>5 DEF Set, CallInv, TypeOK
  <2>7. Born(c)' /\ DirectionOf(c)' = "inbound"
    BY <2>3, <2>4, Frame
  <2>8. JobInv(JobOf(c, "answer"), ctx'[c], DirectionOf(c)')
    BY <2>6, <2>7 DEF JobInv, JobOf, SomeJob, Ringing
  <2>9. Fits(JobOf(c, "answer"))'
    BY <2>7, <2>8, SomeJobFits DEF JobOf
  <2> QED
    BY <2>4, <2>9, NewJobs
<1>3. CASE OnAnswer(d, m) /\ ~(jobs' \subseteq jobs)
  <2>1. /\ m.uuid \in Uuid /\ MessageInv(m) /\ Has(d, m.uuid) /\ m.type = "ANSWER"
        /\ m.to = d /\ m.from # AccountOf[d]
    BY <1>3, MessageFacts DEF OnAnswer, Dispatched, Admitted, Inbound, Fetched
  <2>2. PICK c \in Context : c = Current(d, m.uuid)
    BY <2>1, CurrentFacts
  <2>3. Born(c) /\ ctx[c] \in CallContext
    BY <2>1, <2>2, CurrentFacts, BornFacts
  <2>4. /\ ctx' = [ctx EXCEPT ![c] = After(c, "receive-answer")]
        /\ jobs' = jobs \cup {JobOf(c, "apply-answer")}
    BY <1>3, <2>2 DEF OnAnswer, Set
  <2>5. AccountOf[d] # call[m.uuid].to
    BY <2>1 DEF MessageInv
  <2>6. DirectionOf(c) = "outbound"
    BY <2>1, <2>2, <2>5, MessageFacts
  <2>7. ctx'[c].state = "connecting"
    BY <2>3, <2>4, Targets DEF After, CallContext, CallInv, TypeOK
  <2>8. Born(c)' /\ DirectionOf(c)' = "outbound"
    BY <2>3, <2>6, Frame
  <2>9. JobInv(JobOf(c, "apply-answer"), ctx'[c], DirectionOf(c)')
    BY <2>7, <2>8 DEF JobInv, JobOf, SomeJob, Ringing
  <2>10. Fits(JobOf(c, "apply-answer"))'
    BY <2>8, <2>9, SomeJobFits DEF JobOf
  <2> QED
    BY <2>4, <2>10, NewJobs
<1>4. CASE Discard(d, m) \/ DropStale(d, m) \/ AnswerBusy(d, m) \/ OnPreOffer(d, m)
           \/ OnFirstOffer(d, m)
  BY <1>1, <1>4 DEF Discard, DropStale, AnswerBusy, OnPreOffer, OnFirstOffer
<1>5. CASE HandleSelfMessage(d, m) \/ OnEndCall(d, m) \/ OnHangupHint(d, m)
  BY <1>1, <1>5 DEF HandleSelfMessage, OnEndCall, OnHangupHint
<1> QED
  BY <1>1, <1>2, <1>3, <1>4, <1>5 DEF Receive

\* A continuation is followed by the next one of the same context.
LEMMA ContinueJobs ==
    ASSUME CallInv, ContextStep, NEW c \in Context, Continue(c)
    PROVE  JobsInv'
<1>1. ASSUME jobs' \subseteq jobs
      PROVE  JobsInv'
  BY <1>1, NewJobs
<1>2. PICK j \in jobs : j.ctx = c /\ (Store(j) \/ Resolve(j) \/ RejectPromise(j))
  BY DEF Continue
<1>3. j \in Job
  BY DEF CallInv, TypeOK
<1>4. ASSUME NEW k, k.ctx = j.ctx, k.reason = j.reason,
             \/ k.do = j.do
             \/ k.do = "sync-answer" /\ j.do = "answer"
             \/ k.do = "sync-end" /\ j.do = "end",
             jobs' \subseteq jobs \cup {k}
      PROVE  JobsInv'
  <2>1. Fits(j)'
    BY KeptJobs
  <2>2. Fits(k)'
    BY <1>4, <2>1 DEF Fits, JobInv
  <2> QED
    BY <1>4, <2>2, NewJobs
<1>5. CASE Store(j)
  <2> DEFINE k == [j EXCEPT !.stored = TRUE]
  <2>1. k.ctx = j.ctx /\ k.reason = j.reason /\ k.do = j.do
    BY <1>3 DEF Job
  <2>2. jobs' \subseteq jobs \cup {k}
    BY <1>5 DEF Store
  <2> HIDE DEF k
  <2> QED
    BY <1>4, <2>1, <2>2
<1>6. CASE Resolve(j) /\ ~(jobs' \subseteq jobs)
  <2> DEFINE Then(do) == jobs' = (jobs \ {j}) \cup {[j EXCEPT !.do = do, !.stored = FALSE]}
  <2>1. \/ j.do = "answer" /\ Then("sync-answer")
        \/ j.do = "end" /\ Then("sync-end")
    BY <1>6 DEF Resolve
  <2>2. PICK do \in {"sync-answer", "sync-end"} :
          /\ jobs' = (jobs \ {j}) \cup {[j EXCEPT !.do = do, !.stored = FALSE]}
          /\ \/ do = "sync-answer" /\ j.do = "answer"
             \/ do = "sync-end" /\ j.do = "end"
    BY <2>1
  <2> DEFINE k == [j EXCEPT !.do = do, !.stored = FALSE]
  <2>3. k.ctx = j.ctx /\ k.reason = j.reason /\ k.do = do
    BY <1>3 DEF Job
  <2>4. jobs' \subseteq jobs \cup {k}
    BY <2>2
  <2> HIDE DEF k
  <2> QED
    BY <1>4, <2>2, <2>3, <2>4
<1>7. CASE RejectPromise(j)
  BY <1>1, <1>7 DEF RejectPromise
<1> QED
  BY <1>1, <1>2, <1>5, <1>6, <1>7

LEMMA TimerJobs ==
    ASSUME CallInv, ContextStep, NEW c \in Context, Timer(c)
    PROVE  JobsInv'
<1>1. CASE jobs' \subseteq jobs
  BY <1>1, NewJobs
<1>2. CASE ~(jobs' \subseteq jobs)
  <2>1. /\ "restart" \in ctx[c].timers
        /\ ctx' = [ctx EXCEPT ![c] = Attempt(ctx[c])]
        /\ jobs' = jobs \cup {JobOf(c, "offer")}
    BY <1>2 DEF Timer, OnCallTimeout, OnRestartTick, OnReconnectWaitExpired, Set
  <2>2. Born(c) /\ ctx[c] \in CallContext /\ RecordInv(ctx[c], DirectionOf(c))
    BY <2>1, ActiveFacts DEF Active
  <2>3. DirectionOf(c) = "outbound"
    BY <2>1, <2>2 DEF RecordInv
  <2>4. ctx'[c].state = "reconnecting"
    BY <2>1, <2>2, Targets DEF Attempt, CallContext, CallInv, TypeOK
  <2>5. Born(c)' /\ DirectionOf(c)' = "outbound"
    BY <2>2, <2>3, Frame
  <2>6. JobInv(JobOf(c, "offer"), ctx'[c], DirectionOf(c)')
    BY <2>4, <2>5 DEF JobInv, JobOf, SomeJob, Ringing
  <2>7. Fits(JobOf(c, "offer"))'
    BY <2>5, <2>6, SomeJobFits DEF JobOf
  <2> QED
    BY <2>1, <2>7, NewJobs
<1> QED
  BY <1>1, <1>2

LEMMA JobsStep ==
    ASSUME CallInv, ContextStep, Next
    PROVE  JobsInv'
<1>1. ASSUME NEW c \in Context, Media(c)
      PROVE  JobsInv'
  BY <1>1, NewJobs DEF Media, MediaConnected, MediaDisconnected, MediaFailed
<1> QED
  BY <1>1, UserJobs, ReceiveJobs, ContinueJobs, TimerJobs DEF Next

----------------------------------------------------------------------------
(* Messages.                                                               *)

\* A missed call stays recorded, and it was a call.
LEMMA MissedStep ==
    ASSUME CallInv, ContextStep, Next
    PROVE  MissedInv' /\ \A d \in Device : missed[d] \subseteq missed'[d]
<1>1. CASE UNCHANGED missed
  <2>1. \A d \in Device : \A w \in missed[d] : w[1] \in Uuid
    BY DEF CallInv, TypeOK
  <2> QED
    BY <1>1, <2>1, Frame DEF CallInv, MissedInv
<1>2. ASSUME NEW d \in Device, NEW u \in Uuid, NEW what, call[u].from # None,
             missed' = [missed EXCEPT ![d] = @ \cup {<<u, what>>}]
      PROVE  MissedInv' /\ \A e \in Device : missed[e] \subseteq missed'[e]
  <2>1. \A e \in Device : missed'[e] = IF e = d THEN missed[e] \cup {<<u, what>>} ELSE missed[e]
    BY <1>2 DEF CallInv, TypeOK
  <2>2. \A e \in Device : \A w \in missed'[e] : w[1] \in Uuid /\ call[w[1]].from # None
    BY <1>2, <2>1 DEF CallInv, TypeOK, MissedInv
  <2>3. \A e \in Device : \A w \in missed'[e] : call'[w[1]].from # None
    BY <2>2, Frame
  <2> QED
    BY <2>1, <2>3 DEF MissedInv
<1>3. ASSUME NEW d \in Device, User(d)
      PROVE  \/ UNCHANGED missed
             \/ \E u \in Uuid : /\ call[u].from # None
                                /\ missed' = [missed EXCEPT ![d] = @ \cup {<<u, "ignored">>}]
  <2>1. ASSUME NEW u \in Uuid, Ignore(d, u)
        PROVE  /\ call[u].from # None
               /\ missed' = [missed EXCEPT ![d] = @ \cup {<<u, "ignored">>}]
    BY <2>1, CurrentFacts, BornFacts DEF Ignore, Party
  <2> QED
    BY <1>3, <2>1 DEF User, PlaceCall, MarkApproved, Accept, Reject, Hangup, ConsumerThrows, Dispose
<1>4. ASSUME NEW d \in Device, NEW m \in net, Receive(d, m)
      PROVE  \/ UNCHANGED missed
             \/ \E u \in Uuid, what \in {"busy", "stale"} :
                  /\ call[u].from # None
                  /\ missed' = [missed EXCEPT ![d] = @ \cup {<<u, what>>}]
  <2>1. m.uuid \in Uuid /\ call[m.uuid].from # None
    BY MessageParts DEF CallInv, NetInv, MessageInv
  <2>2. CASE DropStale(d, m) /\ m.type = "PRE_OFFER"
    BY <2>1, <2>2 DEF DropStale
  <2>3. CASE DropStale(d, m) /\ m.type # "PRE_OFFER"
    BY <2>3 DEF DropStale, CallInv, TypeOK
  <2>4. CASE AnswerBusy(d, m)
    BY <2>1, <2>4 DEF AnswerBusy
  <2> QED
    BY <1>4, <2>2, <2>3, <2>4
       DEF Receive, Discard, HandleSelfMessage, OnPreOffer, OnFirstOffer, OnOffer, OnAnswer,
           OnEndCall, OnHangupHint
<1>5. ASSUME NEW c \in Context, Continue(c) \/ Media(c) \/ Timer(c)
      PROVE  UNCHANGED missed
  BY <1>5 DEF Continue, Store, Resolve, RejectPromise,
              Media, MediaConnected, MediaDisconnected, MediaFailed,
              Timer, OnCallTimeout, OnRestartTick, OnReconnectWaitExpired
<1> QED
  BY <1>1, <1>2, <1>3, <1>4, <1>5 DEF Next

\* Who has answered, or has left, has done so for good.
LEMMA AnsweredStays ==
    ASSUME CallInv, ContextStep, NEW a, NEW u, Answered(a, u)
    PROVE  Answered(a, u)'
<1>1. PICK e \in Context : AccountOf[e[1]] = a /\ e[2] = u /\ ctx[e].accepted
  BY DEF Answered
<1>2. Advance(ctx[e], ctx'[e])
  BY <1>1, SomethingBorn, Frame
<1>3. ctx'[e].accepted
  BY <1>1, <1>2 DEF Advance
<1> QED
  BY <1>1, <1>3 DEF Answered

LEMMA LeftStays ==
    ASSUME CallInv, ContextStep, Next, NEW a, NEW u \in Uuid, Left(a, u)
    PROVE  Left(a, u)'
<1>1. PICK d \in Device : /\ AccountOf[d] = a
                          /\ \/ <<u, "busy">> \in missed[d]
                             \/ \E k \in 1..MaxIncarnations : ctx[<<d, u, k>>].state = "disconnected"
  BY DEF Left
<1>2. ASSUME NEW k \in 1..MaxIncarnations, ctx[<<d, u, k>>].state = "disconnected"
      PROVE  ctx'[<<d, u, k>>].state = "disconnected"
  <2>1. PICK c \in Context : c = <<d, u, k>>
    BY DEF Context
  <2>2. Advance(ctx[c], ctx'[c])
    BY <1>2, <2>1, SomethingBorn, Frame
  <2> QED
    BY <1>2, <2>1, <2>2 DEF Advance
<1>3. missed[d] \subseteq missed'[d]
  BY MissedStep
<1> QED
  BY <1>1, <1>2, <1>3 DEF Left

LEMMA KeptMessages ==
    ASSUME CallInv, ContextStep, Next, NEW m \in net
    PROVE  MessageInv(m)'
<1>1. m.uuid \in Uuid /\ MessageInv(m)
  BY MessageParts DEF CallInv, NetInv
<1>2. call'[m.uuid] = call[m.uuid]
  BY <1>1, Frame DEF MessageInv
<1>3. /\ Answered(m.from, m.uuid) => Answered(m.from, m.uuid)'
      /\ Left(m.from, m.uuid) => Left(m.from, m.uuid)'
  BY <1>1, AnsweredStays, LeftStays
<1> QED
  BY <1>1, <1>2, <1>3 DEF MessageInv

LEMMA NewMessages ==
    ASSUME CallInv, ContextStep, Next, \A m \in net' \ net : MessageInv(m)'
    PROVE  NetInv'
  BY KeptMessages DEF NetInv

\* What a device with a part in a call may send about it.
LEMMA SentInv ==
    ASSUME CallInv, UNCHANGED call, NEW d \in Device, NEW u \in Uuid, Party(d, u),
           NEW type \in Type, NEW m \in ToPeer(d, u, type) \cup ToSelf(d, u, type),
           type \in {"PRE_OFFER", "OFFER"} => call[u].from = d /\ m \in ToPeer(d, u, type),
           type = "ANSWER" => call[u].from # d /\ Answered(AccountOf[d], u)',
           type = "END_CALL" => Left(AccountOf[d], u)'
    PROVE  MessageInv(m)'
<1> DEFINE caller == AccountOf[call[u].from]
           callee == call[u].to
<1>1. call[u].from # None
  BY DEF Party
<1>2. \/ AccountOf[d] = caller /\ Peer(d, u) = callee /\ call[u].from = d
      \/ AccountOf[d] = callee /\ Peer(d, u) = caller /\ call[u].from # d
  BY <1>1 DEF Party, Peer, CallInv, CallsInv
<1>3. m.from = AccountOf[d] /\ m.type = type /\ m.uuid = u
  BY DEF ToPeer, ToSelf, Copies
<1>4. /\ m \in ToPeer(d, u, type) => AccountOf[m.to] = Peer(d, u)
      /\ m \in ToSelf(d, u, type) => AccountOf[m.to] = AccountOf[d]
  BY DEF ToPeer, ToSelf, Copies
<1>5. call'[m.uuid] = call[u]
  BY <1>3
<1> QED
  BY <1>1, <1>2, <1>3, <1>4, <1>5 DEF MessageInv

LEMMA HintSent ==
    ASSUME CallInv, UNCHANGED call, NEW c \in Context, NEW m \in Hint(c)
    PROVE  MessageInv(m)'
<1>1. ctx[c].media /\ m \in ToPeer(c[1], c[2], "HANGUP_HINT")
  BY DEF Hint
<1>2. Party(c[1], c[2]) /\ c[1] \in Device /\ c[2] \in Uuid
  BY <1>1, ActiveFacts, BornFacts DEF Active
<1> QED
  BY <1>1, <1>2, SentInv DEF Type

\* A timer that ends its call tells both sides.
LEMMA TimerSends ==
    ASSUME CallInv, NEW c \in Context, Timer(c)
    PROVE  \/ net' = net
           \/ /\ net' = net \cup EndCallMessages(c[1], c[2])
              /\ ctx'[c].state = "disconnected"
<1>1. ASSUME NEW t \in ctx[c].timers, NEW event \in {"timeout", "user-hangup"}, NEW why,
             End(c, [Fired(c, t) EXCEPT !.state = NextState(event)], why)
      PROVE  ctx'[c].state = "disconnected"
  <2> DEFINE r == [Fired(c, t) EXCEPT !.state = NextState(event)]
  <2>1. ctx[c] \in CallContext
    BY DEF CallInv, TypeOK
  <2>2. r.state = "disconnected"
    BY <2>1, Targets DEF Fired, CallContext
  <2>3. Ended(r, why).state = r.state
    BY <2>1 DEF Ended, TornDown, Fired, CallContext
  <2>4. ctx'[c] = Ended(r, why)
    BY <1>1 DEF End, CallInv, TypeOK
  <2> HIDE DEF r
  <2> QED
    BY <2>2, <2>3, <2>4
<1>2. CASE OnCallTimeout(c)
  BY <1>1, <1>2 DEF OnCallTimeout
<1>3. CASE OnRestartTick(c)
  BY <1>1, <1>3 DEF OnRestartTick
<1>4. CASE OnReconnectWaitExpired(c)
  <2> DEFINE r == Fired(c, "wait")
  <2>1. CASE net' = net
    BY <2>1
  <2>2. CASE Has(c[1], c[2]) /\ r.state \in {"reconnecting", "pending-reconnect"}
    <3>1. "wait" \in ctx[c].timers
      BY <1>4 DEF OnReconnectWaitExpired
    <3>2. ctx[c] \in CallContext /\ RecordInv(ctx[c], DirectionOf(c))
      BY <3>1, ActiveFacts DEF Active
    <3>3. r.state = ctx[c].state
      BY <3>2 DEF Fired, CallContext
    <3>4. ctx[c].state = "reconnecting"
      BY <2>2, <3>1, <3>2, <3>3 DEF RecordInv
    <3>5. Can(c, "timeout")
      BY <3>4, Sources, DirectionType DEF Can
    <3> QED
      BY <1>1, <1>4, <2>2, <3>1, <3>5 DEF OnReconnectWaitExpired
  <2> QED
    BY <1>4, <2>1, <2>2 DEF OnReconnectWaitExpired
<1> QED
  BY <1>2, <1>3, <1>4 DEF Timer

\* A message that a continuation sends is about what its context has done.
LEMMA StoreSends ==
    ASSUME CallInv, ContextStep, Next, NEW j \in jobs, Store(j)
    PROVE  NetInv'
<1>1. PICK c \in Context : c = j.ctx
  BY FitsFacts
<1>2. /\ c[1] \in Device /\ c[2] \in Uuid /\ c[3] \in 1..MaxIncarnations
      /\ Party(c[1], c[2])
      /\ JobInv(j, ctx[c], DirectionOf(c)) /\ j \in Job
  BY <1>1, FitsFacts, BornFacts, ContextParts DEF Fits
<1>3. net' = net \cup Sends(j) /\ UNCHANGED <<call, ctx>>
  BY DEF Store
<1>4. /\ DirectionOf(c) = "outbound" => call[c[2]].from = c[1]
      /\ DirectionOf(c) = "inbound" => call[c[2]].from # c[1]
  BY DEF DirectionOf
<1>5. j.do \in {"answer", "sync-answer"} => Answered(AccountOf[c[1]], c[2])'
  BY <1>2, <1>3 DEF JobInv, Answered
<1>6. j.do \in {"end", "sync-end"} => Left(AccountOf[c[1]], c[2])'
  <2>1. c = <<c[1], c[2], c[3]>>
    BY DEF Context
  <2> QED
    BY <1>2, <1>3, <2>1 DEF JobInv, Left
<1>7. ASSUME NEW m \in Sends(j)
      PROVE  MessageInv(m)'
  <2>1. CASE j.do = "pre-offer"
    BY <1>1, <1>2, <1>3, <1>4, <1>7, <2>1, SentInv DEF Sends, JobInv, Type
  <2>2. CASE j.do = "offer"
    BY <1>1, <1>2, <1>3, <1>4, <1>7, <2>2, SentInv DEF Sends, JobInv, Type
  <2>3. CASE j.do = "answer"
    BY <1>1, <1>2, <1>3, <1>4, <1>5, <1>7, <2>3, SentInv DEF Sends, JobInv, Type
  <2>4. CASE j.do = "sync-answer"
    BY <1>1, <1>2, <1>3, <1>4, <1>5, <1>7, <2>4, SentInv DEF Sends, JobInv, Type
  <2>5. CASE j.do = "end"
    BY <1>1, <1>2, <1>3, <1>6, <1>7, <2>5, SentInv DEF Sends, Type
  <2>6. CASE j.do = "sync-end"
    BY <1>1, <1>2, <1>3, <1>6, <1>7, <2>6, SentInv DEF Sends, Type
  <2>7. j.do \in {"pre-offer", "offer", "answer", "sync-answer", "end", "sync-end"}
    BY <1>2 DEF Store, Job
  <2> QED
    BY <2>1, <2>2, <2>3, <2>4, <2>5, <2>6, <2>7
<1> QED
  BY <1>3, <1>7, NewMessages

LEMMA NetStep ==
    ASSUME CallInv, ContextStep, Next
    PROVE  NetInv'
<1>1. ASSUME net' \subseteq net
      PROVE  NetInv'
  BY <1>1, NewMessages
<1>2. ASSUME NEW c \in Context, net' = net \cup Hint(c), UNCHANGED call
      PROVE  NetInv'
  BY <1>2, HintSent, NewMessages
<1>3. ASSUME NEW d \in Device, User(d)
      PROVE  NetInv'
  <2>1. ASSUME NEW u \in Uuid, Hangup(d, u)
        PROVE  NetInv'
    BY <1>2, <2>1, CurrentFacts DEF Hangup
  <2>2. CASE Dispose(d)
    <3>1. CASE net' = net
      BY <1>1, <3>1
    <3>2. ASSUME NEW u \in Uuid, Has(d, u), net' = net \cup Hint(Current(d, u))
          PROVE  NetInv'
      BY <1>2, <2>2, <3>2, CurrentFacts DEF Dispose
    <3> QED
      BY <2>2, <3>1, <3>2 DEF Dispose
  <2>3. CASE ~Dispose(d) /\ \A u \in Uuid : ~Hangup(d, u)
    <3>1. net' = net
      BY <1>3, <2>3 DEF User, PlaceCall, MarkApproved, Accept, Reject, Ignore, ConsumerThrows
    <3> QED
      BY <1>1, <3>1
  <2> QED
    BY <2>1, <2>2, <2>3
<1>4. ASSUME NEW d \in Device, NEW m \in net, Receive(d, m)
      PROVE  NetInv'
  <2>1. CASE AnswerBusy(d, m)
    <3>1. /\ m.to = d /\ m.from # AccountOf[d]
          /\ missed' = [missed EXCEPT ![d] = @ \cup {<<m.uuid, "busy">>}]
          /\ net' = (net \ {m}) \cup Copies(d, m.from, "END_CALL", m.uuid)
          /\ UNCHANGED <<call, ctx>>
      BY <2>1 DEF AnswerBusy, Admitted, Inbound, Fetched
    <3>2. MessageInv(m)
      BY DEF CallInv, NetInv
    <3>3. Left(AccountOf[d], m.uuid)'
      <4>1. <<m.uuid, "busy">> \in missed'[d]
        BY <3>1 DEF CallInv, TypeOK
      <4> QED
        BY <4>1 DEF Left
    <3>4. ASSUME NEW x \in Copies(d, m.from, "END_CALL", m.uuid)
          PROVE  MessageInv(x)'
      <4>1. /\ x.from = AccountOf[d] /\ AccountOf[x.to] = m.from
            /\ x.type = "END_CALL" /\ x.uuid = m.uuid
        BY DEF Copies
      <4> QED
        BY <3>1, <3>2, <3>3, <4>1 DEF MessageInv
    <3> QED
      BY <3>1, <3>4, NewMessages
  <2>2. CASE ~AnswerBusy(d, m)
    <3>1. net' \subseteq net
      BY <1>4, <2>2 DEF Receive, Discard, HandleSelfMessage, DropStale, OnPreOffer, OnFirstOffer,
                        OnOffer, OnAnswer, OnEndCall, OnHangupHint
    <3> QED
      BY <1>1, <3>1
  <2> QED
    BY <2>1, <2>2
<1>5. ASSUME NEW c \in Context, Continue(c)
      PROVE  NetInv'
  <2>1. PICK j \in jobs : Store(j) \/ Resolve(j) \/ RejectPromise(j)
    BY <1>5 DEF Continue
  <2>2. CASE Store(j)
    BY <2>2, StoreSends
  <2>3. CASE Resolve(j) \/ RejectPromise(j)
    BY <1>1, <2>3 DEF Resolve, RejectPromise
  <2> QED
    BY <2>1, <2>2, <2>3
<1>6. ASSUME NEW c \in Context, Media(c)
      PROVE  NetInv'
  BY <1>1, <1>6 DEF Media, MediaConnected, MediaDisconnected, MediaFailed
<1>7. ASSUME NEW c \in Context, Timer(c)
      PROVE  NetInv'
  <2>1. CASE net' = net
    BY <1>1, <2>1
  <2>2. CASE /\ net' = net \cup EndCallMessages(c[1], c[2])
             /\ ctx'[c].state = "disconnected"
    <3>1. Active(ctx[c]) /\ UNCHANGED call
      BY <1>7 DEF Timer, OnCallTimeout, OnRestartTick, OnReconnectWaitExpired, Active
    <3>2. /\ Party(c[1], c[2]) /\ c = <<c[1], c[2], c[3]>>
          /\ c[1] \in Device /\ c[2] \in Uuid /\ c[3] \in 1..MaxIncarnations
      BY <3>1, ActiveFacts, BornFacts DEF Context
    <3>3. Left(AccountOf[c[1]], c[2])'
      BY <2>2, <3>2 DEF Left
    <3>4. \A m \in EndCallMessages(c[1], c[2]) : MessageInv(m)'
      BY <3>1, <3>2, <3>3, SentInv DEF EndCallMessages, Type
    <3> QED
      BY <2>2, <3>4, NewMessages
  <2> QED
    BY <1>7, <2>1, <2>2, TimerSends
<1> QED
  BY <1>3, <1>4, <1>5, <1>6, <1>7 DEF Next

----------------------------------------------------------------------------
(* The invariant.                                                          *)

LEMMA CallInvInit == Init => CallInv
<1> SUFFICES ASSUME Init
             PROVE  CallInv
  OBVIOUS
<1>1. TypeOK /\ OneActiveCall
  BY LineInvInit DEF LineInv
<1>2. \A c \in Context : ~Born(c) /\ ctx[c] = NewContext /\ ~InMap(c)
  BY ContextParts DEF Init, Born, InMap
<1>3. ContextsInv
  BY <1>2 DEF ContextsInv
<1> QED
  BY <1>1, <1>3 DEF Init, CallInv, CallsInv, JobsInv, NetInv, MissedInv

LEMMA CallInvStep == LineInv /\ CallInv /\ [Next]_vars => CallInv'
<1> SUFFICES ASSUME LineInv, CallInv, [Next]_vars
             PROVE  CallInv'
  OBVIOUS
<1>1. (TypeOK /\ OneActiveCall)'
  BY LineInvStep DEF LineInv
<1>2. CASE UNCHANGED vars
  <2>1. CallsInv' /\ ContextsInv' /\ JobsInv' /\ MissedInv'
    BY <1>2 DEF vars, CallInv, CallsInv, ContextsInv, JobsInv, MissedInv,
                Born, InMap, Party, DirectionOf
  <2>2. NetInv'
    BY <1>2 DEF vars, CallInv, NetInv, MessageInv, Answered, Left
  <2> QED
    BY <1>1, <2>1, <2>2 DEF CallInv
<1>3. CASE Next
  <2>1. ContextStep
    BY <1>3, ContextSteps
  <2> QED
    BY <1>1, <1>3, <2>1, CallsStep, ContextsStep, JobsStep, NetStep, MissedStep DEF CallInv
<1> QED
  BY <1>2, <1>3

\* The invariant that ties contexts, the map, continuations and messages together.
THEOREM CallInvAlways == Spec => []CallInv
  BY LineInvInit, LineInvStep, CallInvInit, CallInvStep, PTL DEF Spec

----------------------------------------------------------------------------
(* What CallInv says outright.                                             *)

\* The hazard of closures that outlive their call: no timer, media event or late
\* continuation gives a context that was torn down anything back.
THEOREM TornDownIsFinalAlways == Spec => []TornDownIsFinal
<1>1. CallInv => TornDownIsFinal
  <2> SUFFICES ASSUME CallInv, NEW c \in Context, TornDownContext(c)
               PROVE  /\ ctx[c].timers = {} /\ ~ctx[c].media
                      /\ ctx[c].state \in {"idle", "disconnected"}
    BY DEF TornDownIsFinal
  <2>1. Born(c)
    BY SomethingBorn DEF TornDownContext
  <2>2. RecordInv(ctx[c], DirectionOf(c))
    BY <2>1, BornFacts
  <2> QED
    BY <2>2 DEF RecordInv, TornDownContext
<1> QED
  BY <1>1, CallInvAlways, PTL

\* A call is "connected" only over media that is up, however the answer, the ICE
\* states and the end of the call overtake each other.
THEOREM ConnectedMeansMediaUpAlways == Spec => []ConnectedMeansMediaUp
<1>1. CallInv => ConnectedMeansMediaUp
  BY SomethingBorn, BornFacts DEF ConnectedMeansMediaUp, HeldInv
<1> QED
  BY <1>1, CallInvAlways, PTL

\* Whatever answers, restarts and timeouts race, an outgoing call that has not
\* connected keeps its call timeout.
THEOREM SetupIsTimedAlways == Spec => []SetupIsTimed
<1>1. CallInv => SetupIsTimed
  BY SomethingBorn, BornFacts DEF SetupIsTimed, HeldInv
<1> QED
  BY <1>1, CallInvAlways, PTL

\* A call whose media is lost is never left without the timer of its side.
THEOREM ReconnectIsTimedAlways == Spec => []ReconnectIsTimed
<1>1. CallInv => ReconnectIsTimed
  BY SomethingBorn, BornFacts DEF ReconnectIsTimed, HeldInv
<1> QED
  BY <1>1, CallInvAlways, PTL

\* Every END_CALL on its way comes from an account one of whose devices has left the
\* call or was busy, also after that device has forgotten it.
THEOREM EndCallHasACauseAlways == Spec => []EndCallHasACause
<1>1. CallInv => EndCallHasACause
  BY DEF CallInv, NetInv, MessageInv, Left, EndCallHasACause
<1> QED
  BY <1>1, CallInvAlways, PTL

----------------------------------------------------------------------------
(* Linked devices: who has answered.                                       *)

LEMMA AnsweredElsewhereStep ==
    ASSUME CallInv, ContextStep, AnsweredElsewhereIsTrue
    PROVE  AnsweredElsewhereIsTrue'
<1> SUFFICES ASSUME NEW c \in Context, ctx'[c].reason = "answered-elsewhere"
             PROVE  \E e \in Context \ {c} :
                       /\ AccountOf[e[1]] = AccountOf[c[1]] /\ e[2] = c[2]
                       /\ ctx'[e].accepted
  BY DEF AnsweredElsewhereIsTrue
\* The answer was there before the step, and it stays.
<1>1. SUFFICES \E e \in Context \ {c} :
                  /\ AccountOf[e[1]] = AccountOf[c[1]] /\ e[2] = c[2]
                  /\ ctx[e].accepted
  <2>1. PICK e \in Context \ {c} :
               /\ AccountOf[e[1]] = AccountOf[c[1]] /\ e[2] = c[2]
               /\ ctx[e].accepted
    BY <1>1
  <2>2. Advance(ctx[e], ctx'[e])
    BY <2>1, SomethingBorn, Frame
  <2>3. ctx'[e].accepted
    BY <2>1, <2>2 DEF Advance
  <2> QED
    BY <2>1, <2>3
<1>2. CASE ctx[c].reason = "answered-elsewhere"
  BY <1>2 DEF AnsweredElsewhereIsTrue
<1>3. CASE ctx[c].reason # "answered-elsewhere"
  <2>1. \A x \in Context, r \in CallContext :
          ctx' = [ctx EXCEPT ![x] = r] => ctx'[c] = IF c = x THEN r ELSE ctx[c]
    BY DEF CallInv, TypeOK
  <2>2. ASSUME NEW d \in Device, NEW u \in Uuid, NEW r \in CallContext, Makes(d, u, r)
        PROVE  FALSE
    <3>1. <<d, u, made[d][u] + 1>> \in Context
      BY <2>2, MakesFresh DEF CallInv
    <3> QED
      BY <1>3, <2>1, <2>2, <3>1 DEF Makes
  <2>3. PICK x \in Context, r \in CallContext : Updates(x, r) \/ Leaves(x, r)
    BY <1>3, <2>2 DEF ContextStep, Enters, Misses
  <2>4. c = x /\ Leaves(c, r) /\ r.reason = "answered-elsewhere"
    <3>1. ctx'[c] = IF c = x THEN r ELSE ctx[c]
      BY <2>1, <2>3 DEF Updates, Leaves
    <3> QED
      BY <1>3, <2>3, <3>1 DEF Updates
  <2>5. ctx[c].state \in Ringing /\ Answered(AccountOf[c[1]], c[2])
    BY <1>3, <2>4 DEF Leaves
  <2>6. PICK e \in Context : AccountOf[e[1]] = AccountOf[c[1]] /\ e[2] = c[2] /\ ctx[e].accepted
    BY <2>5 DEF Answered
  <2>7. RecordInv(ctx[e], DirectionOf(e))
    BY <2>6, SomethingBorn, BornFacts
  <2> QED
    BY <2>5, <2>6, <2>7 DEF RecordInv
<1> QED
  BY <1>2, <1>3

\* "answered-elsewhere" is never reported on the strength of a call that only rang:
\* another device of the account had accepted it, and has not unaccepted it since.
THEOREM AnsweredElsewhereAlways == Spec => []AnsweredElsewhereIsTrue
<1>1. Init => AnsweredElsewhereIsTrue
  BY DEF Init, NewContext, None, AnsweredElsewhereIsTrue
<1>2. CallInv /\ AnsweredElsewhereIsTrue /\ [Next]_vars => AnsweredElsewhereIsTrue'
  <2>1. ASSUME UNCHANGED vars, AnsweredElsewhereIsTrue
        PROVE  AnsweredElsewhereIsTrue'
    BY <2>1 DEF vars, AnsweredElsewhereIsTrue
  <2> QED
    BY <2>1, AnsweredElsewhereStep, ContextSteps
<1> QED
  BY <1>1, <1>2, CallInvAlways, PTL DEF Spec

----------------------------------------------------------------------------
(* The approval gate.                                                      *)

LEMMA EntryLost ==
    ASSUME CallInv, NEW d \in Device, NEW u \in Uuid, NEW e \in Device, NEW v \in Uuid,
           Forget(e, v), Has(d, u)'
    PROVE  Has(d, u)
  BY DEF Forget, Has, CallInv, TypeOK

LEMMA EntryMade ==
    ASSUME CallInv, NEW d \in Device, NEW u \in Uuid, NEW e \in Device, NEW v \in Uuid,
           NEW r, Register(e, v, r), Has(d, u)', ~Has(d, u)
    PROVE  e = d /\ v = u
  BY DEF Register, Has, CallInv, TypeOK

\* A device comes by a call by placing it, or through a message that was let in.
LEMMA ComesBy ==
    ASSUME CallInv, Next, NEW d \in Device, NEW u \in Uuid, Has(d, u)', ~Has(d, u)
    PROVE  /\ disposed'[d] = disposed[d]
           /\ \/ call'[u].to # AccountOf[d]
              \/ \E m \in net : /\ Admitted(d, m) /\ m.uuid = u
                                /\ m.type \in {"PRE_OFFER", "OFFER"}
<1>1. ASSUME UNCHANGED contexts \/ \E e \in Device, v \in Uuid : Forget(e, v)
      PROVE  FALSE
  BY <1>1, EntryLost DEF Has
<1>2. ASSUME NEW c \in Context, NEW r, NEW why, End(c, r, why)
      PROVE  FALSE
  BY <1>1, <1>2, ContextParts DEF End
<1>3. ASSUME NEW c \in Context, NEW why, FailCall(c, why)
      PROVE  FALSE
  BY <1>1, <1>2, <1>3 DEF FailCall
<1>4. ASSUME NEW e \in Device, NEW a \in Account, PlaceCall(e, a)
      PROVE  call'[u].to # AccountOf[d] /\ UNCHANGED disposed
  <2>1. PICK v \in Uuid : /\ call' = [call EXCEPT ![v] = [from |-> e, to |-> a]]
                          /\ UNCHANGED contexts \/ \E r : Register(e, v, r)
    BY <1>4 DEF PlaceCall
  <2>2. e = d /\ v = u
    BY <1>1, <2>1, EntryMade
  <2> QED
    BY <1>4, <2>1, <2>2 DEF PlaceCall, CallInv, TypeOK
<1>5. ASSUME NEW e \in Device, User(e), \A a \in Account : ~PlaceCall(e, a)
      PROVE  FALSE
  <2>1. ASSUME NEW v \in Uuid, ConsumerThrows(e, v)
        PROVE  FALSE
    BY <1>3, <2>1, CurrentFacts DEF ConsumerThrows
  <2>2. UNCHANGED contexts \/ \E v \in Uuid : Forget(e, v) \/ ConsumerThrows(e, v)
    BY <1>5 DEF User, MarkApproved, Accept, Reject, Ignore, Hangup, Dispose, Set
  <2> QED
    BY <1>1, <2>1, <2>2
<1>6. ASSUME NEW e \in Device, NEW m \in net, OnPreOffer(e, m) \/ OnFirstOffer(e, m)
      PROVE  /\ UNCHANGED disposed
             /\ Admitted(d, m) /\ m.uuid = u /\ m.type \in {"PRE_OFFER", "OFFER"}
  <2>1. /\ m.uuid \in Uuid /\ Admitted(e, m) /\ m.type \in {"PRE_OFFER", "OFFER"}
        /\ UNCHANGED contexts \/ \E r : Register(e, m.uuid, r)
        /\ UNCHANGED disposed
    BY <1>6, MessageParts DEF OnPreOffer, OnFirstOffer, Dispatched, CallInv
  <2>2. e = d /\ m.uuid = u
    BY <1>1, <2>1, EntryMade
  <2> QED
    BY <2>1, <2>2
<1>7. ASSUME NEW e \in Device, NEW m \in net, Receive(e, m),
             ~OnPreOffer(e, m), ~OnFirstOffer(e, m)
      PROVE  FALSE
  <2>1. m.uuid \in Uuid
    BY MessageParts DEF CallInv
  <2>2. UNCHANGED contexts \/ Forget(e, m.uuid)
    BY <1>7, <2>1 DEF Receive, Discard, DropStale, AnswerBusy, HandleSelfMessage, OnEndCall,
                      OnHangupHint, HintTargets, OnOffer, AnswerRestart, OnAnswer, End, Set, Current
  <2> QED
    BY <1>1, <2>1, <2>2
<1>8. ASSUME NEW c \in Context, Continue(c) \/ Media(c) \/ Timer(c)
      PROVE  FALSE
  <2>1. CASE Continue(c)
    BY <1>1, <1>2, <1>3, <2>1 DEF Continue, Store, Resolve, RejectPromise, Set
  <2>2. CASE Media(c)
    BY <1>1, <1>2, <2>2 DEF Media, MediaConnected, MediaDisconnected, MediaFailed, Set
  <2>3. CASE Timer(c)
    BY <1>1, <1>2, <2>3 DEF Timer, OnCallTimeout, OnRestartTick, OnReconnectWaitExpired, Set
  <2> QED
    BY <1>8, <2>1, <2>2, <2>3
<1> QED
  BY <1>4, <1>5, <1>6, <1>7, <1>8 DEF Next

LEMMA ApprovedGrows ==
    ASSUME CallInv, Next, NEW d \in Device
    PROVE  approved[d] \subseteq approved'[d]
<1>1. CASE UNCHANGED approved
  BY <1>1
<1>2. ASSUME NEW e \in Device, NEW a \in Account, approved' = [approved EXCEPT ![e] = @ \cup {a}]
      PROVE  approved[d] \subseteq approved'[d]
  BY <1>2 DEF CallInv, TypeOK
<1>3. ASSUME NEW e \in Device, User(e)
      PROVE  UNCHANGED approved \/ \E a \in Account : approved' = [approved EXCEPT ![e] = @ \cup {a}]
  BY <1>3 DEF User, PlaceCall, MarkApproved, Accept, Reject, Ignore, Hangup, ConsumerThrows, Dispose
<1>4. ASSUME NEW e \in Device, NEW m \in net, Receive(e, m)
      PROVE  UNCHANGED approved
  BY <1>4 DEF Receive, Discard, DropStale, AnswerBusy, HandleSelfMessage, OnPreOffer, OnFirstOffer,
              OnOffer, OnAnswer, OnEndCall, OnHangupHint
<1>5. ASSUME NEW c \in Context, Continue(c) \/ Media(c) \/ Timer(c)
      PROVE  UNCHANGED approved
  BY <1>5 DEF Continue, Store, Resolve, RejectPromise,
              Media, MediaConnected, MediaDisconnected, MediaFailed,
              Timer, OnCallTimeout, OnRestartTick, OnReconnectWaitExpired
<1> QED
  BY <1>1, <1>2, <1>3, <1>4, <1>5 DEF Next

\* What a device has recorded as missed because it was busy or ignored the call.
Missed(d, u) == missed[d] \cap {<<u, "busy">>, <<u, "ignored">>} # {}

LEMMA ComesToMiss ==
    ASSUME CallInv, Next, NEW d \in Device, NEW u \in Uuid, Missed(d, u)', ~Missed(d, u)
    PROVE  Has(d, u) \/ \E m \in net : Admitted(d, m) /\ m.uuid = u
<1>1. ASSUME UNCHANGED missed
      PROVE  FALSE
  BY <1>1 DEF Missed
<1>2. ASSUME NEW e \in Device, NEW v \in Uuid, NEW what,
             missed' = [missed EXCEPT ![e] = @ \cup {<<v, what>>}]
      PROVE  e = d /\ v = u /\ what \in {"busy", "ignored"}
  BY <1>2 DEF Missed, CallInv, TypeOK
<1>3. ASSUME NEW e \in Device, User(e)
      PROVE  Has(d, u)
  <2>1. PICK v \in Uuid : Ignore(e, v)
    BY <1>1, <1>3 DEF User, PlaceCall, MarkApproved, Accept, Reject, Hangup, ConsumerThrows, Dispose
  <2> QED
    BY <1>2, <2>1 DEF Ignore
<1>4. ASSUME NEW e \in Device, NEW m \in net, Receive(e, m)
      PROVE  Admitted(d, m) /\ m.uuid = u
  <2>1. m.uuid \in Uuid
    BY MessageParts DEF CallInv
  <2>2. CASE DropStale(e, m) /\ m.type = "PRE_OFFER"
    <3>1. missed' = [missed EXCEPT ![e] = @ \cup {<<m.uuid, "stale">>}]
      BY <2>2 DEF DropStale
    <3>2. "stale" \in {"busy", "ignored"}
      BY <1>2, <2>1, <3>1
    <3> QED
      BY <3>2
  <2>3. CASE DropStale(e, m) /\ m.type # "PRE_OFFER"
    BY <1>1, <2>3 DEF DropStale, CallInv, TypeOK
  <2>4. CASE AnswerBusy(e, m)
    BY <1>2, <2>1, <2>4 DEF AnswerBusy
  <2> QED
    BY <1>1, <1>4, <2>2, <2>3, <2>4
       DEF Receive, Discard, HandleSelfMessage, OnPreOffer, OnFirstOffer, OnOffer, OnAnswer,
           OnEndCall, OnHangupHint
<1>5. ASSUME NEW c \in Context, Continue(c) \/ Media(c) \/ Timer(c)
      PROVE  FALSE
  BY <1>1, <1>5 DEF Continue, Store, Resolve, RejectPromise,
                    Media, MediaConnected, MediaDisconnected, MediaFailed,
                    Timer, OnCallTimeout, OnRestartTick, OnReconnectWaitExpired
<1> QED
  BY <1>3, <1>4, <1>5 DEF Next

\* Only a call that is placed and a message that was let in make a context.
LEMMA MadeBy ==
    ASSUME CallInv, Next, NEW d \in Device, NEW u \in Uuid, made'[d][u] # made[d][u]
    PROVE  call'[u].to # AccountOf[d] \/ \E m \in net : Admitted(d, m) /\ m.uuid = u
<1>1. ASSUME UNCHANGED made
      PROVE  FALSE
  BY <1>1
<1>2. ASSUME NEW e \in Device, NEW v \in Uuid, made' = [made EXCEPT ![e][v] = @ + 1]
      PROVE  e = d /\ v = u
  BY <1>2 DEF CallInv, TypeOK
<1>3. ASSUME NEW e \in Device, NEW a \in Account, PlaceCall(e, a)
      PROVE  call'[u].to # AccountOf[d]
  <2>1. PICK v \in Uuid : /\ call' = [call EXCEPT ![v] = [from |-> e, to |-> a]]
                          /\ made' = [made EXCEPT ![e][v] = @ + 1]
    BY <1>3 DEF PlaceCall, Register
  <2>2. e = d /\ v = u
    BY <1>2, <2>1
  <2> QED
    BY <1>3, <2>1, <2>2 DEF PlaceCall, CallInv, TypeOK
<1>4. ASSUME NEW e \in Device, User(e), \A a \in Account : ~PlaceCall(e, a)
      PROVE  FALSE
  BY <1>1, <1>4 DEF User, MarkApproved, Accept, Reject, Ignore, Hangup, ConsumerThrows, Dispose
<1>5. ASSUME NEW e \in Device, NEW m \in net, Receive(e, m)
      PROVE  Admitted(d, m) /\ m.uuid = u
  <2>1. m.uuid \in Uuid
    BY MessageParts DEF CallInv
  <2>2. CASE OnPreOffer(e, m) \/ OnFirstOffer(e, m)
    <3>1. made' = [made EXCEPT ![e][m.uuid] = @ + 1] /\ Admitted(e, m)
      BY <1>1, <2>2 DEF OnPreOffer, OnFirstOffer, Dispatched, Register
    <3> QED
      BY <1>2, <2>1, <3>1
  <2>3. CASE ~OnPreOffer(e, m) /\ ~OnFirstOffer(e, m)
    BY <1>1, <1>5, <2>3 DEF Receive, Discard, DropStale, AnswerBusy, HandleSelfMessage, OnOffer,
                            OnAnswer, OnEndCall, OnHangupHint
  <2> QED
    BY <2>2, <2>3
<1>6. ASSUME NEW c \in Context, Continue(c) \/ Media(c) \/ Timer(c)
      PROVE  FALSE
  BY <1>1, <1>6 DEF Continue, Store, Resolve, RejectPromise,
                    Media, MediaConnected, MediaDisconnected, MediaFailed,
                    Timer, OnCallTimeout, OnRestartTick, OnReconnectWaitExpired
<1> QED
  BY <1>3, <1>4, <1>5, <1>6 DEF Next

\* Whoever sends something about a call has had a context for it, or lets in a message
\* about it in this very step.
Involved(d, u) == made[d][u] > 0 \/ \E m \in net : Admitted(d, m) /\ m.uuid = u

LEMMA BornInvolved ==
    ASSUME CallInv, NEW c \in Context, Born(c)
    PROVE  made[c[1]][c[2]] > 0
  BY ContextParts DEF Born, CallInv, TypeOK

LEMMA SentBy ==
    ASSUME CallInv, Next, NEW m \in net', m \notin net
    PROVE  /\ UNCHANGED call
           /\ \E d \in Device : AccountOf[d] = m.from /\ Involved(d, m.uuid)
<1>1. ASSUME net' \subseteq net
      PROVE  FALSE
  BY <1>1
<1>2. ASSUME NEW d \in Device, NEW u \in Uuid, Involved(d, u), NEW type,
             m \in ToPeer(d, u, type) \cup ToSelf(d, u, type)
      PROVE  \E e \in Device : AccountOf[e] = m.from /\ Involved(e, m.uuid)
  BY <1>2 DEF ToPeer, ToSelf, Copies
<1>3. ASSUME NEW c \in Context, Born(c)
      PROVE  c[1] \in Device /\ c[2] \in Uuid /\ Involved(c[1], c[2])
  BY <1>3, BornInvolved, ContextParts DEF Involved
<1>4. ASSUME NEW d \in Device, NEW u \in Uuid, Has(d, u), net' = net \cup Hint(Current(d, u))
      PROVE  \E e \in Device : AccountOf[e] = m.from /\ Involved(e, m.uuid)
  <2>1. PICK c \in Context : c = Current(d, u) /\ Born(c)
    BY <1>4, CurrentFacts
  <2>2. m \in ToPeer(c[1], c[2], "HANGUP_HINT")
    BY <1>4, <2>1 DEF Hint
  <2> QED
    BY <1>2, <1>3, <2>1, <2>2
<1>5. ASSUME NEW d \in Device, User(d)
      PROVE  /\ UNCHANGED call
             /\ \E e \in Device : AccountOf[e] = m.from /\ Involved(e, m.uuid)
  <2>1. ASSUME NEW u \in Uuid, Hangup(d, u)
        PROVE  /\ UNCHANGED call
               /\ \E e \in Device : AccountOf[e] = m.from /\ Involved(e, m.uuid)
    BY <1>4, <2>1 DEF Hangup
  <2>2. CASE Dispose(d)
    <3>1. PICK u \in Uuid : Has(d, u) /\ net' = net \cup Hint(Current(d, u))
      BY <1>1, <2>2 DEF Dispose
    <3> QED
      BY <1>4, <2>2, <3>1 DEF Dispose
  <2>3. CASE ~Dispose(d) /\ \A u \in Uuid : ~Hangup(d, u)
    <3>1. net' = net
      BY <1>5, <2>3 DEF User, PlaceCall, MarkApproved, Accept, Reject, Ignore, ConsumerThrows
    <3> QED
      BY <1>1, <3>1
  <2> QED
    BY <2>1, <2>2, <2>3
<1>6. ASSUME NEW d \in Device, NEW x \in net, Receive(d, x)
      PROVE  /\ UNCHANGED call
             /\ \E e \in Device : AccountOf[e] = m.from /\ Involved(e, m.uuid)
  <2>1. CASE AnswerBusy(d, x)
    <3>1. m \in Copies(d, x.from, "END_CALL", x.uuid) /\ Admitted(d, x) /\ UNCHANGED call
      BY <2>1 DEF AnswerBusy
    <3>2. m.from = AccountOf[d] /\ m.uuid = x.uuid
      BY <3>1 DEF Copies
    <3> QED
      BY <3>1, <3>2 DEF Involved
  <2>2. CASE ~AnswerBusy(d, x)
    <3>1. net' \subseteq net
      BY <1>6, <2>2 DEF Receive, Discard, HandleSelfMessage, DropStale, OnPreOffer, OnFirstOffer,
                        OnOffer, OnAnswer, OnEndCall, OnHangupHint
    <3> QED
      BY <1>1, <3>1
  <2> QED
    BY <2>1, <2>2
<1>7. ASSUME NEW c \in Context, Continue(c)
      PROVE  /\ UNCHANGED call
             /\ \E e \in Device : AccountOf[e] = m.from /\ Involved(e, m.uuid)
  <2>1. PICK j \in jobs : Store(j)
    BY <1>1, <1>7 DEF Continue, Resolve, RejectPromise
  <2>2. PICK x \in Context : x = j.ctx /\ Born(x)
    BY FitsFacts DEF Fits
  <2>3. j.do \in {"pre-offer", "offer", "answer", "sync-answer", "end", "sync-end"}
    BY <2>1, FitsFacts DEF Store, Job, CallInv, TypeOK
  <2>4. m \in Sends(j) /\ UNCHANGED call
    BY <2>1 DEF Store
  <2>5. \E type : m \in ToPeer(x[1], x[2], type) \cup ToSelf(x[1], x[2], type)
    BY <2>2, <2>3, <2>4 DEF Sends
  <2> QED
    BY <1>2, <1>3, <2>2, <2>4, <2>5
<1>8. ASSUME NEW c \in Context, Media(c)
      PROVE  FALSE
  BY <1>1, <1>8 DEF Media, MediaConnected, MediaDisconnected, MediaFailed
<1>9. ASSUME NEW c \in Context, Timer(c)
      PROVE  /\ UNCHANGED call
             /\ \E e \in Device : AccountOf[e] = m.from /\ Involved(e, m.uuid)
  <2>1. Active(ctx[c]) /\ UNCHANGED call
    BY <1>9 DEF Timer, OnCallTimeout, OnRestartTick, OnReconnectWaitExpired, Active
  <2>2. Born(c)
    BY <2>1, ActiveFacts
  <2>3. m \in EndCallMessages(c[1], c[2])
    BY <1>1, <1>9, TimerSends
  <2> QED
    BY <1>2, <1>3, <2>1, <2>2, <2>3 DEF EndCallMessages
<1> QED
  BY <1>5, <1>6, <1>7, <1>8, <1>9 DEF Next

\* A device that was let in on a call of its account has approved the caller.
LEMMA AdmittedApproved ==
    ASSUME CallInv, RequireApproval, NEW d \in Device, NEW m \in net, Admitted(d, m),
           call[m.uuid].to = AccountOf[d]
    PROVE  AccountOf[call[m.uuid].from] \in approved[d]
<1>1. m.from \in approved[d] /\ m.from # AccountOf[d]
  BY DEF Admitted, Inbound
<1>2. MessageInv(m)
  BY DEF CallInv, NetInv
<1> QED
  BY <1>1, <1>2 DEF MessageInv

LEMMA StrangersStep ==
    ASSUME CallInv, Next, StrangersAreNotAnswered
    PROVE  StrangersAreNotAnswered'
<1> SUFFICES ASSUME RequireApproval
             PROVE  StrangersAreNotAnswered'
  BY DEF StrangersAreNotAnswered
<1>1. ASSUME NEW d \in Device, NEW u \in Uuid,
             call'[u].to = AccountOf[d], made'[d][u] > 0 \/ Missed(d, u)'
      PROVE  AccountOf[call'[u].from] \in approved'[d]
  <2>1. CASE made[d][u] > 0 \/ Missed(d, u)
    <3>1. call[u].from # None
      <4>1. CASE made[d][u] > 0
        <5>1. <<d, u, 1>> \in Context /\ Born(<<d, u, 1>>)
          BY <4>1, BoundAssumption DEF Context, Born, CallInv, TypeOK
        <5> QED
          BY <5>1, BornFacts DEF Party
      <4>2. CASE Missed(d, u)
        BY <4>2 DEF Missed, CallInv, MissedInv
      <4> QED
        BY <2>1, <4>1, <4>2
    <3>2. call'[u] = call[u]
      BY <3>1, ContextSteps, Frame
    <3>3. AccountOf[call[u].from] \in approved[d]
      BY <1>1, <2>1, <3>2 DEF StrangersAreNotAnswered, Missed
    <3> QED
      BY <3>2, <3>3, ApprovedGrows
  <2>2. CASE ~(made[d][u] > 0) /\ ~Missed(d, u)
    <3>1. PICK m \in net : Admitted(d, m) /\ m.uuid = u
      <4>1. CASE Missed(d, u)'
        <5>1. Has(d, u) => made[d][u] > 0
          BY CurrentFacts, BornInvolved DEF Current
        <5> QED
          BY <2>2, <4>1, <5>1, ComesToMiss
      <4>2. CASE made'[d][u] > 0
        BY <1>1, <2>2, <4>2, MadeBy
      <4> QED
        BY <1>1, <4>1, <4>2
    <3>2. call'[u] = call[u]
      <4>1. MessageInv(m)
        BY DEF CallInv, NetInv
      <4> QED
        BY <3>1, <4>1, ContextSteps, Frame DEF MessageInv
    <3>3. AccountOf[call[u].from] \in approved[d]
      BY <1>1, <3>1, <3>2, AdmittedApproved
    <3> QED
      BY <3>2, <3>3, ApprovedGrows
  <2> QED
    BY <2>1, <2>2
<1>2. ASSUME NEW m \in net', m.from = call'[m.uuid].to
      PROVE  \E d \in Device : /\ AccountOf[d] = m.from
                               /\ AccountOf[call'[m.uuid].from] \in approved'[d]
  <2>1. CASE m \in net
    <3>1. m.uuid \in Uuid /\ MessageInv(m)
      BY <2>1, MessageParts DEF CallInv, NetInv
    <3>2. call'[m.uuid] = call[m.uuid]
      BY <3>1, ContextSteps, Frame DEF MessageInv
    <3>3. PICK d \in Device : AccountOf[d] = m.from /\ AccountOf[call[m.uuid].from] \in approved[d]
      BY <1>2, <2>1, <3>2 DEF StrangersAreNotAnswered
    <3> QED
      BY <3>2, <3>3, ApprovedGrows
  <2>2. CASE m \notin net
    <3>1. UNCHANGED call
      BY <2>2, SentBy
    <3>2. PICK d \in Device : AccountOf[d] = m.from /\ Involved(d, m.uuid)
      BY <2>2, SentBy
    <3>3. m.uuid \in Uuid
      <4>1. TypeOK'
        BY TypeStep DEF CallInv
      <4> QED
        BY <4>1 DEF TypeOK, Message
    <3>4. AccountOf[call[m.uuid].from] \in approved[d]
      BY <1>2, <3>1, <3>2, <3>3, AdmittedApproved DEF Involved, StrangersAreNotAnswered
    <3> QED
      BY <3>1, <3>2, <3>4, ApprovedGrows
  <2> QED
    BY <2>1, <2>2
<1> QED
  BY <1>1, <1>2 DEF StrangersAreNotAnswered, Missed

\* The approval gate holds against every path by which a stranger could have an effect: a
\* second context, an offer without its PRE_OFFER, a record that the device was busy, and
\* every message of the account's about his call.
THEOREM StrangersAreNotAnsweredAlways == Spec => []StrangersAreNotAnswered
<1>1. Init => StrangersAreNotAnswered
  BY DEF Init, StrangersAreNotAnswered
<1>2. CallInv /\ StrangersAreNotAnswered /\ [Next]_vars => StrangersAreNotAnswered'
  <2>1. ASSUME UNCHANGED vars, StrangersAreNotAnswered
        PROVE  StrangersAreNotAnswered'
    BY <2>1 DEF vars, StrangersAreNotAnswered
  <2> QED
    BY <2>1, StrangersStep
<1> QED
  BY <1>1, <1>2, CallInvAlways, PTL DEF Spec

----------------------------------------------------------------------------
(* Contexts that have left the map.                                        *)

\* dispose() is for good, and a device that has disposed takes no call.
LEMMA DisposedStays ==
    ASSUME CallInv, Next, NEW d \in Device, disposed[d]
    PROVE  /\ disposed'[d]
           /\ \A u \in Uuid : Has(d, u)' => Has(d, u)
<1>1. disposed'[d]
  <2>1. ASSUME NEW e \in Device, disposed' = [disposed EXCEPT ![e] = TRUE]
        PROVE  disposed'[d]
    BY <2>1 DEF CallInv, TypeOK
  <2>2. ASSUME NEW e \in Device, User(e)
        PROVE  UNCHANGED disposed \/ disposed' = [disposed EXCEPT ![e] = TRUE]
    BY <2>2 DEF User, PlaceCall, MarkApproved, Accept, Reject, Ignore, Hangup, ConsumerThrows, Dispose
  <2>3. ASSUME NEW e \in Device, NEW m \in net, Receive(e, m)
        PROVE  UNCHANGED disposed
    BY <2>3 DEF Receive, Discard, DropStale, AnswerBusy, HandleSelfMessage, OnPreOffer, OnFirstOffer,
                OnOffer, OnAnswer, OnEndCall, OnHangupHint
  <2>4. ASSUME NEW c \in Context, Continue(c) \/ Media(c) \/ Timer(c)
        PROVE  UNCHANGED disposed
    BY <2>4 DEF Continue, Store, Resolve, RejectPromise,
                Media, MediaConnected, MediaDisconnected, MediaFailed,
                Timer, OnCallTimeout, OnRestartTick, OnReconnectWaitExpired
  <2> QED
    BY <2>1, <2>2, <2>3, <2>4 DEF Next
<1>2. ASSUME NEW u \in Uuid, Has(d, u)', ~Has(d, u)
      PROVE  FALSE
  <2>1. ASSUME NEW e \in Device, NEW v \in Uuid, NEW r, Enters(e, v, r)
        PROVE  FALSE
    <3>1. e # d
      BY <2>1 DEF Enters
    <3> QED
      BY <1>2, <2>1, <3>1 DEF Enters, Has, CallInv, TypeOK
  <2>2. ASSUME NEW c \in Context, NEW r, Leaves(c, r)
        PROVE  FALSE
    BY <1>2, <2>2, ContextParts DEF Leaves, Has, CallInv, TypeOK
  <2>3. UNCHANGED contexts
    BY <2>1, <2>2, ContextSteps DEF ContextStep, Updates, Misses
  <2> QED
    BY <1>2, <2>3 DEF Has
<1> QED
  BY <1>1, <1>2

\* Who may start a continuation: a context in the map, one with a timer, one that
\* is just being made, or one that had a continuation already.
LEMMA JobsOf ==
    ASSUME CallInv, Next, NEW j \in jobs' \ jobs
    PROVE  /\ j.ctx \in Context
           /\ \/ InMap(j.ctx) \/ Active(ctx[j.ctx]) \/ ~Born(j.ctx)
              \/ \E i \in jobs : i.ctx = j.ctx
<1> DEFINE Goal == /\ j.ctx \in Context
                   /\ \/ InMap(j.ctx) \/ Active(ctx[j.ctx]) \/ ~Born(j.ctx)
                      \/ \E i \in jobs : i.ctx = j.ctx
<1>1. ASSUME NEW c \in Context, NEW do, NEW why, NEW b, j = SomeJob(c, do, why, b),
             InMap(c) \/ Active(ctx[c]) \/ ~Born(c)
      PROVE  Goal
  BY <1>1 DEF SomeJob
<1>2. ASSUME NEW d \in Device, User(d)
      PROVE  Goal
  <2>1. ASSUME NEW a \in Account, PlaceCall(d, a)
        PROVE  Goal
    <3>1. PICK u \in Uuid :
            /\ made[d][u] < MaxIncarnations
            /\ jobs' \subseteq jobs \cup {JobOf(<<d, u, made[d][u] + 1>>, "pre-offer"),
                                          JobOf(<<d, u, made[d][u] + 1>>, "offer")}
      BY <2>1 DEF PlaceCall
    <3>2. made[d][u] \in Nat /\ made[d][u] + 1 \in 1..MaxIncarnations
      BY <3>1, BoundAssumption DEF CallInv, TypeOK
    <3>3. PICK c \in Context : c = <<d, u, made[d][u] + 1>>
      BY <3>2 DEF Context
    <3>4. ~Born(c)
      BY <3>2, <3>3 DEF Born
    <3> QED
      BY <1>1, <3>1, <3>3, <3>4 DEF JobOf
  <2>2. ASSUME NEW u \in Uuid, Has(d, u), NEW do, NEW why, NEW b,
               j = SomeJob(Current(d, u), do, why, b)
        PROVE  Goal
    BY <1>1, <2>2, CurrentFacts
  <2>3. ASSUME NEW u \in Uuid, Accept(d, u) \/ Reject(d, u) \/ Hangup(d, u)
        PROVE  Goal
    <3>1. /\ Has(d, u)
          /\ \/ j = SomeJob(Current(d, u), "answer", None, FALSE)
             \/ j = SomeJob(Current(d, u), "end", "remote-declined", FALSE)
             \/ j = SomeJob(Current(d, u), "end", "local-hangup", FALSE)
      BY <2>3 DEF Accept, Reject, Hangup, JobOf
    <3> QED
      BY <2>2, <3>1
  <2>4. CASE Dispose(d)
    BY <2>2, <2>4 DEF Dispose
  <2> QED
    BY <1>2, <2>1, <2>3, <2>4 DEF User, MarkApproved, Ignore, ConsumerThrows
<1>3. ASSUME NEW d \in Device, NEW m \in net, Receive(d, m)
      PROVE  Goal
  <2>1. m.uuid \in Uuid
    BY MessageParts DEF CallInv
  <2>2. /\ Has(d, m.uuid)
        /\ \/ j = SomeJob(Current(d, m.uuid), "answer", None, FALSE)
           \/ j = SomeJob(Current(d, m.uuid), "apply-answer", None, FALSE)
    BY <1>3 DEF Receive, Discard, DropStale, AnswerBusy, HandleSelfMessage, OnPreOffer, OnFirstOffer,
                OnOffer, AnswerRestart, OnAnswer, OnEndCall, OnHangupHint, JobOf
  <2>3. Current(d, m.uuid) \in Context /\ InMap(Current(d, m.uuid))
    BY <2>1, <2>2, CurrentFacts
  <2> QED
    BY <1>1, <2>2, <2>3
<1>4. ASSUME NEW c \in Context, Continue(c)
      PROVE  Goal
  <2>1. PICK i \in jobs : i.ctx = c /\ (Store(i) \/ Resolve(i) \/ RejectPromise(i))
    BY <1>4 DEF Continue
  <2>2. i \in Job
    BY DEF CallInv, TypeOK
  <2>3. \/ j = [i EXCEPT !.stored = TRUE]
        \/ \E do : j = [i EXCEPT !.do = do, !.stored = FALSE]
    BY <2>1 DEF Store, Resolve, RejectPromise
  <2>4. j.ctx = i.ctx
    BY <2>2, <2>3 DEF Job
  <2> QED
    BY <1>4, <2>1, <2>4
<1>5. ASSUME NEW c \in Context, Media(c) \/ Timer(c)
      PROVE  Goal
  <2>1. Timer(c) /\ j = JobOf(c, "offer") /\ Active(ctx[c])
    BY <1>5 DEF Media, MediaConnected, MediaDisconnected, MediaFailed,
                Timer, OnCallTimeout, OnRestartTick, OnReconnectWaitExpired, Active
  <2> QED
    BY <1>1, <2>1 DEF JobOf
<1> QED
  BY <1>2, <1>3, <1>4, <1>5 DEF Next

\* No context of the call has been ended more than once so far.
EndedOnceOnly(d, u) == \A k \in 1..MaxIncarnations : ctx[<<d, u, k>>].ended <= 1

\* Nothing is left that could disturb the map once more for a context out of it.
Settled(c) ==
    /\ ~Active(ctx[c])
    /\ \/ ctx[c].ended = 1
       \/ \A j \in jobs : j.ctx # c
       \/ disposed[c[1]] /\ ~Has(c[1], c[2])

OrphansInv ==
    \A c \in Context : Born(c) /\ ~InMap(c) /\ EndedOnceOnly(c[1], c[2]) => Settled(c)

LEMMA OrphansStep ==
    ASSUME CallInv, Next, OrphansInv
    PROVE  OrphansInv'
<1> SUFFICES ASSUME NEW c \in Context, Born(c)', ~InMap(c)', EndedOnceOnly(c[1], c[2])'
             PROVE  Settled(c)'
  BY DEF OrphansInv
<1>1. ContextStep
  BY ContextSteps
<1>2. /\ c = <<c[1], c[2], c[3]>>
      /\ c[1] \in Device /\ c[2] \in Uuid /\ c[3] \in 1..MaxIncarnations
  BY DEF Context
<1>3. EndedOnceOnly(c[1], c[2])
  <2>1. SUFFICES ASSUME NEW k \in 1..MaxIncarnations
                 PROVE  ctx[<<c[1], c[2], k>>].ended <= 1
    BY DEF EndedOnceOnly
  <2>2. PICK x \in Context : x = <<c[1], c[2], k>>
    BY <1>2 DEF Context
  <2>3. ctx'[x].ended <= 1 /\ ctx[x].ended \in Nat
    BY <2>2 DEF EndedOnceOnly, CallInv, TypeOK, CallContext
  <2>4. CASE Born(x)
    <3>1. Advance(ctx[x], ctx'[x]) /\ ctx'[x].ended \in Nat
      BY <1>1, <2>4, Frame, TypeStep DEF CallInv, TypeOK, CallContext
    <3> QED
      BY <2>2, <2>3, <3>1 DEF Advance
  <2>5. CASE ~Born(x)
    BY <2>2, <2>5 DEF CallInv, ContextsInv, NewContext
  <2> QED
    BY <2>4, <2>5
\* A settled context stays so unless it becomes active again.
<1>4. ASSUME Born(c), Settled(c), ~InMap(c), ~Active(ctx'[c])
      PROVE  Settled(c)'
  <2>1. CASE ctx[c].ended = 1
    <3>1. ctx'[c].ended \in Nat /\ ctx'[c].ended <= 1 /\ ctx[c].ended <= ctx'[c].ended
      BY <1>1, <1>2, <1>4, Frame, TypeStep
         DEF EndedOnceOnly, Advance, CallInv, TypeOK, CallContext
    <3> QED
      BY <1>4, <2>1, <3>1 DEF Settled, Active
  <2>2. CASE \A j \in jobs : j.ctx # c
    <3>1. \A j \in jobs' : j.ctx # c
      BY <1>4, <2>2, JobsOf DEF Settled
    <3> QED
      BY <1>4, <3>1 DEF Settled, Active
  <2>3. CASE disposed[c[1]] /\ ~Has(c[1], c[2])
    <3>1. disposed'[c[1]] /\ ~Has(c[1], c[2])'
      BY <1>2, <2>3, DisposedStays
    <3> QED
      BY <1>4, <3>1 DEF Settled, Active
  <2> QED
    BY <1>4, <2>1, <2>2, <2>3 DEF Settled
\* It was settled if it was out of the map, and then it stays so if it is not written.
<1>5. ASSUME Born(c), ~InMap(c), ctx'[c] = ctx[c]
      PROVE  Settled(c)'
  <2>1. Settled(c)
    BY <1>3, <1>5 DEF OrphansInv
  <2> QED
    BY <1>4, <1>5, <2>1 DEF Settled
<1>6. CASE UNCHANGED <<call, contexts, made, ctx>>
  BY <1>5, <1>6 DEF Born, InMap
<1>7. ASSUME NEW x \in Context, NEW r \in CallContext, Updates(x, r)
      PROVE  Settled(c)'
  <2>1. Born(c) /\ ~InMap(c) /\ ctx'[c] = IF c = x THEN r ELSE ctx[c]
    BY <1>7 DEF Updates, Born, InMap, CallInv, TypeOK
  <2>2. CASE c = x
    <3>1. Settled(c)
      BY <1>3, <2>1 DEF OrphansInv
    <3>2. ~Active(r)
      BY <1>7, <2>1, <2>2, <3>1 DEF Updates, Settled
    <3> QED
      BY <1>4, <2>1, <2>2, <3>1, <3>2
  <2> QED
    BY <1>5, <2>1, <2>2
<1>8. ASSUME NEW x \in Context, NEW r \in CallContext, Leaves(x, r)
      PROVE  Settled(c)'
  <2>1. /\ x = <<x[1], x[2], x[3]>>
        /\ x[1] \in Device /\ x[2] \in Uuid /\ x[3] \in 1..MaxIncarnations
    BY DEF Context
  <2>2. /\ Born(c)
        /\ ctx'[c] = IF c = x THEN r ELSE ctx[c]
        /\ contexts'[x[1]][x[2]] = 0
        /\ ctx'[x] = r /\ ~Active(r)
    BY <1>8, <2>1 DEF Leaves, Born, CallInv, TypeOK
  <2>3. CASE c = x
    <3>1. CASE r.ended > 0
      <4>1. r.ended \in Nat /\ r.ended <= 1
        BY <1>2, <2>2, <2>3 DEF EndedOnceOnly, CallContext
      <4> QED
        BY <2>2, <2>3, <3>1, <4>1 DEF Settled, Active
    <3>2. CASE ctx[x].state \in Ringing /\ UNCHANGED jobs
      <4>1. \A j \in jobs : j.ctx # c
        BY <2>3, <3>2 DEF CallInv, JobsInv, JobInv
      <4> QED
        BY <2>2, <2>3, <3>2, <4>1 DEF Settled, Active
    <3>3. CASE disposed'[x[1]]
      <4>1. ~Has(c[1], c[2])'
        BY <2>2, <2>3 DEF Has
      <4> QED
        BY <2>2, <2>3, <3>3, <4>1 DEF Settled, Active
    <3> QED
      BY <1>8, <3>1, <3>2, <3>3 DEF Leaves
  <2>4. CASE c # x /\ ~InMap(c)
    BY <1>5, <2>2, <2>4
  \* The entry that goes is not that of the context that ends: it has ended before.
  <2>5. CASE c # x /\ InMap(c)
    <3>1. c[1] = x[1] /\ c[2] = x[2]
      <4>1. contexts'[c[1]][c[2]] =
              IF c[1] = x[1] /\ c[2] = x[2] THEN 0 ELSE contexts[c[1]][c[2]]
        BY <1>2, <1>8, <2>1 DEF Leaves, CallInv, TypeOK
      <4> QED
        BY <2>5, <4>1 DEF InMap
    <3>2. ~InMap(x) /\ Has(x[1], x[2])
      BY <1>2, <2>1, <2>5, <3>1 DEF InMap, Has
    <3>3. Settled(x)
      BY <1>3, <1>8, <3>1, <3>2 DEF OrphansInv, Leaves
    <3>4. ctx[x].ended = 1
      BY <1>8, <3>2, <3>3 DEF Settled, Leaves, Alive
    <3>5. r.ended \in Nat /\ r.ended <= 1
      BY <2>1, <2>2, <3>1 DEF EndedOnceOnly, CallContext
    <3> QED
      BY <1>8, <3>2, <3>4, <3>5 DEF Leaves, MaxEnds
  <2> QED
    BY <2>3, <2>4, <2>5
<1>9. ASSUME NEW d \in Device, NEW u \in Uuid, NEW r \in CallContext,
             Enters(d, u, r) \/ Misses(d, u, r)
      PROVE  Settled(c)'
  <2>1. Makes(d, u, r)
    BY <1>9 DEF Enters, Misses
  <2>2. PICK x \in Context :
          x = <<d, u, made[d][u] + 1>> /\ ~Born(x) /\ (Born(c)' <=> Born(c) \/ c = x)
    BY <2>1, MakesFresh DEF CallInv
  <2>3. ctx'[c] = IF c = x THEN r ELSE ctx[c]
    BY <2>1, <2>2 DEF Makes, CallInv, TypeOK
  <2>4. CASE c # x
    <3>1. ~InMap(c)
      <4>1. CASE c[1] = d /\ c[2] = u
        BY <1>2, <2>1, <4>1 DEF Makes, InMap, Has
      <4>2. CASE ~(c[1] = d /\ c[2] = u)
        <5>1. contexts'[c[1]][c[2]] = contexts[c[1]][c[2]]
          BY <1>2, <1>9, <4>2 DEF Enters, Misses, CallInv, TypeOK
        <5> QED
          BY <5>1 DEF InMap
      <4> QED
        BY <4>1, <4>2
    <3> QED
      BY <1>5, <2>2, <2>3, <2>4, <3>1
  <2>5. CASE c = x
    <3>1. ~Enters(d, u, r)
      <4>1. Enters(d, u, r) => contexts'[d][u] = made[d][u] + 1
        BY DEF Enters, CallInv, TypeOK
      <4> QED
        BY <2>2, <2>5, <4>1 DEF InMap
    <3>2. Misses(d, u, r)
      BY <1>9, <3>1
    <3> QED
      BY <2>3, <2>5, <3>2 DEF Misses, Settled, Active
  <2> QED
    BY <2>4, <2>5
<1> QED
  BY <1>1, <1>6, <1>7, <1>8, <1>9 DEF ContextStep

\* A context outside the map is inert, unless endCall ran twice for one context of
\* its call: the only way a call loses a context that still holds media or timers.
THEOREM OrphansComeFromDoubleEndsAlways == Spec => []OrphansComeFromDoubleEnds
<1>1. Init => OrphansInv
  BY ContextParts DEF Init, OrphansInv, Born
<1>2. CallInv /\ OrphansInv /\ [Next]_vars => OrphansInv'
  <2>1. ASSUME UNCHANGED vars, OrphansInv
        PROVE  OrphansInv'
    BY <2>1 DEF vars, OrphansInv, Born, InMap, EndedOnceOnly, Settled, Active, Has
  <2> QED
    BY <2>1, OrphansStep
<1>3. CallInv /\ OrphansInv => OrphansComeFromDoubleEnds
  <2> SUFFICES ASSUME CallInv, OrphansInv, NEW c \in Context, ~InMap(c),
                      ctx[c].timers # {} \/ ctx[c].media
               PROVE  \E k \in 1..MaxIncarnations : ctx[<<c[1], c[2], k>>].ended > 1
    BY DEF OrphansComeFromDoubleEnds
  <2>1. Active(ctx[c]) /\ Born(c)
    BY ActiveFacts DEF Active
  <2>2. ~EndedOnceOnly(c[1], c[2])
    BY <2>1 DEF OrphansInv, Settled
  <2>3. \A k \in 1..MaxIncarnations : ctx[<<c[1], c[2], k>>].ended \in Nat
    <3>1. \A k \in 1..MaxIncarnations : <<c[1], c[2], k>> \in Context
      BY ContextParts DEF Context
    <3> QED
      BY <3>1 DEF CallInv, TypeOK, CallContext
  <2> QED
    BY <2>2, <2>3 DEF EndedOnceOnly
<1> QED
  BY <1>1, <1>2, <1>3, CallInvAlways, PTL DEF Spec

----------------------------------------------------------------------------
(* dispose().                                                              *)

\* The continuation that ends the call of a device that has disposed, whatever fails.
Ends(j, c) == j.ctx = c /\ j.do \in {"end", "sync-end"} /\ j.contained

DisposedInv ==
    \A c \in Context : disposed[c[1]] /\ InMap(c) => \E j \in jobs : Ends(j, c)

\* That continuation is followed by another one, or by the end of the call.
LEMMA EndsStays ==
    ASSUME CallInv, Next, NEW c \in Context, InMap(c)', NEW j \in jobs, Ends(j, c)
    PROVE  \E i \in jobs' : Ends(i, c)
<1>1. CASE j \in jobs'
  BY <1>1
<1>2. CASE j \notin jobs'
  <2>1. j \in Job
    BY DEF CallInv, TypeOK
  <2>2. Store(j) \/ Resolve(j) \/ RejectPromise(j)
    <3>1. ASSUME NEW d \in Device, User(d)
          PROVE  FALSE
      BY <1>2, <3>1 DEF User, PlaceCall, MarkApproved, Accept, Reject, Ignore, Hangup,
                        ConsumerThrows, Dispose
    <3>2. ASSUME NEW d \in Device, NEW m \in net, Receive(d, m)
          PROVE  FALSE
      BY <1>2, <3>2 DEF Receive, Discard, DropStale, AnswerBusy, HandleSelfMessage, OnPreOffer,
                        OnFirstOffer, OnOffer, AnswerRestart, OnAnswer, OnEndCall, OnHangupHint
    <3>3. ASSUME NEW x \in Context, Media(x) \/ Timer(x)
          PROVE  FALSE
      BY <1>2, <3>3 DEF Media, MediaConnected, MediaDisconnected, MediaFailed,
                        Timer, OnCallTimeout, OnRestartTick, OnReconnectWaitExpired
    <3>4. ASSUME NEW x \in Context, Continue(x)
          PROVE  Store(j) \/ Resolve(j) \/ RejectPromise(j)
      <4>1. PICK i \in jobs : Store(i) \/ Resolve(i) \/ RejectPromise(i)
        BY <3>4 DEF Continue
      <4>2. jobs \ {i} \subseteq jobs'
        BY <4>1 DEF Store, Resolve, RejectPromise
      <4>3. i = j
        BY <1>2, <4>2
      <4> QED
        BY <4>1, <4>3
    <3> QED
      BY <3>1, <3>2, <3>3, <3>4 DEF Next
  <2>3. ASSUME NEW r, NEW why, End(c, r, why)
        PROVE  FALSE
    <3>1. contexts'[c[1]][c[2]] = 0 /\ c[3] # 0
      BY <2>3, ContextParts DEF End, Forget, CallInv, TypeOK
    <3> QED
      BY <3>1 DEF InMap
  <2>4. CASE Store(j)
    <3> DEFINE i == [j EXCEPT !.stored = TRUE]
    <3>1. Ends(i, c) /\ i \in jobs'
      BY <2>1, <2>4 DEF Store, Ends, Job
    <3> QED
      BY <3>1
  <2>5. CASE Resolve(j)
    <3> DEFINE i == [j EXCEPT !.do = "sync-end", !.stored = FALSE]
    <3>1. i \in jobs'
      BY <2>3, <2>5 DEF Resolve, Ends
    <3>2. Ends(i, c)
      BY <2>1 DEF Ends, Job
    <3> QED
      BY <3>1, <3>2
  <2>6. CASE RejectPromise(j)
    BY <2>3, <2>6 DEF RejectPromise, Ends
  <2> QED
    BY <2>2, <2>4, <2>5, <2>6
<1> QED
  BY <1>1, <1>2

\* dispose() starts the end of the only call there can be.
LEMMA DisposeEnds ==
    ASSUME CallInv, NEW c \in Context, InMap(c), InMap(c)', Dispose(c[1])
    PROVE  \E j \in jobs' : Ends(j, c)
<1> DEFINE d == c[1]
<1>1. /\ c = <<c[1], c[2], c[3]>>
      /\ c[1] \in Device /\ c[2] \in Uuid /\ c[3] \in 1..MaxIncarnations
  BY DEF Context
<1>2. Has(d, c[2]) /\ Has(d, c[2])' /\ Current(d, c[2]) = c
  BY <1>1 DEF InMap, Has, Current
<1>3. \A u \in Uuid : Has(d, u) => u = c[2]
  BY <1>1, <1>2 DEF CallInv, OneActiveCall
<1>4. ASSUME Forget(d, c[2])
      PROVE  FALSE
  BY <1>1, <1>2, <1>4 DEF Forget, Has, CallInv, TypeOK
<1>5. PICK why : jobs' = jobs \cup {SomeJob(c, "end", why, TRUE)}
  BY <1>1, <1>2, <1>3, <1>4 DEF Dispose, Idle
<1>6. Ends(SomeJob(c, "end", why, TRUE), c)
  BY DEF SomeJob, Ends
<1> QED
  BY <1>5, <1>6

LEMMA DisposedStep ==
    ASSUME CallInv, Next, DisposedInv
    PROVE  DisposedInv'
<1> SUFFICES ASSUME NEW c \in Context, disposed'[c[1]], InMap(c)'
             PROVE  \E j \in jobs' : Ends(j, c)
  BY DEF DisposedInv
<1>1. /\ c = <<c[1], c[2], c[3]>>
      /\ c[1] \in Device /\ c[2] \in Uuid /\ c[3] \in 1..MaxIncarnations
  BY DEF Context
<1>2. CASE disposed[c[1]]
  <2>1. Has(c[1], c[2])
    BY <1>1, <1>2, DisposedStays DEF InMap, Has
  <2>2. InMap(c)
    <3>1. ASSUME NEW d \in Device, NEW u \in Uuid, NEW r, Enters(d, u, r)
          PROVE  InMap(c)
      <4>1. d # c[1]
        BY <1>2, <3>1 DEF Enters
      <4> QED
        BY <1>1, <3>1, <4>1 DEF Enters, InMap, CallInv, TypeOK
    <3>2. ASSUME NEW x \in Context, NEW r, Leaves(x, r)
          PROVE  InMap(c)
      <4>1. x[1] \in Device /\ x[2] \in Uuid
        BY ContextParts
      <4>2. contexts'[c[1]][c[2]] =
              IF c[1] = x[1] /\ c[2] = x[2] THEN 0 ELSE contexts[c[1]][c[2]]
        BY <1>1, <3>2, <4>1 DEF Leaves, CallInv, TypeOK
      <4> QED
        BY <1>1, <4>2 DEF InMap
    <3>3. CASE UNCHANGED contexts
      BY <3>3 DEF InMap
    <3> QED
      BY <3>1, <3>2, <3>3, ContextSteps DEF ContextStep, Updates, Misses
  <2>3. PICK j \in jobs : Ends(j, c)
    BY <1>2, <2>2 DEF DisposedInv
  <2> QED
    BY <2>3, EndsStays
<1>3. CASE ~disposed[c[1]]
  <2>1. Dispose(c[1])
    <3>1. ASSUME NEW d \in Device, User(d), ~Dispose(d)
          PROVE  UNCHANGED disposed
      BY <3>1 DEF User, PlaceCall, MarkApproved, Accept, Reject, Ignore, Hangup, ConsumerThrows
    <3>2. ASSUME NEW d \in Device, NEW m \in net, Receive(d, m)
          PROVE  UNCHANGED disposed
      BY <3>2 DEF Receive, Discard, DropStale, AnswerBusy, HandleSelfMessage, OnPreOffer,
                  OnFirstOffer, OnOffer, OnAnswer, OnEndCall, OnHangupHint
    <3>3. ASSUME NEW x \in Context, Continue(x) \/ Media(x) \/ Timer(x)
          PROVE  UNCHANGED disposed
      BY <3>3 DEF Continue, Store, Resolve, RejectPromise,
                  Media, MediaConnected, MediaDisconnected, MediaFailed,
                  Timer, OnCallTimeout, OnRestartTick, OnReconnectWaitExpired
    <3>4. ASSUME NEW d \in Device, Dispose(d), d # c[1]
          PROVE  FALSE
      BY <1>1, <1>3, <3>4 DEF Dispose, CallInv, TypeOK
    <3> QED
      BY <1>3, <3>1, <3>2, <3>3, <3>4 DEF Next
  <2>2. InMap(c)
    <3>1. UNCHANGED contexts \/ \E u \in Uuid : Forget(c[1], u)
      BY <2>1 DEF Dispose, Set
    <3>2. ASSUME NEW u \in Uuid, Forget(c[1], u)
          PROVE  InMap(c)
      BY <1>1, <3>2 DEF Forget, InMap, CallInv, TypeOK
    <3> QED
      BY <3>1, <3>2 DEF InMap
  <2> QED
    BY <2>1, <2>2, DisposeEnds
<1> QED
  BY <1>2, <1>3

\* After dispose() a call is never left in the map without the continuation that will
\* take it out, whichever sends fail and whatever hangup began before.
THEOREM DisposedIsLeavingAlways == Spec => []DisposedIsLeaving
<1>1. Init => DisposedInv
  BY ContextParts DEF Init, DisposedInv
<1>2. CallInv /\ DisposedInv /\ [Next]_vars => DisposedInv'
  <2>1. ASSUME UNCHANGED vars, DisposedInv
        PROVE  DisposedInv'
    BY <2>1 DEF vars, DisposedInv, InMap, Ends
  <2> QED
    BY <2>1, DisposedStep
<1>3. DisposedInv => DisposedIsLeaving
  BY DEF DisposedInv, DisposedIsLeaving, Ends
<1> QED
  BY <1>1, <1>2, <1>3, CallInvAlways, PTL DEF Spec

----------------------------------------------------------------------------
(* The supervisor implements OneLine.                                      *)

Nobody == [call |-> 0, phase |-> "free"]

\* The line of a device, as the refinement mapping of CallProperties gives it.
LineOf(d) ==
    IF Idle(d) THEN Nobody
    ELSE LET u == CHOOSE v \in Uuid : Has(d, v)
         IN  [call |-> u, phase |-> Phase(Current(d, u))]
Lines == [d \in Device |-> LineOf(d)]

\* The mapping chooses the only call there is.
LEMMA LineValue ==
    ASSUME OneActiveCall, NEW d \in Device
    PROVE  /\ Idle(d) => LineOf(d) = Nobody
           /\ \A u \in Uuid : Has(d, u) =>
                LineOf(d) = [call |-> u, phase |-> Phase(Current(d, u))]
<1>1. ASSUME NEW u \in Uuid, Has(d, u)
      PROVE  LineOf(d) = [call |-> u, phase |-> Phase(Current(d, u))]
  <2>1. (CHOOSE v \in Uuid : Has(d, v)) = u
    BY <1>1 DEF OneActiveCall
  <2> QED
    BY <1>1, <2>1 DEF LineOf, Idle
<1> QED
  BY <1>1 DEF LineOf

\* The line does not change where neither the map nor the record in it does.
LEMMA LineSame ==
    ASSUME OneActiveCall, OneActiveCall', NEW d \in Device,
           \A u \in Uuid : contexts'[d][u] = contexts[d][u],
           \A u \in Uuid : Has(d, u) => Phase(Current(d, u))' = Phase(Current(d, u))
    PROVE  LineOf(d)' = LineOf(d)
<1>1. \A u \in Uuid : Has(d, u)' <=> Has(d, u)
  BY DEF Has
<1>2. CASE Idle(d)
  BY <1>1, <1>2, LineValue DEF LineOf, Idle
<1>3. ASSUME NEW u \in Uuid, Has(d, u)
      PROVE  LineOf(d)' = LineOf(d)
  <2>1. LineOf(d) = [call |-> u, phase |-> Phase(Current(d, u))]
    BY <1>3, LineValue
  <2>2. LineOf(d)' = [call |-> u, phase |-> Phase(Current(d, u))']
    <3>1. (CHOOSE v \in Uuid : Has(d, v)') = u
      BY <1>1, <1>3 DEF OneActiveCall
    <3> QED
      BY <1>1, <1>3, <3>1 DEF LineOf, Idle
  <2> QED
    BY <1>3, <2>1, <2>2
<1> QED
  BY <1>2, <1>3 DEF Idle

LEMMA LineAfter ==
    ASSUME OneActiveCall', NEW d \in Device
    PROVE  /\ (\A u \in Uuid : ~Has(d, u)') => LineOf(d)' = Nobody
           /\ \A u \in Uuid : Has(d, u)' =>
                LineOf(d)' = [call |-> u, phase |-> Phase(Current(d, u))']
<1>1. ASSUME NEW u \in Uuid, Has(d, u)'
      PROVE  LineOf(d)' = [call |-> u, phase |-> Phase(Current(d, u))']
  <2>1. (CHOOSE v \in Uuid : Has(d, v)') = u
    BY <1>1 DEF OneActiveCall
  <2> QED
    BY <1>1, <2>1 DEF LineOf, Idle
<1> QED
  BY <1>1 DEF LineOf, Idle, Nobody

\* A step of the abstract line, in terms of the mapped one.
LEMMA LineMoves ==
    ASSUME NEW d \in Device, NEW now,
           LineOf(d)' = now, \A e \in Device \ {d} : LineOf(e)' = LineOf(e),
           \/ \E u \in Uuid : LineOf(d) = Nobody /\ now = [call |-> u, phase |-> "setup"]
           \/ LineOf(d).phase = "setup" /\ now = [call |-> LineOf(d).call, phase |-> "open"]
           \/ /\ LineOf(d).phase \in {"setup", "open"}
              /\ now = [call |-> LineOf(d).call, phase |-> "closing"]
           \/ LineOf(d).phase # "free" /\ now = Nobody
    PROVE  Line!Next
<1>1. Lines' = [Lines EXCEPT ![d] = now] /\ Lines[d] = LineOf(d)
  BY DEF Lines
<1>2. Line!Turn(d, now)
  BY <1>1 DEF Line!Turn, Lines, LineOf, Nobody
<1>3. ASSUME NEW u \in Uuid, LineOf(d) = Nobody, now = [call |-> u, phase |-> "setup"]
      PROVE  Line!Seize(d, u)
  BY <1>2, <1>3 DEF Line!Seize, Line!Free, Line!Hold, LineOf, Nobody
<1>4. ASSUME LineOf(d).phase = "setup", now = [call |-> LineOf(d).call, phase |-> "open"]
      PROVE  Line!Open(d)
  BY <1>2, <1>4 DEF Line!Open, Line!Hold, LineOf, Nobody
<1>5. ASSUME LineOf(d).phase \in {"setup", "open"},
             now = [call |-> LineOf(d).call, phase |-> "closing"]
      PROVE  Line!Close(d)
  BY <1>2, <1>5 DEF Line!Close, Line!Hold, LineOf, Nobody
<1>6. ASSUME LineOf(d).phase # "free", now = Nobody
      PROVE  Line!Release(d)
  BY <1>2, <1>6 DEF Line!Release, Line!IsHeld, Line!Free, LineOf, Nobody
<1> QED
  BY <1>3, <1>4, <1>5, <1>6 DEF Line!Next

LEMMA PhaseMoves ==
    ASSUME NEW c, Advance(ctx[c], ctx'[c])
    PROVE  \/ Phase(c)' = Phase(c)
           \/ Phase(c) = "setup" /\ Phase(c)' = "open"
           \/ Phase(c) \in {"setup", "open"} /\ Phase(c)' = "closing"
  BY DEF Advance, Phase

\* A context that is not in the map is no current one.
LEMMA NotCurrent ==
    ASSUME NEW x \in Context, ~InMap(x), NEW d, NEW u
    PROVE  Current(d, u) # x
  BY DEF Current, InMap

LEMMA ElsewhereCurrent ==
    ASSUME NEW x, NEW e, e # x[1]
    PROVE  \A v : Current(e, v) # x
  BY DEF Current

LEMMA LineSteps ==
    ASSUME CallInv, OneActiveCall', ContextStep
    PROVE  Line!Next \/ UNCHANGED Lines
<1>1. OneActiveCall
  BY DEF CallInv
\* The lines on which nothing happens: the context written is not their current one.
<1>2. ASSUME NEW d \in Device, NEW x \in Context, NEW r, ctx' = [ctx EXCEPT ![x] = r],
             \A u \in Uuid : contexts'[d][u] = contexts[d][u],
             \A u \in Uuid : Current(d, u) # x
      PROVE  LineOf(d)' = LineOf(d)
  <2>1. ASSUME NEW u \in Uuid, Has(d, u)
        PROVE  Phase(Current(d, u))' = Phase(Current(d, u))
    <3>1. Current(d, u) \in Context /\ Current(d, u)' = Current(d, u)
      BY <1>2, <2>1, CurrentFacts DEF Current
    <3>2. ctx'[Current(d, u)] = ctx[Current(d, u)]
      BY <1>2, <3>1 DEF CallInv, TypeOK
    <3> QED
      BY <3>1, <3>2 DEF Phase
  <2> QED
    BY <1>1, <1>2, <2>1, LineSame
<1>3. ASSUME \A d \in Device : LineOf(d)' = LineOf(d)
      PROVE  UNCHANGED Lines
  BY <1>3 DEF Lines
<1>4. CASE UNCHANGED <<call, contexts, made, ctx>>
  <2>1. \A d \in Device : LineOf(d)' = LineOf(d)
    BY <1>4 DEF LineOf, Idle, Has, Current, Phase, Nobody
  <2> QED
    BY <1>3, <2>1
<1>5. ASSUME NEW x \in Context, NEW r \in CallContext, Updates(x, r)
      PROVE  Line!Next \/ UNCHANGED Lines
  <2>1. UNCHANGED contexts /\ ctx' = [ctx EXCEPT ![x] = r] /\ Born(x)
    BY <1>5 DEF Updates
  <2>2. CASE ~InMap(x)
    BY <1>2, <1>3, <2>1, <2>2, NotCurrent
  <2>3. CASE InMap(x)
    <3> DEFINE d == x[1]
               u == x[2]
    <3>1. x = <<d, u, x[3]>> /\ d \in Device /\ u \in Uuid /\ x[3] # 0
      BY DEF Context
    <3>2. Has(d, u) /\ Has(d, u)' /\ Current(d, u) = x /\ Current(d, u)' = x
      BY <2>1, <2>3, <3>1 DEF InMap, Has, Current
    <3>3. /\ LineOf(d) = [call |-> u, phase |-> Phase(x)]
          /\ LineOf(d)' = [call |-> u, phase |-> Phase(x)']
      <4>1. Phase(Current(d, u)) = Phase(x) /\ Phase(Current(d, u))' = Phase(x)'
        BY <3>2 DEF Phase
      <4> QED
        BY <1>1, <3>1, <3>2, <4>1, LineValue, LineAfter
    <3>4. \A e \in Device \ {d} : LineOf(e)' = LineOf(e)
      BY <1>2, <2>1, ElsewhereCurrent
    <3>5. \/ Phase(x)' = Phase(x)
          \/ Phase(x) = "setup" /\ Phase(x)' = "open"
          \/ Phase(x) \in {"setup", "open"} /\ Phase(x)' = "closing"
      BY <2>1, Frame, PhaseMoves
    <3>6. CASE Phase(x)' = Phase(x)
      BY <1>3, <3>1, <3>3, <3>4, <3>6
    <3>7. CASE Phase(x)' # Phase(x)
      <4>1. LineOf(d).phase = Phase(x) /\ LineOf(d).call = u
        BY <3>3
      <4> HIDE DEF d, u
      <4> QED
        BY <3>1, <3>3, <3>4, <3>5, <3>7, <4>1, LineMoves
    <3> QED
      BY <3>6, <3>7
  <2> QED
    BY <2>2, <2>3
<1>6. ASSUME NEW x \in Context, NEW r \in CallContext, Leaves(x, r)
      PROVE  Line!Next \/ UNCHANGED Lines
  <2> DEFINE d == x[1]
             u == x[2]
  <2>1. /\ x = <<d, u, x[3]>> /\ d \in Device /\ u \in Uuid /\ x[3] # 0
        /\ ctx' = [ctx EXCEPT ![x] = r]
        /\ contexts' = [contexts EXCEPT ![d][u] = 0]
    BY <1>6 DEF Leaves, Context
  <2>2. \A e \in Device, v \in Uuid :
          contexts'[e][v] = IF e = d /\ v = u THEN 0 ELSE contexts[e][v]
    BY <2>1 DEF CallInv, TypeOK
  <2>3. ASSUME NEW e \in Device \ {d}
        PROVE  LineOf(e)' = LineOf(e)
    <3>1. \A v \in Uuid : contexts'[e][v] = contexts[e][v] /\ Current(e, v) # x
      BY <2>2, ElsewhereCurrent
    <3> QED
      BY <1>2, <2>1, <3>1
  <2>4. CASE ~Has(d, u)
    <3>1. ~InMap(x) /\ \A v \in Uuid : contexts'[d][v] = contexts[d][v]
      BY <2>1, <2>2, <2>4 DEF InMap, Has
    <3>2. LineOf(d)' = LineOf(d)
      BY <1>2, <2>1, <3>1, NotCurrent, ZenonT(60)
    <3> QED
      BY <1>3, <2>3, <3>2
  <2>5. CASE Has(d, u)
    <3>1. \A v \in Uuid : ~Has(d, v)'
      BY <1>1, <2>1, <2>2, <2>5 DEF OneActiveCall, Has
    <3>2. LineOf(d)' = Nobody
      BY <2>1, <3>1, LineAfter
    <3>3. LineOf(d).phase # "free"
      BY <1>1, <2>1, <2>5, LineValue DEF Phase
    <3> HIDE DEF d, u
    <3> QED
      BY <2>1, <2>3, <3>2, <3>3, LineMoves
  <2> QED
    BY <2>4, <2>5
<1>7. ASSUME NEW d \in Device, NEW u \in Uuid, NEW r \in CallContext, Enters(d, u, r)
      PROVE  Line!Next \/ UNCHANGED Lines
  <2>1. PICK x \in Context : x = <<d, u, made[d][u] + 1>> /\ ~Born(x)
    BY <1>7, MakesFresh DEF Enters, CallInv
  <2>2. ctx'[x] = r /\ ctx' = [ctx EXCEPT ![x] = r]
    BY <1>7, <2>1 DEF Enters, Makes, CallInv, TypeOK
  <2>3. contexts' = [contexts EXCEPT ![d][u] = x[3]] /\ x[3] # 0 /\ x[1] = d
    BY <1>7, <2>1, ContextParts DEF Enters
  <2>4. Has(d, u)' /\ Current(d, u)' = x
    BY <2>1, <2>3 DEF Has, Current, CallInv, TypeOK
  <2>5. Phase(Current(d, u))' = "setup"
    BY <1>7, <2>2, <2>4 DEF Phase, Enters
  <2>6. LineOf(d)' = [call |-> u, phase |-> "setup"]
    BY <2>4, <2>5, LineAfter
  <2>7. LineOf(d) = Nobody
    <3>1. Idle(d)
      BY <1>7 DEF Enters, Makes, Busy, Idle
    <3> QED
      BY <1>1, <3>1, LineValue
  <2>8. \A e \in Device \ {d} : LineOf(e)' = LineOf(e)
    <3>1. \A e \in Device \ {d}, v \in Uuid : contexts'[e][v] = contexts[e][v] /\ Current(e, v) # x
      BY <2>3, ElsewhereCurrent DEF CallInv, TypeOK
    <3> QED
      BY <1>2, <2>2, <3>1
  <2> QED
    BY <2>6, <2>7, <2>8, LineMoves
<1>8. ASSUME NEW d \in Device, NEW u \in Uuid, NEW r \in CallContext, Misses(d, u, r)
      PROVE  Line!Next \/ UNCHANGED Lines
  <2>1. PICK x \in Context : x = <<d, u, made[d][u] + 1>> /\ ~Born(x)
    BY <1>8, MakesFresh DEF Misses, CallInv
  <2>2. ctx' = [ctx EXCEPT ![x] = r] /\ UNCHANGED contexts
    BY <1>8, <2>1 DEF Misses, Makes
  <2>3. ~InMap(x)
    BY <2>1 DEF CallInv, ContextsInv
  <2> QED
    BY <1>2, <1>3, <2>2, <2>3, NotCurrent
<1> QED
  BY <1>4, <1>5, <1>6, <1>7, <1>8 DEF ContextStep

\* The refinement: to its user every device is a single telephone line, which a call
\* seizes when it is free, opens at most once, closes for good and gives back.
THEOREM ImplementsOneLine == Spec => IsOneLine
<1>1. Init => Line!Init
  BY DEF Init, Line!Init, Line!Free, Idle, Has
<1>2. CallInv /\ OneActiveCall' /\ [Next]_vars => [Line!Next]_Lines
  <2>1. ASSUME UNCHANGED vars
        PROVE  UNCHANGED Lines
    BY <2>1 DEF vars, Lines, LineOf, Idle, Has, Current, Phase, Nobody
  <2> QED
    BY <2>1, LineSteps, ContextSteps
<1> QED
  BY <1>1, <1>2, CallInvAlways, OneActiveCallAlways, PTL
     DEF Spec, IsOneLine, Line!Spec, Lines, LineOf, Nobody
=============================================================================
